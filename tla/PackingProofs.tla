---------------------------- MODULE PackingProofs ----------------------------
(***************************************************************************)
(* Theorems about Packing: for every history of releases, of any number of *)
(* components, and every number of bins.                                   *)
(***************************************************************************)
EXTENDS Packing, FiniteSetTheorems, SequenceTheorems, TLAPS

-----------------------------------------------------------------------------
(***************************************************************************)
(* Every set of numbers has a least one.                                   *)
(***************************************************************************)
LEMMA Least ==
    ASSUME NEW S \in SUBSET Nat, S # {}
    PROVE  \E m \in S : \A k \in S : m <= k
  <1>1. IsWellFoundedOn({ss \in Nat \X Nat : ss[1] < ss[2]}, Nat)
    BY NatLessThanWellFounded, Zenon DEF OpToRel
  <1>2. PICK m \in S : \A k \in S : ~(<<k, m>> \in {ss \in Nat \X Nat : ss[1] < ss[2]})
    BY <1>1, WFMin
  <1>3. \A k \in S : ~(k < m)
    BY <1>2
  <1> QED  BY <1>3

LEMMA Concat ==
    ASSUME NEW S, NEW s \in Seq(S), NEW t \in Seq(S)
    PROVE  /\ s \o t \in Seq(S) /\ Len(s \o t) = Len(s) + Len(t)
           /\ \A i \in 1..Len(s) : (s \o t)[i] = s[i]
           /\ \A i \in 1..Len(t) : (s \o t)[Len(s) + i] = t[i]
  OBVIOUS

(***************************************************************************)
(* Arranged orders the places by key: it is the sequence along a bijection *)
(* between 1..Cardinality(I) and I that puts no place behind one of larger *)
(* key.                                                                    *)
(***************************************************************************)
Ordering(p, I, keys) ==
    /\ p \in [1..Cardinality(I) -> I]
    /\ \A a, b \in 1..Cardinality(I) : p[a] = p[b] => a = b
    /\ \A i \in I : \E a \in 1..Cardinality(I) : p[a] = i
    /\ \A a, b \in 1..Cardinality(I) :
          a < b => \/ keys[p[a]] < keys[p[b]]
                   \/ keys[p[a]] = keys[p[b]] /\ p[a] < p[b]

Orders(t, s, I, keys) ==
    \E p : Ordering(p, I, keys) /\ t = [k \in 1..Cardinality(I) |-> s[p[k]]]

LEMMA ArrangedIs ==
    ASSUME NEW s, NEW I \in SUBSET Int, IsFiniteSet(I), NEW keys, \A i \in I : keys[i] \in Int
    PROVE  Orders(Arranged(s, I, keys), s, I, keys)
  <1> DEFINE n == Cardinality(I)
             Before(j, i) == keys[j] < keys[i] \/ (keys[j] = keys[i] /\ j < i)
             Below(i) == {j \in I : Before(j, i)}
             rank == [i \in I |-> Rank(i, I, keys)]
  <1>1. n \in Nat
    BY FS_CardinalityType
  <1>2. \A i \in I : rank[i] = Cardinality(Below(i))
    BY DEF Rank
  <1>3. ASSUME NEW i \in I PROVE rank[i] \in 0..(n - 1) /\ IsFiniteSet(Below(i))
    <2>1. Below(i) \in SUBSET (I \ {i})
      OBVIOUS
    <2>2. IsFiniteSet(I \ {i}) /\ Cardinality(I \ {i}) = n - 1
      <3>1. i \in I
        OBVIOUS
      <3> QED  BY <3>1, FS_RemoveElement
    <2>3. IsFiniteSet(Below(i)) /\ Cardinality(Below(i)) <= n - 1
      <3> HIDE DEF Below, n
      <3> QED  BY <2>1, <2>2, FS_Subset
    <2>4. Cardinality(Below(i)) \in Nat
      <3> HIDE DEF Below
      <3> QED  BY <2>3, FS_CardinalityType
    <2> QED  BY <1>1, <1>2, <2>3, <2>4
  <1>4. ASSUME NEW i \in I, NEW j \in I, Before(i, j) PROVE rank[i] < rank[j]
    <2>1. Below(i) \subseteq Below(j) /\ i \in Below(j) /\ i \notin Below(i)
      <3>1. keys[i] \in Int /\ keys[j] \in Int /\ i \in Int /\ j \in Int
        OBVIOUS
      <3>2. ASSUME NEW k \in I, Before(k, i) PROVE Before(k, j)
        <4>1. keys[k] \in Int /\ k \in Int
          OBVIOUS
        <4> QED  BY <1>4, <3>1, <3>2, <4>1
      <3>3. i \in Below(j)
        BY <1>4
      <3>4. i \notin Below(i)
        BY <3>1
      <3>5. Below(i) \subseteq Below(j)
        BY <3>2
      <3> QED  BY <3>3, <3>4, <3>5
    <2>2. Cardinality(Below(i)) <= Cardinality(Below(j)) /\ Cardinality(Below(i)) # Cardinality(Below(j))
      <3> DEFINE A == Below(i)
                 B == Below(j)
      <3>1. A \in SUBSET B /\ A # B /\ IsFiniteSet(B)
        BY <1>3, <2>1
      <3> HIDE DEF A, B
      <3>2. Cardinality(A) <= Cardinality(B) /\ Cardinality(A) # Cardinality(B)
        BY <3>1, FS_Subset
      <3> QED  BY <3>2 DEF A, B
    <2> QED  BY <1>2, <1>3, <2>2
  <1>5. \A i, j \in I : i # j => Before(i, j) \/ Before(j, i)
    OBVIOUS
  <1> HIDE DEF Below, rank
  <1>6. ASSUME NEW i \in I, NEW j \in I, rank[i] = rank[j] PROVE i = j
    <2>1. rank[i] \in Int /\ rank[j] \in Int
      BY <1>1, <1>3
    <2> QED  BY <1>4, <1>5, <1>6, <2>1
  <1>7. ASSUME NEW k \in 0..(n - 1) PROVE \E i \in I : rank[i] = k
    <2>1. rank \in [I -> 0..(n - 1)]
      BY <1>3 DEF rank
    <2>2. rank \in Injection(I, 0..(n - 1))
      BY <1>6, <2>1 DEF Injection, IsInjective
    <2>3. IsFiniteSet(0..(n - 1)) /\ Cardinality(0..(n - 1)) = n
      <3>1. 0 \in Int /\ n - 1 \in Int
        BY <1>1
      <3> HIDE DEF n
      <3>2. IsFiniteSet(0..(n - 1)) /\ Cardinality(0..(n - 1)) = IF 0 > n - 1 THEN 0 ELSE (n - 1) - 0 + 1
        BY <3>1, FS_Interval
      <3> QED  BY <1>1, <3>2
    <2>4. rank \in Surjection(I, 0..(n - 1))
      BY <2>2, <2>3, FS_Injection
    <2> QED  BY <2>4 DEF Surjection
  <1> DEFINE p == [k \in 1..n |-> CHOOSE i \in I : Rank(i, I, keys) = k - 1]
  <1>8. ASSUME NEW k \in 1..n PROVE p[k] \in I /\ rank[p[k]] = k - 1
    <2>1. k - 1 \in 0..(n - 1)
      BY <1>1
    <2>2. \E i \in I : Rank(i, I, keys) = k - 1
      BY <1>7, <2>1 DEF rank
    <2> QED  BY <2>2 DEF rank
  <1>9. Arranged(s, I, keys) = [k \in 1..n |-> s[p[k]]]
    BY DEF Arranged
  <1>10. Ordering(p, I, keys)
    <2>1. p \in [1..n -> I]
      BY <1>8
    <2> HIDE DEF p, n
    <2>2. ASSUME NEW a \in 1..n, NEW b \in 1..n, p[a] = p[b] PROVE a = b
      BY <1>1, <1>8, <2>2
    <2>3. ASSUME NEW i \in I PROVE \E a \in 1..n : p[a] = i
      <3>1. rank[i] + 1 \in 1..n /\ (rank[i] + 1) - 1 = rank[i]
        BY <1>1, <1>3
      <3>2. rank[p[rank[i] + 1]] = rank[i] /\ p[rank[i] + 1] \in I
        BY <1>8, <3>1
      <3> QED  BY <1>6, <3>1, <3>2
    <2>4. ASSUME NEW a \in 1..n, NEW b \in 1..n, a < b PROVE Before(p[a], p[b])
      <3>1. p[a] \in I /\ p[b] \in I /\ rank[p[a]] = a - 1 /\ rank[p[b]] = b - 1
        BY <1>8
      <3>2. p[a] # p[b]
        BY <1>1, <2>2, <2>4
      <3>3. ~Before(p[b], p[a])
        <4> SUFFICES ASSUME Before(p[b], p[a]) PROVE FALSE
          OBVIOUS
        <4>1. rank[p[b]] < rank[p[a]]
          BY <1>4, <3>1
        <4> QED  BY <1>1, <2>4, <3>1, <4>1
      <3> QED  BY <1>5, <3>1, <3>2, <3>3
    <2> QED  BY <2>1, <2>2, <2>3, <2>4 DEF Ordering, n
  <1> HIDE DEF p
  <1> QED  BY <1>9, <1>10 DEF Orders

(***************************************************************************)
(* What Arranged and Chosen return: every element once for each place of   *)
(* it that was selected.                                                   *)
(***************************************************************************)
LEMMA ArrangedSet ==
    ASSUME NEW S, NEW s \in Seq(S), NEW I \in SUBSET (1..Len(s)),
           NEW keys, \A i \in I : keys[i] \in Int
    PROVE  /\ IsFiniteSet(I) /\ Cardinality(I) \in Nat
           /\ Arranged(s, I, keys) \in Seq(S)
           /\ Len(Arranged(s, I, keys)) = Cardinality(I)
           /\ \A k \in 1..Cardinality(I) : \E i \in I : Arranged(s, I, keys)[k] = s[i]
           /\ \A i \in I : \E k \in 1..Cardinality(I) : Arranged(s, I, keys)[k] = s[i]
  <1>1. IsFiniteSet(I) /\ Cardinality(I) \in Nat
    <2> DEFINE n == Len(s)
    <2>1. n \in Nat
      OBVIOUS
    <2> HIDE DEF n
    <2>2. IsFiniteSet(1..n)
      BY <2>1, FS_Interval
    <2>3. IsFiniteSet(I)
      BY <2>2, FS_Subset DEF n
    <2> QED  BY <2>3, FS_CardinalityType
  <1>2. I \in SUBSET Int
    OBVIOUS
  <1>3. PICK p : Ordering(p, I, keys) /\ Arranged(s, I, keys) = [k \in 1..Cardinality(I) |-> s[p[k]]]
    <2>1. Orders(Arranged(s, I, keys), s, I, keys)
      BY <1>1, <1>2, ArrangedIs
    <2> QED  BY <2>1 DEF Orders
  <1> DEFINE n == Cardinality(I)
             t == Arranged(s, I, keys)
  <1>4. /\ \A k \in 1..n : p[k] \in I
        /\ \A i \in I : \E k \in 1..n : p[k] = i
        /\ t = [k \in 1..n |-> s[p[k]]]
        /\ n \in Nat
    BY <1>1, <1>3 DEF Ordering
  <1> HIDE DEF n, t
  <1>5. \A k \in 1..n : s[p[k]] \in S
    <2>1. \A i \in I : s[i] \in S
      OBVIOUS
    <2> QED  BY <1>4, <2>1
  <1>6. t \in Seq(S) /\ Len(t) = n
    BY <1>4, <1>5
  <1>7. \A k \in 1..n : t[k] = s[p[k]]
    BY <1>4
  <1>8. \A k \in 1..n : \E i \in I : t[k] = s[i]
    BY <1>4, <1>7
  <1>9. \A i \in I : \E k \in 1..n : t[k] = s[i]
    BY <1>4, <1>7
  <1> QED  BY <1>1, <1>6, <1>8, <1>9 DEF n, t

(***************************************************************************)
(* The components of a release are different from each other.  List(s, X): *)
(* s has every element of X once; Tiles(s, X): the bins s have every       *)
(* element of X once between them.                                         *)
(***************************************************************************)
List(s, X) ==
    /\ s \in Seq(X)
    /\ \A i, j \in 1..Len(s) : s[i] = s[j] => i = j
    /\ \A x \in X : \E i \in 1..Len(s) : s[i] = x

Tiles(s, X) ==
    /\ s \in Seq(Seq(X))
    /\ \A i, j \in 1..Len(s) : \A k \in 1..Len(s[i]) : \A l \in 1..Len(s[j]) :
          s[i][k] = s[j][l] => i = j /\ k = l
    /\ \A x \in X : \E i \in 1..Len(s) : \E k \in 1..Len(s[i]) : s[i][k] = x

LEMMA ArrangedList ==
    ASSUME NEW X, NEW s, List(s, X), NEW I \in SUBSET (1..Len(s)),
           NEW keys, \A i \in I : keys[i] \in Int
    PROVE  List(Arranged(s, I, keys), {s[i] : i \in I})
  <1> DEFINE n == Cardinality(I)
             t == Arranged(s, I, keys)
             Y == {s[i] : i \in I}
  <1>0. s \in Seq(X) /\ \A i, j \in 1..Len(s) : s[i] = s[j] => i = j
    BY DEF List
  <1>1. IsFiniteSet(I) /\ n \in Nat
    BY <1>0, ArrangedSet
  <1>2. I \in SUBSET Int
    BY <1>0
  <1>3. PICK p : Ordering(p, I, keys) /\ t = [k \in 1..n |-> s[p[k]]]
    <2>1. Orders(Arranged(s, I, keys), s, I, keys)
      BY <1>1, <1>2, ArrangedIs
    <2> QED  BY <2>1 DEF Orders
  <1>4. /\ \A k \in 1..n : p[k] \in I
        /\ \A i \in I : \E k \in 1..n : p[k] = i
        /\ \A a, b \in 1..n : p[a] = p[b] => a = b
    BY <1>3 DEF Ordering
  <1> HIDE DEF n, t
  <1>5. \A k \in 1..n : s[p[k]] \in Y
    BY <1>4
  <1>6. t \in Seq(Y) /\ Len(t) = n /\ \A k \in 1..n : t[k] = s[p[k]]
    <2> HIDE DEF Y
    <2> QED  BY <1>1, <1>3, <1>5
  <1>7. ASSUME NEW a \in 1..n, NEW b \in 1..n, t[a] = t[b] PROVE a = b
    <2>1. s[p[a]] = s[p[b]] /\ p[a] \in 1..Len(s) /\ p[b] \in 1..Len(s)
      BY <1>4, <1>6, <1>7
    <2> QED  BY <1>0, <1>4, <2>1
  <1>8. \A x \in Y : \E k \in 1..n : t[k] = x
    BY <1>4, <1>6
  <1> HIDE DEF Y
  <1>9. List(t, Y)
    BY <1>6, <1>7, <1>8 DEF List
  <1> QED  BY <1>9 DEF t, Y

LEMMA ChosenList ==
    ASSUME NEW X, NEW s, List(s, X), NEW I \in SUBSET (1..Len(s))
    PROVE  List(Chosen(s, I), {s[i] : i \in I})
  <1> DEFINE keys == [i \in I |-> i]
  <1>1. \A i \in I : keys[i] \in Int
    <2>1. s \in Seq(X)
      BY DEF List
    <2> QED  BY <2>1
  <1> HIDE DEF keys
  <1>2. List(Arranged(s, I, keys), {s[i] : i \in I})
    BY <1>1, ArrangedList
  <1> QED  BY <1>2 DEF Chosen, keys

LEMMA Wider ==
    ASSUME NEW X, NEW Y, X \subseteq Y
    PROVE  Seq(X) \subseteq Seq(Y) /\ Seq(Seq(X)) \subseteq Seq(Seq(Y))
  <1>1. \A S, T : S \subseteq T => Seq(S) \subseteq Seq(T)
    OBVIOUS
  <1> QED  BY <1>1

LEMMA Narrower ==
    ASSUME NEW X, NEW Y, NEW s \in Seq(X), \A i \in 1..Len(s) : s[i] \in Y
    PROVE  s \in Seq(Y)
  OBVIOUS

LEMMA ListConcat ==
    ASSUME NEW X, NEW Y, X \intersect Y = {}, NEW s, List(s, X), NEW t, List(t, Y)
    PROVE  List(s \o t, X \union Y)
  <1> DEFINE Z == X \union Y
             m == Len(s)
             n == Len(t)
             u == s \o t
  <1>1. s \in Seq(Z) /\ t \in Seq(Z)
    BY Wider DEF List
  <1>2. /\ m \in Nat /\ n \in Nat /\ u \in Seq(Z) /\ Len(u) = m + n
        /\ \A i \in 1..m : u[i] = s[i]
        /\ \A i \in 1..n : u[m + i] = t[i]
    BY <1>1, Concat
  <1>3. \A i \in 1..(m + n) : i \in 1..m \/ (i - m \in 1..n /\ u[i] = t[i - m])
    <2> SUFFICES ASSUME NEW i \in 1..(m + n), i \notin 1..m PROVE i - m \in 1..n /\ u[i] = t[i - m]
      OBVIOUS
    <2>1. i - m \in 1..n /\ m + (i - m) = i
      BY <1>2
    <2> QED  BY <1>2, <2>1
  <1>4. /\ \A i \in 1..m : s[i] \in X
        /\ \A i \in 1..n : t[i] \in Y
        /\ \A i, j \in 1..m : s[i] = s[j] => i = j
        /\ \A i, j \in 1..n : t[i] = t[j] => i = j
        /\ \A x \in X : \E i \in 1..m : s[i] = x
        /\ \A x \in Y : \E i \in 1..n : t[i] = x
    BY SMTT(30) DEF List
  <1> HIDE DEF u, m, n
  <1>5. ASSUME NEW i \in 1..(m + n), NEW j \in 1..(m + n), u[i] = u[j] PROVE i = j
    <2>1. CASE i \in 1..m /\ j \in 1..m
      BY <1>2, <1>4, <1>5, <2>1
    <2>2. CASE i \in 1..m /\ j \notin 1..m
      BY <1>2, <1>3, <1>4, <1>5, <2>2, SMTT(30)
    <2>3. CASE i \notin 1..m /\ j \in 1..m
      BY <1>2, <1>3, <1>4, <1>5, <2>3
    <2>4. CASE i \notin 1..m /\ j \notin 1..m
      <3>1. i - m = j - m
        BY <1>3, <1>4, <1>5, <2>4
      <3> QED  BY <1>2, <3>1
    <2> QED  BY <2>1, <2>2, <2>3, <2>4
  <1>6. ASSUME NEW x \in Z PROVE \E i \in 1..(m + n) : u[i] = x
    <2>1. CASE x \in X
      <3>1. PICK i \in 1..m : s[i] = x
        BY <1>4, <2>1
      <3> QED  BY <1>2, <3>1
    <2>2. CASE x \in Y
      <3>1. PICK i \in 1..n : t[i] = x
        BY <1>4, <2>2
      <3>2. m + i \in 1..(m + n)
        BY <1>2
      <3> QED  BY <1>2, <3>1, <3>2
    <2> QED  BY <2>1, <2>2
  <1> HIDE DEF Z
  <1>7. List(u, Z)
    BY <1>2, <1>5, <1>6 DEF List
  <1> QED  BY <1>7 DEF u, Z

LEMMA ListPart ==
    ASSUME NEW X, NEW s, List(s, X), NEW a \in Nat \ {0}, NEW b \in Nat, b <= Len(s), a <= b + 1
    PROVE  List(SubSeq(s, a, b), {s[i] : i \in a..b})
  <1> DEFINE Y == {s[i] : i \in a..b}
             t == SubSeq(s, a, b)
             n == b + 1 - a
  <1>1. s \in Seq(X) /\ n \in Nat /\ Len(s) \in Nat
    BY DEF List
  <1>2. Len(t) = n /\ DOMAIN t = 1..n /\ \A i \in 1..n : t[i] = s[a + i - 1]
    BY <1>1
  <1>3. \A i \in 1..n : a + i - 1 \in a..b
    BY <1>1
  <1>4. \A i \in 1..n : t[i] \in Y
    BY <1>2, <1>3
  <1>5. t \in Seq(Y)
    <2>1. \A i \in a..b : s[i] \in Y
      BY Zenon
    <2> HIDE DEF Y
    <2> QED  BY <2>1, SubSeqProperties
  <1>6. ASSUME NEW i \in 1..n, NEW j \in 1..n, t[i] = t[j] PROVE i = j
    <2>1. a + i - 1 \in 1..Len(s) /\ a + j - 1 \in 1..Len(s) /\ s[a + i - 1] = s[a + j - 1]
      <3>1. a + i - 1 \in 1..Len(s) /\ a + j - 1 \in 1..Len(s)
        BY <1>1, <1>3
      <3> HIDE DEF t, n
      <3> QED  BY <1>2, <1>6, <3>1
    <2>2. a + i - 1 = a + j - 1
      BY <2>1, Zenon DEF List
    <2> QED  BY <2>2
  <1>7. ASSUME NEW x \in Y PROVE \E i \in 1..n : t[i] = x
    <2>1. PICK i \in a..b : s[i] = x
      OBVIOUS
    <2>2. i + 1 - a \in 1..n /\ a + (i + 1 - a) - 1 = i
      OBVIOUS
    <2>3. t[i + 1 - a] = s[i]
      <3> HIDE DEF n, t
      <3> QED  BY <1>2, <2>2
    <2> HIDE DEF n, t
    <2> QED  BY <2>1, <2>2, <2>3
  <1> HIDE DEF Y, t, n
  <1>8. List(t, Y)
    BY <1>2, <1>5, <1>6, <1>7 DEF List
  <1> QED  BY <1>8 DEF t, Y

LEMMA TilesConcat ==
    ASSUME NEW X, NEW Y, X \intersect Y = {}, NEW s, Tiles(s, X), NEW t, Tiles(t, Y)
    PROVE  Tiles(s \o t, X \union Y)
  <1> DEFINE Z == X \union Y
             m == Len(s)
             n == Len(t)
             u == s \o t
  <1>1. s \in Seq(Seq(Z)) /\ t \in Seq(Seq(Z))
    BY Wider DEF Tiles
  <1>2. /\ m \in Nat /\ n \in Nat /\ u \in Seq(Seq(Z)) /\ Len(u) = m + n
        /\ \A i \in 1..m : u[i] = s[i]
        /\ \A i \in 1..n : u[m + i] = t[i]
    BY <1>1, Concat
  <1>3. \A i \in 1..(m + n) : i \in 1..m \/ (i - m \in 1..n /\ u[i] = t[i - m])
    <2> SUFFICES ASSUME NEW i \in 1..(m + n), i \notin 1..m PROVE i - m \in 1..n /\ u[i] = t[i - m]
      OBVIOUS
    <2>1. i - m \in 1..n /\ m + (i - m) = i
      BY <1>2
    <2> QED  BY <1>2, <2>1
  <1>4. /\ \A i \in 1..m : \A k \in 1..Len(s[i]) : s[i][k] \in X
        /\ \A i \in 1..n : \A k \in 1..Len(t[i]) : t[i][k] \in Y
    <2>1. (\A i \in 1..m : s[i] \in Seq(X)) /\ (\A i \in 1..n : t[i] \in Seq(Y))
      BY DEF Tiles
    <2> QED  BY <2>1
  <1>5. /\ \A i, j \in 1..m : \A k \in 1..Len(s[i]) : \A l \in 1..Len(s[j]) :
              s[i][k] = s[j][l] => i = j /\ k = l
        /\ \A i, j \in 1..n : \A k \in 1..Len(t[i]) : \A l \in 1..Len(t[j]) :
              t[i][k] = t[j][l] => i = j /\ k = l
        /\ \A x \in X : \E i \in 1..m : \E k \in 1..Len(s[i]) : s[i][k] = x
        /\ \A x \in Y : \E i \in 1..n : \E k \in 1..Len(t[i]) : t[i][k] = x
    BY Zenon DEF Tiles
  <1> HIDE DEF u, m, n
  <1>6. ASSUME NEW i \in 1..(m + n), NEW j \in 1..(m + n),
               NEW k \in 1..Len(u[i]), NEW l \in 1..Len(u[j]), u[i][k] = u[j][l]
        PROVE  i = j /\ k = l
    <2>1. CASE i \in 1..m /\ j \in 1..m
      <3>1. u[i] = s[i] /\ u[j] = s[j]
        BY <1>2, <2>1
      <3>2. k \in 1..Len(s[i]) /\ l \in 1..Len(s[j]) /\ s[i][k] = s[j][l]
        BY <1>6, <3>1, Zenon
      <3> QED  BY <1>5, <2>1, <3>2
    <2>2. CASE i \in 1..m /\ j \notin 1..m
      <3>1. u[i][k] \in X /\ u[j][l] \in Y
        BY <1>2, <1>3, <1>4, <2>2
      <3> QED  BY <1>6, <3>1
    <2>3. CASE i \notin 1..m /\ j \in 1..m
      <3>1. u[i][k] \in Y /\ u[j][l] \in X
        BY <1>2, <1>3, <1>4, <2>3
      <3> QED  BY <1>6, <3>1
    <2>4. CASE i \notin 1..m /\ j \notin 1..m
      <3>1. i - m = j - m /\ k = l
        BY <1>3, <1>5, <1>6, <2>4
      <3> QED  BY <1>2, <3>1
    <2> QED  BY <2>1, <2>2, <2>3, <2>4
  <1>7. ASSUME NEW x \in Z PROVE \E i \in 1..(m + n) : \E k \in 1..Len(u[i]) : u[i][k] = x
    <2>1. CASE x \in X
      <3>1. PICK i \in 1..m : \E k \in 1..Len(s[i]) : s[i][k] = x
        BY <1>5, <2>1
      <3>2. i \in 1..(m + n) /\ u[i] = s[i]
        BY <1>2
      <3> QED  BY <3>1, <3>2, Zenon
    <2>2. CASE x \in Y
      <3>1. PICK i \in 1..n : \E k \in 1..Len(t[i]) : t[i][k] = x
        BY <1>5, <2>2
      <3>2. m + i \in 1..(m + n) /\ u[m + i] = t[i]
        BY <1>2
      <3> QED  BY <3>1, <3>2, Zenon
    <2> QED  BY <2>1, <2>2
  <1> HIDE DEF Z
  <1>8. Tiles(u, Z)
    BY <1>2, <1>6, <1>7 DEF Tiles
  <1> QED  BY <1>8 DEF u, Z

LEMMA TilesNone == Tiles(<<>>, {}) /\ Tiles(<<<<>>>>, {})
  <1>1. <<>> \in Seq(Seq({})) /\ Len(<<>>) = 0
    OBVIOUS
  <1>2. <<<<>>>> \in Seq(Seq({})) /\ Len(<<<<>>>>) = 1 /\ <<<<>>>>[1] = <<>>
    OBVIOUS
  <1>3. Tiles(<<>>, {})
    BY <1>1 DEF Tiles
  <1>4. Tiles(<<<<>>>>, {})
    <2> DEFINE s == <<<<>>>>
    <2>1. s \in Seq(Seq({})) /\ Len(s) = 1 /\ \A i \in 1..1 : Len(s[i]) = 0
      BY <1>2
    <2> HIDE DEF s
    <2>2. Tiles(s, {})
      BY <2>1 DEF Tiles
    <2> QED  BY <2>2 DEF s
  <1> QED  BY <1>3, <1>4

LEMMA TilesOne ==
    ASSUME NEW X, NEW s, List(s, X)
    PROVE  Tiles(<<s>>, X)
  <1> DEFINE t == <<s>>
  <1>1. s \in Seq(X)
    BY DEF List
  <1>2. t \in Seq(Seq(X)) /\ Len(t) = 1 /\ \A i \in 1..1 : i = 1 /\ t[i] = s
    BY <1>1
  <1> HIDE DEF t
  <1>3. \A i, j \in 1..1 : \A k \in 1..Len(t[i]) : \A l \in 1..Len(t[j]) :
            t[i][k] = t[j][l] => i = j /\ k = l
    BY <1>2 DEF List
  <1>4. \A x \in X : \E i \in 1..1 : \E k \in 1..Len(t[i]) : t[i][k] = x
    <2>1. 1 \in 1..1 /\ t[1] = s
      BY <1>2
    <2> QED  BY <2>1 DEF List
  <1>5. Tiles(t, X)
    BY <1>2, <1>3, <1>4 DEF Tiles
  <1> QED  BY <1>5 DEF t

LEMMA TilesSingletons ==
    ASSUME NEW X, NEW s, List(s, X)
    PROVE  /\ Tiles(Singletons(s), X) /\ Len(Singletons(s)) = Len(s)
           /\ \A i \in 1..Len(s) : Singletons(s)[i] = <<s[i]>>
  <1> DEFINE t == Singletons(s)
             n == Len(s)
  <1>1. s \in Seq(X)
    BY DEF List
  <1>2. n \in Nat /\ t = [i \in 1..n |-> <<s[i]>>] /\ \A i \in 1..n : s[i] \in X
    BY <1>1 DEF Singletons
  <1> HIDE DEF t
  <1>3. t \in Seq(Seq(X)) /\ Len(t) = n
    BY <1>2
  <1>4. \A i \in 1..n : t[i] = <<s[i]>> /\ Len(t[i]) = 1 /\ \A k \in 1..Len(t[i]) : t[i][k] = s[i] /\ k = 1
    BY <1>2
  <1>5. \A i, j \in 1..n : \A k \in 1..Len(t[i]) : \A l \in 1..Len(t[j]) :
            t[i][k] = t[j][l] => i = j /\ k = l
    <2>1. \A i, j \in 1..n : s[i] = s[j] => i = j
      BY DEF List
    <2> HIDE DEF n
    <2> QED  BY <1>4, <2>1
  <1>6. ASSUME NEW x \in X PROVE \E i \in 1..n : \E k \in 1..Len(t[i]) : t[i][k] = x
    <2>1. PICK i \in 1..n : s[i] = x
      BY DEF List
    <2> HIDE DEF n
    <2>2. Len(t[i]) = 1 /\ 1 \in 1..Len(t[i]) /\ t[i][1] = x
      BY <1>4, <2>1
    <2> QED  BY <2>2
  <1> HIDE DEF n
  <1>7. Tiles(t, X)
    BY <1>3, <1>5, <1>6 DEF Tiles
  <1> QED  BY <1>3, <1>4, <1>7 DEF t, n

LEMMA MinOfTwo ==
    ASSUME NEW a \in Nat, NEW b \in Nat
    PROVE  Min({a, b}) = IF a <= b THEN a ELSE b
  <1> DEFINE S == {a, b}
             m == IF a <= b THEN a ELSE b
  <1>1. m \in S /\ (\A k \in S : m <= k) /\ \A y \in S : (\A k \in S : y <= k) => y = m
    OBVIOUS
  <1> HIDE DEF S, m
  <1>2. Min(S) = m
    BY <1>1, Zenon DEF Min
  <1> QED  BY <1>2 DEF S, m

LEMMA Times ==
    ASSUME NEW a \in Nat, NEW b \in Nat, NEW k \in Nat, a <= b
    PROVE  a * k <= b * k /\ a * k \in Nat /\ (a + 1) * k = a * k + k
  OBVIOUS

LEMMA Quotient ==
    ASSUME NEW n \in Nat, NEW k \in Nat \ {0}
    PROVE  (n \div k) \in Nat /\ (n \div k) * k <= n /\ n < (n \div k) * k + k
  OBVIOUS

LEMMA TilesCut ==
    ASSUME NEW X, NEW s, List(s, X), NEW per \in Nat
    PROVE  Tiles(Cut(s, per), X)
  <1> DEFINE n == Len(s)
  <1>1. s \in Seq(X) /\ n \in Nat /\ \A i, j \in 1..n : s[i] = s[j] => i = j
    BY DEF List
  <1>2. CASE s = <<>>
    <2>1. X = {}
      <3>1. 1..Len(s) = {}
        BY <1>2
      <3> QED  BY <3>1 DEF List
    <2> QED  BY <1>2, <2>1, TilesNone DEF Cut
  <1>3. CASE s # <<>> /\ per = 0
    <2>1. Tiles(<<<<>>>>, {}) /\ Tiles(Singletons(s), X) /\ {} \intersect X = {} /\ {} \union X = X
      BY TilesNone, TilesSingletons
    <2>2. Tiles(<<<<>>>> \o Singletons(s), X)
      BY <2>1, TilesConcat, Zenon
    <2> QED  BY <1>3, <2>2 DEF Cut
  <1>4. CASE s # <<>> /\ per # 0
    <2> DEFINE c == (n + per - 1) \div per
               lo(k) == (k - 1) * per
               hi(k) == IF k * per <= n THEN k * per ELSE n
               t == Cut(s, per)
    <2>1. per \in Nat \ {0} /\ n + per - 1 \in Nat
      BY <1>1, <1>4
    <2>2. c \in Nat /\ c * per <= n + per - 1 /\ n + per - 1 < c * per + per
      <3> DEFINE q == n + per - 1
      <3>1. q \in Nat
        BY <2>1
      <3> HIDE DEF q
      <3>2. (q \div per) \in Nat /\ (q \div per) * per <= q /\ q < (q \div per) * per + per
        BY <2>1, <3>1, Quotient
      <3> QED  BY <3>2 DEF q
    <2> HIDE DEF c, n
    <2>3. ASSUME NEW k \in 1..c
          PROVE  /\ lo(k) \in Nat /\ k * per = lo(k) + per /\ lo(k) < n /\ k * per \in Nat
                 /\ lo(k) < hi(k) /\ hi(k) <= n /\ hi(k) <= lo(k) + per /\ hi(k) \in Nat
      <3>1. k - 1 \in Nat /\ k - 1 <= c - 1 /\ c - 1 \in Nat
        BY <2>2
      <3>2. lo(k) <= (c - 1) * per /\ lo(k) \in Nat /\ (c - 1) * per \in Nat
        BY <3>1, <2>1, Times
      <3>3. k * per = lo(k) + per
        BY <2>1, <3>1
      <3>4. c * per = (c - 1) * per + per
        BY <2>1, <2>2, <3>1
      <3> DEFINE cp == c * per
                 dp == (c - 1) * per
                 kp == k * per
                 lp == lo(k)
      <3>5. lp <= dp /\ lp \in Nat /\ dp \in Nat /\ kp = lp + per /\ cp = dp + per /\ cp <= n + per - 1
        BY <2>2, <3>2, <3>3, <3>4
      <3> HIDE DEF cp, dp, kp, lp
      <3>6. /\ lp \in Nat /\ kp = lp + per /\ lp < n /\ kp \in Nat
            /\ lp < (IF kp <= n THEN kp ELSE n) /\ (IF kp <= n THEN kp ELSE n) <= n
            /\ (IF kp <= n THEN kp ELSE n) <= lp + per /\ (IF kp <= n THEN kp ELSE n) \in Nat
        BY <1>1, <2>1, <3>5
      <3> QED  BY <3>6 DEF kp, lp
    <2>4. ASSUME NEW k \in 1..c, NEW l \in 1..c, k < l PROVE lo(k) + per <= lo(l)
      <3>1. k \in Nat /\ l - 1 \in Nat /\ k <= l - 1
        BY <2>2, <2>4
      <3>2. k * per <= (l - 1) * per
        BY <3>1, <2>1, Times
      <3>3. k * per = lo(k) + per
        BY <2>3
      <3> QED  BY <3>2, <3>3
    <2>5. t = [k \in 1..c |-> SubSeq(s, lo(k) + 1, Min({k * per, n}))]
      BY <1>4, Zenon DEF Cut, c, n
    <2>6. \A k \in 1..c : Min({k * per, n}) = hi(k)
      <3> SUFFICES ASSUME NEW k \in 1..c PROVE Min({k * per, n}) = hi(k)
        OBVIOUS
      <3> DEFINE kp == k * per
      <3>1. kp \in Nat
        BY <2>3
      <3> HIDE DEF kp
      <3>2. Min({kp, n}) = IF kp <= n THEN kp ELSE n
        BY <1>1, <3>1, MinOfTwo
      <3> QED  BY <3>2 DEF kp
    <2> DEFINE cut == [k \in 1..c |-> [lo |-> lo(k), hi |-> hi(k)]]
    <2>7. \A k \in 1..c : /\ cut[k].lo = lo(k) /\ cut[k].hi = hi(k)
                          /\ cut[k].lo \in Nat /\ cut[k].hi \in Nat
                          /\ cut[k].lo < cut[k].hi /\ cut[k].hi <= n /\ cut[k].hi <= cut[k].lo + per
      <3>1. \A k \in 1..c : cut[k].lo = lo(k) /\ cut[k].hi = hi(k)
        BY Zenon
      <3> HIDE DEF cut
      <3> QED  BY <2>3, <3>1, Zenon
    <2>8. \A k, l \in 1..c : k < l => cut[k].lo + per <= cut[l].lo
      <3> HIDE DEF cut
      <3> QED  BY <2>4, <2>7, Zenon
    <2>9. t = [k \in 1..c |-> SubSeq(s, cut[k].lo + 1, cut[k].hi)]
      <3> HIDE DEF cut
      <3> QED  BY <2>5, <2>6, <2>7
    <2>10. \A i \in 1..n : \E k \in 1..c : cut[k].lo < i /\ i <= cut[k].hi
      <3> SUFFICES ASSUME NEW i \in 1..n PROVE \E k \in 1..c : cut[k].lo < i /\ i <= cut[k].hi
        OBVIOUS
      <3> DEFINE q == (i - 1) \div per
      <3>1. i - 1 \in Nat /\ i \in Nat /\ i <= n
        BY <1>1
      <3>2. q \in Nat /\ q * per <= i - 1 /\ i - 1 < q * per + per
        <4> DEFINE j == i - 1
        <4>1. j \in Nat
          BY <3>1
        <4> HIDE DEF j
        <4>2. (j \div per) \in Nat /\ (j \div per) * per <= j /\ j < (j \div per) * per + per
          BY <2>1, <4>1, Quotient
        <4> QED  BY <4>2 DEF j
      <3> HIDE DEF q, cut
      <3>3. q < c
        <4> SUFFICES ASSUME c <= q PROVE FALSE
          BY <2>2, <3>2
        <4>1. c * per <= q * per /\ c * per \in Nat /\ q * per \in Nat
          BY <2>1, <2>2, <3>2, Times
        <4> DEFINE cp == c * per
                   qp == q * per
        <4>2. cp <= qp /\ cp \in Nat /\ qp \in Nat /\ qp <= i - 1 /\ n + per - 1 < cp + per
          BY <2>2, <3>2, <4>1
        <4> HIDE DEF cp, qp
        <4> QED  BY <1>1, <2>1, <3>1, <4>2
      <3>4. q + 1 \in 1..c /\ (q + 1) - 1 = q
        BY <2>2, <3>2, <3>3
      <3>5. lo(q + 1) = q * per /\ (q + 1) * per = q * per + per
        BY <2>1, <3>2
      <3>6. cut[q + 1].lo = q * per /\ cut[q + 1].hi = IF (q + 1) * per <= n THEN (q + 1) * per ELSE n
        BY <2>7, <3>4, <3>5
      <3> DEFINE qp == q * per
                 rp == (q + 1) * per
      <3>7. /\ rp = qp + per /\ qp <= i - 1 /\ i - 1 < qp + per /\ qp \in Nat
            /\ cut[q + 1].lo = qp /\ cut[q + 1].hi = IF rp <= n THEN rp ELSE n
        <4>1. q * per \in Nat
          BY <2>1, <3>2
        <4> QED  BY <3>2, <3>5, <3>6, <4>1
      <3> HIDE DEF qp, rp
      <3>8. cut[q + 1].lo < i /\ i <= cut[q + 1].hi
        BY <1>1, <2>1, <3>1, <3>7
      <3> QED  BY <3>4, <3>8
    <2> HIDE DEF cut, t
    <2>11. ASSUME NEW k \in 1..c
           PROVE  /\ t[k] \in Seq(X) /\ Len(t[k]) = cut[k].hi - cut[k].lo
                  /\ \A j \in 1..Len(t[k]) : t[k][j] = s[cut[k].lo + j] /\ cut[k].lo + j \in 1..n /\ j \in 1..per
      <3> DEFINE a == cut[k].lo
                 b == cut[k].hi
      <3>1. a \in Nat /\ b \in Nat /\ a < b /\ b <= n /\ b <= a + per /\ t[k] = SubSeq(s, a + 1, b)
        BY <2>7, <2>9
      <3> HIDE DEF a, b
      <3>2. a + 1 \in Int /\ b \in Int /\ \A i \in (a + 1)..b : s[i] \in X
        BY <1>1, <3>1 DEF n
      <3> DEFINE a1 == a + 1
      <3>3. a1 \in Int /\ b \in Int /\ \A i \in a1..b : s[i] \in X
        BY <3>2
      <3> HIDE DEF a1
      <3>4. /\ SubSeq(s, a1, b) \in Seq(X)
            /\ Len(SubSeq(s, a1, b)) = IF a1 <= b THEN b - a1 + 1 ELSE 0
            /\ \A i \in 1..(b - a1 + 1) : SubSeq(s, a1, b)[i] = s[a1 + i - 1]
        BY <3>3, SubSeqProperties
      <3>5. t[k] \in Seq(X) /\ Len(t[k]) = b - a
        BY <3>1, <3>4 DEF a1
      <3>6. ASSUME NEW j \in 1..(b - a) PROVE t[k][j] = s[a + j] /\ a + j \in 1..n /\ j \in 1..per
        <4>1. j \in 1..(b - a1 + 1) /\ a1 + j - 1 = a + j
          BY <3>1 DEF a1
        <4>2. t[k][j] = s[a + j]
          BY <3>1, <3>4, <4>1 DEF a1
        <4> QED  BY <1>1, <2>1, <3>1, <4>2, SMTT(30)
      <3> QED  BY <3>5, <3>6 DEF a, b
    <2>12. t \in Seq(Seq(X)) /\ Len(t) = c
      BY <2>2, <2>9, <2>11
    <2>13. ASSUME NEW k \in 1..c, NEW l \in 1..c, NEW i \in 1..Len(t[k]), NEW j \in 1..Len(t[l]),
                  t[k][i] = t[l][j]
           PROVE  k = l /\ i = j
      <3> DEFINE a == cut[k].lo
                 b == cut[l].lo
      <3>1. t[k][i] = s[a + i] /\ a + i \in 1..n /\ i \in 1..per
        BY <2>11
      <3>2. t[l][j] = s[b + j] /\ b + j \in 1..n /\ j \in 1..per
        BY <2>11
      <3>3. /\ a \in Nat /\ b \in Nat /\ (k = l => a = b)
            /\ (k < l => a + per <= b) /\ (l < k => b + per <= a)
        BY <2>7, <2>8
      <3> HIDE DEF a, b
      <3>4. a + i = b + j
        BY <1>1, <2>13, <3>1, <3>2
      <3>5. k \in Int /\ l \in Int
        BY <2>2
      <3> HIDE <2>13
      <3> QED  BY <2>1, <3>1, <3>2, <3>3, <3>4, <3>5
    <2>14. ASSUME NEW x \in X PROVE \E k \in 1..c : \E j \in 1..Len(t[k]) : t[k][j] = x
      <3>1. PICK i \in 1..n : s[i] = x
        BY DEF List, n
      <3>2. PICK k \in 1..c : cut[k].lo < i /\ i <= cut[k].hi
        BY <2>10
      <3>3. cut[k].lo \in Nat /\ cut[k].hi \in Nat /\ Len(t[k]) = cut[k].hi - cut[k].lo
        BY <2>7, <2>11
      <3>4. i - cut[k].lo \in 1..Len(t[k]) /\ cut[k].lo + (i - cut[k].lo) = i
        BY <1>1, <3>2, <3>3
      <3>5. t[k][i - cut[k].lo] = x
        BY <2>11, <3>1, <3>4
      <3> QED  BY <3>4, <3>5
    <2>15. Tiles(t, X)
      BY <2>12, <2>13, <2>14 DEF Tiles
    <2> QED  BY <2>15 DEF t
  <1> QED  BY <1>2, <1>3, <1>4

(***************************************************************************)
(* Counting: a list is as long as its set is large, and bins that tile a   *)
(* set have as many places as the set has elements.                        *)
(***************************************************************************)
LEMMA Segment ==
    ASSUME NEW n \in Nat
    PROVE  IsFiniteSet(1..n) /\ Cardinality(1..n) = n
  <1>1. IsFiniteSet(1..n) /\ Cardinality(1..n) = IF 1 > n THEN 0 ELSE n - 1 + 1
    BY FS_Interval
  <1> QED  BY <1>1

LEMMA ListCount ==
    ASSUME NEW X, NEW s, List(s, X)
    PROVE  IsFiniteSet(X) /\ Cardinality(X) = Len(s)
  <1> DEFINE n == Len(s)
             f == [i \in 1..n |-> s[i]]
  <1>1. /\ n \in Nat /\ f \in [1..n -> X] /\ \A i \in 1..n : f[i] = s[i]
        /\ \A i, j \in 1..n : s[i] = s[j] => i = j
        /\ \A x \in X : \E i \in 1..n : s[i] = x
    BY DEF List
  <1> HIDE DEF n, f
  <1>2. f \in Surjection(1..n, X) /\ f \in Injection(1..n, X)
    BY <1>1 DEF Surjection, Injection, IsInjective
  <1>3. IsFiniteSet(X) /\ Cardinality(X) = Cardinality(1..n)
    BY <1>1, <1>2, Segment, FS_Surjection
  <1> QED  BY <1>1, <1>3, Segment DEF n

LEMMA PlacesAre ==
    ASSUME NEW S, NEW s \in Seq(Seq(S))
    PROVE  /\ IsFiniteSet(Places(s))
           /\ \A i \in 1..Len(s) : \A k \in 1..Len(s[i]) : <<i, k>> \in Places(s)
           /\ \A pl \in Places(s) :
                 /\ pl = <<pl[1], pl[2]>>
                 /\ pl[1] \in 1..Len(s) /\ pl[2] \in 1..Len(s[pl[1]]) /\ s[pl[1]][pl[2]] \in S
  <1> DEFINE n == Len(s)
             row == [i \in 1..n |-> {<<i, k>> : k \in 1..Len(s[i])}]
             rows == {row[i] : i \in 1..n}
  <1>1. n \in Nat /\ DOMAIN s = 1..n /\ \A i \in 1..n : s[i] \in Seq(S) /\ Len(s[i]) \in Nat
    OBVIOUS
  <1>2. Places(s) = UNION rows
    <2>1. \A i \in 1..n : DOMAIN s[i] = 1..Len(s[i])
      BY <1>1
    <2>2. \A i \in 1..n : {<<i, k>> : k \in DOMAIN s[i]} = row[i]
      BY <2>1, Zenon
    <2> HIDE DEF row
    <2>3. ASSUME NEW pl PROVE pl \in Places(s) <=> pl \in UNION rows
      <3>1. pl \in Places(s) <=> \E i \in 1..n : pl \in {<<i, k>> : k \in DOMAIN s[i]}
        BY <1>1 DEF Places
      <3>2. pl \in Places(s) <=> \E i \in 1..n : pl \in row[i]
        BY <2>2, <3>1
      <3> QED  BY <3>2
    <2> QED  BY <2>3
  <1>3. ASSUME NEW i \in 1..n PROVE IsFiniteSet(row[i])
    <2> DEFINE m == Len(s[i])
               R == row[i]
               f == [k \in 1..m |-> <<i, k>>]
    <2>1. m \in Nat /\ f \in [1..m -> R] /\ \A x \in R : \E k \in 1..m : f[k] = x
      BY <1>1
    <2> HIDE DEF m, R, f
    <2>2. f \in Surjection(1..m, R)
      BY <2>1 DEF Surjection
    <2>3. IsFiniteSet(R)
      BY <2>1, <2>2, Segment, FS_Surjection
    <2> QED  BY <2>3 DEF R
  <1>4. IsFiniteSet(rows)
    <2>1. row \in [1..n -> rows] /\ \A x \in rows : \E i \in 1..n : row[i] = x
      OBVIOUS
    <2> HIDE DEF n, row, rows
    <2>2. row \in Surjection(1..n, rows)
      BY <2>1 DEF Surjection
    <2> QED  BY <1>1, <2>2, Segment, FS_Surjection
  <1>5. IsFiniteSet(UNION rows)
    <2>1. \A T \in rows : IsFiniteSet(T)
      BY <1>3
    <2> HIDE DEF rows
    <2> QED  BY <1>4, <2>1, FS_UNION
  <1>6. \A i \in 1..n : \A k \in 1..Len(s[i]) : <<i, k>> \in UNION rows
    OBVIOUS
  <1>7. ASSUME NEW pl \in UNION rows
        PROVE  /\ pl = <<pl[1], pl[2]>>
               /\ pl[1] \in 1..n /\ pl[2] \in 1..Len(s[pl[1]]) /\ s[pl[1]][pl[2]] \in S
    <2>1. PICK i \in 1..n : pl \in row[i]
      OBVIOUS
    <2>2. PICK k \in 1..Len(s[i]) : pl = <<i, k>>
      BY <2>1
    <2>3. pl[1] = i /\ pl[2] = k /\ s[i][k] \in S
      BY <1>1, <2>2
    <2> QED  BY <2>2, <2>3
  <1> QED  BY <1>2, <1>5, <1>6, <1>7

LEMMA TilesCount ==
    ASSUME NEW X, NEW s, Tiles(s, X), IsFiniteSet(X)
    PROVE  Cardinality(Places(s)) = Cardinality(X)
  <1> DEFINE P == Places(s)
             f == [pl \in P |-> s[pl[1]][pl[2]]]
  <1>1. /\ IsFiniteSet(P)
        /\ \A i \in 1..Len(s) : \A k \in 1..Len(s[i]) : <<i, k>> \in P
        /\ \A pl \in P : /\ pl = <<pl[1], pl[2]>>
                         /\ pl[1] \in 1..Len(s) /\ pl[2] \in 1..Len(s[pl[1]]) /\ s[pl[1]][pl[2]] \in X
    BY PlacesAre DEF Tiles
  <1> HIDE DEF P
  <1>2. f \in [P -> X]
    BY <1>1
  <1>3. ASSUME NEW a \in P, NEW b \in P, f[a] = f[b] PROVE a = b
    <2>1. s[a[1]][a[2]] = s[b[1]][b[2]]
      BY <1>3
    <2> DEFINE i == a[1]
               k == a[2]
               j == b[1]
               l == b[2]
    <2>2. /\ i \in 1..Len(s) /\ k \in 1..Len(s[i]) /\ a = <<i, k>>
          /\ j \in 1..Len(s) /\ l \in 1..Len(s[j]) /\ b = <<j, l>>
          /\ s[i][k] = s[j][l]
      BY <1>1, <2>1
    <2> HIDE DEF i, k, j, l
    <2>3. \A g, h \in 1..Len(s) : \A x \in 1..Len(s[g]) : \A y \in 1..Len(s[h]) :
              s[g][x] = s[h][y] => g = h /\ x = y
      BY Zenon DEF Tiles
    <2>4. i = j /\ k = l
      BY <2>2, <2>3
    <2> QED  BY <2>2, <2>4
  <1>4. ASSUME NEW x \in X PROVE \E pl \in P : f[pl] = x
    <2>1. PICK i \in 1..Len(s) : \E k \in 1..Len(s[i]) : s[i][k] = x
      BY DEF Tiles
    <2>2. PICK k \in 1..Len(s[i]) : s[i][k] = x
      BY <2>1
    <2>3. <<i, k>> \in P /\ f[<<i, k>>] = x
      BY <1>1, <2>2
    <2> QED  BY <2>3
  <1> HIDE DEF f
  <1>5. f \in Injection(P, X) /\ f \in Surjection(P, X)
    BY <1>2, <1>3, <1>4 DEF Injection, IsInjective, Surjection
  <1>6. Cardinality(P) = Cardinality(X)
    BY <1>5, FS_Injection
  <1> QED  BY <1>6 DEF P

-----------------------------------------------------------------------------
(***************************************************************************)
(* The components a build packs: different identifiers, and by descending  *)
(* size unless they come from the command line.                            *)
(***************************************************************************)
Packable(cs) ==
    /\ cs \in Seq(Component)
    /\ \A i, j \in 1..Len(cs) : Identifier(cs[i]) = Identifier(cs[j]) => i = j

Descending(cs) == \A i, j \in 1..Len(cs) : i < j => cs[i].size >= cs[j].size

LEMMA ComponentFields ==
    ASSUME NEW c \in Component
    PROVE  /\ c.name \in Nat \ {0} /\ c.version \in Nat /\ c.size \in Nat /\ c.freq \in 0..MaxFreq
           /\ Identifier(c) = <<c.name, c.version>> /\ Identifier(c)[1] = c.name
           /\ c["name"] = c.name /\ c["size"] = c.size /\ c["freq"] = c.freq
  BY DEF Component, Identifier

LEMMA PackableList ==
    ASSUME NEW cs, Packable(cs)
    PROVE  List(cs, ToSet(cs)) /\ DOMAIN cs = 1..Len(cs) /\ Len(cs) \in Nat
  <1>1. cs \in Seq(Component) /\ DOMAIN cs = 1..Len(cs) /\ Len(cs) \in Nat
    BY DEF Packable
  <1>2. ToSet(cs) = {cs[i] : i \in 1..Len(cs)}
    BY <1>1 DEF ToSet
  <1>3. \A i, j \in 1..Len(cs) : cs[i] = cs[j] => i = j
    BY DEF Packable
  <1>4. cs \in Seq(ToSet(cs))
    BY <1>1, <1>2, Narrower
  <1> QED  BY <1>1, <1>2, <1>3, <1>4 DEF List

LEMMA ReleaseIs ==
    ASSUME NEW rel, IsRelease(rel)
    PROVE  /\ rel.components \in Seq(Component) /\ rel.empty \in Seq(Component)
           /\ Packable(rel.components) /\ Packable(rel.components \o rel.empty)
  <1> DEFINE a == rel.components
             b == rel.empty
             all == a \o b
  <1>1. a \in Seq(Component) /\ b \in Seq(Component)
    BY DEF IsRelease
  <1>2. \A i, j \in DOMAIN all : Identifier(all[i]) = Identifier(all[j]) => i = j
    BY Zenon DEF IsRelease
  <1> HIDE DEF a, b
  <1>3. /\ all \in Seq(Component) /\ Len(all) = Len(a) + Len(b)
        /\ \A i \in 1..Len(a) : all[i] = a[i]
    BY <1>1, Concat
  <1>4. Packable(all)
    BY <1>2, <1>3 DEF Packable
  <1>5. Packable(a)
    <2>1. Len(a) \in Nat /\ Len(b) \in Nat
      BY <1>1
    <2>2. \A i \in 1..Len(a) : i \in 1..Len(all) /\ all[i] = a[i]
      BY <1>3, <2>1
    <2> HIDE DEF all
    <2> QED  BY <1>1, <1>4, <2>2 DEF Packable
  <1> QED  BY <1>1, <1>4, <1>5 DEF a, b

LEMMA ComputeSizesIs ==
    ASSUME NEW rel, IsRelease(rel)
    PROVE  LET cs == ComputeSizes(rel)
           IN  /\ Packable(cs) /\ Descending(cs) /\ Len(cs) = Len(rel.components)
               /\ Identifiers(cs) = Identifiers(rel.components)
               /\ ToSet(cs) = ToSet(rel.components)
  <1> DEFINE s == rel.components
             n == Len(s)
             keys == [i \in DOMAIN s |-> -s[i].size]
             cs == ComputeSizes(rel)
  <1>1. Packable(s) /\ s \in Seq(Component) /\ DOMAIN s = 1..n /\ n \in Nat
    BY ReleaseIs
  <1>2. \A i \in 1..n : s[i] \in Component /\ s[i].size \in Nat /\ keys[i] = -s[i].size
    BY <1>1, ComponentFields
  <1>3. \A i \in 1..n : keys[i] \in Int
    BY <1>2, SMTT(30)
  <1>4. cs = Arranged(s, 1..n, keys)
    BY <1>1, Zenon DEF ComputeSizes, StableSort
  <1> HIDE DEF keys, s, cs, n
  <1>5. IsFiniteSet(1..n) /\ Cardinality(1..n) = n /\ 1..n \in SUBSET Int
    BY <1>1, Segment
  <1>6. Orders(cs, s, 1..n, keys)
    BY <1>3, <1>4, <1>5, ArrangedIs
  <1>7. PICK p : Ordering(p, 1..n, keys) /\ cs = [k \in 1..n |-> s[p[k]]]
    BY <1>5, <1>6 DEF Orders
  <1>8. /\ \A k \in 1..n : p[k] \in 1..n
        /\ \A k, l \in 1..n : p[k] = p[l] => k = l
        /\ \A i \in 1..n : \E k \in 1..n : p[k] = i
        /\ \A k, l \in 1..n : k < l => keys[p[k]] <= keys[p[l]]
    <2>1. \A k \in 1..n : p[k] \in 1..n /\ keys[p[k]] \in Int
      BY <1>3, <1>5, <1>7 DEF Ordering
    <2>2. \A k, l \in 1..n : k < l => keys[p[k]] < keys[p[l]] \/ keys[p[k]] = keys[p[l]]
      BY <1>5, <1>7 DEF Ordering
    <2>3. \A k, l \in 1..n : k < l => keys[p[k]] <= keys[p[l]]
      BY <2>1, <2>2
    <2> QED  BY <1>5, <1>7, <2>1, <2>3 DEF Ordering
  <1>9. /\ cs \in Seq(Component) /\ Len(cs) = n /\ DOMAIN cs = 1..n
        /\ \A k \in 1..n : cs[k] = s[p[k]]
    <2>1. \A k \in 1..n : s[p[k]] \in Component
      BY <1>2, <1>8
    <2> QED  BY <1>1, <1>7, <2>1
  <1>10. Packable(cs)
    <2>1. ASSUME NEW k \in 1..n, NEW l \in 1..n, Identifier(cs[k]) = Identifier(cs[l]) PROVE k = l
      <3>1. p[k] \in 1..n /\ p[l] \in 1..n /\ Identifier(s[p[k]]) = Identifier(s[p[l]])
        BY <1>8, <1>9, <2>1
      <3>2. p[k] = p[l]
        BY <1>1, <3>1 DEF Packable, n
      <3> QED  BY <1>8, <3>2
    <2> QED  BY <1>9, <2>1 DEF Packable
  <1>11. Descending(cs)
    <2>1. ASSUME NEW k \in 1..n, NEW l \in 1..n, k < l PROVE cs[k].size >= cs[l].size
      <3>1. keys[p[k]] <= keys[p[l]] /\ p[k] \in 1..n /\ p[l] \in 1..n
        BY <1>8, <2>1
      <3>2. -s[p[k]].size <= -s[p[l]].size /\ s[p[k]].size \in Nat /\ s[p[l]].size \in Nat
        BY <1>2, <3>1
      <3> QED  BY <1>9, <3>2
    <2> QED  BY <1>9, <2>1 DEF Descending
  <1>12. Identifiers(cs) = Identifiers(s) /\ ToSet(cs) = ToSet(s)
    <2>1. \A k \in 1..n : \E i \in 1..n : cs[k] = s[i]
      BY <1>8, <1>9
    <2>2. ASSUME NEW i \in 1..n PROVE \E k \in 1..n : cs[k] = s[i]
      <3>1. PICK k \in 1..n : p[k] = i
        BY <1>8
      <3> QED  BY <1>9, <3>1
    <2>3. ToSet(cs) = {cs[k] : k \in 1..n} /\ ToSet(s) = {s[i] : i \in 1..n}
      BY <1>1, <1>9 DEF ToSet
    <2>4. /\ Identifiers(cs) = {Identifier(cs[k]) : k \in 1..n}
          /\ Identifiers(s) = {Identifier(s[i]) : i \in 1..n}
      BY <1>1, <1>9 DEF Identifiers
    <2>5. {cs[k] : k \in 1..n} = {s[i] : i \in 1..n}
      BY <2>1, <2>2
    <2>6. {Identifier(cs[k]) : k \in 1..n} = {Identifier(s[i]) : i \in 1..n}
      BY <2>1, <2>2
    <2> QED  BY <2>3, <2>4, <2>5, <2>6
  <1> QED  BY <1>9, <1>10, <1>11, <1>12 DEF s, cs, n

LEMMA RawLayersIs ==
    ASSUME NEW rel, IsRelease(rel)
    PROVE  LET cs == RawLayers(rel)
           IN  /\ Packable(cs) /\ Len(cs) \in Nat
               /\ Identifiers(cs) = Identifiers(rel.components \o rel.empty)
  <1> DEFINE s == rel.components \o rel.empty
             n == Len(s)
             cs == RawLayers(rel)
             sized(c) == [c EXCEPT !.size = 1]
             raw(c) == [sized(c) EXCEPT !.freq = IF @ = MaxFreq THEN MaxFreq ELSE 1]
  <1>1. Packable(s) /\ s \in Seq(Component) /\ DOMAIN s = 1..n /\ n \in Nat
    <2>1. Packable(s)
      BY ReleaseIs
    <2> HIDE DEF s
    <2> QED  BY <2>1 DEF Packable
  <1>2. cs = [i \in DOMAIN s |-> [s[i] EXCEPT !.size = 1, !.freq = IF @ = MaxFreq THEN MaxFreq ELSE 1]]
    BY Zenon DEF RawLayers
  <1>3. cs = [i \in DOMAIN s |-> raw(s[i])]
    <2> HIDE DEF s, cs
    <2> QED  BY <1>2, Zenon
  <1>4. \A c \in Component : raw(c) \in Component /\ Identifier(raw(c)) = Identifier(c)
    <2> SUFFICES ASSUME NEW c \in Component PROVE raw(c) \in Component /\ Identifier(raw(c)) = Identifier(c)
      OBVIOUS
    <2>1. sized(c) \in Component /\ sized(c).name = c.name /\ sized(c).version = c.version
      BY DEF Component
    <2> DEFINE d == sized(c)
    <2> HIDE DEF d
    <2>2. 1 \in 0..MaxFreq /\ MaxFreq \in 0..MaxFreq
      BY MaxFreqAssumption
    <2>3. d \in Component => /\ [d EXCEPT !.freq = IF @ = MaxFreq THEN MaxFreq ELSE 1] \in Component
                             /\ [d EXCEPT !.freq = IF @ = MaxFreq THEN MaxFreq ELSE 1].name = d.name
                             /\ [d EXCEPT !.freq = IF @ = MaxFreq THEN MaxFreq ELSE 1].version = d.version
      BY <2>2 DEF Component
    <2>4. raw(c) \in Component /\ raw(c).name = c.name /\ raw(c).version = c.version
      BY <2>1, <2>3 DEF d
    <2> QED  BY <2>4 DEF Identifier
  <1> HIDE DEF s, cs, raw
  <1>5. \A i \in 1..n : s[i] \in Component /\ raw(s[i]) \in Component /\ Identifier(raw(s[i])) = Identifier(s[i])
    BY <1>1, <1>4
  <1>6. cs \in Seq(Component) /\ Len(cs) = n /\ DOMAIN cs = 1..n /\ \A i \in 1..n : cs[i] = raw(s[i])
    BY <1>1, <1>3, <1>5
  <1>7. \A i \in 1..n : Identifier(cs[i]) = Identifier(s[i])
    BY <1>5, <1>6
  <1>8. Packable(cs)
    BY <1>1, <1>6, <1>7 DEF Packable
  <1>9. Identifiers(cs) = Identifiers(s)
    BY <1>1, <1>6, <1>7 DEF Identifiers
  <1> QED  BY <1>1, <1>6, <1>8, <1>9 DEF s, cs

(***************************************************************************)
(* The limits leave a bin for the large sizes or the rest, and there is    *)
(* always something for a pass to merge while there are too many bins.     *)
(***************************************************************************)
LEMMA Limits ==
    ASSUME bins \in Nat, bins >= 4
    PROVE  /\ MaxFreqBins \in 0..1 /\ LimitHs \in Nat /\ LimitMs \in Nat \ {0} /\ MaxBins \in Nat
           /\ MergeStart = 1 + LimitHs /\ MergeStart <= MaxBins - 1
           /\ MaxBins = bins - 1 - MaxFreqBins
  <1> DEFINE q == bins - (2 + MaxFreqBins)
  <1>1. MaxFreqBins \in 0..1
    BY DEF MaxFreqBins
  <1>2. q \in Nat \ {0}
    BY <1>1
  <1>3. LimitHs = (6 * q) \div 10 /\ LimitMs = bins - (LimitHs + 2 + MaxFreqBins)
    BY DEF LimitHs, LimitMs
  <1> HIDE DEF q
  <1>4. LimitHs \in Nat /\ LimitHs < q
    <2>1. 6 * q \in Nat
      BY <1>2
    <2> DEFINE x == 6 * q
    <2>2. x = 6 * q /\ x \in Nat
      BY <2>1
    <2> HIDE DEF x
    <2>3. (x \div 10) \in Nat /\ (x \div 10) * 10 <= x
      BY <2>2, Quotient
    <2>4. LimitHs = x \div 10
      BY <1>3 DEF x
    <2> HIDE DEF LimitHs
    <2> QED  BY <1>2, <2>2, <2>3, <2>4
  <1> QED  BY <1>1, <1>2, <1>3, <1>4 DEF MaxBins, MergeStart, q

LEMMA ChosenOrder ==
    ASSUME NEW S, NEW s \in Seq(S), NEW I \in SUBSET (1..Len(s))
    PROVE  \E p : /\ Cardinality(I) \in Nat
                  /\ Chosen(s, I) = [k \in 1..Cardinality(I) |-> s[p[k]]]
                  /\ \A k \in 1..Cardinality(I) : p[k] \in I
                  /\ \A k, l \in 1..Cardinality(I) : k < l => p[k] < p[l]
  <1> DEFINE keys == [i \in I |-> i]
  <1>1. \A i \in I : keys[i] \in Int /\ keys[i] = i
    OBVIOUS
  <1>2. IsFiniteSet(I) /\ I \in SUBSET Int /\ Cardinality(I) \in Nat
    <2>1. IsFiniteSet(I) /\ Cardinality(I) \in Nat
      BY <1>1, ArrangedSet, Zenon
    <2>2. I \in SUBSET Int
      OBVIOUS
    <2> QED  BY <2>1, <2>2
  <1>3. Chosen(s, I) = Arranged(s, I, keys)
    BY Zenon DEF Chosen
  <1> HIDE DEF keys
  <1>4. Orders(Arranged(s, I, keys), s, I, keys)
    BY <1>1, <1>2, ArrangedIs
  <1> DEFINE n == Cardinality(I)
  <1>5. PICK p : Ordering(p, I, keys) /\ Chosen(s, I) = [k \in 1..n |-> s[p[k]]]
    BY <1>3, <1>4 DEF Orders
  <1>6. \A k \in 1..n : p[k] \in I
    BY <1>5 DEF Ordering
  <1>7. \A k, l \in 1..n : k < l => keys[p[k]] < keys[p[l]] \/ (keys[p[k]] = keys[p[l]] /\ p[k] < p[l])
    BY <1>5, Zenon DEF Ordering
  <1> HIDE DEF n
  <1>8. \A k, l \in 1..n : k < l => p[k] < p[l]
    BY <1>1, <1>6, <1>7
  <1> QED  BY <1>2, <1>5, <1>6, <1>8 DEF n

(***************************************************************************)
(* What changes in every build and what does not.                          *)
(***************************************************************************)
RegularSet == {c \in ToSet(components) : c.freq # MaxFreq}
FrequentSet == {c \in ToSet(components) : c.freq = MaxFreq}

LEMMA RegularIs ==
    ASSUME Packable(components)
    PROVE  List(Regular, RegularSet) /\ List(Frequent, FrequentSet)
  <1> DEFINE n == Len(components)
             I == {i \in DOMAIN components : components[i].freq # MaxFreq}
             J == {i \in DOMAIN components : components[i].freq = MaxFreq}
  <1>1. List(components, ToSet(components)) /\ DOMAIN components = 1..n
    BY PackableList
  <1>2. I \in SUBSET (1..n) /\ J \in SUBSET (1..n)
    BY <1>1
  <1>3. {components[i] : i \in I} = RegularSet /\ {components[i] : i \in J} = FrequentSet
    BY DEF RegularSet, FrequentSet, ToSet
  <1>4. Regular = Chosen(components, I) /\ Frequent = Chosen(components, J)
    BY Zenon DEF Regular, Frequent
  <1> HIDE DEF I, J
  <1>5. List(Chosen(components, I), {components[i] : i \in I})
    BY <1>1, <1>2, ChosenList
  <1>6. List(Chosen(components, J), {components[i] : i \in J})
    BY <1>1, <1>2, ChosenList
  <1> QED  BY <1>3, <1>4, <1>5, <1>6

LEMMA RegularDescending ==
    ASSUME Packable(components), Descending(components)
    PROVE  Descending(Regular)
  <1> DEFINE n == Len(components)
             I == {i \in DOMAIN components : components[i].freq # MaxFreq}
             m == Cardinality(I)
  <1>1. components \in Seq(Component) /\ I \in SUBSET (1..n) /\ n \in Nat
    BY DEF Packable
  <1>2. Regular = Chosen(components, I)
    BY Zenon DEF Regular
  <1> HIDE DEF I
  <1>3. PICK p : /\ m \in Nat
                 /\ Chosen(components, I) = [k \in 1..m |-> components[p[k]]]
                 /\ \A k \in 1..m : p[k] \in I
                 /\ \A k, l \in 1..m : k < l => p[k] < p[l]
    BY <1>1, ChosenOrder
  <1> HIDE DEF m
  <1>4. Len(Regular) = m /\ \A k \in 1..m : Regular[k] = components[p[k]]
    BY <1>2, <1>3
  <1>5. ASSUME NEW k \in 1..m, NEW l \in 1..m, k < l PROVE Regular[k].size >= Regular[l].size
    <2>1. p[k] \in 1..n /\ p[l] \in 1..n /\ p[k] < p[l]
      BY <1>1, <1>3, <1>5
    <2>2. components[p[k]].size >= components[p[l]].size
      BY <2>1 DEF Descending
    <2> QED  BY <1>4, <2>2
  <1> QED  BY <1>4, <1>5 DEF Descending

(***************************************************************************)
(* The partitions are a partition: between them they have every regular    *)
(* component once.                                                         *)
(***************************************************************************)
LEMMA ListEmpty == List(<<>>, {})
  BY DEF List

LEMMA PartitionsAre ==
    ASSUME Packable(components), bins \in Nat, bins >= 4
    PROVE  \E H, L, R :
              /\ List(Partitions.high, H) /\ List(Partitions.low, L) /\ List(Partitions.rest, R)
              /\ H \intersect L = {} /\ H \intersect R = {} /\ L \intersect R = {}
              /\ H \union L \union R = RegularSet
              /\ Len(Partitions.high) <= LimitHs
  <1> DEFINE cs == Regular
             n == Len(cs)
             median == TwiceMedian(Field(cs, "size"))
             deviation == FourTimesDeviation(Field(cs, "size"))
             class(i) == MedianClass(cs[i].size, median, deviation)
             of(k) == Chosen(cs, {i \in DOMAIN cs : class(i) = k})
             high == of("high")
             tail == SubSeq(high, LimitHs + 1, Len(high))
             rest == tail \o of("medium")
             set(k) == {cs[i] : i \in {i \in DOMAIN cs : class(i) = k}}
  <1>1. /\ List(cs, RegularSet) /\ cs \in Seq(RegularSet) /\ n \in Nat /\ DOMAIN cs = 1..n
        /\ LimitHs \in Nat
    BY RegularIs, Limits DEF List
  <1>2. /\ Partitions.high = SubSeq(high, 1, Min({LimitHs, Len(high)}))
        /\ Partitions.low = of("low")
        /\ Partitions.rest = StableSort(rest, Field(rest, "freq"))
    BY Zenon DEF Partitions
  <1>3. \A i : class(i) \in {"high", "low", "medium"}
    BY DEF MedianClass
  <1> HIDE DEF class
  <1>4. \A k : List(of(k), set(k))
    <2> SUFFICES ASSUME NEW k PROVE List(of(k), set(k))
      OBVIOUS
    <2> DEFINE I == {i \in DOMAIN cs : class(i) = k}
    <2>1. I \in SUBSET (1..n)
      BY <1>1
    <2> HIDE DEF I
    <2>2. List(Chosen(cs, I), {cs[i] : i \in I})
      BY <1>1, <2>1, ChosenList
    <2> QED  BY <2>2 DEF I
  <1>5. \A k, l : k # l => set(k) \intersect set(l) = {}
    BY <1>1 DEF List
  <1>6. set("high") \union set("low") \union set("medium") = RegularSet
    <2>1. \A x \in RegularSet : \E i \in DOMAIN cs : cs[i] = x
      BY <1>1 DEF List
    <2>2. \A i \in DOMAIN cs : cs[i] \in RegularSet
      BY <1>1
    <2> QED  BY <1>3, <2>1, <2>2
  <1> DEFINE HS == set("high")
             LS == set("low")
             MS == set("medium")
             medium == of("medium")
             low == of("low")
             h == Len(high)
             m == IF LimitHs <= h THEN LimitHs ELSE h
  <1>7. /\ List(high, HS) /\ List(low, LS) /\ List(medium, MS)
        /\ HS \intersect LS = {} /\ HS \intersect MS = {} /\ LS \intersect MS = {}
        /\ HS \union LS \union MS = RegularSet
    <2>1. "high" # "low" /\ "high" # "medium" /\ "low" # "medium"
      OBVIOUS
    <2>2. List(high, HS) /\ List(low, LS) /\ List(medium, MS)
      BY <1>4, Zenon
    <2> HIDE DEF set
    <2>3. HS \intersect LS = {} /\ HS \intersect MS = {} /\ LS \intersect MS = {}
      BY <1>5, <2>1, Zenon
    <2> QED  BY <1>6, <2>2, <2>3, Zenon
  <1>8. /\ Partitions.high = SubSeq(high, 1, Min({LimitHs, h})) /\ Partitions.low = low
        /\ Partitions.rest = StableSort(rest, Field(rest, "freq"))
        /\ rest = tail \o medium /\ tail = SubSeq(high, LimitHs + 1, h)
    BY <1>2
  <1> HIDE DEF high, low, medium, HS, LS, MS, rest, tail
  <1>9. high \in Seq(HS) /\ h \in Nat /\ \A i, j \in 1..h : high[i] = high[j] => i = j
    BY <1>7 DEF List
  <1>10. m \in Nat /\ m <= h /\ m <= LimitHs /\ Min({LimitHs, h}) = m
    <2> HIDE DEF h
    <2>1. Min({LimitHs, h}) = m
      BY <1>1, <1>9, MinOfTwo
    <2> QED  BY <1>1, <1>9, <2>1
  <1> DEFINE H == {high[i] : i \in 1..m}
             T == {high[i] : i \in (m + 1)..h}
  <1>11. List(Partitions.high, H) /\ Len(Partitions.high) <= LimitHs
    <2>1. 1 \in Nat \ {0} /\ 1 <= m + 1
      BY <1>10
    <2> HIDE DEF m, h
    <2>2. List(SubSeq(high, 1, m), {high[i] : i \in 1..m})
      <3>1. List(high, HS) /\ 1 \in Nat \ {0} /\ m \in Nat /\ m <= Len(high) /\ 1 <= m + 1
        BY <1>7, <1>10, <2>1 DEF h
      <3> QED  BY <3>1, ListPart, SMTT(30)
    <2>3. Len(SubSeq(high, 1, m)) = m
      BY <1>9, <1>10
    <2> QED  BY <1>1, <1>8, <1>10, <2>2, <2>3
  <1>12. List(tail, T)
    <2>1. CASE LimitHs <= h
      <3> HIDE DEF h
      <3>1. m = LimitHs /\ m + 1 \in Nat \ {0} /\ m + 1 <= h + 1
        BY <1>1, <1>9, <2>1
      <3> HIDE DEF m
      <3>2. List(SubSeq(high, m + 1, h), {high[i] : i \in (m + 1)..h})
        BY <1>7, <1>9, <3>1, ListPart DEF h
      <3> QED  BY <1>8, <3>1, <3>2
    <2>2. CASE LimitHs > h
      <3>1. m = h /\ LimitHs + 1 \in Int /\ h \in Int /\ h < LimitHs + 1
        BY <1>1, <1>9, <2>2
      <3> HIDE DEF m, h
      <3>2. SubSeq(high, LimitHs + 1, h) = <<>>
        BY <3>1, SubSeqEmpty
      <3>3. T = {}
        BY <3>1, <1>9
      <3> QED  BY <1>8, <3>2, <3>3, ListEmpty
    <2> QED  BY <1>1, <1>9, <2>1, <2>2
  <1>13. H \union T = HS /\ H \intersect T = {}
    <2>1. \A x \in HS : \E i \in 1..h : high[i] = x
      BY <1>7 DEF List
    <2>2. \A i \in 1..h : high[i] \in HS /\ (i \in 1..m \/ i \in (m + 1)..h)
      BY <1>9, <1>10
    <2>3. \A i \in 1..m : i \in 1..h
      BY <1>10, <1>9
    <2>4. \A i \in (m + 1)..h : i \in 1..h /\ i \notin 1..m
      BY <1>10, <1>9
    <2> HIDE DEF m, h
    <2>5. H \union T = HS
      BY <2>1, <2>2, <2>3, <2>4
    <2>6. H \intersect T = {}
      BY <1>9, <2>3, <2>4
    <2> QED  BY <2>5, <2>6
  <1> HIDE DEF H, T
  <1> DEFINE R == T \union MS
  <1>14. T \intersect MS = {} /\ H \intersect LS = {} /\ H \intersect R = {} /\ LS \intersect R = {}
         /\ H \union LS \union R = RegularSet
    BY <1>7, <1>13
  <1>15. List(rest, R)
    BY <1>7, <1>8, <1>12, <1>14, ListConcat
  <1> HIDE DEF R
  <1>16. List(Partitions.rest, R)
    <2> DEFINE keys == Field(rest, "freq")
    <2>1. rest \in Seq(R) /\ DOMAIN rest = 1..Len(rest) /\ Len(rest) \in Nat
      BY <1>15 DEF List
    <2>2. R \subseteq Component
      <3>1. RegularSet \subseteq Component
        BY DEF RegularSet, ToSet, Packable
      <3> QED  BY <1>14, <3>1
    <2>3. \A i \in 1..Len(rest) : keys[i] \in Int
      <3> SUFFICES ASSUME NEW i \in 1..Len(rest) PROVE keys[i] \in Int
        OBVIOUS
      <3>1. rest[i] \in Component
        BY <2>1, <2>2
      <3>2. rest[i]["freq"] \in Int
        BY <3>1, ComponentFields, MaxFreqAssumption
      <3> QED  BY <2>1, <3>2 DEF Field
    <2> HIDE DEF keys
    <2>4. List(Arranged(rest, 1..Len(rest), keys), {rest[i] : i \in 1..Len(rest)})
      <3>1. 1..Len(rest) \in SUBSET (1..Len(rest))
        OBVIOUS
      <3> QED  BY <1>15, <2>3, <3>1, ArrangedList
    <2>5. {rest[i] : i \in 1..Len(rest)} = R
      BY <1>15, SMTT(30) DEF List
    <2> QED  BY <1>8, <2>1, <2>4, <2>5 DEF StableSort, keys
  <1> QED  BY <1>7, <1>8, <1>11, <1>14, <1>16

(***************************************************************************)
(* Every pair of classes is the class of one bucket.                       *)
(***************************************************************************)
LEMMA BucketOrderIs ==
    /\ DOMAIN BucketOrder = 1..9
    /\ \A b, c \in 1..9 : BucketOrder[b] = BucketOrder[c] => b = c
    /\ \A f, z \in {"high", "low", "medium"} : \E b \in 1..9 : BucketOrder[b] = <<f, z>>
  <1>1. DOMAIN BucketOrder = 1..9
    BY DEF BucketOrder
  <1>2. /\ BucketOrder[1] = <<"high", "high">> /\ BucketOrder[2] = <<"high", "low">>
        /\ BucketOrder[3] = <<"high", "medium">> /\ BucketOrder[4] = <<"medium", "high">>
        /\ BucketOrder[5] = <<"medium", "low">> /\ BucketOrder[6] = <<"medium", "medium">>
        /\ BucketOrder[7] = <<"low", "high">> /\ BucketOrder[8] = <<"low", "low">>
        /\ BucketOrder[9] = <<"low", "medium">>
    BY DEF BucketOrder
  <1>3. \A b \in 1..9 : b = 1 \/ b = 2 \/ b = 3 \/ b = 4 \/ b = 5 \/ b = 6 \/ b = 7 \/ b = 8 \/ b = 9
    OBVIOUS
  <1>4. /\ 1 \in 1..9 /\ 2 \in 1..9 /\ 3 \in 1..9 /\ 4 \in 1..9 /\ 5 \in 1..9 /\ 6 \in 1..9
        /\ 7 \in 1..9 /\ 8 \in 1..9 /\ 9 \in 1..9
    OBVIOUS
  <1>5. \A b, c \in 1..9 : BucketOrder[b] = BucketOrder[c] => b = c
    BY <1>2, <1>3
  <1>6. \A f, z \in {"high", "low", "medium"} : \E b \in 1..9 : BucketOrder[b] = <<f, z>>
    BY <1>2, <1>4
  <1> QED  BY <1>1, <1>5, <1>6

LEMMA ClassesAre ==
    ASSUME NEW s, NEW i \in DOMAIN s
    PROVE  Classes(s)[i] \in {"high", "low", "medium"}
  <1> DEFINE c == MeanClass(s[i], Len(s), Sum(s), Variance(s))
  <1>1. Classes(s)[i] = c
    BY DEF Classes
  <1>2. c \in {"high", "low", "medium"}
    BY DEF MeanClass
  <1> QED  BY <1>1, <1>2

(***************************************************************************)
(* The buckets are a partition of what is left, so the bins hold every     *)
(* regular component once.                                                 *)
(***************************************************************************)
InBuckets(rest, R) ==
    \E B : /\ \A b \in 1..9 : List(Buckets(rest)[b], B[b])
           /\ \A b, c \in 1..9 : b # c => B[b] \intersect B[c] = {}
           /\ UNION {B[b] : b \in 1..9} = R

LEMMA BucketsAre ==
    ASSUME NEW R, NEW rest, List(rest, R)
    PROVE  InBuckets(rest, R)
  <1> DEFINE n == Len(rest)
             freqs == Classes(Field(rest, "freq"))
             sizes == Classes(Field(rest, "size"))
             class(i) == <<freqs[i], sizes[i]>>
             I(b) == {i \in DOMAIN rest : class(i) = BucketOrder[b]}
             B == [b \in 1..9 |-> {rest[i] : i \in I(b)}]
  <1>1. /\ rest \in Seq(R) /\ n \in Nat /\ DOMAIN rest = 1..n
        /\ (\A i, j \in 1..n : rest[i] = rest[j] => i = j) /\ (\A x \in R : \E i \in 1..n : rest[i] = x)
    BY DEF List
  <1>2. \A b \in 1..9 : Buckets(rest)[b] = Chosen(rest, I(b))
    BY BucketOrderIs, Zenon DEF Buckets
  <1>3. \A i \in 1..n : \E b \in 1..9 : class(i) = BucketOrder[b]
    <2> SUFFICES ASSUME NEW i \in 1..n PROVE \E b \in 1..9 : class(i) = BucketOrder[b]
      OBVIOUS
    <2>1. i \in DOMAIN Field(rest, "freq") /\ i \in DOMAIN Field(rest, "size")
      BY <1>1 DEF Field
    <2>2. freqs[i] \in {"high", "low", "medium"} /\ sizes[i] \in {"high", "low", "medium"}
      BY <2>1, ClassesAre
    <2> HIDE DEF freqs, sizes
    <2> QED  BY <2>2, BucketOrderIs
  <1> HIDE DEF class
  <1>4. ASSUME NEW b \in 1..9 PROVE List(Buckets(rest)[b], B[b])
    <2> DEFINE J == I(b)
    <2>1. J \in SUBSET (1..n)
      BY <1>1
    <2>2. B[b] = {rest[i] : i \in J} /\ Buckets(rest)[b] = Chosen(rest, J)
      BY <1>2
    <2> HIDE DEF J
    <2>3. List(Chosen(rest, J), {rest[i] : i \in J})
      BY <2>1, ChosenList
    <2> QED  BY <2>2, <2>3
  <1>5. ASSUME NEW b \in 1..9, NEW c \in 1..9, b # c PROVE B[b] \intersect B[c] = {}
    <2> SUFFICES ASSUME NEW x \in B[b], x \in B[c] PROVE FALSE
      OBVIOUS
    <2>1. PICK i \in I(b) : x = rest[i]
      OBVIOUS
    <2>2. PICK j \in I(c) : x = rest[j]
      OBVIOUS
    <2>3. i = j
      BY <1>1, <2>1, <2>2
    <2>4. BucketOrder[b] = BucketOrder[c]
      BY <2>1, <2>2, <2>3
    <2> QED  BY <1>5, <2>4, BucketOrderIs
  <1>6. UNION {B[b] : b \in 1..9} = R
    <2>1. ASSUME NEW x \in R PROVE \E b \in 1..9 : x \in B[b]
      <3>1. PICK i \in 1..n : rest[i] = x
        BY <1>1
      <3>2. PICK b \in 1..9 : class(i) = BucketOrder[b]
        BY <1>3
      <3> QED  BY <1>1, <3>1, <3>2
    <2>2. \A b \in 1..9 : B[b] \subseteq R
      BY <1>1
    <2> HIDE DEF B
    <2> QED  BY <2>1, <2>2
  <1> HIDE DEF B
  <1> QED  BY <1>4, <1>5, <1>6 DEF InBuckets

\* High sizes first, each on its own, then the low ones together.
Opens(t, p) ==
    /\ Len(p.high) <= Len(t)
    /\ \A i \in 1..Len(p.high) : t[i] = <<p.high[i]>>
    /\ p.low # <<>> => Len(p.high) + 1 <= Len(t) /\ t[Len(p.high) + 1] = p.low

LEMMA BinsTile ==
    ASSUME NEW p, NEW H, NEW L, NEW R, List(p.high, H), List(p.low, L), List(p.rest, R),
           H \intersect L = {}, H \intersect R = {}, L \intersect R = {}, NEW per \in Nat
    PROVE  Tiles(BinsOf(p, per), H \union L \union R) /\ Opens(BinsOf(p, per), p)
  <1> DEFINE of(b) == Cut(Buckets(p.rest)[b], per)
             head == Singletons(p.high)
             lows == IF p.low = <<>> THEN <<>> ELSE <<p.low>>
             t0 == head \o lows
             t1 == t0 \o of(1)
             t2 == t1 \o of(2)
             t3 == t2 \o of(3)
             t4 == t3 \o of(4)
             t5 == t4 \o of(5)
             t6 == t5 \o of(6)
             t7 == t6 \o of(7)
             t8 == t7 \o of(8)
             t9 == t8 \o of(9)
  <1>1. BinsOf(p, per) = t9
    BY Zenon DEF BinsOf
  <1>2. PICK B : /\ \A b \in 1..9 : List(Buckets(p.rest)[b], B[b])
                 /\ \A b, c \in 1..9 : b # c => B[b] \intersect B[c] = {}
                 /\ UNION {B[b] : b \in 1..9} = R
    <2>1. InBuckets(p.rest, R)
      BY BucketsAre
    <2> QED  BY <2>1 DEF InBuckets
  <1> DEFINE V(k) == H \union L \union UNION {B[b] : b \in 1..k}
  <1>3. \A b \in 1..9 : Tiles(of(b), B[b])
    BY <1>2, TilesCut
  <1>4. \A b \in 1..9 : V(b - 1) \intersect B[b] = {} /\ V(b - 1) \union B[b] = V(b)
    <2> SUFFICES ASSUME NEW b \in 1..9 PROVE V(b - 1) \intersect B[b] = {} /\ V(b - 1) \union B[b] = V(b)
      OBVIOUS
    <2>1. B[b] \subseteq R
      BY <1>2
    <2>2. \A c \in 1..(b - 1) : c \in 1..9 /\ c # b /\ c \in 1..b
      OBVIOUS
    <2>3. \A c \in 1..b : c \in 1..(b - 1) \/ c = b
      OBVIOUS
    <2>4. \A c \in 1..(b - 1) : B[c] \intersect B[b] = {}
      BY <1>2, <2>2
    <2>5. V(b - 1) \intersect B[b] = {}
      BY <2>1, <2>4
    <2>6. b \in 1..b
      OBVIOUS
    <2>7. UNION {B[c] : c \in 1..b} = (UNION {B[c] : c \in 1..(b - 1)}) \union B[b]
      <3> SUFFICES ASSUME NEW x
                   PROVE  (\E c \in 1..b : x \in B[c]) <=> (\E c \in 1..(b - 1) : x \in B[c]) \/ x \in B[b]
        BY Zenon
      <3>1. ASSUME NEW c \in 1..b, x \in B[c] PROVE (\E d \in 1..(b - 1) : x \in B[d]) \/ x \in B[b]
        BY <2>3, <3>1
      <3>2. ASSUME NEW c \in 1..(b - 1), x \in B[c] PROVE \E d \in 1..b : x \in B[d]
        BY <2>2, <3>2
      <3> QED  BY <2>6, <3>1, <3>2
    <2> QED  BY <2>5, <2>7
  <1>5. /\ Tiles(head, H) /\ Len(head) = Len(p.high)
        /\ \A i \in 1..Len(p.high) : head[i] = <<p.high[i]>>
    BY TilesSingletons
  <1>6. Tiles(lows, L)
    <2>1. CASE p.low = <<>>
      <3>1. L = {}
        BY <2>1 DEF List
      <3> QED  BY <2>1, <3>1, TilesNone
    <2>2. CASE p.low # <<>>
      BY <2>2, TilesOne
    <2> QED  BY <2>1, <2>2
  <1>7. Tiles(t0, V(0))
    <2>1. Tiles(t0, H \union L)
      BY <1>5, <1>6, TilesConcat
    <2>2. V(0) = H \union L
      <3>1. 1..0 = {}
        OBVIOUS
      <3> QED  BY <3>1
    <2> QED  BY <2>1, <2>2
  <1>8. V(9) = H \union L \union R
    BY <1>2
  <1> HIDE DEF V, of
  <1>9. \A t : \A b \in 1..9 : Tiles(t, V(b - 1)) => Tiles(t \o of(b), V(b))
    <2> SUFFICES ASSUME NEW t, NEW b \in 1..9, Tiles(t, V(b - 1)) PROVE Tiles(t \o of(b), V(b))
      OBVIOUS
    <2> DEFINE W == V(b - 1)
               C == B[b]
               u == of(b)
    <2>1. Tiles(t, W) /\ Tiles(u, C) /\ W \intersect C = {} /\ V(b) = W \union C
      BY <1>3, <1>4
    <2> HIDE DEF W, C, u
    <2>2. Tiles(t \o u, W \union C)
      BY <2>1, TilesConcat
    <2> QED  BY <2>1, <2>2 DEF u
  <1>10. \A t : /\ (Tiles(t, V(0)) => Tiles(t \o of(1), V(1))) /\ (Tiles(t, V(1)) => Tiles(t \o of(2), V(2)))
                /\ (Tiles(t, V(2)) => Tiles(t \o of(3), V(3))) /\ (Tiles(t, V(3)) => Tiles(t \o of(4), V(4)))
                /\ (Tiles(t, V(4)) => Tiles(t \o of(5), V(5))) /\ (Tiles(t, V(5)) => Tiles(t \o of(6), V(6)))
                /\ (Tiles(t, V(6)) => Tiles(t \o of(7), V(7))) /\ (Tiles(t, V(7)) => Tiles(t \o of(8), V(8)))
                /\ (Tiles(t, V(8)) => Tiles(t \o of(9), V(9)))
    <2> SUFFICES ASSUME NEW t PROVE
                /\ (Tiles(t, V(0)) => Tiles(t \o of(1), V(1))) /\ (Tiles(t, V(1)) => Tiles(t \o of(2), V(2)))
                /\ (Tiles(t, V(2)) => Tiles(t \o of(3), V(3))) /\ (Tiles(t, V(3)) => Tiles(t \o of(4), V(4)))
                /\ (Tiles(t, V(4)) => Tiles(t \o of(5), V(5))) /\ (Tiles(t, V(5)) => Tiles(t \o of(6), V(6)))
                /\ (Tiles(t, V(6)) => Tiles(t \o of(7), V(7))) /\ (Tiles(t, V(7)) => Tiles(t \o of(8), V(8)))
                /\ (Tiles(t, V(8)) => Tiles(t \o of(9), V(9)))
      OBVIOUS
    <2>1. \A b \in 1..9 : Tiles(t, V(b - 1)) => Tiles(t \o of(b), V(b))
      BY <1>9
    <2>2. /\ 1 \in 1..9 /\ 2 \in 1..9 /\ 3 \in 1..9 /\ 4 \in 1..9 /\ 5 \in 1..9 /\ 6 \in 1..9
          /\ 7 \in 1..9 /\ 8 \in 1..9 /\ 9 \in 1..9
      OBVIOUS
    <2>3. /\ 1 - 1 = 0 /\ 2 - 1 = 1 /\ 3 - 1 = 2 /\ 4 - 1 = 3 /\ 5 - 1 = 4 /\ 6 - 1 = 5 /\ 7 - 1 = 6
          /\ 8 - 1 = 7 /\ 9 - 1 = 8
      OBVIOUS
    <2> QED  BY <2>1, <2>2, <2>3
  <1> HIDE DEF t0, t1, t2, t3, t4, t5, t6, t7, t8, t9
  <1>11. Tiles(t1, V(1))
    BY <1>7, <1>10, Zenon DEF t1
  <1>12. Tiles(t2, V(2))
    BY <1>11, <1>10, Zenon DEF t2
  <1>13. Tiles(t3, V(3))
    BY <1>12, <1>10, Zenon DEF t3
  <1>14. Tiles(t4, V(4))
    BY <1>13, <1>10, Zenon DEF t4
  <1>15. Tiles(t5, V(5))
    BY <1>14, <1>10, Zenon DEF t5
  <1>16. Tiles(t6, V(6))
    BY <1>15, <1>10, Zenon DEF t6
  <1>17. Tiles(t7, V(7))
    BY <1>16, <1>10, Zenon DEF t7
  <1>18. Tiles(t8, V(8))
    BY <1>17, <1>10, Zenon DEF t8
  <1>19. Tiles(t9, V(9))
    BY <1>18, <1>10, Zenon DEF t9
  <1> DEFINE Starts(t) == Len(t0) \in Nat /\ Len(t0) <= Len(t) /\ \A i \in 1..Len(t0) : t[i] = t0[i]
  <1>20. \A t : \A b \in 1..9 : Tiles(t, V(b - 1)) /\ Starts(t) => Starts(t \o of(b))
    <2> SUFFICES ASSUME NEW t, NEW b \in 1..9, Tiles(t, V(b - 1)), Starts(t) PROVE Starts(t \o of(b))
      OBVIOUS
    <2> DEFINE S == V(b - 1) \union B[b]
               u == of(b)
    <2>1. t \in Seq(Seq(S)) /\ u \in Seq(Seq(S))
      <3>1. t \in Seq(Seq(V(b - 1))) /\ u \in Seq(Seq(B[b]))
        BY <1>3, Zenon DEF Tiles
      <3>2. V(b - 1) \subseteq S /\ B[b] \subseteq S
        OBVIOUS
      <3> HIDE DEF S
      <3> QED  BY <3>1, <3>2, Wider
    <2> HIDE DEF S, u
    <2>2. /\ Len(t \o u) = Len(t) + Len(u) /\ Len(t) \in Nat /\ Len(u) \in Nat
          /\ \A i \in 1..Len(t) : (t \o u)[i] = t[i]
      BY <2>1, Concat
    <2>3. \A i \in 1..Len(t0) : i \in 1..Len(t)
      BY <2>2
    <2>4. Starts(t \o u)
      BY <2>2, <2>3
    <2> QED  BY <2>4 DEF u
  <1>21. Starts(t0)
    <2>1. t0 \in Seq(Seq(V(0)))
      BY <1>7, Zenon DEF Tiles
    <2> QED  BY <2>1
  <1> HIDE DEF Starts
  <1>22. \A t : /\ (Tiles(t, V(0)) /\ Starts(t) => Starts(t \o of(1))) /\ (Tiles(t, V(1)) /\ Starts(t) => Starts(t \o of(2)))
                /\ (Tiles(t, V(2)) /\ Starts(t) => Starts(t \o of(3))) /\ (Tiles(t, V(3)) /\ Starts(t) => Starts(t \o of(4)))
                /\ (Tiles(t, V(4)) /\ Starts(t) => Starts(t \o of(5))) /\ (Tiles(t, V(5)) /\ Starts(t) => Starts(t \o of(6)))
                /\ (Tiles(t, V(6)) /\ Starts(t) => Starts(t \o of(7))) /\ (Tiles(t, V(7)) /\ Starts(t) => Starts(t \o of(8)))
                /\ (Tiles(t, V(8)) /\ Starts(t) => Starts(t \o of(9)))
    <2>1. /\ 1 \in 1..9 /\ 2 \in 1..9 /\ 3 \in 1..9 /\ 4 \in 1..9 /\ 5 \in 1..9 /\ 6 \in 1..9
          /\ 7 \in 1..9 /\ 8 \in 1..9 /\ 9 \in 1..9
      OBVIOUS
    <2>2. /\ 1 - 1 = 0 /\ 2 - 1 = 1 /\ 3 - 1 = 2 /\ 4 - 1 = 3 /\ 5 - 1 = 4 /\ 6 - 1 = 5 /\ 7 - 1 = 6
          /\ 8 - 1 = 7 /\ 9 - 1 = 8
      OBVIOUS
    <2> QED  BY <1>20, <2>1, <2>2
  <1>23. Starts(t1) /\ Starts(t2) /\ Starts(t3)
    BY <1>7, <1>11, <1>12, <1>21, <1>22, Zenon DEF t1, t2, t3
  <1>24. Starts(t4) /\ Starts(t5) /\ Starts(t6)
    BY <1>13, <1>14, <1>15, <1>22, <1>23, Zenon DEF t4, t5, t6
  <1>25. Starts(t7) /\ Starts(t8) /\ Starts(t9)
    BY <1>16, <1>17, <1>18, <1>22, <1>24, Zenon DEF t7, t8, t9
  <1>26. /\ Len(t0) = Len(p.high) + Len(lows) /\ Len(p.high) \in Nat /\ Len(lows) \in Nat
         /\ \A i \in 1..Len(p.high) : t0[i] = head[i]
         /\ \A i \in 1..Len(lows) : t0[Len(p.high) + i] = lows[i]
    <2> DEFINE S == H \union L
    <2>1. head \in Seq(Seq(S)) /\ lows \in Seq(Seq(S))
      <3>1. head \in Seq(Seq(H)) /\ lows \in Seq(Seq(L))
        BY <1>5, <1>6, Zenon DEF Tiles
      <3>2. H \subseteq S /\ L \subseteq S
        OBVIOUS
      <3> HIDE DEF S, head, lows
      <3> QED  BY <3>1, <3>2, Wider
    <2> HIDE DEF S, head, lows
    <2>2. /\ Len(head \o lows) = Len(head) + Len(lows) /\ Len(head) \in Nat /\ Len(lows) \in Nat
          /\ \A i \in 1..Len(head) : (head \o lows)[i] = head[i]
          /\ \A i \in 1..Len(lows) : (head \o lows)[Len(head) + i] = lows[i]
      BY <2>1, Concat
    <2> QED  BY <1>5, <2>2 DEF t0
  <1>27. /\ Len(p.high) <= Len(t9) /\ \A i \in 1..Len(p.high) : t9[i] = <<p.high[i]>>
    <2> HIDE DEF head, lows
    <2>1. \A i \in 1..Len(p.high) : i \in 1..Len(t0)
      BY <1>26
    <2>2. Len(t0) <= Len(t9) /\ \A i \in 1..Len(t0) : t9[i] = t0[i]
      BY <1>25 DEF Starts
    <2>3. Len(t9) \in Nat
      <3>1. t9 \in Seq(Seq(V(9)))
        BY <1>19, Zenon DEF Tiles
      <3> QED  BY <3>1
    <2>4. \A i \in 1..Len(p.high) : t9[i] = <<p.high[i]>>
      BY <1>5, <1>26, <2>1, <2>2
    <2> QED  BY <1>26, <2>2, <2>3, <2>4
  <1>28. ASSUME p.low # <<>> PROVE Len(p.high) + 1 <= Len(t9) /\ t9[Len(p.high) + 1] = p.low
    <2>1. Len(lows) = 1 /\ lows[1] = p.low
      BY <1>28
    <2> HIDE DEF head, lows
    <2>2. t0[Len(p.high) + 1] = p.low /\ Len(p.high) + 1 \in 1..Len(t0) /\ Len(t0) = Len(p.high) + 1
      BY <1>26, <2>1
    <2> QED  BY <1>25, <2>2 DEF Starts
  <1> QED  BY <1>1, <1>8, <1>19, <1>27, <1>28 DEF Opens

-----------------------------------------------------------------------------
(***************************************************************************)
(* Merging.  Where two bins are merged the one behind them moves in front; *)
(* a pass merges only behind the bins of the large components.             *)
(***************************************************************************)
Merged(t, s, i) ==
    /\ Len(t) = Len(s) - 1
    /\ \A k \in 1..(i - 1) : t[k] = s[k]
    /\ t[i] = s[i + 2] /\ t[i + 1] = s[i] \o s[i + 1]
    /\ \A k \in (i + 2)..Len(t) : t[k] = s[k + 1]

LEMMA RemoveAtIs ==
    ASSUME NEW V, NEW s \in Seq(V), NEW i \in 1..Len(s)
    PROVE  /\ RemoveAt(s, i) \in Seq(V) /\ Len(RemoveAt(s, i)) = Len(s) - 1
           /\ \A k \in 1..(i - 1) : RemoveAt(s, i)[k] = s[k]
           /\ \A k \in i..(Len(s) - 1) : RemoveAt(s, i)[k] = s[k + 1]
  <1> DEFINE n == Len(s)
             a == SubSeq(s, 1, i - 1)
             b == SubSeq(s, i + 1, n)
             t == RemoveAt(s, i)
  <1>1. n \in Nat /\ i \in 1..n /\ t = a \o b
    BY DEF RemoveAt
  <1>2. a \in Seq(V) /\ Len(a) = i - 1 /\ \A k \in 1..(i - 1) : a[k] = s[k]
    OBVIOUS
  <1>3. b \in Seq(V) /\ Len(b) = n - i /\ \A k \in 1..(n - i) : b[k] = s[k + i]
    OBVIOUS
  <1> HIDE DEF n, a, b, t
  <1>4. a \in Seq(V) /\ b \in Seq(V)
    BY <1>2, <1>3
  <1>5. /\ t \in Seq(V) /\ Len(t) = Len(a) + Len(b)
        /\ \A k \in 1..Len(a) : t[k] = a[k]
        /\ \A k \in 1..Len(b) : t[Len(a) + k] = b[k]
    BY <1>1, <1>4, Concat
  <1>6. Len(t) = n - 1 /\ \A k \in 1..(i - 1) : t[k] = s[k]
    BY <1>1, <1>2, <1>3, <1>5
  <1>7. ASSUME NEW k \in i..(n - 1) PROVE t[k] = s[k + 1]
    <2>1. k - (i - 1) \in 1..Len(b) /\ Len(a) + (k - (i - 1)) = k /\ (k - (i - 1)) + i = k + 1
      BY <1>1, <1>2, <1>3
    <2>2. t[k] = b[k - (i - 1)]
      BY <1>5, <2>1
    <2>3. k - (i - 1) \in 1..(n - i)
      BY <1>3, <2>1
    <2> QED  BY <1>3, <2>1, <2>2, <2>3
  <1> QED  BY <1>5, <1>6, <1>7 DEF n, t

LEMMA InsertAtIs ==
    ASSUME NEW V, NEW s \in Seq(V), NEW e \in V, NEW i \in 1..(Len(s) + 1)
    PROVE  /\ InsertAt(s, i, e) \in Seq(V) /\ Len(InsertAt(s, i, e)) = Len(s) + 1
           /\ \A k \in 1..(i - 1) : InsertAt(s, i, e)[k] = s[k]
           /\ InsertAt(s, i, e)[i] = e
           /\ \A k \in (i + 1)..(Len(s) + 1) : InsertAt(s, i, e)[k] = s[k - 1]
  <1> DEFINE n == Len(s)
             a == SubSeq(s, 1, i - 1)
             b == SubSeq(s, i, n)
             c == <<e>>
             x == a \o c
             t == InsertAt(s, i, e)
  <1>1. n \in Nat /\ i \in 1..(n + 1) /\ t = x \o b
    BY DEF InsertAt
  <1>2. a \in Seq(V) /\ Len(a) = i - 1 /\ \A k \in 1..(i - 1) : a[k] = s[k]
    OBVIOUS
  <1>3. b \in Seq(V) /\ Len(b) = n + 1 - i /\ \A k \in 1..(n + 1 - i) : b[k] = s[k + i - 1]
    OBVIOUS
  <1>4. c \in Seq(V) /\ Len(c) = 1 /\ c[1] = e
    OBVIOUS
  <1> HIDE DEF n, a, b, c, t
  <1>5. a \in Seq(V) /\ b \in Seq(V) /\ c \in Seq(V)
    BY <1>2, <1>3, <1>4
  <1>6. /\ x \in Seq(V) /\ Len(x) = Len(a) + Len(c)
        /\ \A k \in 1..Len(a) : x[k] = a[k]
        /\ \A k \in 1..Len(c) : x[Len(a) + k] = c[k]
    BY <1>5, Concat
  <1>7. Len(x) = i /\ x[i] = e /\ \A k \in 1..(i - 1) : x[k] = s[k]
    <2>1. 1 \in 1..Len(c) /\ Len(a) + 1 = i
      BY <1>1, <1>2, <1>4
    <2>2. x[i] = e
      BY <1>4, <1>6, <2>1
    <2> QED  BY <1>1, <1>2, <1>4, <1>6, <2>2
  <1> HIDE DEF x
  <1>8. x \in Seq(V) /\ b \in Seq(V)
    BY <1>5, <1>6
  <1>9. /\ t \in Seq(V) /\ Len(t) = Len(x) + Len(b)
        /\ \A k \in 1..Len(x) : t[k] = x[k]
        /\ \A k \in 1..Len(b) : t[Len(x) + k] = b[k]
    BY <1>1, <1>8, Concat
  <1>10. Len(t) = n + 1 /\ t[i] = e /\ \A k \in 1..(i - 1) : t[k] = s[k]
    BY <1>1, <1>3, <1>7, <1>9
  <1>11. ASSUME NEW k \in (i + 1)..(n + 1) PROVE t[k] = s[k - 1]
    <2>1. k - i \in 1..Len(b) /\ Len(x) + (k - i) = k /\ (k - i) + i - 1 = k - 1
      BY <1>1, <1>3, <1>7
    <2>2. t[k] = b[k - i]
      BY <1>9, <2>1
    <2>3. k - i \in 1..(n + 1 - i)
      BY <1>3, <2>1
    <2> QED  BY <1>3, <2>1, <2>2, <2>3
  <1> QED  BY <1>9, <1>10, <1>11 DEF n, t

LEMMA MergeAtIs ==
    ASSUME NEW S, NEW s \in Seq(Seq(S)), NEW i \in Nat \ {0}, i + 2 <= Len(s)
    PROVE  MergeAt(s, i) \in Seq(Seq(S)) /\ Merged(MergeAt(s, i), s, i)
  <1> DEFINE n == Len(s)
             V == Seq(S)
             e == s[i] \o s[i + 1]
             j == i + 1
             u == RemoveAt(s, j)
             v == RemoveAt(u, i)
             t == InsertAt(v, j, e)
  <1>1. n \in Nat /\ s \in Seq(V) /\ s[i] \in Seq(S) /\ s[i + 1] \in Seq(S) /\ i + 2 <= n
    OBVIOUS
  <1>2. e \in V /\ MergeAt(s, i) = t
    BY <1>1 DEF MergeAt
  <1>3. j \in 1..n /\ j = i + 1
    BY <1>1
  <1> HIDE DEF V, e, j
  <1>4. /\ u \in Seq(V) /\ Len(u) = Len(s) - 1
        /\ \A k \in 1..(j - 1) : u[k] = s[k]
        /\ \A k \in j..(Len(s) - 1) : u[k] = s[k + 1]
    BY <1>1, <1>3, RemoveAtIs
  <1> HIDE DEF u, n
  <1>5. i \in 1..Len(u)
    BY <1>1, <1>4 DEF n
  <1>6. /\ v \in Seq(V) /\ Len(v) = Len(u) - 1
        /\ \A k \in 1..(i - 1) : v[k] = u[k]
        /\ \A k \in i..(Len(u) - 1) : v[k] = u[k + 1]
    BY <1>4, <1>5, RemoveAtIs
  <1> HIDE DEF v
  <1>7. j \in 1..(Len(v) + 1)
    BY <1>1, <1>3, <1>4, <1>6 DEF n
  <1>8. /\ t \in Seq(V) /\ Len(t) = Len(v) + 1
        /\ \A k \in 1..(j - 1) : t[k] = v[k]
        /\ t[j] = e
        /\ \A k \in (j + 1)..(Len(v) + 1) : t[k] = v[k - 1]
    BY <1>2, <1>6, <1>7, InsertAtIs
  <1> HIDE DEF t
  <1>9. Len(u) = n - 1 /\ Len(v) = n - 2 /\ Len(t) = n - 1 /\ i \in 1..(n - 2)
    BY <1>1, <1>4, <1>6, <1>8 DEF n
  <1>10. ASSUME NEW k \in 1..(i - 1) PROVE t[k] = s[k]
    <2>1. k \in 1..(j - 1)
      BY <1>1, <1>3
    <2> QED  BY <1>4, <1>6, <1>8, <2>1
  <1>11. t[i] = s[i + 2]
    <2>1. i \in 1..(j - 1) /\ i \in i..(Len(u) - 1) /\ i + 1 \in j..(Len(s) - 1) /\ i + 1 + 1 = i + 2
      BY <1>1, <1>3, <1>9 DEF n
    <2>2. t[i] = v[i] /\ v[i] = u[i + 1] /\ u[i + 1] = s[i + 1 + 1]
      BY <1>4, <1>6, <1>8, <2>1
    <2> QED  BY <2>1, <2>2
  <1>12. ASSUME NEW k \in (i + 2)..(n - 1) PROVE t[k] = s[k + 1]
    <2>1. /\ k \in (j + 1)..(Len(v) + 1) /\ k - 1 \in i..(Len(u) - 1) /\ k - 1 + 1 = k
          /\ k \in j..(Len(s) - 1)
      BY <1>1, <1>3, <1>9 DEF n
    <2>2. t[k] = v[k - 1] /\ v[k - 1] = u[k - 1 + 1] /\ u[k] = s[k + 1]
      BY <1>4, <1>6, <1>8, <2>1
    <2> QED  BY <2>1, <2>2
  <1>13. Merged(t, s, i)
    BY <1>3, <1>8, <1>9, <1>10, <1>11, <1>12 DEF Merged, e, n
  <1> QED  BY <1>2, <1>8, <1>13 DEF V

(***************************************************************************)
(* Together(s, A): a bin that has one component of A has them all.         *)
(***************************************************************************)
Together(s, A) ==
    \A k \in 1..Len(s) : \A l \in 1..Len(s[k]) :
        s[k][l] \in A => \A d \in A : \E j \in 1..Len(s[k]) : s[k][j] = d

LEMMA TilesMerge ==
    ASSUME NEW X, NEW s, Tiles(s, X), NEW i \in Nat \ {0}, i + 2 <= Len(s),
           NEW t \in Seq(Seq(X)), Merged(t, s, i), NEW A, Together(s, A)
    PROVE  Tiles(t, X) /\ Together(t, A)
  <1> DEFINE n == Len(s)
             m == Len(s[i])
             a(k, l) == IF k < i THEN k ELSE IF k = i THEN i + 2
                        ELSE IF k = i + 1 THEN (IF l <= m THEN i ELSE i + 1) ELSE k + 1
             b(k, l) == IF k = i + 1 /\ l > m THEN l - m ELSE l
  <1>1. /\ s \in Seq(Seq(X)) /\ n \in Nat /\ i + 2 <= n
        /\ \A c \in 1..n : s[c] \in Seq(X) /\ Len(s[c]) \in Nat
    BY DEF Tiles
  <1>2. i \in 1..n /\ i + 1 \in 1..n /\ i + 2 \in 1..n /\ m \in Nat
    BY <1>1
  <1>3. /\ Len(t) = n - 1
        /\ \A k \in 1..(i - 1) : t[k] = s[k]
        /\ t[i] = s[i + 2] /\ t[i + 1] = s[i] \o s[i + 1]
        /\ \A k \in (i + 2)..(n - 1) : t[k] = s[k + 1]
    BY DEF Merged
  <1>4. /\ Len(t[i + 1]) = m + Len(s[i + 1]) /\ Len(s[i + 1]) \in Nat
        /\ \A l \in 1..m : t[i + 1][l] = s[i][l]
        /\ \A l \in 1..Len(s[i + 1]) : t[i + 1][m + l] = s[i + 1][l]
    <2>1. s[i] \in Seq(X) /\ s[i + 1] \in Seq(X)
      BY <1>1, <1>2
    <2> DEFINE y == s[i]
               z == s[i + 1]
    <2>2. y \in Seq(X) /\ z \in Seq(X) /\ t[i + 1] = y \o z
      BY <1>3, <2>1
    <2> HIDE DEF y, z
    <2>3. /\ Len(y \o z) = Len(y) + Len(z) /\ Len(z) \in Nat
          /\ \A l \in 1..Len(y) : (y \o z)[l] = y[l]
          /\ \A l \in 1..Len(z) : (y \o z)[Len(y) + l] = z[l]
      BY <2>2, Concat
    <2> QED  BY <2>2, <2>3 DEF y, z
  <1> HIDE DEF n, m
  <1>5. ASSUME NEW k \in 1..(n - 1), NEW l \in 1..Len(t[k])
        PROVE  /\ a(k, l) \in 1..n /\ b(k, l) \in 1..Len(s[a(k, l)])
               /\ t[k][l] = s[a(k, l)][b(k, l)]
               /\ \A c \in 1..Len(s[a(k, l)]) : \E j \in 1..Len(t[k]) : t[k][j] = s[a(k, l)][c]
    <2>1. k \in Nat /\ l \in Nat /\ l > 0 /\ k > 0
      <3>1. t[k] \in Seq(X)
        BY <1>3
      <3> QED  BY <1>1, <3>1
    <2>2. CASE k < i
      <3>1. a(k, l) = k /\ b(k, l) = l /\ k \in 1..(i - 1) /\ k \in 1..n
        BY <1>1, <2>1, <2>2
      <3>2. t[k] = s[k]
        BY <1>3, <3>1
      <3> QED  BY <3>1, <3>2
    <2>3. CASE k = i
      <3>1. a(k, l) = i + 2 /\ b(k, l) = l
        BY <2>1, <2>3
      <3>2. t[k] = s[i + 2]
        BY <1>3, <2>3
      <3> HIDE DEF a, b
      <3> QED  BY <1>2, <3>1, <3>2
    <2>4. CASE k = i + 1 /\ l <= m
      <3>1. a(k, l) = i /\ b(k, l) = l /\ l \in 1..m
        BY <1>2, <2>1, <2>4
      <3>2. \A c \in 1..m : c \in 1..Len(t[k]) /\ t[k][c] = s[i][c]
        BY <1>2, <1>4, <2>4
      <3> HIDE DEF a, b
      <3> QED  BY <1>2, <3>1, <3>2 DEF m
    <2>5. CASE k = i + 1 /\ l > m
      <3>1. a(k, l) = i + 1 /\ b(k, l) = l - m /\ l - m \in 1..Len(s[i + 1]) /\ m + (l - m) = l
        BY <1>2, <1>4, <2>1, <2>5, SMTT(30)
      <3>2. \A c \in 1..Len(s[i + 1]) : m + c \in 1..Len(t[k]) /\ t[k][m + c] = s[i + 1][c]
        BY <1>2, <1>4, <2>5, SMTT(30)
      <3>3. t[k][l] = s[i + 1][l - m]
        BY <3>1, <3>2
      <3>4. \A c \in 1..Len(s[i + 1]) : \E j \in 1..Len(t[k]) : t[k][j] = s[i + 1][c]
        BY <3>2
      <3> HIDE DEF a, b
      <3> QED  BY <1>2, <3>1, <3>3, <3>4
    <2>6. CASE k > i + 1
      <3>1. a(k, l) = k + 1 /\ b(k, l) = l /\ k + 1 \in 1..n /\ k \in (i + 2)..(n - 1)
        BY <1>1, <2>1, <2>6
      <3>2. t[k] = s[k + 1]
        BY <1>3, <3>1
      <3> HIDE DEF a, b
      <3> QED  BY <3>1, <3>2
    <2> QED  BY <1>2, <2>1, <2>2, <2>3, <2>4, <2>5, <2>6
  <1>6. ASSUME NEW k \in Nat, NEW l \in Nat, NEW c \in Nat, NEW d \in Nat,
               a(k, l) = a(c, d), b(k, l) = b(c, d)
        PROVE  k = c /\ l = d
    BY <1>2, <1>6
  <1> HIDE DEF a, b
  <1>7. ASSUME NEW k \in 1..(n - 1), NEW c \in 1..(n - 1), NEW l \in 1..Len(t[k]), NEW d \in 1..Len(t[c]),
               t[k][l] = t[c][d]
        PROVE  k = c /\ l = d
    <2> DEFINE ka == a(k, l)
               kb == b(k, l)
               ca == a(c, d)
               cb == b(c, d)
    <2>1. /\ ka \in 1..n /\ kb \in 1..Len(s[ka]) /\ ca \in 1..n /\ cb \in 1..Len(s[ca])
          /\ s[ka][kb] = s[ca][cb]
      BY <1>5, <1>7
    <2>2. \A e, f \in 1..n : \A x \in 1..Len(s[e]) : \A y \in 1..Len(s[f]) :
              s[e][x] = s[f][y] => e = f /\ x = y
      BY Zenon DEF Tiles, n
    <2>3. k \in Nat /\ l \in Nat /\ c \in Nat /\ d \in Nat
      <3>1. t[k] \in Seq(X) /\ t[c] \in Seq(X)
        BY <1>3
      <3> QED  BY <1>1, <3>1
    <2> HIDE DEF ka, kb, ca, cb
    <2>4. ka = ca /\ kb = cb
      BY <2>1, <2>2
    <2> QED  BY <1>6, <2>3, <2>4 DEF ka, kb, ca, cb
  <1>8. ASSUME NEW x \in X PROVE \E k \in 1..(n - 1) : \E l \in 1..Len(t[k]) : t[k][l] = x
    <2>1. PICK c \in 1..n : \E d \in 1..Len(s[c]) : s[c][d] = x
      BY DEF Tiles, n
    <2>2. PICK d \in 1..Len(s[c]) : s[c][d] = x
      BY <2>1
    <2>3. c \in Nat /\ d \in Nat /\ c > 0 /\ d > 0
      BY <1>1
    <2>4. CASE c < i
      <3>1. c \in 1..(n - 1) /\ c \in 1..(i - 1)
        BY <1>1, <2>3, <2>4
      <3>2. t[c] = s[c]
        BY <1>3, <3>1
      <3> QED  BY <2>2, <3>1, <3>2
    <2>5. CASE c = i
      <3>1. i + 1 \in 1..(n - 1) /\ d \in 1..m
        BY <1>1, <2>5 DEF m
      <3>2. d \in 1..Len(t[i + 1])
        BY <1>2, <1>4, <3>1
      <3> QED  BY <1>4, <2>2, <2>5, <3>1, <3>2
    <2>6. CASE c = i + 1
      <3>1. i + 1 \in 1..(n - 1) /\ d \in 1..Len(s[i + 1])
        BY <1>1, <2>6
      <3>2. m + d \in 1..Len(t[i + 1])
        BY <1>2, <1>4, <3>1
      <3> QED  BY <1>4, <2>2, <2>6, <3>1, <3>2
    <2>7. CASE c = i + 2
      <3>1. i \in 1..(n - 1) /\ t[i] = s[c]
        BY <1>1, <1>3, <2>7
      <3> QED  BY <2>2, <3>1
    <2>8. CASE c > i + 2
      <3>1. c - 1 \in 1..(n - 1) /\ c - 1 \in (i + 2)..(n - 1) /\ c - 1 + 1 = c
        BY <1>1, <2>3, <2>8
      <3>2. t[c - 1] = s[c]
        BY <1>3, <3>1
      <3> QED  BY <2>2, <3>1, <3>2
    <2> QED  BY <1>2, <2>3, <2>4, <2>5, <2>6, <2>7, <2>8
  <1>9. Tiles(t, X)
    BY <1>3, <1>7, <1>8 DEF Tiles
  <1>10. Together(t, A)
    <2> SUFFICES ASSUME NEW k \in 1..(n - 1), NEW l \in 1..Len(t[k]), t[k][l] \in A, NEW d \in A
                 PROVE  \E j \in 1..Len(t[k]) : t[k][j] = d
      BY <1>3 DEF Together
    <2> DEFINE c == a(k, l)
               e == b(k, l)
    <2>1. /\ c \in 1..n /\ e \in 1..Len(s[c]) /\ t[k][l] = s[c][e]
          /\ \A x \in 1..Len(s[c]) : \E j \in 1..Len(t[k]) : t[k][j] = s[c][x]
      BY <1>5
    <2> HIDE DEF c, e
    <2>2. PICK x \in 1..Len(s[c]) : s[c][x] = d
      BY <2>1 DEF Together, n
    <2> QED  BY <2>1, <2>2
  <1> QED  BY <1>9, <1>10

LEMMA MergePassIs ==
    ASSUME bins \in Nat, bins >= 4, NEW X, NEW s, Tiles(s, X), Len(s) > MaxBins, NEW A, Together(s, A)
    PROVE  /\ Tiles(MergePass(s), X) /\ Together(MergePass(s), A)
           /\ MaxBins <= Len(MergePass(s)) /\ Len(MergePass(s)) < Len(s)
           /\ \A k \in 1..LimitHs : MergePass(s)[k] = s[k]
  <1> DEFINE n == Len(s)
             M == MergeStart
             count == IF n - 1 <= M THEN 0 ELSE (n - M) \div 2
             at1(k) == M + 2 * (count - k)
             step(k, t) == IF Len(t) <= MaxBins THEN t ELSE MergeAt(t, at1(k))
             D(m, f) == f = [k \in 0..m |-> IF k = 0 THEN s ELSE step(k, f[k - 1])]
             F == CHOOSE f : D(count, f)
  <1>1. /\ LimitHs \in Nat /\ M = 1 + LimitHs /\ M <= MaxBins - 1 /\ MaxBins \in Nat
        /\ s \in Seq(Seq(X)) /\ n \in Nat /\ n > MaxBins
    BY Limits DEF Tiles
  <1>2. count \in Nat /\ count >= 1 /\ M + 2 * count <= n
    <2> DEFINE q == n - M
    <2>1. q \in Nat /\ q >= 2 /\ n = q + M /\ M \in Nat
      BY <1>1
    <2> HIDE DEF q, n, M
    <2>2. (q \div 2) \in Nat /\ (q \div 2) * 2 <= q /\ q < (q \div 2) * 2 + 2
      BY <2>1, Quotient
    <2>3. count = q \div 2
      <3>1. ~(n - 1 <= M)
        BY <2>1
      <3> QED  BY <3>1 DEF q
    <2> HIDE DEF count
    <2> QED  BY <2>1, <2>2, <2>3
  <1>3. MergePass(s) = F[count]
    BY Zenon DEF MergePass
  <1> HIDE DEF count, step, n, M
  <1>4. \A m \in Nat : \E f : D(m, f)
    <2> DEFINE bad == {m \in Nat : ~\E f : D(m, f)}
    <2> SUFFICES ASSUME bad # {} PROVE FALSE
      OBVIOUS
    <2>1. PICK m \in bad : \A k \in bad : m <= k
      <3>1. bad \in SUBSET Nat
        OBVIOUS
      <3> HIDE DEF bad
      <3> QED  BY <3>1, Least
    <2>2. m \in Nat /\ ~\E f : D(m, f)
      OBVIOUS
    <2>3. \E f : D(0, f)
      <3> DEFINE f == [k \in 0..0 |-> s]
      <3>1. \A k \in 0..0 : k = 0
        OBVIOUS
      <3>2. f = [k \in 0..0 |-> IF k = 0 THEN s ELSE step(k, f[k - 1])]
        BY <3>1
      <3> QED  BY <3>2
    <2>4. m # 0
      BY <2>2, <2>3
    <2>5. m - 1 \in Nat /\ ~(m <= m - 1)
      BY <2>2, <2>4
    <2>6. m - 1 \notin bad
      <3> HIDE DEF bad
      <3> QED  BY <2>1, <2>5
    <2>7. \E f : D(m - 1, f)
      <3> HIDE DEF D
      <3> QED  BY <2>5, <2>6
    <2>8. PICK f : D(m - 1, f)
      BY <2>7, Zenon
    <2> DEFINE h == [k \in 0..m |-> IF k = m THEN step(m, f[m - 1]) ELSE f[k]]
    <2>9. \A k \in 0..m : h[k] = IF k = 0 THEN s ELSE step(k, h[k - 1])
      <3> SUFFICES ASSUME NEW k \in 0..m PROVE h[k] = IF k = 0 THEN s ELSE step(k, h[k - 1])
        OBVIOUS
      <3>1. \A c \in 0..(m - 1) : f[c] = IF c = 0 THEN s ELSE step(c, f[c - 1])
        BY <2>8
      <3>2. CASE k = 0
        <4>1. h[k] = f[0] /\ 0 \in 0..(m - 1)
          BY <2>2, <2>4, <3>2
        <4> QED  BY <3>1, <3>2, <4>1
      <3>3. CASE k # 0 /\ k # m
        <4>1. k \in 0..(m - 1) /\ k - 1 \in 0..m /\ k - 1 # m /\ h[k] = f[k] /\ h[k - 1] = f[k - 1]
          BY <2>2, <3>3
        <4> HIDE DEF h
        <4> QED  BY <3>1, <3>3, <4>1
      <3>4. CASE k = m
        <4>1. k - 1 \in 0..m /\ k - 1 # m /\ h[k] = step(m, f[m - 1]) /\ h[k - 1] = f[k - 1]
          BY <2>2, <2>4, <3>4
        <4> HIDE DEF h
        <4> QED  BY <2>4, <3>4, <4>1
      <3> QED  BY <3>2, <3>3, <3>4
    <2>10. D(m, h)
      <3>1. h = [k \in 0..m |-> h[k]]
        OBVIOUS
      <3> HIDE DEF h
      <3> QED  BY <2>9, <3>1
    <2> HIDE DEF h, D
    <2> QED  BY <2>2, <2>10
  <1>5. D(count, F)
    <2> HIDE DEF D
    <2> QED  BY <1>2, <1>4, Zenon
  <1>6. F[0] = s /\ \A k \in 1..count : F[k] = step(k, F[k - 1])
    <2>1. \A k \in 0..count : F[k] = IF k = 0 THEN s ELSE step(k, F[k - 1])
      <3> HIDE DEF F
      <3> QED  BY <1>5
    <2>2. 0 \in 0..count /\ \A k \in 1..count : k \in 0..count /\ k # 0
      BY <1>2
    <2> HIDE DEF F
    <2> QED  BY <2>1, <2>2
  <1> HIDE DEF F
  <1> DEFINE Q(k) == /\ Tiles(F[k], X) /\ Together(F[k], A)
                     /\ Len(F[k]) \in Nat /\ n - k <= Len(F[k]) /\ MaxBins <= Len(F[k]) /\ Len(F[k]) <= n
                     /\ (k > 0 => Len(F[k]) < n)
                     /\ \A c \in 1..LimitHs : F[k][c] = s[c]
  <1>7. Q(0)
    BY <1>1, <1>6 DEF n
  <1>8. ASSUME NEW k \in 1..count, Q(k - 1) PROVE Q(k)
    <2> DEFINE t == F[k - 1]
    <2>1. /\ Tiles(t, X) /\ Together(t, A)
          /\ Len(t) \in Nat /\ n - (k - 1) <= Len(t) /\ MaxBins <= Len(t) /\ Len(t) <= n
          /\ (k - 1 > 0 => Len(t) < n)
          /\ \A c \in 1..LimitHs : t[c] = s[c]
      BY <1>8
    <2>2. k \in Nat /\ k >= 1 /\ k <= count
      BY <1>2
    <2>3. F[k] = step(k, t)
      BY <1>6
    <2> HIDE DEF t
    <2>4. CASE Len(t) <= MaxBins
      <3>1. F[k] = t
        BY <2>3, <2>4 DEF step
      <3> QED  BY <1>1, <2>1, <2>2, <2>4, <3>1
    <2>5. CASE Len(t) > MaxBins
      <3> DEFINE i == at1(k)
                 u == MergeAt(t, i)
      <3>1. ~(Len(t) <= MaxBins)
        BY <1>1, <2>1, <2>5
      <3>2. F[k] = u
        BY <2>3, <3>1 DEF step
      <3>3. i \in Nat \ {0} /\ i + 2 <= Len(t) /\ LimitHs <= i - 1
        BY <1>1, <1>2, <2>1, <2>2
      <3>4. t \in Seq(Seq(X))
        BY <2>1 DEF Tiles
      <3> HIDE DEF i
      <3>5. u \in Seq(Seq(X)) /\ Merged(u, t, i)
        BY <3>3, <3>4, MergeAtIs
      <3> HIDE DEF u
      <3>6. Tiles(u, X) /\ Together(u, A)
        BY <2>1, <3>3, <3>5, TilesMerge
      <3>7. Len(u) = Len(t) - 1
        BY <3>5 DEF Merged
      <3>8. \A c \in 1..LimitHs : u[c] = s[c]
        <4> SUFFICES ASSUME NEW c \in 1..LimitHs PROVE u[c] = s[c]
          OBVIOUS
        <4>1. c \in 1..(i - 1)
          BY <1>1, <3>3
        <4> QED  BY <2>1, <3>5, <4>1 DEF Merged
      <3>9. Len(u) \in Nat /\ n - k <= Len(u) /\ MaxBins <= Len(u) /\ Len(u) < n
        BY <1>1, <2>1, <2>2, <2>5, <3>7
      <3> QED  BY <1>1, <3>2, <3>6, <3>8, <3>9
    <2> QED  BY <1>1, <2>1, <2>4, <2>5
  <1> HIDE DEF Q
  <1>9. \A k \in 0..count : Q(k)
    <2> DEFINE bad == {k \in Nat : k <= count /\ ~Q(k)}
    <2> SUFFICES ASSUME bad # {} PROVE FALSE
      BY <1>2
    <2>1. PICK m \in bad : \A k \in bad : m <= k
      <3>1. bad \in SUBSET Nat
        OBVIOUS
      <3> HIDE DEF bad
      <3> QED  BY <3>1, Least
    <2>2. m \in Nat /\ m <= count /\ ~Q(m)
      OBVIOUS
    <2>3. m # 0
      BY <1>7, <2>2
    <2>4. m - 1 \in Nat /\ ~(m <= m - 1) /\ m - 1 <= count /\ m \in 1..count
      BY <1>2, <2>2, <2>3
    <2>5. m - 1 \notin bad
      <3> HIDE DEF bad
      <3> QED  BY <2>1, <2>4
    <2>6. Q(m - 1)
      BY <2>4, <2>5
    <2> QED  BY <1>8, <2>2, <2>4, <2>6
  <1>10. Q(count)
    BY <1>2, <1>9
  <1> QED  BY <1>2, <1>3, <1>10 DEF Q, n

-----------------------------------------------------------------------------
(***************************************************************************)
(* The inductive invariant.                                                *)
(***************************************************************************)
PackTypes ==
    /\ line \in Lines /\ at \in 0..Len(line) /\ phase \in Working \union Ended
    /\ how \in {"fresh", "prior", "cli"} /\ bins \in Nat
    /\ Packable(components) /\ r \in Seq(Seq(ToSet(components)))

\* What a build was given.
Given ==
    /\ at = 0 => phase = "idle"
    /\ at > 0 => IF how = "cli" THEN components = RawLayers(Release) /\ bins = Len(components) + 1
                                ELSE components = ComputeSizes(Release)
    /\ phase \in Working => bins >= 4

\* The bins while they are merged.
InFront(p) == Len(p.high) <= Len(r) /\ \A k \in 1..Len(p.high) : r[k] = <<p.high[k]>>
Merging ==
    phase = "merging" =>
        /\ how = "fresh" /\ Len(components) >= bins
        /\ Tiles(r, RegularSet)
        /\ Regular # <<>> => InFront(Partitions) /\ Together(r, ToSet(Partitions.low))

\* The bins when they are packed.
Annotated(layers) == \A i \in DOMAIN layers : layers[i].packages # Unannotated
PackedBins ==
    phase = "packed" =>
        IF how = "prior"
        THEN r = PriorBins /\ image # <<>> /\ Annotated(image) /\ Cardinality(Places(r)) = Len(components)
        ELSE Tiles(r, ToSet(components)) /\ Len(r) <= bins

\* The image published last.
Apart(layers) ==
    \A i, j \in 1..Len(layers) :
        \A k \in 1..Len(layers[i].packages) : \A l \in 1..Len(layers[j].packages) :
            /\ layers[i].packages[k] = layers[j].packages[l]
            /\ layers[i].packages[k] # EmptyName
            => i = j /\ k = l
LayerOK(layer) ==
    /\ Len(layer.packages) > 0
    /\ layer.packages # Unannotated =>
          {id[1] : id \in layer.content} = ToSet(layer.packages) \ {EmptyName}
LayerType == [packages : Seq(Int), content : SUBSET (Nat \X Nat)]
ImageOK ==
    /\ image \in Seq(LayerType)
    /\ \A i \in DOMAIN image : LayerOK(image[i])
    /\ lineage \in [started : BOOLEAN, bins : Nat, distinct : BOOLEAN]
    /\ lineage.started => image # <<>>
    /\ Annotated(image) => Len(image) <= lineage.bins /\ (lineage.distinct => Apart(image))

BinInv ==
    /\ PackTypes /\ Given /\ Merging /\ PackedBins /\ ImageOK
    /\ NothingLost /\ OwnBins

-----------------------------------------------------------------------------
(***************************************************************************)
(* Few components: one bin each.                                           *)
(***************************************************************************)
Few == Singletons(components) \o (IF components = <<>> THEN <<>> ELSE <<<<>>>>)

LEMMA FewBins ==
    ASSUME Packable(components), bins \in Nat, Len(components) < bins
    PROVE  /\ Tiles(Few, ToSet(components)) /\ Len(Few) <= bins
           /\ \A i \in DOMAIN Few : Len(Few[i]) <= 1
  <1> DEFINE X == ToSet(components)
             a == Singletons(components)
             b == IF components = <<>> THEN <<>> ELSE <<<<>>>>
             n == Len(components)
  <1>1. List(components, X) /\ n \in Nat
    BY PackableList
  <1>2. Tiles(a, X) /\ Len(a) = n /\ \A i \in 1..n : a[i] = <<components[i]>>
    BY <1>1, TilesSingletons
  <1>3. Tiles(b, {}) /\ Len(b) \in 0..1 /\ \A i \in 1..Len(b) : b[i] = <<>>
    <2>1. CASE components = <<>>
      BY <2>1, TilesNone
    <2>2. CASE components # <<>>
      BY <2>2, TilesNone
    <2> QED  BY <2>1, <2>2
  <1>4. Few = a \o b
    BY DEF Few
  <1> HIDE DEF a, b, X, n
  <1>5. X \intersect {} = {} /\ X \union {} = X
    OBVIOUS
  <1>6. Tiles(a \o b, X \union {})
    BY <1>2, <1>3, <1>5, TilesConcat
  <1>7. a \in Seq(Seq(X)) /\ b \in Seq(Seq(X))
    <2>1. b \in Seq(Seq({})) /\ a \in Seq(Seq(X))
      BY <1>2, <1>3 DEF Tiles
    <2>2. {} \subseteq X
      OBVIOUS
    <2> QED  BY <2>1, <2>2, Wider
  <1>8. /\ a \o b \in Seq(Seq(X)) /\ Len(a \o b) = Len(a) + Len(b)
        /\ \A i \in 1..Len(a) : (a \o b)[i] = a[i]
        /\ \A i \in 1..Len(b) : (a \o b)[Len(a) + i] = b[i]
    BY <1>7, Concat
  <1>9. Len(a \o b) <= bins
    BY <1>1, <1>2, <1>3, <1>8 DEF n
  <1>10. ASSUME NEW i \in DOMAIN (a \o b) PROVE Len((a \o b)[i]) <= 1
    <2>1. i \in 1..(n + Len(b)) /\ i \in Int
      BY <1>1, <1>2, <1>3, <1>8
    <2>2. CASE i \in 1..n
      <3>1. (a \o b)[i] = <<components[i]>>
        BY <1>2, <1>8, <2>2
      <3> QED  BY <3>1
    <2>3. CASE i \notin 1..n
      <3>1. i - n \in 1..Len(b) /\ n + (i - n) = i
        BY <1>1, <1>3, <2>1, <2>3
      <3>2. (a \o b)[i] = <<>>
        BY <1>2, <1>3, <1>8, <3>1
      <3> QED  BY <3>2
    <2> QED  BY <2>2, <2>3
  <1> QED  BY <1>4, <1>5, <1>6, <1>9, <1>10 DEF X

(***************************************************************************)
(* Many: what merging leaves, then what changes in every build, then the   *)
(* empty bin.                                                              *)
(***************************************************************************)
Finished == r \o (IF Frequent = <<>> THEN <<>> ELSE <<Frequent>>) \o <<<<>>>>

LEMMA FinishedBins ==
    ASSUME Packable(components), bins \in Nat, bins >= 4, Tiles(r, RegularSet), Len(r) <= MaxBins
    PROVE  /\ Tiles(Finished, ToSet(components)) /\ PackingHolds(Finished)
           /\ Len(Finished) \in Nat /\ Last(Finished) = <<>>
           /\ Len(r) \in Nat /\ Len(r) < Len(Finished) /\ \A i \in 1..Len(r) : Finished[i] = r[i]
           /\ \A i \in 1..Len(Finished) : i > Len(r) => Finished[i] = Frequent \/ Finished[i] = <<>>
           /\ Frequent # <<>> => Finished[Len(Finished) - 1] = Frequent
  <1> DEFINE X == ToSet(components)
             b == IF Frequent = <<>> THEN <<>> ELSE <<Frequent>>
             c == <<<<>>>>
             n == Len(r)
             t == r \o b
             s == t \o c
  <1>1. List(Frequent, FrequentSet) /\ List(components, X) /\ Len(components) \in Nat
    BY RegularIs, PackableList
  <1>2. Tiles(b, FrequentSet) /\ Len(b) = MaxFreqBins /\ \A i \in 1..Len(b) : b[i] = Frequent
    <2>1. CASE Frequent = <<>>
      <3>1. FrequentSet = {}
        BY <1>1, <2>1 DEF List
      <3> QED  BY <2>1, <3>1, TilesNone DEF MaxFreqBins
    <2>2. CASE Frequent # <<>>
      <3>1. b = <<Frequent>> /\ MaxFreqBins = 1
        BY <2>2 DEF MaxFreqBins
      <3>2. Len(b) = 1 /\ \A i \in 1..Len(b) : b[i] = Frequent
        BY <3>1
      <3> QED  BY <1>1, <3>1, <3>2, TilesOne
    <2> QED  BY <2>1, <2>2
  <1>3. Tiles(c, {}) /\ Len(c) = 1 /\ c[1] = <<>>
    BY TilesNone
  <1>4. /\ RegularSet \intersect FrequentSet = {} /\ RegularSet \union FrequentSet = X
        /\ X \intersect {} = {} /\ X \union {} = X
        /\ RegularSet \subseteq X /\ FrequentSet \subseteq X /\ {} \subseteq X
    BY DEF RegularSet, FrequentSet
  <1>5. Finished = s
    BY DEF Finished
  <1> HIDE DEF X, b, c
  <1>6. Tiles(t, X)
    <2>1. Tiles(t, RegularSet \union FrequentSet)
      BY <1>2, <1>4, TilesConcat
    <2> QED  BY <1>4, <2>1
  <1>7. Tiles(s, X)
    <2> HIDE DEF t
    <2>1. Tiles(s, X \union {})
      BY <1>3, <1>4, <1>6, TilesConcat
    <2> QED  BY <1>4, <2>1
  <1>8. r \in Seq(Seq(X)) /\ b \in Seq(Seq(X)) /\ c \in Seq(Seq(X))
    <2>1. r \in Seq(Seq(RegularSet)) /\ b \in Seq(Seq(FrequentSet)) /\ c \in Seq(Seq({}))
      BY <1>2, <1>3, Zenon DEF Tiles
    <2> QED  BY <1>4, <2>1, Wider
  <1>9. /\ t \in Seq(Seq(X)) /\ Len(t) = n + Len(b) /\ n \in Nat /\ Len(b) \in Nat
        /\ \A i \in 1..n : t[i] = r[i]
        /\ \A i \in 1..Len(b) : t[n + i] = b[i]
    BY <1>8, Concat
  <1> HIDE DEF t, n
  <1>10. t \in Seq(Seq(X)) /\ c \in Seq(Seq(X))
    BY <1>8, <1>9
  <1>11. /\ s \in Seq(Seq(X)) /\ Len(s) = Len(t) + Len(c)
         /\ \A i \in 1..Len(t) : s[i] = t[i]
         /\ \A i \in 1..Len(c) : s[Len(t) + i] = c[i]
    BY <1>10, Concat
  <1> HIDE DEF s
  <1>12. Len(s) = n + MaxFreqBins + 1 /\ MaxFreqBins \in 0..1 /\ Len(s) \in Nat
    BY <1>2, <1>3, <1>9, <1>11, Limits
  <1>13. Len(s) <= bins
    BY <1>9, <1>12, Limits DEF n
  <1>14. Cardinality(Places(s)) = Len(components)
    <2>1. IsFiniteSet(X) /\ Cardinality(X) = Len(components)
      BY <1>1, ListCount
    <2> QED  BY <1>7, <2>1, TilesCount
  <1>15. s[Len(s)] = <<>>
    <2>1. Len(s) = Len(t) + 1 /\ 1 \in 1..Len(c)
      BY <1>3, <1>11
    <2> QED  BY <1>3, <1>11, <2>1
  <1>16. \A i \in 1..n : s[i] = r[i]
    BY <1>9, <1>11
  <1>17. ASSUME NEW i \in 1..Len(s), i > n PROVE s[i] = Frequent \/ s[i] = <<>>
    <2>1. CASE i = Len(s)
      BY <1>15, <2>1
    <2>2. CASE i # Len(s)
      <3>1. i \in 1..Len(t) /\ i - n \in 1..Len(b) /\ n + (i - n) = i
        BY <1>2, <1>3, <1>9, <1>11, <1>12, <1>17, <2>2
      <3>2. s[i] = t[i] /\ t[n + (i - n)] = b[i - n] /\ b[i - n] = Frequent
        BY <1>2, <1>9, <1>11, <3>1
      <3> QED  BY <3>1, <3>2
    <2> QED  BY <2>1, <2>2
  <1>18. ASSUME Frequent # <<>> PROVE s[Len(s) - 1] = Frequent
    <2>1. MaxFreqBins = 1
      BY <1>18 DEF MaxFreqBins
    <2>2. Len(b) = 1 /\ Len(s) - 1 = n + 1 /\ n + 1 \in 1..Len(t) /\ 1 \in 1..Len(b)
      BY <1>2, <1>3, <1>9, <1>12, <2>1
    <2>3. s[n + 1] = t[n + 1] /\ t[n + 1] = b[1] /\ b[1] = Frequent
      BY <1>2, <1>9, <1>11, <2>2
    <2> QED  BY <2>2, <2>3
  <1>19. PackingHolds(s) /\ Last(s) = <<>>
    BY <1>13, <1>14, <1>15 DEF PackingHolds, Last
  <1>20. n < Len(s)
    BY <1>9, <1>12
  <1> QED  BY <1>5, <1>7, <1>9, <1>12, <1>16, <1>17, <1>18, <1>19, <1>20 DEF X, n

LEMMA FinishedOwn ==
    ASSUME Packable(components), bins \in Nat, bins >= 4, Tiles(r, RegularSet), Len(r) <= MaxBins,
           InFront(Partitions), Together(r, ToSet(Partitions.low))
    PROVE  /\ \A c \in ToSet(Partitions.high) : \A i \in DOMAIN Finished :
                 c \in ToSet(Finished[i]) => Finished[i] = <<c>>
           /\ \A c, d \in ToSet(Partitions.low) : \A i \in DOMAIN Finished :
                 c \in ToSet(Finished[i]) => d \in ToSet(Finished[i])
  <1> DEFINE s == Finished
             X == ToSet(components)
             high == Partitions.high
             low == Partitions.low
             n == Len(r)
  <1>1. /\ Tiles(s, X) /\ Len(s) \in Nat /\ n \in Nat /\ n < Len(s) /\ \A i \in 1..n : s[i] = r[i]
        /\ \A i \in 1..Len(s) : i > n => s[i] = Frequent \/ s[i] = <<>>
    BY FinishedBins
  <1>2. PICK H, L, R :
              /\ List(high, H) /\ List(low, L) /\ List(Partitions.rest, R)
              /\ H \intersect L = {} /\ H \intersect R = {} /\ L \intersect R = {}
              /\ H \union L \union R = RegularSet
              /\ Len(high) <= LimitHs
    BY PartitionsAre
  <1>3. Len(high) <= n /\ (\A k \in 1..Len(high) : r[k] = <<high[k]>>) /\ Together(r, ToSet(low))
    BY DEF InFront
  <1>4. List(Frequent, FrequentSet)
    BY RegularIs
  <1> HIDE DEF s, high, low
  <1>5. s \in Seq(Seq(X)) /\ DOMAIN s = 1..Len(s) /\ \A i \in 1..Len(s) : s[i] \in Seq(X)
    BY <1>1 DEF Tiles
  <1>6. \A i \in 1..Len(s) : ToSet(s[i]) = {s[i][l] : l \in 1..Len(s[i])}
    BY <1>5 DEF ToSet
  <1>7. high \in Seq(H) /\ low \in Seq(L) /\ Len(high) \in Nat
    BY <1>2 DEF List
  <1>8. ASSUME NEW c \in ToSet(high), NEW i \in 1..Len(s), c \in ToSet(s[i]) PROVE s[i] = <<c>>
    <2>1. PICK k \in 1..Len(high) : high[k] = c
      BY <1>7 DEF ToSet
    <2>2. k \in 1..n /\ k \in 1..Len(s)
      BY <1>1, <1>3, <1>7
    <2>3. s[k] = <<c>>
      BY <1>1, <1>3, <2>1, <2>2
    <2>4. PICK l \in 1..Len(s[i]) : s[i][l] = c
      BY <1>6, <1>8
    <2>5. 1 \in 1..Len(s[k]) /\ s[k][1] = c
      BY <2>3
    <2>6. i = k
      <3>1. s[i][l] = s[k][1]
        BY <2>4, <2>5
      <3>2. \A a, b \in 1..Len(s) : \A x \in 1..Len(s[a]) : \A y \in 1..Len(s[b]) :
                s[a][x] = s[b][y] => a = b /\ x = y
        BY <1>1, Zenon DEF Tiles
      <3> QED  BY <2>2, <2>5, <3>1, <3>2
    <2> QED  BY <2>3, <2>6
  <1>9. ASSUME NEW c \in ToSet(low), NEW d \in ToSet(low), NEW i \in 1..Len(s), c \in ToSet(s[i])
        PROVE  d \in ToSet(s[i])
    <2>1. PICK l \in 1..Len(s[i]) : s[i][l] = c
      BY <1>6, <1>9
    <2>2. c \in RegularSet
      <3>1. c \in L
        BY <1>7 DEF ToSet
      <3> QED  BY <1>2, <3>1
    <2>3. CASE i \in 1..n
      <3>1. s[i] = r[i]
        BY <1>1, <2>3
      <3>2. \E j \in 1..Len(r[i]) : r[i][j] = d
        BY <1>3, <2>1, <2>3, <3>1 DEF Together
      <3> QED  BY <1>6, <3>1, <3>2
    <2>4. CASE i \notin 1..n
      <3>1. i > n
        BY <1>1, <2>4
      <3>2. s[i] = Frequent \/ s[i] = <<>>
        BY <1>1, <3>1
      <3>3. s[i] # <<>>
        BY <2>1
      <3>4. Frequent \in Seq(FrequentSet)
        BY <1>4 DEF List
      <3>5. c \in FrequentSet
        BY <2>1, <3>2, <3>3, <3>4
      <3> QED  BY <2>2, <3>5 DEF RegularSet, FrequentSet
    <2> QED  BY <2>3, <2>4
  <1> QED  BY <1>5, <1>8, <1>9 DEF s, high, low

(***************************************************************************)
(* Separate: no two places of the bins have the same component.  That many *)
(* places for all the identifiers leave none to repeat one.                *)
(***************************************************************************)
Separate(s) ==
    \A i, j \in 1..Len(s) : \A k \in 1..Len(s[i]) : \A l \in 1..Len(s[j]) :
        Identifier(s[i][k]) = Identifier(s[j][l]) => i = j /\ k = l

LEMMA IdentifiersCount ==
    ASSUME Packable(components)
    PROVE  IsFiniteSet(Identifiers(components)) /\ Cardinality(Identifiers(components)) = Len(components)
  <1> DEFINE n == Len(components)
             ids == [i \in 1..n |-> Identifier(components[i])]
             T == Identifiers(components)
  <1>1. n \in Nat /\ DOMAIN components = 1..n
    BY PackableList
  <1>2. \A i, j \in 1..n : Identifier(components[i]) = Identifier(components[j]) => i = j
    BY DEF Packable
  <1>3. T = {Identifier(components[i]) : i \in 1..n}
    BY <1>1 DEF Identifiers
  <1>4. ids \in Seq(T) /\ Len(ids) = n /\ \A i \in 1..n : ids[i] = Identifier(components[i])
    <2>1. \A i \in 1..n : Identifier(components[i]) \in T
      BY <1>3
    <2> HIDE DEF T, n
    <2> QED  BY <1>1, <2>1
  <1> HIDE DEF ids
  <1>5. List(ids, T)
    <2>1. \A i, j \in 1..Len(ids) : ids[i] = ids[j] => i = j
      BY <1>2, <1>4
    <2>2. \A x \in T : \E i \in 1..Len(ids) : ids[i] = x
      BY <1>3, <1>4
    <2> QED  BY <1>4, <2>1, <2>2 DEF List
  <1> HIDE DEF T
  <1>6. IsFiniteSet(T) /\ Cardinality(T) = Len(ids)
    BY <1>5, ListCount
  <1> QED  BY <1>4, <1>6 DEF T

LEMMA NoneTwice ==
    ASSUME Packable(components), NEW s \in Seq(Seq(ToSet(components))),
           Cardinality(Places(s)) = Len(components),
           \A id \in Identifiers(components) :
               \E i \in 1..Len(s) : \E k \in 1..Len(s[i]) : Identifier(s[i][k]) = id
    PROVE  Separate(s)
  <1> DEFINE P == Places(s)
             T == Identifiers(components)
             f == [pl \in P |-> Identifier(s[pl[1]][pl[2]])]
  <1>1. /\ IsFiniteSet(P)
        /\ \A i \in 1..Len(s) : \A k \in 1..Len(s[i]) : <<i, k>> \in P
        /\ \A pl \in P : s[pl[1]][pl[2]] \in ToSet(components)
    BY PlacesAre
  <1>2. \A c \in ToSet(components) : Identifier(c) \in T
    BY DEF ToSet, Identifiers
  <1>3. IsFiniteSet(T) /\ Cardinality(T) = Cardinality(P)
    BY IdentifiersCount
  <1> HIDE DEF P, T
  <1>4. f \in [P -> T]
    BY <1>1, <1>2
  <1>5. ASSUME NEW id \in T PROVE \E pl \in P : f[pl] = id
    <2>1. PICK i \in 1..Len(s) : \E k \in 1..Len(s[i]) : Identifier(s[i][k]) = id
      BY DEF T
    <2>2. PICK k \in 1..Len(s[i]) : Identifier(s[i][k]) = id
      BY <2>1
    <2>3. <<i, k>> \in P /\ f[<<i, k>>] = id
      BY <1>1, <2>2
    <2> QED  BY <2>3
  <1>6. f \in Injection(P, T)
    <2> HIDE DEF f
    <2>1. f \in Surjection(P, T)
      BY <1>4, <1>5 DEF Surjection
    <2> QED  BY <1>1, <1>3, <2>1, FS_Surjection
  <1>7. \A a, b \in P : f[a] = f[b] => a = b
    <2> HIDE DEF f
    <2> QED  BY <1>4, <1>6 DEF Injection, IsInjective
  <1>8. ASSUME NEW i \in 1..Len(s), NEW j \in 1..Len(s), NEW k \in 1..Len(s[i]), NEW l \in 1..Len(s[j]),
               Identifier(s[i][k]) = Identifier(s[j][l])
        PROVE  i = j /\ k = l
    <2> DEFINE a == <<i, k>>
               b == <<j, l>>
    <2>1. a \in P /\ b \in P /\ a[1] = i /\ a[2] = k /\ b[1] = j /\ b[2] = l
      BY <1>1
    <2>2. f[a] = Identifier(s[i][k]) /\ f[b] = Identifier(s[j][l])
      BY <2>1
    <2> HIDE DEF a, b, f
    <2>3. a = b
      BY <1>7, <1>8, <2>1, <2>2
    <2> QED  BY <2>1, <2>3
  <1> QED  BY <1>8 DEF Separate

LEMMA TilesSeparate ==
    ASSUME Packable(components), NEW s, Tiles(s, ToSet(components))
    PROVE  /\ Separate(s)
           /\ \A id \in Identifiers(components) :
                 \E i \in 1..Len(s) : \E k \in 1..Len(s[i]) : Identifier(s[i][k]) = id
  <1>1. \A c, d \in ToSet(components) : Identifier(c) = Identifier(d) => c = d
    BY DEF Packable, ToSet
  <1>2. \A i \in 1..Len(s) : \A k \in 1..Len(s[i]) : s[i][k] \in ToSet(components)
    <2>1. \A i \in 1..Len(s) : s[i] \in Seq(ToSet(components))
      BY DEF Tiles
    <2> QED  BY <2>1
  <1>3. Separate(s)
    <2> SUFFICES ASSUME NEW i \in 1..Len(s), NEW j \in 1..Len(s), NEW k \in 1..Len(s[i]),
                        NEW l \in 1..Len(s[j]), Identifier(s[i][k]) = Identifier(s[j][l])
                 PROVE  i = j /\ k = l
      BY DEF Separate
    <2>1. s[i][k] = s[j][l]
      BY <1>1, <1>2
    <2> QED  BY <2>1 DEF Tiles
  <1>4. ASSUME NEW id \in Identifiers(components)
        PROVE  \E i \in 1..Len(s) : \E k \in 1..Len(s[i]) : Identifier(s[i][k]) = id
    <2>1. PICK c \in ToSet(components) : Identifier(c) = id
      BY DEF Identifiers, ToSet
    <2>2. PICK i \in 1..Len(s) : \E k \in 1..Len(s[i]) : s[i][k] = c
      BY DEF Tiles
    <2> QED  BY <2>1, <2>2
  <1> QED  BY <1>3, <1>4

(***************************************************************************)
(* What is published: the annotation of a bin lists the names of its       *)
(* components, and each chunk has all of the objects of its bin.           *)
(***************************************************************************)
Lists(names, bin) ==
    \E p : /\ \A k \in 1..Len(bin) : p[k] \in 1..Len(bin) /\ names[k] = bin[p[k]].name
           /\ \A k, l \in 1..Len(bin) : p[k] = p[l] => k = l
           /\ \A i \in 1..Len(bin) : \E k \in 1..Len(bin) : p[k] = i

LEMMA AnnotationIs ==
    ASSUME NEW bin \in Seq(Component)
    PROVE  /\ Annotation(bin) \in Seq(Nat) /\ Len(Annotation(bin)) > 0
           /\ Annotation(bin) # Unannotated
           /\ ToSet(Annotation(bin)) \ {EmptyName} = Names(bin)
           /\ bin = <<>> => \A k \in 1..Len(Annotation(bin)) : Annotation(bin)[k] = EmptyName
           /\ bin # <<>> => Len(Annotation(bin)) = Len(bin) /\ Lists(Annotation(bin), bin)
  <1> DEFINE t == Annotation(bin)
             n == Len(bin)
             names == Field(bin, "name")
  <1>1. n \in Nat /\ DOMAIN bin = 1..n /\ \A i \in 1..n : bin[i] \in Component
    OBVIOUS
  <1>2. \A i \in 1..n : bin[i].name \in Nat \ {0} /\ bin[i]["name"] = bin[i].name
    BY <1>1, ComponentFields
  <1>3. ASSUME t \in Seq(Nat), Len(t) > 0 PROVE t # Unannotated
    <2>1. t[1] \in Nat
      BY <1>3
    <2>2. Unannotated[1] = -1
      BY DEF Unannotated
    <2> HIDE DEF t
    <2> QED  BY <2>1, <2>2
  <1>4. CASE bin = <<>>
    <2>1. t = <<0>>
      BY <1>4 DEF Annotation, EmptyName
    <2>2. t \in Seq(Nat) /\ Len(t) = 1 /\ \A k \in 1..Len(t) : t[k] = 0
      BY <2>1
    <2>3. ToSet(t) \ {0} = {}
      BY <2>1 DEF ToSet
    <2>4. Names(bin) = {}
      BY <1>1, <1>4 DEF Names
    <2>5. t # Unannotated
      BY <1>3, <2>2
    <2> QED  BY <1>4, <2>2, <2>3, <2>4, <2>5 DEF EmptyName
  <1>5. CASE bin # <<>>
    <2>1. names \in Seq(Nat) /\ Len(names) = n /\ DOMAIN names = 1..n /\ \A i \in 1..n : names[i] = bin[i].name
      <3>1. names = [i \in 1..n |-> bin[i]["name"]]
        BY <1>1 DEF Field
      <3> HIDE DEF names
      <3> QED  BY <1>1, <1>2, <3>1
    <2>2. t = Arranged(names, 1..n, names)
      BY <1>5, <2>1 DEF Annotation, StableSort
    <2> HIDE DEF names, t
    <2>3. IsFiniteSet(1..n) /\ Cardinality(1..n) = n /\ 1..n \in SUBSET Int /\ \A i \in 1..n : names[i] \in Int
      BY <1>1, <2>1, Segment
    <2>4. Orders(t, names, 1..n, names)
      BY <2>2, <2>3, ArrangedIs
    <2>5. PICK p : Ordering(p, 1..n, names) /\ t = [k \in 1..n |-> names[p[k]]]
      BY <2>3, <2>4 DEF Orders
    <2>6. /\ \A k \in 1..n : p[k] \in 1..n
          /\ \A k, l \in 1..n : p[k] = p[l] => k = l
          /\ \A i \in 1..n : \E k \in 1..n : p[k] = i
      BY <2>3, <2>5 DEF Ordering
    <2>7. \A k \in 1..n : names[p[k]] = bin[p[k]].name /\ names[p[k]] \in Nat \ {0}
      BY <1>2, <2>1, <2>6
    <2>8. t \in Seq(Nat) /\ Len(t) = n /\ \A k \in 1..n : t[k] = bin[p[k]].name
      BY <1>1, <2>5, <2>7
    <2>9. n > 0
      BY <1>1, <1>5
    <2>10. Lists(t, bin)
      BY <2>6, <2>8 DEF Lists
    <2>11. ToSet(t) = Names(bin)
      <3>1. ToSet(t) = {t[k] : k \in 1..n} /\ Names(bin) = {bin[i].name : i \in 1..n}
        BY <1>1, <2>8 DEF ToSet, Names
      <3>2. \A k \in 1..n : \E i \in 1..n : t[k] = bin[i].name
        BY <2>6, <2>8
      <3>3. ASSUME NEW i \in 1..n PROVE \E k \in 1..n : t[k] = bin[i].name
        <4>1. PICK k \in 1..n : p[k] = i
          BY <2>6
        <4> QED  BY <2>8, <4>1
      <3>4. ASSUME NEW x \in ToSet(t) PROVE x \in Names(bin)
        <4>1. PICK k \in 1..n : x = t[k]
          BY <3>1
        <4>2. PICK i \in 1..n : t[k] = bin[i].name
          BY <3>2
        <4> QED  BY <3>1, <4>1, <4>2
      <3>5. ASSUME NEW x \in Names(bin) PROVE x \in ToSet(t)
        <4>1. PICK i \in 1..n : x = bin[i].name
          BY <3>1
        <4>2. PICK k \in 1..n : t[k] = bin[i].name
          BY <3>3
        <4> QED  BY <3>1, <4>1, <4>2
      <3> QED  BY <3>4, <3>5
    <2>12. ToSet(t) \ {0} = Names(bin)
      <3>1. 0 \notin Names(bin)
        BY <1>1, <1>2 DEF Names
      <3> QED  BY <2>11, <3>1
    <2> QED  BY <1>3, <1>5, <2>8, <2>9, <2>10, <2>12 DEF EmptyName, t
  <1> QED  BY <1>4, <1>5

Layers == [i \in DOMAIN r |-> [packages |-> Annotation(r[i]), content |-> Content(i)]]

LEMMA LayersAre ==
    ASSUME Packable(components), r \in Seq(Seq(ToSet(components))), Separate(r)
    PROVE  /\ Layers \in Seq(LayerType) /\ Len(Layers) = Len(r) /\ Annotated(Layers)
           /\ \A i \in 1..Len(r) : /\ Layers[i].packages = Annotation(r[i])
                                   /\ Layers[i].content = Identifiers(r[i])
                                   /\ LayerOK(Layers[i])
           /\ \A i, j \in 1..Len(r) : i # j => Layers[i].content \intersect Layers[j].content = {}
           /\ Distinct(components) => Apart(Layers)
  <1> DEFINE n == Len(r)
             X == ToSet(components)
  <1>1. n \in Nat /\ DOMAIN r = 1..n /\ X \subseteq Component
    BY DEF Packable, ToSet
  <1>2. \A i \in 1..n : r[i] \in Seq(X) /\ r[i] \in Seq(Component) /\ DOMAIN r[i] = 1..Len(r[i]) /\ Len(r[i]) \in Nat
    <2>1. Seq(X) \subseteq Seq(Component)
      BY <1>1, Wider
    <2> HIDE DEF X
    <2>2. \A i \in 1..n : r[i] \in Seq(X)
      BY DEF X
    <2> QED  BY <2>1, <2>2
  <1>3. \A i \in 1..n : Identifiers(r[i]) = {Identifier(r[i][k]) : k \in 1..Len(r[i])}
    BY <1>2 DEF Identifiers
  <1>4. ASSUME NEW i \in 1..n, NEW j \in 1..n, i # j PROVE Identifiers(r[i]) \intersect Identifiers(r[j]) = {}
    <2> SUFFICES ASSUME NEW id \in Identifiers(r[i]), id \in Identifiers(r[j]) PROVE FALSE
      OBVIOUS
    <2>1. PICK k \in 1..Len(r[i]) : id = Identifier(r[i][k])
      BY <1>3
    <2>2. PICK l \in 1..Len(r[j]) : id = Identifier(r[j][l])
      BY <1>3
    <2>3. Identifier(r[i][k]) = Identifier(r[j][l])
      BY <2>1, <2>2
    <2> QED  BY <1>4, <2>3 DEF Separate
  <1>5. ASSUME NEW i \in 1..n PROVE Content(i) = Identifiers(r[i])
    <2>1. \A j \in 1..(i - 1) : j \in 1..n /\ j # i
      BY <1>1
    <2>2. \A j \in 1..(i - 1) : Identifiers(r[i]) \intersect Identifiers(r[j]) = {}
      BY <1>4, <2>1
    <2> QED  BY <2>2 DEF Content
  <1>6. \A i \in 1..n : Layers[i] = [packages |-> Annotation(r[i]), content |-> Identifiers(r[i])]
    BY <1>1, <1>5 DEF Layers
  <1>7. ASSUME NEW i \in 1..n
        PROVE  Layers[i].packages = Annotation(r[i]) /\ Layers[i].content = Identifiers(r[i])
    <2> DEFINE a == Annotation(r[i])
               c == Identifiers(r[i])
    <2>1. Layers[i] = [packages |-> a, content |-> c]
      BY <1>6
    <2> HIDE DEF a, c
    <2>2. Layers[i].packages = a /\ Layers[i].content = c
      BY <2>1
    <2> QED  BY <2>2 DEF a, c
  <1>8. ASSUME NEW i \in 1..n PROVE Identifiers(r[i]) \in SUBSET (Nat \X Nat)
    <2>1. ASSUME NEW k \in 1..Len(r[i]) PROVE Identifier(r[i][k]) \in Nat \X Nat
      <3>1. r[i][k] \in Component
        BY <1>2
      <3>2. r[i][k].name \in Nat /\ r[i][k].version \in Nat
        BY <3>1, ComponentFields
      <3> QED  BY <3>2 DEF Identifier
    <2>2. Identifiers(r[i]) = {Identifier(r[i][k]) : k \in 1..Len(r[i])}
      BY <1>3
    <2> QED  BY <2>1, <2>2
  <1>9. \A i \in 1..n : /\ Annotation(r[i]) \in Seq(Int) /\ Len(Annotation(r[i])) > 0
                        /\ Annotation(r[i]) # Unannotated
                        /\ ToSet(Annotation(r[i])) \ {EmptyName} = Names(r[i])
    <2>1. Seq(Nat) \subseteq Seq(Int)
      <3>1. Nat \subseteq Int
        OBVIOUS
      <3> QED  BY <3>1, Wider
    <2> QED  BY <1>2, <2>1, AnnotationIs
  <1>10. ASSUME NEW i \in 1..n PROVE Layers[i] \in LayerType
    <2> DEFINE a == Annotation(r[i])
               c == Identifiers(r[i])
    <2>1. Layers[i] = [packages |-> a, content |-> c] /\ a \in Seq(Int) /\ c \in SUBSET (Nat \X Nat)
      BY <1>6, <1>8, <1>9
    <2> HIDE DEF a, c
    <2> QED  BY <2>1 DEF LayerType
  <1>11. Layers \in Seq(LayerType) /\ Len(Layers) = n /\ DOMAIN Layers = 1..n
    <2>1. Layers = [i \in 1..n |-> Layers[i]]
      BY <1>1 DEF Layers
    <2> QED  BY <1>1, <1>10, <2>1
  <1>12. \A i \in 1..n : {id[1] : id \in Identifiers(r[i])} = Names(r[i])
    <2> SUFFICES ASSUME NEW i \in 1..n PROVE {id[1] : id \in Identifiers(r[i])} = Names(r[i])
      OBVIOUS
    <2>1. \A k \in 1..Len(r[i]) : Identifier(r[i][k])[1] = r[i][k].name
      BY <1>2, ComponentFields
    <2>2. Names(r[i]) = {r[i][k].name : k \in 1..Len(r[i])}
      BY <1>2 DEF Names
    <2>3. Identifiers(r[i]) = {Identifier(r[i][k]) : k \in 1..Len(r[i])}
      BY <1>3
    <2>4. ASSUME NEW id \in Identifiers(r[i]) PROVE id[1] \in Names(r[i])
      <3>1. PICK k \in 1..Len(r[i]) : id = Identifier(r[i][k])
        BY <2>3
      <3> QED  BY <2>1, <2>2, <3>1
    <2>5. ASSUME NEW x \in Names(r[i]) PROVE \E id \in Identifiers(r[i]) : id[1] = x
      <3>1. PICK k \in 1..Len(r[i]) : x = r[i][k].name
        BY <2>2
      <3> QED  BY <2>1, <2>3, <3>1
    <2> QED  BY <2>4, <2>5
  <1> HIDE DEF n
  <1>13. \A i \in 1..n : LayerOK(Layers[i])
    BY <1>7, <1>9, <1>12 DEF LayerOK
  <1>14. Annotated(Layers)
    BY <1>7, <1>9, <1>11 DEF Annotated
  <1>15. \A i, j \in 1..n : i # j => Layers[i].content \intersect Layers[j].content = {}
    BY <1>4, <1>7
  <1>16. ASSUME Distinct(components), NEW i \in 1..n, NEW j \in 1..n,
                NEW k \in 1..Len(Layers[i].packages), NEW l \in 1..Len(Layers[j].packages),
                Layers[i].packages[k] = Layers[j].packages[l], Layers[i].packages[k] # EmptyName
         PROVE  i = j /\ k = l
    <2> DEFINE a == Annotation(r[i])
               b == Annotation(r[j])
    <2>1. k \in 1..Len(a) /\ l \in 1..Len(b) /\ a[k] = b[l] /\ a[k] # EmptyName
      BY <1>7, <1>16
    <2>2. r[i] # <<>> /\ r[j] # <<>>
      BY <1>2, <2>1, AnnotationIs
    <2>3. Len(a) = Len(r[i]) /\ Lists(a, r[i]) /\ Len(b) = Len(r[j]) /\ Lists(b, r[j])
      BY <1>2, <2>2, AnnotationIs
    <2> HIDE DEF a, b
    <2>4. PICK p : /\ \A x \in 1..Len(r[i]) : p[x] \in 1..Len(r[i]) /\ a[x] = r[i][p[x]].name
                   /\ \A x, y \in 1..Len(r[i]) : p[x] = p[y] => x = y
      BY <2>3 DEF Lists
    <2>5. PICK q : \A x \in 1..Len(r[j]) : q[x] \in 1..Len(r[j]) /\ b[x] = r[j][q[x]].name
      BY <2>3 DEF Lists
    <2>6. /\ p[k] \in 1..Len(r[i]) /\ q[l] \in 1..Len(r[j]) /\ r[i][p[k]].name = r[j][q[l]].name
          /\ r[i][p[k]] \in X /\ r[j][q[l]] \in X
      <3>1. k \in 1..Len(r[i]) /\ l \in 1..Len(r[j])
        BY <2>1, <2>3
      <3>2. p[k] \in 1..Len(r[i]) /\ q[l] \in 1..Len(r[j]) /\ a[k] = r[i][p[k]].name /\ b[l] = r[j][q[l]].name
        BY <2>4, <2>5, <3>1
      <3>3. r[i] \in Seq(X) /\ r[j] \in Seq(X)
        BY <1>2
      <3> HIDE DEF X
      <3>4. r[i][p[k]] \in X /\ r[j][q[l]] \in X
        BY <3>2, <3>3
      <3> QED  BY <2>1, <3>2, <3>4, Zenon
    <2>7. \A c, d \in X : c.name = d.name => c = d
      BY <1>16 DEF Distinct, ToSet
    <2>8. r[i][p[k]] = r[j][q[l]]
      BY <2>6, <2>7
    <2>9. i = j /\ p[k] = q[l]
      BY <2>6, <2>8 DEF Separate, n
    <2>10. a = b /\ r[i] = r[j]
      BY <2>9 DEF a, b
    <2>11. \A x \in 1..Len(r[i]) : \A y \in 1..Len(r[i]) : r[i][p[x]].name = r[i][p[y]].name => x = y
      <3> SUFFICES ASSUME NEW x \in 1..Len(r[i]), NEW y \in 1..Len(r[i]), r[i][p[x]].name = r[i][p[y]].name
                   PROVE  x = y
        OBVIOUS
      <3>1. p[x] \in 1..Len(r[i]) /\ p[y] \in 1..Len(r[i])
        BY <2>4
      <3>2. r[i][p[x]] \in X /\ r[i][p[y]] \in X
        BY <1>2, <3>1
      <3>3. r[i][p[x]] = r[i][p[y]]
        BY <2>7, <3>2
      <3>4. p[x] = p[y]
        BY <3>1, <3>3, SMTT(30) DEF Separate, n
      <3> QED  BY <2>4, <3>4
    <2>12. r[i][p[k]].name = r[i][p[l]].name
      BY <2>1, <2>3, <2>4, <2>10
    <2> QED  BY <2>1, <2>3, <2>9, <2>10, <2>11, <2>12
  <1>17. Distinct(components) => Apart(Layers)
    BY <1>11, <1>16 DEF Apart
  <1> QED  BY <1>7, <1>11, <1>13, <1>14, <1>15, <1>17 DEF n
-----------------------------------------------------------------------------
(***************************************************************************)
(* The release that is built, and what its components have in common with  *)
(* the ones the packing takes.                                             *)
(***************************************************************************)
LEMMA ReleaseOK ==
    ASSUME PackTypes
    PROVE  /\ Len(line) \in Nat /\ at \in Nat
           /\ at > 0 => IsRelease(Release)
           /\ at < Len(line) => at + 1 \in 0..Len(line) /\ IsRelease(line[at + 1])
  <1>1. line \in Lines /\ at \in 0..Len(line)
    BY DEF PackTypes
  <1>2. Len(line) \in Nat /\ DOMAIN line = 1..Len(line) /\ \A i \in DOMAIN line : IsRelease(line[i])
    BY <1>1, LinesAssumption
  <1>3. \A i \in 1..Len(line) : IsRelease(line[i])
    BY <1>2
  <1>4. at > 0 => at \in 1..Len(line)
    BY <1>1, <1>2
  <1>5. at < Len(line) => at + 1 \in 1..Len(line) /\ at + 1 \in 0..Len(line)
    BY <1>1, <1>2
  <1> QED  BY <1>1, <1>2, <1>3, <1>4, <1>5 DEF Release

LEMMA GivenComponents ==
    ASSUME PackTypes, Given, at > 0
    PROVE  /\ how # "cli" => Identifiers(components) = Identifiers(Release.components)
           /\ how # "cli" => Descending(components)
           /\ how = "cli" /\ Release.empty = <<>> =>
                 Identifiers(components) = Identifiers(Release.components)
           /\ Identifiers(Release.components) \subseteq Identifiers(components)
  <1>1. IsRelease(Release)
    BY ReleaseOK
  <1>2. CASE how # "cli"
    <2>1. components = ComputeSizes(Release)
      BY <1>2 DEF Given
    <2> QED  BY <1>1, <1>2, <2>1, ComputeSizesIs
  <1>3. CASE how = "cli"
    <2> DEFINE a == Release.components
               b == Release.empty
    <2>1. components = RawLayers(Release)
      BY <1>3 DEF Given
    <2>2. Identifiers(components) = Identifiers(a \o b)
      BY <1>1, <2>1, RawLayersIs
    <2>3. a \in Seq(Component) /\ b \in Seq(Component)
      BY <1>1, ReleaseIs
    <2> HIDE DEF a, b
    <2>4. b = <<>> => a \o b = a
      BY <2>3
    <2>5. /\ a \o b \in Seq(Component) /\ Len(a \o b) = Len(a) + Len(b) /\ Len(a) \in Nat /\ Len(b) \in Nat
          /\ \A i \in 1..Len(a) : (a \o b)[i] = a[i]
      BY <2>3, Concat
    <2>6. Identifiers(a) \subseteq Identifiers(a \o b)
      <3> SUFFICES ASSUME NEW id \in Identifiers(a) PROVE id \in Identifiers(a \o b)
        OBVIOUS
      <3>1. PICK i \in 1..Len(a) : id = Identifier(a[i])
        BY <2>3 DEF Identifiers
      <3>2. i \in DOMAIN (a \o b) /\ (a \o b)[i] = a[i]
        BY <2>5
      <3> QED  BY <3>1, <3>2 DEF Identifiers
    <2> QED  BY <1>3, <2>2, <2>4, <2>6 DEF a, b
  <1> QED  BY <1>2, <1>3

(***************************************************************************)
(* A name stands for a component that has it.                              *)
(***************************************************************************)
LEMMA NamedIs ==
    ASSUME Packable(components), NEW x \in Names(components)
    PROVE  Named(x) \in ToSet(components) /\ Named(x).name = x
  <1> DEFINE I == {i \in 1..Len(components) : components[i].name = x}
             m == SelectInSeq(components, LAMBDA c : c.name = x)
  <1>1. DOMAIN components = 1..Len(components) /\ Len(components) \in Nat
    BY PackableList
  <1>2. I # {} /\ I \in SUBSET Nat
    BY <1>1 DEF Names
  <1>3. m = Min(I)
    BY <1>2 DEF SelectInSeq
  <1> HIDE DEF I
  <1>4. \E a \in I : \A b \in I : a <= b
    BY <1>2, Least
  <1>5. Min(I) \in I
    BY <1>4 DEF Min
  <1>6. m \in 1..Len(components) /\ components[m].name = x
    BY <1>3, <1>5 DEF I
  <1>7. Named(x) = components[m]
    BY DEF Named
  <1> HIDE DEF m
  <1> QED  BY <1>1, <1>6, <1>7 DEF ToSet

(***************************************************************************)
(* The names of the bins of a packing by a prior image.                    *)
(***************************************************************************)
NamesOf(i) ==
    IF i = NewPackagesBin THEN Kept(image[i].packages) \o Added ELSE Kept(image[i].packages)

LEMMA AddedIs ==
    ASSUME Packable(components)
    PROVE  List(Added, Names(components) \ PriorNames)
  <1> DEFINE S == Names(components) \ PriorNames
             keys == [i \in S |-> i]
             ids == [i \in S |-> i]
             n == Len(components)
  <1>1. DOMAIN components = 1..n /\ n \in Nat /\ \A i \in 1..n : components[i].name \in Nat
    <2>1. \A i \in 1..Len(components) : components[i] \in Component
      BY DEF Packable
    <2> QED  BY <2>1, PackableList, ComponentFields
  <1>2. Names(components) \in SUBSET Int /\ IsFiniteSet(Names(components))
    <2> DEFINE f == [i \in 1..n |-> components[i].name]
               N == Names(components)
    <2>1. N = {components[i].name : i \in 1..n}
      BY <1>1 DEF Names
    <2>2. \A i \in 1..n : f[i] = components[i].name /\ f[i] \in N
      BY <2>1
    <2>3. \A x \in N : \E i \in 1..n : f[i] = x
      BY <2>1
    <2>4. \A x \in N : x \in Int
      BY <1>1, <2>1
    <2>5. f \in [1..n -> N]
      BY <2>2
    <2> HIDE DEF f, N, n
    <2>6. f \in Surjection(1..n, N)
      BY <2>3, <2>5 DEF Surjection
    <2>7. IsFiniteSet(1..n)
      BY <1>1, Segment
    <2>8. IsFiniteSet(N)
      BY <2>6, <2>7, FS_Surjection
    <2> QED  BY <2>4, <2>8 DEF N
  <1>3. S \in SUBSET Int /\ IsFiniteSet(S)
    BY <1>2, FS_Subset
  <1>4. Added = Arranged(keys, S, keys)
    BY DEF Added, Ascending, Chosen
  <1> HIDE DEF S
  <1>5. \A i \in S : keys[i] = i
    OBVIOUS
  <1>6. \A i \in S : keys[i] \in Int
    BY <1>3, <1>5
  <1> HIDE DEF keys
  <1>7. Orders(Arranged(keys, S, keys), keys, S, keys)
    BY <1>3, <1>6, ArrangedIs
  <1>8. PICK p : Ordering(p, S, keys) /\ Added = [k \in 1..Cardinality(S) |-> keys[p[k]]]
    BY <1>4, <1>7 DEF Orders
  <1>9. Cardinality(S) \in Nat
    BY <1>3, FS_CardinalityType
  <1> DEFINE c == Cardinality(S)
  <1>10. /\ \A k \in 1..c : p[k] \in S
         /\ \A k, l \in 1..c : p[k] = p[l] => k = l
         /\ \A i \in S : \E k \in 1..c : p[k] = i
    BY <1>8 DEF Ordering
  <1> HIDE DEF c
  <1>11. Added \in Seq(S) /\ Len(Added) = c /\ \A k \in 1..c : Added[k] = p[k]
    <2>1. Added = [k \in 1..c |-> keys[p[k]]] /\ c \in Nat
      BY <1>8, <1>9 DEF c
    <2>2. \A k \in 1..c : keys[p[k]] = p[k] /\ keys[p[k]] \in S
      BY <1>5, <1>10
    <2> QED  BY <2>1, <2>2
  <1>12. List(Added, S)
    <2>1. \A k, l \in 1..Len(Added) : Added[k] = Added[l] => k = l
      BY <1>10, <1>11
    <2>2. \A i \in S : \E k \in 1..Len(Added) : Added[k] = i
      BY <1>10, <1>11
    <2> QED  BY <1>11, <2>1, <2>2 DEF List
  <1> QED  BY <1>12 DEF S

(***************************************************************************)
(* What an annotation named and the release still has, in the order of the *)
(* annotation.                                                             *)
(***************************************************************************)
KeptAt(names) == {k \in 1..Len(names) : names[k] # EmptyName /\ names[k] \in Names(components)}
KeptBy(s, names) ==
    \E p : /\ s \in Seq(Names(components))
           /\ \A k \in 1..Len(s) : p[k] \in KeptAt(names) /\ s[k] = names[p[k]]
           /\ \A k, l \in 1..Len(s) : p[k] = p[l] => k = l
           /\ \A i \in KeptAt(names) : \E k \in 1..Len(s) : s[k] = names[i]

LEMMA KeptIs ==
    ASSUME NEW names \in Seq(Int)
    PROVE  KeptBy(Kept(names), names)
  <1> DEFINE I == KeptAt(names)
             s == Kept(names)
             c == Cardinality(I)
  <1>1. I \in SUBSET (1..Len(names)) /\ Kept(names) = Chosen(names, I)
    <2>1. DOMAIN names = 1..Len(names)
      OBVIOUS
    <2>2. I = {k \in DOMAIN names : names[k] # EmptyName /\ names[k] \in Names(components)}
      BY <2>1 DEF KeptAt
    <2>3. Kept(names) = Chosen(names, I)
      BY <2>2 DEF Kept
    <2> QED  BY <2>3 DEF KeptAt
  <1> HIDE DEF I
  <1>2. PICK p : /\ c \in Nat
                 /\ Chosen(names, I) = [k \in 1..c |-> names[p[k]]]
                 /\ \A k \in 1..c : p[k] \in I
                 /\ \A k, l \in 1..c : k < l => p[k] < p[l]
    BY <1>1, ChosenOrder
  <1> DEFINE keys == [i \in I |-> i]
  <1>3. \A i \in I : keys[i] = i /\ i \in Int
    BY <1>1
  <1>4. Chosen(names, I) = Arranged(names, I, keys)
    BY DEF Chosen
  <1> HIDE DEF keys, c
  <1>5. \A i \in I : \E k \in 1..Cardinality(I) : Arranged(names, I, keys)[k] = names[i]
    <2>1. \A i \in I : keys[i] \in Int
      BY <1>3
    <2> QED  BY <1>1, <2>1, ArrangedSet
  <1>6. \A i \in I : \E k \in 1..c : s[k] = names[i]
    BY <1>1, <1>4, <1>5 DEF c
  <1>7. \A i \in I : names[i] \in Names(components)
    BY DEF I, KeptAt
  <1>8. s = [k \in 1..c |-> names[p[k]]] /\ c \in Nat
    BY <1>1, <1>2
  <1> HIDE DEF s
  <1>9. s \in Seq(Names(components)) /\ Len(s) = c /\ \A k \in 1..c : s[k] = names[p[k]]
    <2>1. \A k \in 1..c : names[p[k]] \in Names(components)
      BY <1>2, <1>7
    <2> QED  BY <1>8, <2>1, SMTT(30)
  <1>10. \A k \in 1..c : p[k] \in Int
    BY <1>2, <1>3
  <1>11. \A k, l \in 1..c : p[k] = p[l] => k = l
    <2> SUFFICES ASSUME NEW k \in 1..c, NEW l \in 1..c, p[k] = p[l], k # l PROVE FALSE
      OBVIOUS
    <2>1. k < l \/ l < k
      BY <1>8
    <2>2. p[k] < p[l] \/ p[l] < p[k]
      BY <1>2, <2>1
    <2> QED  BY <1>10, <2>2
  <1>12. KeptBy(s, names)
    BY <1>2, <1>6, <1>9, <1>11, SMTT(30) DEF KeptBy, I
  <1> QED  BY <1>12 DEF s

(***************************************************************************)
(* The names of all bins.  Each bin but the last has what its annotation   *)
(* kept, the last one also has what is new.  When no annotation repeats a  *)
(* name, neither do the bins.                                              *)
(***************************************************************************)
AllNames == [i \in 1..Len(image) |-> NamesOf(i)]
KeptSet(i) == {x \in Names(components) : x \in ToSet(image[i].packages) \ {EmptyName}}

LEMMA NamesOfIs ==
    ASSUME Packable(components), image \in Seq(LayerType), NEW i \in 1..Len(image)
    PROVE  /\ NamesOf(i) \in Seq(Names(components))
           /\ i # Len(image) => \A x : x \in ToSet(NamesOf(i)) <=> x \in KeptSet(i)
           /\ i = Len(image) =>
                 \A x : x \in ToSet(NamesOf(i)) <=> x \in KeptSet(i) \/ x \in Names(components) \ PriorNames
  <1> DEFINE w == image[i].packages
             N == Names(components)
             A == N \ PriorNames
             s == Kept(w)
  <1>1. w \in Seq(Int)
    <2>1. image[i] \in LayerType
      OBVIOUS
    <2> QED  BY <2>1 DEF LayerType
  <1> HIDE DEF w
  <1>2. KeptBy(s, w)
    BY <1>1, KeptIs
  <1>3. PICK p : /\ s \in Seq(N)
                 /\ \A k \in 1..Len(s) : p[k] \in KeptAt(w) /\ s[k] = w[p[k]]
                 /\ \A j \in KeptAt(w) : \E k \in 1..Len(s) : s[k] = w[j]
    BY <1>2 DEF KeptBy
  <1>4. List(Added, A)
    BY AddedIs
  <1>5. Added \in Seq(N) /\ \A x : x \in ToSet(Added) <=> x \in A
    <2>1. Added \in Seq(A) /\ A \subseteq N
      BY <1>4 DEF List
    <2>2. Added \in Seq(N)
      BY <2>1, Wider
    <2>3. DOMAIN Added = 1..Len(Added) /\ \A k \in 1..Len(Added) : Added[k] \in A
      BY <2>1
    <2>4. \A x \in A : \E k \in 1..Len(Added) : Added[k] = x
      BY <1>4 DEF List
    <2> HIDE DEF A
    <2> QED  BY <2>2, <2>3, <2>4 DEF ToSet
  <1>6. \A x : x \in ToSet(s) <=> x \in KeptSet(i)
    <2>1. DOMAIN s = 1..Len(s) /\ DOMAIN w = 1..Len(w)
      BY <1>1, <1>3
    <2>2. ASSUME NEW x \in ToSet(s) PROVE x \in KeptSet(i)
      <3>1. PICK k \in 1..Len(s) : s[k] = x
        BY <2>1, <2>2 DEF ToSet
      <3>2. p[k] \in KeptAt(w) /\ x = w[p[k]]
        BY <1>3, <3>1
      <3>3. x \in N /\ x # EmptyName /\ p[k] \in DOMAIN w
        BY <2>1, <3>2 DEF KeptAt
      <3>4. x \in ToSet(w)
        BY <3>2, <3>3 DEF ToSet
      <3> QED  BY <3>3, <3>4 DEF KeptSet, w
    <2>3. ASSUME NEW x \in KeptSet(i) PROVE x \in ToSet(s)
      <3>1. x \in N /\ x \in ToSet(w) /\ x # EmptyName
        BY <2>3 DEF KeptSet, w
      <3>2. PICK j \in 1..Len(w) : w[j] = x
        BY <2>1, <3>1 DEF ToSet
      <3>3. j \in KeptAt(w)
        BY <3>1, <3>2 DEF KeptAt
      <3>4. PICK k \in 1..Len(s) : s[k] = x
        BY <1>3, <3>2, <3>3
      <3> QED  BY <2>1, <3>4 DEF ToSet
    <2> QED  BY <2>2, <2>3
  <1>7. NewPackagesBin = Len(image)
    BY DEF NewPackagesBin
  <1>8. CASE i # Len(image)
    <2>1. NamesOf(i) = s
      BY <1>7, <1>8 DEF NamesOf, w
    <2> QED  BY <1>3, <1>6, <1>8, <2>1
  <1>9. CASE i = Len(image)
    <2>1. NamesOf(i) = s \o Added
      BY <1>7, <1>9 DEF NamesOf, w
    <2>2. s \in Seq(N) /\ Added \in Seq(N)
      BY <1>3, <1>5
    <2> HIDE DEF s, N, A
    <2>3. /\ s \o Added \in Seq(N) /\ Len(s \o Added) = Len(s) + Len(Added)
          /\ \A k \in 1..Len(s) : (s \o Added)[k] = s[k]
          /\ \A k \in 1..Len(Added) : (s \o Added)[Len(s) + k] = Added[k]
      BY <2>2, Concat
    <2>4. \A x : x \in ToSet(s \o Added) <=> x \in ToSet(s) \/ x \in ToSet(Added)
      <3> DEFINE t == s \o Added
      <3> HIDE DEF t
      <3>1. /\ DOMAIN t = 1..Len(t) /\ DOMAIN s = 1..Len(s) /\ DOMAIN Added = 1..Len(Added)
            /\ Len(s) \in Nat /\ Len(Added) \in Nat /\ Len(t) = Len(s) + Len(Added)
            /\ \A k \in 1..Len(s) : t[k] = s[k]
            /\ \A k \in 1..Len(Added) : t[Len(s) + k] = Added[k]
        BY <2>2, <2>3 DEF t
      <3>2. ASSUME NEW x \in ToSet(t) PROVE x \in ToSet(s) \/ x \in ToSet(Added)
        <4>1. PICK k \in 1..Len(t) : t[k] = x
          BY <3>1, <3>2 DEF ToSet
        <4>2. CASE k <= Len(s)
          <5>1. k \in 1..Len(s)
            BY <3>1, <4>2
          <5> QED  BY <3>1, <4>1, <5>1 DEF ToSet
        <4>3. CASE ~(k <= Len(s))
          <5>1. k - Len(s) \in 1..Len(Added) /\ Len(s) + (k - Len(s)) = k
            BY <3>1, <4>3
          <5>2. Added[k - Len(s)] = x
            BY <3>1, <4>1, <5>1
          <5> QED  BY <3>1, <5>1, <5>2 DEF ToSet
        <4> QED  BY <4>2, <4>3
      <3>3. ASSUME NEW x \in ToSet(s) PROVE x \in ToSet(t)
        <4>1. PICK k \in 1..Len(s) : s[k] = x
          BY <3>1, <3>3 DEF ToSet
        <4>2. k \in 1..Len(t) /\ t[k] = x
          BY <3>1, <4>1
        <4> QED  BY <3>1, <4>2 DEF ToSet
      <3>4. ASSUME NEW x \in ToSet(Added) PROVE x \in ToSet(t)
        <4>1. PICK k \in 1..Len(Added) : Added[k] = x
          BY <3>1, <3>4 DEF ToSet
        <4>2. Len(s) + k \in 1..Len(t) /\ t[Len(s) + k] = x
          BY <3>1, <4>1
        <4> QED  BY <3>1, <4>2 DEF ToSet
      <3> QED  BY <3>2, <3>3, <3>4 DEF t
    <2>5. \A x : x \in ToSet(s \o Added) <=> x \in KeptSet(i) \/ x \in A
      BY <1>5, <1>6, <2>4
    <2>6. s \o Added \in Seq(N)
      BY <2>3
    <2> QED  BY <1>9, <2>1, <2>5, <2>6, Zenon DEF N, A
  <1> QED  BY <1>8, <1>9

LEMMA PriorBinsAre ==
    ASSUME Packable(components), image \in Seq(LayerType)
    PROVE  /\ PriorBins \in Seq(Seq(ToSet(components))) /\ Len(PriorBins) = Len(image)
           /\ \A i \in 1..Len(image) :
                 /\ Len(PriorBins[i]) = Len(NamesOf(i)) /\ NamesOf(i) \in Seq(Names(components))
                 /\ \A k \in 1..Len(NamesOf(i)) : PriorBins[i][k] = Named(NamesOf(i)[k])
  <1> DEFINE n == Len(image)
             X == ToSet(components)
             N == Names(components)
  <1>1. n \in Nat /\ DOMAIN image = 1..n
    OBVIOUS
  <1>2. \A i \in 1..n : NamesOf(i) \in Seq(N)
    BY NamesOfIs
  <1>3. \A x \in N : Named(x) \in X
    BY NamedIs
  <1>4. PriorBins = [i \in 1..n |-> [k \in DOMAIN NamesOf(i) |-> Named(NamesOf(i)[k])]]
    BY <1>1 DEF PriorBins, NamesOf
  <1> HIDE DEF X, N, n
  <1>5. ASSUME NEW i \in 1..n
        PROVE  /\ PriorBins[i] \in Seq(X) /\ Len(PriorBins[i]) = Len(NamesOf(i))
               /\ \A k \in 1..Len(NamesOf(i)) : PriorBins[i][k] = Named(NamesOf(i)[k])
    <2> DEFINE t == NamesOf(i)
    <2>1. t \in Seq(N)
      BY <1>2
    <2>2. PriorBins[i] = [k \in DOMAIN t |-> Named(t[k])]
      BY <1>4
    <2> HIDE DEF t
    <2>3. DOMAIN t = 1..Len(t) /\ Len(t) \in Nat /\ \A k \in 1..Len(t) : Named(t[k]) \in X
      BY <1>3, <2>1
    <2>4. PriorBins[i] \in Seq(X) /\ Len(PriorBins[i]) = Len(t) /\ \A k \in 1..Len(t) : PriorBins[i][k] = Named(t[k])
      BY <2>2, <2>3
    <2> QED  BY <2>4 DEF t
  <1>6. PriorBins \in Seq(Seq(X)) /\ Len(PriorBins) = n
    <2>1. DOMAIN PriorBins = 1..n /\ PriorBins = [i \in 1..n |-> PriorBins[i]]
      BY <1>4
    <2> QED  BY <1>1, <1>5, <2>1
  <1> QED  BY <1>2, <1>5, <1>6 DEF X, N, n

LEMMA NamesOfPlaces ==
    ASSUME Packable(components), image \in Seq(LayerType), NEW i \in 1..Len(image)
    PROVE  LET s == Kept(image[i].packages)
           IN  /\ Len(s) \in Nat
               /\ \A k \in 1..Len(NamesOf(i)) : k \in 1..Len(s) => NamesOf(i)[k] = s[k]
               /\ \A k \in 1..Len(NamesOf(i)) : k \notin 1..Len(s) =>
                     i = Len(image) /\ k - Len(s) \in 1..Len(Added) /\ NamesOf(i)[k] = Added[k - Len(s)]
  <1> DEFINE w == image[i].packages
             N == Names(components)
             s == Kept(w)
  <1>1. w \in Seq(Int)
    <2>1. image[i] \in LayerType
      OBVIOUS
    <2> QED  BY <2>1 DEF LayerType
  <1>2. s \in Seq(N)
    <2> HIDE DEF w
    <2>1. KeptBy(s, w)
      BY <1>1, KeptIs
    <2> QED  BY <2>1 DEF KeptBy
  <1>3. Added \in Seq(N)
    <2>1. Added \in Seq(N \ PriorNames) /\ N \ PriorNames \subseteq N
      BY AddedIs DEF List
    <2> QED  BY <2>1, Wider
  <1>4. NewPackagesBin = Len(image)
    BY DEF NewPackagesBin
  <1>5. CASE i # Len(image)
    <2>1. NamesOf(i) = s
      BY <1>4, <1>5 DEF NamesOf
    <2> HIDE DEF s, N
    <2>2. Len(s) \in Nat
      BY <1>2
    <2> QED  BY <2>1, <2>2 DEF s
  <1>6. CASE i = Len(image)
    <2>1. NamesOf(i) = s \o Added
      BY <1>4, <1>6 DEF NamesOf
    <2> HIDE DEF s, N
    <2>2. s \in Seq(N) /\ Added \in Seq(N)
      BY <1>2, <1>3
    <2>3. /\ Len(s \o Added) = Len(s) + Len(Added) /\ Len(s) \in Nat /\ Len(Added) \in Nat
          /\ \A k \in 1..Len(s) : (s \o Added)[k] = s[k]
          /\ \A k \in 1..Len(Added) : (s \o Added)[Len(s) + k] = Added[k]
      BY <2>2, Concat
    <2>4. ASSUME NEW k \in 1..Len(NamesOf(i)), k \notin 1..Len(s)
          PROVE  k - Len(s) \in 1..Len(Added) /\ NamesOf(i)[k] = Added[k - Len(s)]
      <3>1. k - Len(s) \in 1..Len(Added) /\ Len(s) + (k - Len(s)) = k
        BY <2>1, <2>3, <2>4
      <3> QED  BY <2>1, <2>3, <3>1
    <2> QED  BY <1>6, <2>1, <2>3, <2>4 DEF s
  <1> QED  BY <1>5, <1>6

LEMMA PriorTiles ==
    ASSUME Packable(components), image \in Seq(LayerType), image # <<>>, Apart(image)
    PROVE  Tiles(AllNames, Names(components))
  <1> DEFINE n == Len(image)
             N == Names(components)
             w(i) == image[i].packages
             s(i) == Kept(w(i))
  <1>1. n \in Nat \ {0} /\ DOMAIN image = 1..n /\ \A i \in 1..n : image[i] \in LayerType
    OBVIOUS
  <1>2. \A i \in 1..n : w(i) \in Seq(Int)
    BY <1>1 DEF LayerType
  <1>3. /\ AllNames \in Seq(Seq(N)) /\ Len(AllNames) = n
        /\ \A i \in 1..n : AllNames[i] = NamesOf(i) /\ NamesOf(i) \in Seq(N)
    <2>1. \A i \in 1..n : NamesOf(i) \in Seq(N)
      BY NamesOfIs
    <2>2. AllNames = [i \in 1..n |-> NamesOf(i)]
      BY DEF AllNames
    <2> HIDE DEF n, N
    <2> QED  BY <1>1, <2>1, <2>2
  <1>4. \A i \in 1..n : KeptBy(s(i), w(i))
    BY <1>2, KeptIs
  <1>5. \A i \in 1..n :
           /\ Len(s(i)) \in Nat
           /\ \A k \in 1..Len(NamesOf(i)) : k \in 1..Len(s(i)) => NamesOf(i)[k] = s(i)[k]
           /\ \A k \in 1..Len(NamesOf(i)) : k \notin 1..Len(s(i)) =>
                 i = n /\ k - Len(s(i)) \in 1..Len(Added) /\ NamesOf(i)[k] = Added[k - Len(s(i))]
    BY NamesOfPlaces
  <1>6. PriorNames = (UNION {ToSet(w(i)) : i \in 1..n}) \ {EmptyName}
    BY <1>1 DEF PriorNames
  <1>7. List(Added, N \ PriorNames)
    BY AddedIs
  <1>8. \A a, b \in 1..n : \A k \in 1..Len(w(a)) : \A l \in 1..Len(w(b)) :
           w(a)[k] = w(b)[l] /\ w(a)[k] # EmptyName => a = b /\ k = l
    BY DEF Apart
  <1> HIDE DEF w, s, n, N
  <1>9. ASSUME NEW i \in 1..n, NEW k \in 1..Len(s(i))
        PROVE  s(i)[k] \in PriorNames /\ \E a \in 1..Len(w(i)) : w(i)[a] = s(i)[k] /\ w(i)[a] # EmptyName
    <2>1. PICK p : \A x \in 1..Len(s(i)) : p[x] \in KeptAt(w(i)) /\ s(i)[x] = w(i)[p[x]]
      BY <1>4 DEF KeptBy
    <2>2. p[k] \in KeptAt(w(i)) /\ s(i)[k] = w(i)[p[k]]
      BY <2>1
    <2>3. p[k] \in 1..Len(w(i)) /\ w(i)[p[k]] # EmptyName
      BY <2>2 DEF KeptAt
    <2>4. w(i)[p[k]] \in ToSet(w(i))
      BY <1>2, <2>3 DEF ToSet
    <2>5. s(i)[k] \in PriorNames
      BY <1>6, <2>2, <2>3, <2>4
    <2> QED  BY <2>2, <2>3, <2>5
  <1>10. ASSUME NEW i \in 1..n, NEW k \in 1..Len(s(i)), NEW l \in 1..Len(s(i)), s(i)[k] = s(i)[l]
         PROVE  k = l
    <2>1. PICK p : /\ \A x \in 1..Len(s(i)) : p[x] \in KeptAt(w(i)) /\ s(i)[x] = w(i)[p[x]]
                   /\ \A x, y \in 1..Len(s(i)) : p[x] = p[y] => x = y
      BY <1>4 DEF KeptBy
    <2>2. p[k] \in KeptAt(w(i)) /\ s(i)[k] = w(i)[p[k]] /\ p[l] \in KeptAt(w(i)) /\ s(i)[l] = w(i)[p[l]]
      BY <2>1
    <2>3. p[k] \in 1..Len(w(i)) /\ p[l] \in 1..Len(w(i)) /\ w(i)[p[k]] # EmptyName
      BY <2>2 DEF KeptAt
    <2>4. w(i)[p[k]] = w(i)[p[l]]
      BY <1>10, <2>2
    <2>5. p[k] = p[l]
      BY <1>8, <2>3, <2>4
    <2> QED  BY <2>1, <2>5
  <1>11. ASSUME NEW i \in 1..n, NEW j \in 1..n, NEW k \in 1..Len(NamesOf(i)), NEW l \in 1..Len(NamesOf(j)),
                NamesOf(i)[k] = NamesOf(j)[l]
         PROVE  i = j /\ k = l
    <2> DEFINE old(a, x) == x \in 1..Len(s(a))
    <2>1. /\ old(i, k) => NamesOf(i)[k] = s(i)[k]
          /\ ~old(i, k) => i = n /\ k - Len(s(i)) \in 1..Len(Added) /\ NamesOf(i)[k] = Added[k - Len(s(i))]
          /\ old(j, l) => NamesOf(j)[l] = s(j)[l]
          /\ ~old(j, l) => j = n /\ l - Len(s(j)) \in 1..Len(Added) /\ NamesOf(j)[l] = Added[l - Len(s(j))]
      BY <1>5
    <2>2. \A x \in 1..Len(Added) : Added[x] \notin PriorNames
      BY <1>7 DEF List
    <2>3. CASE old(i, k) /\ old(j, l)
      <3>1. PICK a \in 1..Len(w(i)) : w(i)[a] = s(i)[k] /\ w(i)[a] # EmptyName
        BY <1>9, <2>3
      <3>2. PICK b \in 1..Len(w(j)) : w(j)[b] = s(j)[l]
        BY <1>9, <2>3
      <3>3. s(i)[k] = s(j)[l]
        BY <1>11, <2>1, <2>3
      <3>4. w(i)[a] = w(j)[b]
        BY <3>1, <3>2, <3>3
      <3>5. i = j
        BY <1>8, <3>1, <3>4
      <3> QED  BY <1>10, <2>3, <3>3, <3>5
    <2>4. CASE old(i, k) /\ ~old(j, l)
      <3>1. NamesOf(i)[k] \in PriorNames
        BY <1>9, <2>1, <2>4
      <3>2. NamesOf(j)[l] \notin PriorNames
        BY <2>1, <2>2, <2>4
      <3> QED  BY <1>11, <3>1, <3>2
    <2>5. CASE ~old(i, k) /\ old(j, l)
      <3>1. NamesOf(j)[l] \in PriorNames
        BY <1>9, <2>1, <2>5
      <3>2. NamesOf(i)[k] \notin PriorNames
        BY <2>1, <2>2, <2>5
      <3> QED  BY <1>11, <3>1, <3>2
    <2>6. CASE ~old(i, k) /\ ~old(j, l)
      <3>1. i = n /\ j = n
        BY <2>1, <2>6
      <3>2. /\ k - Len(s(i)) \in 1..Len(Added) /\ l - Len(s(j)) \in 1..Len(Added)
            /\ Added[k - Len(s(i))] = Added[l - Len(s(j))]
        BY <1>11, <2>1, <2>6
      <3>3. k - Len(s(i)) = l - Len(s(j))
        BY <1>7, <3>2 DEF List
      <3>4. Len(s(i)) \in Nat /\ Len(s(i)) = Len(s(j)) /\ k \in Int /\ l \in Int
        BY <1>5, <3>1
      <3> QED  BY <3>1, <3>3, <3>4
    <2> QED  BY <2>3, <2>4, <2>5, <2>6
  <1>12. ASSUME NEW x \in N PROVE \E i \in 1..n : \E k \in 1..Len(NamesOf(i)) : NamesOf(i)[k] = x
    <2>1. \E i \in 1..n : x \in ToSet(NamesOf(i))
      <3>1. CASE x \in PriorNames
        <4>1. PICK i \in 1..n : x \in ToSet(w(i)) /\ x # EmptyName
          BY <1>6, <3>1
        <4>2. x \in KeptSet(i)
          BY <4>1 DEF KeptSet, w, N
        <4>3. x \in ToSet(NamesOf(i))
          BY <4>2, NamesOfIs DEF n
        <4> QED  BY <4>3
      <3>2. CASE x \notin PriorNames
        <4>1. n \in 1..n /\ n = Len(image)
          BY <1>1 DEF n
        <4>2. x \in ToSet(NamesOf(n))
          BY <3>2, <4>1, NamesOfIs DEF N
        <4> QED  BY <4>1, <4>2
      <3> QED  BY <3>1, <3>2
    <2>2. PICK i \in 1..n : x \in ToSet(NamesOf(i))
      BY <2>1
    <2>3. DOMAIN NamesOf(i) = 1..Len(NamesOf(i))
      BY <1>3
    <2> QED  BY <2>2, <2>3 DEF ToSet
  <1>13. Tiles(AllNames, N)
    <2>1. ASSUME NEW i \in 1..n, NEW j \in 1..n, NEW k \in 1..Len(AllNames[i]), NEW l \in 1..Len(AllNames[j]),
                 AllNames[i][k] = AllNames[j][l]
          PROVE  i = j /\ k = l
      BY <1>3, <1>11, <2>1
    <2>2. ASSUME NEW x \in N PROVE \E i \in 1..n : \E k \in 1..Len(AllNames[i]) : AllNames[i][k] = x
      <3>1. PICK i \in 1..n : \E k \in 1..Len(NamesOf(i)) : NamesOf(i)[k] = x
        BY <1>12
      <3>2. AllNames[i] = NamesOf(i)
        BY <1>3
      <3> QED  BY <3>1, <3>2, Zenon
    <2> QED  BY <1>3, <2>1, <2>2 DEF Tiles
  <1> QED  BY <1>13 DEF N

(***************************************************************************)
(* So a prior packing of components with distinct names passes the         *)
(* assertion on their number and has all of them.                          *)
(***************************************************************************)
LEMMA PriorComplete ==
    ASSUME Packable(components), image \in Seq(LayerType), image # <<>>, Apart(image), Distinct(components)
    PROVE  /\ Cardinality(Places(PriorBins)) = Len(components)
           /\ \A id \in Identifiers(components) :
                 \E i \in 1..Len(PriorBins) : \E k \in 1..Len(PriorBins[i]) : Identifier(PriorBins[i][k]) = id
  <1> DEFINE n == Len(image)
             N == Names(components)
             m == Len(components)
             f == [i \in 1..m |-> components[i].name]
             b == PriorBins
  <1>1. Tiles(AllNames, N)
    BY PriorTiles
  <1>2. DOMAIN components = 1..m /\ m \in Nat
    BY PackableList
  <1>3. List(f, N)
    <2>1. N = {components[i].name : i \in 1..m}
      BY <1>2 DEF Names
    <2>2. \A i \in 1..m : f[i] = components[i].name /\ f[i] \in N
      BY <2>1
    <2>3. \A x \in N : \E i \in 1..m : f[i] = x
      BY <2>1
    <2>4. \A i, j \in 1..m : f[i] = f[j] => i = j
      BY <1>2, <2>2 DEF Distinct
    <2>5. f = [i \in 1..m |-> f[i]]
      BY <2>2
    <2> HIDE DEF f, N, m
    <2>6. f \in Seq(N) /\ Len(f) = m
      BY <1>2, <2>2, <2>5
    <2> QED  BY <2>3, <2>4, <2>6 DEF List
  <1>4. Len(f) = m
    BY <1>2
  <1> HIDE DEF f
  <1>5. IsFiniteSet(N) /\ Cardinality(N) = m
    BY <1>3, <1>4, ListCount
  <1>6. Cardinality(Places(AllNames)) = m
    BY <1>1, <1>5, TilesCount
  <1>7. /\ b \in Seq(Seq(ToSet(components))) /\ Len(b) = n
        /\ \A i \in 1..n :
              /\ Len(b[i]) = Len(NamesOf(i)) /\ NamesOf(i) \in Seq(N)
              /\ \A k \in 1..Len(NamesOf(i)) : b[i][k] = Named(NamesOf(i)[k])
    BY PriorBinsAre
  <1>8. n \in Nat /\ DOMAIN AllNames = 1..n /\ \A i \in 1..n : AllNames[i] = NamesOf(i)
    BY DEF AllNames
  <1> HIDE DEF b, n, N, m
  <1>9. Places(b) = Places(AllNames)
    <2>1. DOMAIN b = 1..n
      BY <1>7
    <2>2. \A i \in 1..n : b[i] \in Seq(ToSet(components))
      BY <1>7
    <2>3. \A i \in 1..n : DOMAIN b[i] = 1..Len(b[i]) /\ DOMAIN AllNames[i] = 1..Len(NamesOf(i))
      BY <1>7, <1>8, <2>2
    <2>4. \A i \in 1..n : DOMAIN b[i] = DOMAIN AllNames[i]
      BY <1>7, <2>3
    <2> QED  BY <1>8, <2>1, <2>4, SMTT(30) DEF Places
  <1>10. ASSUME NEW id \in Identifiers(components)
         PROVE  \E i \in 1..n : \E k \in 1..Len(b[i]) : Identifier(b[i][k]) = id
    <2>1. PICK a \in 1..m : id = Identifier(components[a])
      BY <1>2 DEF Identifiers
    <2> DEFINE x == components[a].name
    <2>2. x \in N
      BY <1>2 DEF Names, N
    <2>3. \E i \in 1..Len(AllNames) : \E k \in 1..Len(AllNames[i]) : AllNames[i][k] = x
      BY <1>1, <2>2 DEF Tiles
    <2>4. Len(AllNames) = n
      BY <1>8
    <2>5. PICK i \in 1..n : \E k \in 1..Len(AllNames[i]) : AllNames[i][k] = x
      BY <2>3, <2>4
    <2>6. PICK k \in 1..Len(AllNames[i]) : AllNames[i][k] = x
      BY <2>5
    <2>7. k \in 1..Len(NamesOf(i)) /\ NamesOf(i)[k] = x
      BY <1>8, <2>6
    <2>8. k \in 1..Len(b[i]) /\ b[i][k] = Named(x)
      BY <1>7, <2>7
    <2>9. Named(x) \in ToSet(components) /\ Named(x).name = x
      BY <2>2, NamedIs DEF N
    <2>10. PICK c \in 1..m : Named(x) = components[c]
      BY <1>2, <2>9 DEF ToSet
    <2>11. c = a
      BY <1>2, <2>9, <2>10 DEF Distinct
    <2> QED  BY <2>1, <2>8, <2>10, <2>11
  <1> QED  BY <1>6, <1>7, <1>9, <1>10 DEF b, m

(***************************************************************************)
(* A layer that is kept has the components the old one named, as they are  *)
(* now.                                                                    *)
(***************************************************************************)
LEMMA KeptContent ==
    ASSUME Packable(components), image \in Seq(LayerType), NEW i \in 1..Len(image), i # Len(image),
           LayerOK(image[i]), image[i].packages # Unannotated,
           \A id \in Identifiers(components) :
               \E j \in 1..Len(PriorBins) : \E k \in 1..Len(PriorBins[j]) : Identifier(PriorBins[j][k]) = id
    PROVE  Identifiers(PriorBins[i]) = Successors(image[i].content)
  <1> DEFINE n == Len(image)
             N == Names(components)
             b == PriorBins
             old == {id[1] : id \in image[i].content}
             X == ToSet(components)
  <1>1. /\ b \in Seq(Seq(X)) /\ Len(b) = n
        /\ \A j \in 1..n :
              /\ Len(b[j]) = Len(NamesOf(j)) /\ NamesOf(j) \in Seq(N)
              /\ \A k \in 1..Len(NamesOf(j)) : b[j][k] = Named(NamesOf(j)[k])
    BY PriorBinsAre
  <1>2. old = ToSet(image[i].packages) \ {EmptyName}
    BY DEF LayerOK
  <1>3. \A x : x \in ToSet(NamesOf(i)) <=> x \in N /\ x \in old
    <2>1. \A x : x \in ToSet(NamesOf(i)) <=> x \in KeptSet(i)
      BY NamesOfIs
    <2>2. KeptSet(i) = {x \in N : x \in old}
      BY <1>2 DEF KeptSet
    <2> QED  BY <2>1, <2>2, Zenon
  <1>4. \A x \in N : Named(x) \in X /\ Named(x).name = x
    BY NamedIs
  <1>5. \A c \in X : Identifier(c)[1] = c.name /\ Identifier(c) \in Identifiers(components)
    <2>1. X \subseteq Component
      BY DEF Packable, ToSet
    <2>2. \A c \in X : Identifier(c) \in Identifiers(components)
      BY DEF ToSet, Identifiers
    <2> HIDE DEF X
    <2> QED  BY <2>1, <2>2, ComponentFields
  <1>6. Successors(image[i].content) = {id \in Identifiers(components) : id[1] \in old}
    BY DEF Successors
  <1>7. \A id \in Identifiers(components) : \E c \in X : id = Identifier(c)
    BY DEF Identifiers, ToSet
  <1>8. \A id \in Identifiers(components) : \E j \in 1..n : \E k \in 1..Len(b[j]) : Identifier(b[j][k]) = id
    BY <1>1
  <1> HIDE DEF b, n, X, old, N
  <1>9. DOMAIN b = 1..n /\ b[i] \in Seq(X) /\ DOMAIN b[i] = 1..Len(b[i]) /\ i \in 1..n
    <2>1. i \in 1..n
      BY DEF n
    <2>2. DOMAIN b = 1..n /\ b[i] \in Seq(X)
      BY <1>1, <2>1
    <2> QED  BY <2>1, <2>2
  <1>10. DOMAIN NamesOf(i) = 1..Len(NamesOf(i)) /\ Len(b[i]) = Len(NamesOf(i))
    BY <1>1, <1>9
  <1>11. ASSUME NEW id \in Identifiers(b[i]) PROVE id \in Identifiers(components) /\ id[1] \in old
    <2>1. PICK k \in 1..Len(b[i]) : id = Identifier(b[i][k])
      BY <1>9, <1>11 DEF Identifiers
    <2> DEFINE x == NamesOf(i)[k]
    <2>2. k \in 1..Len(NamesOf(i)) /\ b[i][k] = Named(x) /\ x \in ToSet(NamesOf(i))
      BY <1>1, <1>9, <1>10 DEF ToSet
    <2> HIDE DEF x
    <2>3. x \in N /\ x \in old
      BY <1>3, <2>2
    <2>4. Named(x) \in X /\ Named(x).name = x
      BY <1>4, <2>3
    <2>5. Identifier(Named(x))[1] = x /\ Identifier(Named(x)) \in Identifiers(components)
      BY <1>5, <2>4
    <2> QED  BY <2>1, <2>2, <2>3, <2>5
  <1>12. ASSUME NEW id \in Identifiers(components), id[1] \in old PROVE id \in Identifiers(b[i])
    <2>1. PICK j \in 1..n : \E k \in 1..Len(b[j]) : Identifier(b[j][k]) = id
      BY <1>8
    <2>2. PICK k \in 1..Len(b[j]) : Identifier(b[j][k]) = id
      BY <2>1
    <2> DEFINE y == NamesOf(j)[k]
               x == id[1]
    <2>3. NamesOf(j) \in Seq(N) /\ k \in 1..Len(NamesOf(j)) /\ b[j][k] = Named(y)
      BY <1>1
    <2>4. y \in N
      BY <2>3
    <2> HIDE DEF y
    <2>5. Named(y) \in X /\ Named(y).name = y
      BY <1>4, <2>4
    <2>6. x = y
      BY <1>5, <2>2, <2>3, <2>5
    <2>7. x \in ToSet(NamesOf(i))
      BY <1>3, <1>12, <2>4, <2>6
    <2>8. PICK l \in 1..Len(NamesOf(i)) : NamesOf(i)[l] = x
      BY <1>10, <2>7 DEF ToSet
    <2>9. l \in 1..Len(b[i]) /\ b[i][l] = Named(x)
      BY <1>1, <1>9, <2>8
    <2>10. Identifier(b[i][l]) = id
      BY <2>2, <2>3, <2>6, <2>9
    <2> QED  BY <1>9, <2>9, <2>10 DEF Identifiers
  <1> QED  BY <1>6, <1>11, <1>12 DEF b

-----------------------------------------------------------------------------
(***************************************************************************)
(* What depends on the components and the number of bins alone.            *)
(***************************************************************************)
LEMMA SameView ==
    ASSUME UNCHANGED <<components, bins>>
    PROVE  /\ Regular' = Regular /\ Frequent' = Frequent /\ RegularSet' = RegularSet
           /\ LimitHs' = LimitHs /\ MaxBins' = MaxBins /\ Partitions' = Partitions
           /\ EnoughForBins' = EnoughForBins
  <1>1. components' = components /\ bins' = bins
    OBVIOUS
  <1>2. Regular' = Regular /\ Frequent' = Frequent /\ RegularSet' = RegularSet
    BY <1>1 DEF Regular, Frequent, RegularSet
  <1>3. MaxFreqBins' = MaxFreqBins
    BY <1>2 DEF MaxFreqBins
  <1>4. LimitHs' = LimitHs /\ MaxBins' = MaxBins
    BY <1>1, <1>3 DEF LimitHs, MaxBins
  <1>5. Partitions' = Partitions
    BY <1>2, <1>4 DEF Partitions
  <1>6. EnoughForBins' = EnoughForBins
    BY <1>1, <1>2, <1>4 DEF EnoughForBins
  <1> QED  BY <1>2, <1>4, <1>5, <1>6

LEMMA SameImage ==
    ASSUME ImageOK, UNCHANGED <<image, lineage>>
    PROVE  ImageOK'
  <1>1. image' = image /\ lineage' = lineage
    OBVIOUS
  <1>2. /\ image' \in Seq(LayerType) /\ \A i \in DOMAIN image' : LayerOK(image'[i])
        /\ lineage' \in [started : BOOLEAN, bins : Nat, distinct : BOOLEAN]
    BY <1>1, Zenon DEF ImageOK
  <1>3. lineage'.started => image' # <<>>
    BY <1>1, Zenon DEF ImageOK
  <1>4. Annotated(image') => Len(image') <= lineage'.bins /\ (lineage'.distinct => Apart(image'))
    BY <1>1, Zenon DEF ImageOK
  <1> QED  BY <1>2, <1>3, <1>4, Zenon DEF ImageOK

LEMMA SameRelease ==
    ASSUME Given, UNCHANGED <<line, at, how, bins, components>>, at = 0 => phase' = "idle",
           phase' \in Working => bins >= 4
    PROVE  Given'
  BY DEF Given, Release

\* The parts that speak of one phase only.
LEMMA OtherPhase ==
    ASSUME phase' \notin {"merging", "packed", "published"}
    PROVE  Merging' /\ PackedBins' /\ NothingLost' /\ OwnBins'
  BY DEF Merging, PackedBins, NothingLost, OwnBins

LEMMA InitBinInv == Init => BinInv
  <1> SUFFICES ASSUME Init PROVE BinInv
    OBVIOUS
  <1>1. /\ line \in Lines /\ at = 0 /\ phase = "idle" /\ how = "fresh" /\ bins = 4
        /\ components = <<>> /\ r = <<>> /\ image = <<>>
        /\ lineage = [started |-> FALSE, bins |-> 0, distinct |-> TRUE]
    BY DEF Init, MinChunkedLayers, NoImage
  <1>2. Len(line) \in Nat
    BY <1>1, LinesAssumption
  <1>3. PackTypes
    <2>1. Packable(components) /\ r \in Seq(Seq(ToSet(components)))
      BY <1>1 DEF Packable
    <2> QED  BY <1>1, <1>2, <2>1 DEF PackTypes, Working, Ended
  <1>4. Given
    BY <1>1 DEF Given, Working
  <1>5. ImageOK
    <2>1. image \in Seq(LayerType) /\ Len(image) = 0 /\ DOMAIN image = 1..0
      BY <1>1
    <2>2. Apart(image)
      BY <2>1 DEF Apart
    <2>3. lineage \in [started : BOOLEAN, bins : Nat, distinct : BOOLEAN] /\ ~lineage.started /\ lineage.bins = 0
      BY <1>1
    <2>4. \A i \in DOMAIN image : LayerOK(image[i])
      BY <2>1
    <2> QED  BY <2>1, <2>2, <2>3, <2>4 DEF ImageOK
  <1>6. Merging /\ PackedBins /\ NothingLost /\ OwnBins
    BY <1>1 DEF Merging, PackedBins, NothingLost, OwnBins
  <1> QED  BY <1>3, <1>4, <1>5, <1>6 DEF BinInv

-----------------------------------------------------------------------------
LEMMA StartStep ==
    ASSUME BinInv, at < Len(line), NEW h \in {"fresh", "prior", "cli"}, NEW b \in Nat, NEW cs,
           StartWith(h, b, cs), Packable(cs),
           IF h = "cli" THEN cs = RawLayers(line[at + 1]) /\ b = Len(cs) + 1
                        ELSE cs = ComputeSizes(line[at + 1])
    PROVE  BinInv'
  <1>1. /\ at' = at + 1 /\ how' = h /\ bins' = b /\ components' = cs /\ r' = <<>>
        /\ phase' = IF b < 4 THEN "refused" ELSE "packing"
        /\ line' = line /\ UNCHANGED <<image, lineage>>
    BY DEF StartWith, MinChunkedLayers
  <1>2. PackTypes /\ ImageOK
    BY DEF BinInv
  <1>3. at + 1 \in 0..Len(line) /\ at \in Nat
    BY <1>2, ReleaseOK
  <1>4. PackTypes'
    <2>1. line \in Lines
      BY <1>2 DEF PackTypes
    <2>2. r' \in Seq(Seq(ToSet(components')))
      BY <1>1
    <2> QED  BY <1>1, <1>3, <2>1, <2>2 DEF PackTypes, Working, Ended
  <1>5. Release' = line[at + 1]
    BY <1>1 DEF Release
  <1>6. Given'
    <2>1. at' # 0 /\ at' > 0
      BY <1>1, <1>3
    <2>2. IF how' = "cli" THEN components' = RawLayers(Release') /\ bins' = Len(components') + 1
                          ELSE components' = ComputeSizes(Release')
      BY <1>1, <1>5
    <2>3. phase' \in Working => bins' >= 4
      BY <1>1 DEF Working
    <2> QED  BY <2>1, <2>2, <2>3 DEF Given
  <1>7. ImageOK'
    BY <1>1, <1>2, SameImage
  <1>8. Merging' /\ PackedBins' /\ NothingLost' /\ OwnBins'
    BY <1>1, OtherPhase
  <1> QED  BY <1>4, <1>6, <1>7, <1>8 DEF BinInv

LEMMA StopStep ==
    ASSUME BinInv, NEW end \in {"refused", "panic"}, at > 0, Stop(end)
    PROVE  BinInv'
  <1>1. phase' = end /\ UNCHANGED <<line, at, how, bins, components, r, image, lineage>>
    BY DEF Stop
  <1>2. PackTypes /\ Given /\ ImageOK
    BY DEF BinInv
  <1>3. PackTypes'
    BY <1>1, <1>2 DEF PackTypes, Ended
  <1>4. Given'
    <2>1. at # 0
      BY <1>2, ReleaseOK
    <2>2. phase' \notin Working
      BY <1>1 DEF Working
    <2> QED  BY <1>1, <1>2, <2>1, <2>2, SameRelease
  <1>5. ImageOK'
    BY <1>1, <1>2, SameImage
  <1>6. Merging' /\ PackedBins' /\ NothingLost' /\ OwnBins'
    BY <1>1, OtherPhase
  <1> QED  BY <1>3, <1>4, <1>5, <1>6 DEF BinInv

LEMMA AtWork ==
    ASSUME BinInv, phase \in Working
    PROVE  at > 0 /\ at # 0 /\ bins >= 4 /\ bins \in Nat /\ Packable(components)
  <1>1. PackTypes /\ Given
    BY DEF BinInv
  <1>2. at # 0
    BY <1>1 DEF Given, Working
  <1>3. at \in Nat
    BY <1>1, ReleaseOK
  <1> QED  BY <1>1, <1>2, <1>3 DEF PackTypes, Given

LEMMA DeriveStep ==
    ASSUME BinInv, Derive
    PROVE  BinInv'
  <1> DEFINE d == [packages |-> Unannotated, content |-> {}]
  <1>1. /\ phase = "published" /\ phase' = "idle" /\ image' = Append(image, d)
        /\ UNCHANGED <<line, at, how, bins, components, r, lineage>>
    BY DEF Derive
  <1>2. PackTypes /\ Given /\ ImageOK
    BY DEF BinInv
  <1>3. PackTypes'
    BY <1>1, <1>2 DEF PackTypes, Ended
  <1>4. Given'
    BY <1>1, <1>2, SameRelease DEF Working
  <1>5. Merging' /\ PackedBins' /\ NothingLost' /\ OwnBins'
    BY <1>1, OtherPhase
  <1>6. d \in LayerType /\ LayerOK(d) /\ d.packages = Unannotated
    <2>1. Unannotated \in Seq(Int) /\ Len(Unannotated) = 1
      BY DEF Unannotated
    <2> HIDE DEF Unannotated
    <2> QED  BY <2>1 DEF LayerType, LayerOK
  <1> HIDE DEF d
  <1>7. image \in Seq(LayerType) /\ \A i \in 1..Len(image) : LayerOK(image[i])
    BY <1>2 DEF ImageOK
  <1>8. /\ image' \in Seq(LayerType) /\ Len(image') = Len(image) + 1 /\ Len(image) \in Nat
        /\ image'[Len(image) + 1] = d /\ \A i \in 1..Len(image) : image'[i] = image[i]
        /\ DOMAIN image' = 1..(Len(image) + 1)
    BY <1>1, <1>6, <1>7
  <1>9. \A i \in DOMAIN image' : LayerOK(image'[i])
    <2> SUFFICES ASSUME NEW i \in 1..(Len(image) + 1) PROVE LayerOK(image'[i])
      BY <1>8
    <2>1. CASE i \in 1..Len(image)
      BY <1>7, <1>8, <2>1
    <2>2. CASE i = Len(image) + 1
      BY <1>6, <1>8, <2>2
    <2> QED  BY <1>8, <2>1, <2>2
  <1>10. ~Annotated(image')
    <2>1. Len(image) + 1 \in DOMAIN image' /\ image'[Len(image) + 1].packages = Unannotated
      BY <1>6, <1>8
    <2> QED  BY <2>1 DEF Annotated
  <1>11. image' # <<>>
    BY <1>8
  <1>12. ImageOK'
    <2>1. lineage' \in [started : BOOLEAN, bins : Nat, distinct : BOOLEAN]
      BY <1>1, <1>2 DEF ImageOK
    <2> QED  BY <1>8, <1>9, <1>10, <1>11, <2>1, Zenon DEF ImageOK
  <1> QED  BY <1>3, <1>4, <1>5, <1>12 DEF BinInv

LEMMA WorkStep ==
    ASSUME BinInv, phase \in Working, phase' \in {"merging", "packed", "panic"},
           r' \in Seq(Seq(ToSet(components))),
           UNCHANGED <<line, at, how, bins, components, image, lineage>>
    PROVE  PackTypes' /\ Given' /\ ImageOK' /\ NothingLost'
  <1>1. PackTypes /\ Given /\ ImageOK
    BY DEF BinInv
  <1>2. PackTypes'
    BY <1>1 DEF PackTypes, Working, Ended
  <1>3. at # 0 /\ bins >= 4
    BY AtWork
  <1>4. Given'
    BY <1>1, <1>3, SameRelease
  <1>5. ImageOK'
    BY <1>1, SameImage
  <1>6. NothingLost'
    BY DEF NothingLost
  <1> QED  BY <1>2, <1>4, <1>5, <1>6

LEMMA FewStep ==
    ASSUME BinInv, PackFew
    PROVE  BinInv'
  <1>1. /\ phase = "packing" /\ how # "prior" /\ Len(components) < bins /\ phase' = "packed" /\ r' = Few
        /\ UNCHANGED <<line, at, how, bins, components, image, lineage>>
    BY DEF PackFew, Few
  <1>2. Packable(components) /\ bins \in Nat /\ Len(components) \in Nat
    BY <1>1, AtWork, PackableList DEF Working
  <1>3. /\ Tiles(Few, ToSet(components)) /\ Len(Few) <= bins
        /\ \A i \in DOMAIN Few : Len(Few[i]) <= 1
    BY <1>1, <1>2, FewBins
  <1>4. r' \in Seq(Seq(ToSet(components)))
    BY <1>1, <1>3 DEF Tiles
  <1>5. PackTypes' /\ Given' /\ ImageOK' /\ NothingLost'
    BY <1>1, <1>4, WorkStep DEF Working
  <1>6. PackedBins'
    BY <1>1, <1>3 DEF PackedBins
  <1>7. Merging'
    BY <1>1 DEF Merging
  <1>8. OwnBins'
    <2>1. ~(Len(components') >= bins')
      BY <1>1, <1>2
    <2>2. \A i \in DOMAIN r' : Len(r'[i]) <= 1
      BY <1>1, <1>3
    <2> QED  BY <2>1, <2>2 DEF OwnBins
  <1> QED  BY <1>5, <1>6, <1>7, <1>8 DEF BinInv

(***************************************************************************)
(* The bins that merging starts from.                                      *)
(***************************************************************************)
LEMMA FirstBins ==
    ASSUME Packable(components), bins \in Nat, bins >= 4, NEW per \in Nat
    PROVE  LET p == Partitions
               t == BinsOf(p, per)
           IN  /\ Tiles(t, RegularSet) /\ Len(p.high) <= Len(t)
               /\ \A k \in 1..Len(p.high) : t[k] = <<p.high[k]>>
               /\ Together(t, ToSet(p.low))
  <1> DEFINE p == Partitions
             t == BinsOf(p, per)
  <1>1. PICK H, L, R :
              /\ List(p.high, H) /\ List(p.low, L) /\ List(p.rest, R)
              /\ H \intersect L = {} /\ H \intersect R = {} /\ L \intersect R = {}
              /\ H \union L \union R = RegularSet
    BY PartitionsAre
  <1> HIDE DEF p
  <1>2. Tiles(t, H \union L \union R) /\ Opens(t, p)
    BY <1>1, BinsTile
  <1>3. Tiles(t, RegularSet)
    BY <1>1, <1>2
  <1> HIDE DEF t
  <1>4. p.low \in Seq(L) /\ p.high \in Seq(H)
    BY <1>1 DEF List
  <1>5. DOMAIN p.low = 1..Len(p.low) /\ Len(p.low) \in Nat /\ Len(p.high) \in Nat
    BY <1>4
  <1>6. Together(t, ToSet(p.low))
    <2> SUFFICES ASSUME NEW k \in 1..Len(t), NEW l \in 1..Len(t[k]), t[k][l] \in ToSet(p.low),
                        NEW d \in ToSet(p.low)
                 PROVE  \E j \in 1..Len(t[k]) : t[k][j] = d
      BY DEF Together
    <2> DEFINE h == Len(p.high) + 1
    <2>1. PICK m \in 1..Len(p.low) : p.low[m] = t[k][l]
      BY <1>5 DEF ToSet
    <2>2. p.low # <<>>
      BY <1>5, <2>1
    <2>3. h \in 1..Len(t) /\ t[h] = p.low
      <3>1. Len(t) \in Nat
        BY <1>3 DEF Tiles
      <3> QED  BY <1>2, <1>5, <2>2, <3>1 DEF Opens
    <2> HIDE DEF h
    <2>4. m \in 1..Len(t[h]) /\ t[h][m] = t[k][l]
      BY <2>1, <2>3
    <2>5. \A a, b \in 1..Len(t) : \A x \in 1..Len(t[a]) : \A y \in 1..Len(t[b]) :
             t[a][x] = t[b][y] => a = b /\ x = y
      BY <1>3, Zenon DEF Tiles
    <2>6. h = k
      BY <2>3, <2>4, <2>5
    <2>7. PICK j \in 1..Len(p.low) : p.low[j] = d
      BY <1>5 DEF ToSet
    <2> QED  BY <2>3, <2>6, <2>7
  <1> QED  BY <1>2, <1>3, <1>6 DEF t, p, Opens

LEMMA PerBinType ==
    ASSUME Packable(components), bins \in Nat, bins >= 4
    PROVE  PerBin(Partitions) \in Nat /\ Spare(Partitions) \in Int
  <1> DEFINE p == Partitions
  <1>1. PICK L : List(p.low, L)
    BY PartitionsAre
  <1>2. Len(p.low) \in Nat
    BY <1>1 DEF List
  <1>3. Len(Regular) \in Nat /\ Len(components) \in Nat
    BY RegularIs, PackableList DEF List
  <1>4. LimitHs \in Nat /\ LimitMs \in Nat \ {0}
    BY Limits
  <1> HIDE DEF p
  <1>5. Spare(p) \in Int
    BY <1>2, <1>3, <1>4 DEF Spare
  <1>6. PerBin(p) \in Nat
    <2>1. CASE Spare(p) < 0
      BY <1>3, <2>1 DEF PerBin
    <2>2. CASE ~(Spare(p) < 0)
      <3>1. Spare(p) \in Nat
        BY <1>5, <2>2
      <3>2. Spare(p) \div LimitMs \in Nat
        BY <1>4, <3>1, Quotient
      <3> QED  BY <2>2, <3>2 DEF PerBin
    <2> QED  BY <2>1, <2>2
  <1> QED  BY <1>5, <1>6 DEF p

LEMMA ToMergeStep ==
    ASSUME BinInv, phase = "packing", how # "prior", Len(components) >= bins, NEW t, ToMerge(t),
           Tiles(t, RegularSet),
           Regular # <<>> => /\ Len(Partitions.high) <= Len(t)
                             /\ \A k \in 1..Len(Partitions.high) : t[k] = <<Partitions.high[k]>>
                             /\ Together(t, ToSet(Partitions.low))
    PROVE  BinInv'
  <1>1. phase' = "merging" /\ r' = t /\ UNCHANGED <<line, at, how, bins, components, image, lineage>>
    BY DEF ToMerge
  <1>2. at > 0 /\ bins >= 4 /\ bins \in Nat /\ Packable(components) /\ Len(components) \in Nat
    BY AtWork, PackableList DEF Working
  <1>3. how = "fresh"
    <2>1. how \in {"fresh", "prior", "cli"}
      BY DEF BinInv, PackTypes
    <2>2. how = "cli" => bins = Len(components) + 1
      BY <1>2 DEF BinInv, Given
    <2> QED  BY <1>2, <2>1, <2>2
  <1>4. r' \in Seq(Seq(ToSet(components)))
    <2>1. RegularSet \subseteq ToSet(components)
      BY DEF RegularSet
    <2>2. t \in Seq(Seq(RegularSet))
      BY Zenon DEF Tiles
    <2> QED  BY <1>1, <2>1, <2>2, Wider
  <1>5. PackTypes' /\ Given' /\ ImageOK' /\ NothingLost'
    BY <1>1, <1>4, WorkStep DEF Working
  <1>6. PackedBins' /\ OwnBins'
    BY <1>1 DEF PackedBins, OwnBins
  <1>7. Merging'
    <2>1. Regular' = Regular /\ RegularSet' = RegularSet /\ Partitions' = Partitions
      BY <1>1, SameView
    <2>2. Tiles(r', RegularSet')
      BY <1>1, <2>1
    <2>3. Regular' # <<>> => InFront(Partitions)' /\ Together(r', ToSet(Partitions'.low))
      BY <1>1, <2>1 DEF InFront
    <2>4. how' = "fresh" /\ Len(components') >= bins'
      BY <1>1, <1>3
    <2> QED  BY <2>2, <2>3, <2>4 DEF Merging
  <1> QED  BY <1>5, <1>6, <1>7 DEF BinInv

LEMMA ManyStep ==
    ASSUME BinInv, PackMany
    PROVE  BinInv'
  <1>1. /\ phase = "packing" /\ how # "prior" /\ Len(components) >= bins
        /\ IF Regular = <<>> THEN ToMerge(<<>>) ELSE PackRegular(Partitions)
    BY DEF PackMany
  <1>2. at > 0 /\ bins >= 4 /\ bins \in Nat /\ Packable(components)
    BY <1>1, AtWork DEF Working
  <1>3. CASE Regular = <<>>
    <2>1. RegularSet = {}
      BY <1>2, <1>3, RegularIs DEF List
    <2>2. Tiles(<<>>, RegularSet)
      BY <2>1, TilesNone
    <2>3. ToMerge(<<>>)
      BY <1>1, <1>3
    <2> QED  BY <1>1, <1>3, <2>2, <2>3, ToMergeStep
  <1>4. CASE Regular # <<>> /\ Stop("panic")
    BY <1>2, <1>4, StopStep
  <1>5. CASE Regular # <<>> /\ ToMerge(BinsOf(Partitions, PerBin(Partitions)))
    <2> DEFINE t == BinsOf(Partitions, PerBin(Partitions))
    <2>1. PerBin(Partitions) \in Nat
      BY <1>2, PerBinType
    <2>2. /\ Tiles(t, RegularSet) /\ Len(Partitions.high) <= Len(t)
          /\ \A k \in 1..Len(Partitions.high) : t[k] = <<Partitions.high[k]>>
          /\ Together(t, ToSet(Partitions.low))
      BY <1>2, <2>1, FirstBins
    <2>3. ToMerge(t)
      BY <1>5
    <2> HIDE DEF t
    <2> QED  BY <1>1, <2>2, <2>3, ToMergeStep
  <1> QED  BY <1>1, <1>3, <1>4, <1>5, Zenon DEF PackRegular

LEMMA MergeStep ==
    ASSUME BinInv, MergeBins
    PROVE  BinInv'
  <1> DEFINE t == MergePass(r)
  <1>1. /\ phase = "merging" /\ Len(r) > MaxBins /\ r' = t /\ phase' = "merging"
        /\ UNCHANGED <<line, at, how, bins, components, image, lineage>>
    BY DEF MergeBins
  <1>2. bins >= 4 /\ bins \in Nat /\ Packable(components)
    BY <1>1, AtWork DEF Working
  <1>3. /\ how = "fresh" /\ Len(components) >= bins /\ Tiles(r, RegularSet)
        /\ Regular # <<>> => InFront(Partitions) /\ Together(r, ToSet(Partitions.low))
    BY <1>1 DEF BinInv, Merging
  <1>4. Tiles(t, RegularSet) /\ Len(t) \in Nat
    <2>1. Together(r, {})
      BY DEF Together
    <2>2. Tiles(t, RegularSet)
      BY <1>1, <1>2, <1>3, <2>1, MergePassIs
    <2> HIDE DEF t
    <2> QED  BY <2>2 DEF Tiles
  <1>5. ASSUME Regular # <<>>
        PROVE  /\ Len(Partitions.high) <= Len(t)
               /\ \A k \in 1..Len(Partitions.high) : t[k] = <<Partitions.high[k]>>
               /\ Together(t, ToSet(Partitions.low))
    <2> DEFINE h == Partitions.high
    <2>1. InFront(Partitions) /\ Together(r, ToSet(Partitions.low))
      BY <1>3, <1>5
    <2>2. /\ Together(t, ToSet(Partitions.low)) /\ MaxBins <= Len(t)
          /\ \A k \in 1..LimitHs : t[k] = r[k]
      BY <1>1, <1>2, <1>3, <2>1, MergePassIs
    <2>3. PICK H : List(h, H) /\ Len(h) <= LimitHs
      BY <1>2, PartitionsAre
    <2>4. Len(h) \in Nat
      BY <2>3 DEF List
    <2>5. \A k \in 1..Len(h) : r[k] = <<h[k]>>
      BY <2>1 DEF InFront
    <2>6. LimitHs \in Nat /\ MergeStart = 1 + LimitHs /\ MergeStart <= MaxBins - 1 /\ MaxBins \in Nat
      BY <1>2, Limits
    <2> HIDE DEF h, t
    <2>7. Len(h) <= Len(t)
      BY <1>4, <2>2, <2>3, <2>4, <2>6
    <2>8. \A k \in 1..Len(h) : k \in 1..LimitHs
      BY <2>3, <2>4, <2>6
    <2>9. \A k \in 1..Len(h) : t[k] = <<h[k]>>
      BY <2>2, <2>5, <2>8
    <2> QED  BY <2>2, <2>7, <2>9 DEF h
  <1> HIDE DEF t
  <1>6. r' \in Seq(Seq(ToSet(components)))
    <2>1. RegularSet \subseteq ToSet(components)
      BY DEF RegularSet
    <2>2. t \in Seq(Seq(RegularSet))
      BY <1>4, Zenon DEF Tiles
    <2> QED  BY <1>1, <2>1, <2>2, Wider
  <1>7. PackTypes' /\ Given' /\ ImageOK' /\ NothingLost'
    BY <1>1, <1>6, WorkStep DEF Working
  <1>8. PackedBins' /\ OwnBins'
    BY <1>1 DEF PackedBins, OwnBins
  <1>9. Merging'
    <2>1. Regular' = Regular /\ RegularSet' = RegularSet /\ Partitions' = Partitions
      BY <1>1, SameView
    <2>2. Tiles(r', RegularSet')
      BY <1>1, <1>4, <2>1
    <2>3. Regular' # <<>> => InFront(Partitions)' /\ Together(r', ToSet(Partitions'.low))
      BY <1>1, <1>5, <2>1 DEF InFront
    <2>4. how' = "fresh" /\ Len(components') >= bins'
      BY <1>1, <1>3
    <2> QED  BY <2>2, <2>3, <2>4 DEF Merging
  <1> QED  BY <1>7, <1>8, <1>9 DEF BinInv

LEMMA FinishStep ==
    ASSUME BinInv, FinishBins
    PROVE  BinInv' /\ phase' = "packed"
  <1> DEFINE t == Finished
             X == ToSet(components)
  <1>1. /\ phase = "merging" /\ Len(r) <= MaxBins /\ r' = t
        /\ phase' = IF PackingHolds(t) THEN "packed" ELSE "panic"
        /\ UNCHANGED <<line, at, how, bins, components, image, lineage>>
    BY DEF FinishBins, Packed, Finished
  <1>2. bins >= 4 /\ bins \in Nat /\ Packable(components)
    BY <1>1, AtWork DEF Working
  <1>3. /\ how = "fresh" /\ Len(components) >= bins /\ Tiles(r, RegularSet)
        /\ Regular # <<>> => InFront(Partitions) /\ Together(r, ToSet(Partitions.low))
    BY <1>1 DEF BinInv, Merging
  <1>4. /\ Tiles(t, X) /\ PackingHolds(t) /\ Last(t) = <<>> /\ Len(t) \in Nat
        /\ Frequent # <<>> => t[Len(t) - 1] = Frequent
    BY <1>1, <1>2, <1>3, FinishedBins
  <1>5. Regular # <<>> =>
           /\ \A c \in ToSet(Partitions.high) : \A i \in DOMAIN t : c \in ToSet(t[i]) => t[i] = <<c>>
           /\ \A c, d \in ToSet(Partitions.low) : \A i \in DOMAIN t : c \in ToSet(t[i]) => d \in ToSet(t[i])
    BY <1>1, <1>2, <1>3, FinishedOwn
  <1> HIDE DEF t, X
  <1>6. phase' = "packed" /\ Len(t) <= bins
    BY <1>1, <1>4 DEF PackingHolds
  <1>7. r' \in Seq(Seq(X))
    BY <1>1, <1>4, Zenon DEF Tiles
  <1>8. PackTypes' /\ Given' /\ ImageOK' /\ NothingLost'
    BY <1>1, <1>6, <1>7, WorkStep DEF Working, X
  <1>9. Merging'
    BY <1>6 DEF Merging
  <1>10. PackedBins'
    <2>1. Tiles(r', ToSet(components')) /\ Len(r') <= bins' /\ how' # "prior"
      BY <1>1, <1>3, <1>4, <1>6 DEF X
    <2> QED  BY <2>1 DEF PackedBins
  <1>11. OwnBins'
    <2>1. Regular' = Regular /\ Frequent' = Frequent /\ Partitions' = Partitions
      BY <1>1, SameView
    <2>2. Last(r') = <<>> /\ (Frequent' # <<>> => r'[Len(r') - 1] = Frequent') /\ how' # "cli"
      BY <1>1, <1>3, <1>4, <2>1
    <2>3. ASSUME Regular' # <<>>
          PROVE  /\ \A c \in ToSet(Partitions'.high) : \A i \in DOMAIN r' : c \in ToSet(r'[i]) => r'[i] = <<c>>
                 /\ \A c, d \in ToSet(Partitions'.low) : \A i \in DOMAIN r' : c \in ToSet(r'[i]) => d \in ToSet(r'[i])
      BY <1>1, <1>5, <2>1, <2>3, Zenon
    <2>4. \A c : BinOf(c)' = {i \in DOMAIN r' : c \in ToSet(r'[i])}
      BY DEF BinOf
    <2>5. Regular' # <<>> => \A c \in ToSet(Partitions'.high) : \A i \in BinOf(c)' : r'[i] = <<c>>
      BY <2>3, <2>4, Zenon
    <2>6. Regular' # <<>> => \A c, d \in ToSet(Partitions'.low) : BinOf(c)' = BinOf(d)'
      <3> SUFFICES ASSUME Regular' # <<>>, NEW c \in ToSet(Partitions'.low), NEW d \in ToSet(Partitions'.low)
                   PROVE  BinOf(c)' = BinOf(d)'
        BY Zenon
      <3>1. \A i \in DOMAIN r' : c \in ToSet(r'[i]) <=> d \in ToSet(r'[i])
        BY <2>3, Zenon
      <3> QED  BY <2>4, <3>1, Zenon
    <2> QED  BY <2>2, <2>5, <2>6, Zenon DEF OwnBins
  <1> QED  BY <1>6, <1>8, <1>9, <1>10, <1>11 DEF BinInv

LEMMA SamePrior ==
    ASSUME UNCHANGED <<components, image>>
    PROVE  PriorBins' = PriorBins
  <1>1. components' = components /\ image' = image
    OBVIOUS
  <1>2. PriorNames' = PriorNames /\ NewPackagesBin' = NewPackagesBin
    BY <1>1 DEF PriorNames, NewPackagesBin
  <1>3. Added' = Added
    BY <1>1, <1>2 DEF Added
  <1>4. \A x : Named(x)' = Named(x)
    BY <1>1 DEF Named, SelectInSeq
  <1>5. \A x : Kept(x)' = Kept(x)
    BY <1>1 DEF Kept
  <1> QED  BY <1>1, <1>2, <1>3, <1>4, <1>5 DEF PriorBins

LEMMA PriorStep ==
    ASSUME BinInv, PackByPrior
    PROVE  BinInv'
  <1>1. phase = "packing" /\ how = "prior"
    BY DEF PackByPrior
  <1>2. at > 0 /\ bins \in Nat /\ Packable(components)
    BY <1>1, AtWork DEF Working
  <1>3. CASE Stop("refused") \/ Stop("panic")
    BY <1>2, <1>3, StopStep
  <1>4. CASE /\ ~ \E i \in DOMAIN image : image[i].packages = Unannotated
             /\ image # <<>> /\ Packed(PriorBins)
    <2>1. image \in Seq(LayerType)
      BY DEF BinInv, ImageOK
    <2>2. PriorBins \in Seq(Seq(ToSet(components)))
      BY <1>2, <2>1, PriorBinsAre
    <2>3. /\ phase' = IF PackingHolds(PriorBins) THEN "packed" ELSE "panic"
          /\ r' = PriorBins
          /\ UNCHANGED <<line, at, how, bins, components, image, lineage>>
      BY <1>4 DEF Packed
    <2>4. PackTypes' /\ Given' /\ ImageOK' /\ NothingLost'
      BY <1>1, <2>2, <2>3, WorkStep DEF Working
    <2>5. Merging'
      BY <2>3 DEF Merging
    <2>6. OwnBins'
      BY <1>1, <2>3 DEF OwnBins
    <2>7. PackedBins'
      <3> SUFFICES ASSUME phase' = "packed" PROVE PackedBins'
        BY DEF PackedBins
      <3>1. PackingHolds(PriorBins)
        BY <2>3
      <3>2. Cardinality(Places(r')) = Len(components')
        BY <2>3, <3>1 DEF PackingHolds
      <3>3. Annotated(image)
        BY <1>4 DEF Annotated
      <3>4. PriorBins' = PriorBins
        BY <2>3, SamePrior
      <3>5. Annotated(image') /\ image' # <<>> /\ r' = PriorBins' /\ how' = "prior"
        BY <1>1, <1>4, <2>3, <3>3, <3>4
      <3> QED  BY <3>2, <3>5 DEF PackedBins
    <2> QED  BY <2>4, <2>5, <2>6, <2>7 DEF BinInv
  <1> QED  BY <1>3, <1>4, Zenon DEF PackByPrior

(***************************************************************************)
(* What is packed when the chunks are made: no component twice, and, once  *)
(* nothing is left over, all of them.                                      *)
(***************************************************************************)
LEMMA ReadyToPublish ==
    ASSUME BinInv, phase = "packed", ~LeftOver
    PROVE  Separate(r)
  <1> DEFINE n == Len(r)
             T == Identifiers(components)
             Z == Identifiers(Release.components)
  <1>1. at > 0 /\ Packable(components) /\ PackTypes /\ Given
    BY AtWork DEF Working, BinInv
  <1>2. CASE how # "prior"
    <2>1. Tiles(r, ToSet(components))
      BY <1>2 DEF BinInv, PackedBins
    <2> QED  BY <1>1, <2>1, TilesSeparate
  <1>3. CASE how = "prior"
    <2>1. T = Z
      BY <1>1, <1>3, GivenComponents
    <2>2. r \in Seq(Seq(ToSet(components)))
      BY <1>1 DEF PackTypes
    <2>3. Cardinality(Places(r)) = Len(components)
      BY <1>3 DEF BinInv, PackedBins
    <2>4. Z \subseteq UNION {Identifiers(r[i]) : i \in DOMAIN r}
      BY DEF LeftOver
    <2>5. DOMAIN r = 1..n /\ \A i \in 1..n : r[i] \in Seq(ToSet(components))
      BY <2>2
    <2>6. \A i \in 1..n : DOMAIN r[i] = 1..Len(r[i])
      BY <2>5
    <2> HIDE DEF T, Z
    <2>7. ASSUME NEW id \in T PROVE \E i \in 1..n : \E k \in 1..Len(r[i]) : Identifier(r[i][k]) = id
      <3>1. PICK i \in 1..n : id \in Identifiers(r[i])
        BY <2>1, <2>4, <2>5
      <3>2. PICK k \in 1..Len(r[i]) : id = Identifier(r[i][k])
        BY <2>6, <3>1 DEF Identifiers
      <3> QED  BY <3>2
    <2> QED  BY <1>1, <2>2, <2>3, <2>7, NoneTwice DEF T
  <1> QED  BY <1>2, <1>3

LEMMA NewLineage ==
    ASSUME BinInv, Publish
    PROVE  /\ lineage' \in [started : BOOLEAN, bins : Nat, distinct : BOOLEAN]
           /\ lineage'.distinct => Distinct(components)
           /\ how = "prior" => lineage'.started = lineage.started /\ lineage'.bins = lineage.bins
           /\ how # "prior" => lineage'.started = (components # <<>>) /\ lineage'.bins = bins
  <1> DEFINE D == Distinct(components)
             e == components # <<>>
             d == lineage.distinct /\ D
  <1>1. lineage \in [started : BOOLEAN, bins : Nat, distinct : BOOLEAN] /\ bins \in Nat
    BY DEF BinInv, ImageOK, PackTypes
  <1>2. D \in BOOLEAN /\ e \in BOOLEAN
    BY DEF Distinct
  <1>3. d \in BOOLEAN /\ (d => D)
    BY <1>2
  <1>4. CASE how = "prior"
    <2>1. lineage' = [lineage EXCEPT !.distinct = d]
      BY <1>4 DEF Publish
    <2> HIDE DEF d
    <2>2. /\ lineage' \in [started : BOOLEAN, bins : Nat, distinct : BOOLEAN]
          /\ lineage'.distinct = d /\ lineage'.started = lineage.started /\ lineage'.bins = lineage.bins
      BY <1>1, <1>3, <2>1
    <2> QED  BY <1>3, <1>4, <2>2, Zenon
  <1>5. CASE how # "prior"
    <2>1. lineage' = [started |-> e, bins |-> bins, distinct |-> D]
      BY <1>5 DEF Publish
    <2> HIDE DEF D, e
    <2>2. /\ lineage' \in [started : BOOLEAN, bins : Nat, distinct : BOOLEAN]
          /\ lineage'.distinct = D /\ lineage'.started = e /\ lineage'.bins = bins
      BY <1>1, <1>2, <2>1
    <2> QED  BY <1>5, <2>2, Zenon DEF D, e
  <1> QED  BY <1>4, <1>5

LEMMA PublishStep ==
    ASSUME BinInv, Publish
    PROVE  BinInv'
  <1> DEFINE n == Len(r)
             Z == Identifiers(Release.components)
  <1>1. /\ phase = "packed" /\ AllOwned /\ ~LeftOver /\ phase' = "published" /\ image' = Layers
        /\ UNCHANGED <<line, at, how, bins, components, r>>
    BY DEF Publish, Layers
  <1>2. at > 0 /\ at # 0 /\ bins \in Nat /\ Packable(components) /\ PackTypes /\ Given /\ ImageOK
    BY <1>1, AtWork DEF Working, BinInv
  <1>3. r \in Seq(Seq(ToSet(components))) /\ n \in Nat /\ DOMAIN r = 1..n
    BY <1>2 DEF PackTypes
  <1>4. Separate(r)
    BY <1>1, ReadyToPublish
  <1>5. /\ Layers \in Seq(LayerType) /\ Len(Layers) = n /\ Annotated(Layers)
        /\ \A i \in 1..n : Layers[i].content = Identifiers(r[i]) /\ LayerOK(Layers[i])
        /\ \A i, j \in 1..n : i # j => Layers[i].content \intersect Layers[j].content = {}
        /\ Distinct(components) => Apart(Layers)
    BY <1>2, <1>3, <1>4, LayersAre
  <1>6. DOMAIN Layers = 1..n
    BY <1>5
  <1>7. PackTypes'
    BY <1>1, <1>2 DEF PackTypes, Ended
  <1>8. Given'
    <2>1. phase' \notin Working
      BY <1>1 DEF Working
    <2> QED  BY <1>1, <1>2, <2>1, SameRelease
  <1>9. Merging' /\ PackedBins' /\ OwnBins'
    BY <1>1 DEF Merging, PackedBins, OwnBins
  <1>10. NothingLost'
    <2>1. Release' = Release
      BY <1>1 DEF Release
    <2>2. ~Release.unowned /\ Z \subseteq UNION {Identifiers(r[i]) : i \in 1..n}
      BY <1>1, <1>3 DEF LeftOver
    <2>3. \A i \in 1..n : Identifiers(r[i]) \subseteq Z
      BY <1>1, <1>3 DEF AllOwned
    <2>4. UNION {Identifiers(r[i]) : i \in 1..n} = Z
      <3> HIDE DEF Z
      <3> QED  BY <2>2, <2>3
    <2>5. UNION {Layers[i].content : i \in 1..n} = Z
      <3>1. \A i \in 1..n : Layers[i].content = Identifiers(r[i])
        BY <1>5
      <3>2. UNION {Layers[i].content : i \in 1..n} = UNION {Identifiers(r[i]) : i \in 1..n}
        <4> HIDE DEF n
        <4> QED  BY <3>1, Zenon
      <3> QED  BY <2>4, <3>2
    <2>6. \A i \in 1..n : {id[1] : id \in Layers[i].content} = ToSet(Layers[i].packages) \ {EmptyName}
      <3>1. \A i \in 1..n : Layers[i].packages # Unannotated /\ LayerOK(Layers[i])
        BY <1>5, <1>6 DEF Annotated
      <3> QED  BY <3>1 DEF LayerOK
    <2>7. /\ UNION {image'[i].content : i \in DOMAIN image'} = Identifiers(Release'.components)
          /\ ~Release'.unowned
          /\ \A i, j \in DOMAIN image' : i # j => image'[i].content \intersect image'[j].content = {}
          /\ \A i \in DOMAIN image' :
                {id[1] : id \in image'[i].content} = ToSet(image'[i].packages) \ {EmptyName}
      <3> HIDE DEF n, Layers
      <3>1. image' = Layers /\ DOMAIN image' = 1..n
        BY <1>1, <1>6
      <3>2. UNION {image'[i].content : i \in DOMAIN image'} = Identifiers(Release'.components)
        BY <2>1, <2>5, <3>1
      <3>3. \A i, j \in DOMAIN image' : i # j => image'[i].content \intersect image'[j].content = {}
        BY <1>5, <3>1
      <3>4. \A i \in DOMAIN image' :
                {id[1] : id \in image'[i].content} = ToSet(image'[i].packages) \ {EmptyName}
        BY <2>6, <3>1, Zenon
      <3> QED  BY <2>1, <2>2, <3>2, <3>3, <3>4
    <2> QED  BY <2>7, Zenon DEF NothingLost
  <1>11. ImageOK'
    <2>1. /\ lineage' \in [started : BOOLEAN, bins : Nat, distinct : BOOLEAN]
          /\ lineage'.distinct => Distinct(components)
          /\ how = "prior" => lineage'.started = lineage.started /\ lineage'.bins = lineage.bins
          /\ how # "prior" => lineage'.started = (components # <<>>) /\ lineage'.bins = bins
      BY NewLineage
    <2>2. n <= lineage'.bins /\ (lineage'.started => n # 0)
      <3>1. CASE how = "prior"
        <4>1. r = PriorBins /\ image # <<>> /\ Annotated(image)
          BY <1>1, <3>1 DEF BinInv, PackedBins
        <4>2. image \in Seq(LayerType) /\ Len(image) <= lineage.bins
          BY <1>2, <4>1 DEF ImageOK
        <4>3. n = Len(image)
          BY <1>2, <4>1, <4>2, PriorBinsAre
        <4>4. Len(image) # 0
          BY <4>1, <4>2
        <4> QED  BY <2>1, <3>1, <4>2, <4>3, <4>4
      <3>2. CASE how # "prior"
        <4>1. Tiles(r, ToSet(components)) /\ n <= bins
          BY <1>1, <3>2 DEF BinInv, PackedBins
        <4>2. ASSUME components # <<>> PROVE n # 0
          <5>1. Len(components) # 0 /\ Len(components) \in Nat /\ DOMAIN components = 1..Len(components)
            <6>1. components \in Seq(Component)
              BY <1>2 DEF Packable
            <6> QED  BY <4>2, <6>1
          <5>2. components[1] \in ToSet(components)
            BY <5>1 DEF ToSet
          <5>3. \E i \in 1..n : \E k \in 1..Len(r[i]) : r[i][k] = components[1]
            BY <4>1, <5>2, Zenon DEF Tiles
          <5> QED  BY <1>3, <5>3
        <4> QED  BY <2>1, <3>2, <4>1, <4>2
      <3> QED  BY <3>1, <3>2
    <2> HIDE DEF Layers
    <2>3. image' \in Seq(LayerType) /\ Len(image') = n /\ \A i \in DOMAIN image' : LayerOK(image'[i])
      BY <1>1, <1>5, <1>6
    <2>4. lineage'.started => image' # <<>>
      BY <2>2, <2>3
    <2>5. lineage'.distinct => Apart(image')
      BY <1>1, <1>5, <2>1
    <2>6. Len(image') <= lineage'.bins
      BY <2>2, <2>3
    <2> QED  BY <2>1, <2>3, <2>4, <2>5, <2>6, Zenon DEF ImageOK
  <1> QED  BY <1>7, <1>8, <1>9, <1>10, <1>11 DEF BinInv

LEMMA NextBinInv == BinInv /\ [Next]_vars => BinInv'
  <1> SUFFICES ASSUME BinInv, [Next]_vars PROVE BinInv'
    OBVIOUS
  <1>1. PackTypes
    BY DEF BinInv
  <1>2. ASSUME NEW b \in BinSizes, Fresh(b) PROVE BinInv'
    <2>1. at < Len(line) /\ StartWith("fresh", b, ComputeSizes(line[at + 1])) /\ b \in Nat
      BY <1>2, BinSizesAssumption DEF Fresh
    <2>2. Packable(ComputeSizes(line[at + 1]))
      BY <1>1, <2>1, ReleaseOK, ComputeSizesIs
    <2> QED  BY <2>1, <2>2, StartStep
  <1>3. ASSUME NEW b \in BinSizes, Again(b) PROVE BinInv'
    <2>1. at < Len(line) /\ StartWith("prior", b, ComputeSizes(line[at + 1])) /\ b \in Nat
      BY <1>3, BinSizesAssumption DEF Again
    <2>2. Packable(ComputeSizes(line[at + 1]))
      BY <1>1, <2>1, ReleaseOK, ComputeSizesIs
    <2> QED  BY <2>1, <2>2, StartStep
  <1>4. CASE CommandLine
    <2> DEFINE cs == RawLayers(line[at + 1])
    <2>1. at < Len(line) /\ StartWith("cli", Len(cs) + 1, cs)
      BY <1>4 DEF CommandLine
    <2>2. Packable(cs) /\ Len(cs) \in Nat
      BY <1>1, <2>1, ReleaseOK, RawLayersIs
    <2>3. Len(cs) + 1 \in Nat
      BY <2>2
    <2> QED  BY <2>1, <2>2, <2>3, StartStep
  <1>5. CASE Derive
    BY <1>5, DeriveStep
  <1>6. CASE UNCHANGED vars
    <2>1. UNCHANGED <<line, at, phase, how, bins, components, r, image, lineage>>
      BY <1>6 DEF vars
    <2>2. PackTypes' /\ Given' /\ ImageOK'
      <3>1. PackTypes'
        BY <1>1, <2>1 DEF PackTypes
      <3>2. Given'
        BY <2>1, SameRelease DEF BinInv, Given
      <3>3. ImageOK'
        BY <2>1, SameImage DEF BinInv
      <3> QED  BY <3>1, <3>2, <3>3
    <2>3. /\ Regular' = Regular /\ Frequent' = Frequent /\ RegularSet' = RegularSet
          /\ Partitions' = Partitions /\ PriorBins' = PriorBins /\ Release' = Release
      BY <2>1, SameView, SamePrior DEF Release
    <2>4. Merging'
      <3>1. InFront(Partitions)' <=> InFront(Partitions)
        BY <2>1, <2>3, Zenon DEF InFront
      <3> QED  BY <2>1, <2>3, <3>1, Zenon DEF BinInv, Merging
    <2>5. PackedBins'
      BY <2>1, <2>3, Zenon DEF BinInv, PackedBins
    <2>6. NothingLost'
      BY <2>1, <2>3, Zenon DEF BinInv, NothingLost
    <2>7. OwnBins'
      <3>1. \A c : BinOf(c)' = BinOf(c)
        BY <2>1 DEF BinOf
      <3> QED  BY <2>1, <2>3, <3>1, Zenon DEF BinInv, OwnBins
    <2> QED  BY <2>2, <2>4, <2>5, <2>6, <2>7 DEF BinInv
  <1>7. CASE Pack
    <2>1. CASE AssignFails
      <3>1. phase = "packed" /\ Stop("panic")
        BY <2>1 DEF AssignFails
      <3>2. at > 0
        BY <3>1, AtWork DEF Working
      <3> QED  BY <3>1, <3>2, StopStep
    <2>2. CASE Unmapped
      <3>1. phase = "packing" /\ Stop("refused")
        BY <2>2 DEF Unmapped
      <3>2. at > 0
        BY <3>1, AtWork DEF Working
      <3> QED  BY <3>1, <3>2, StopStep
    <2> QED  BY <1>7, <2>1, <2>2, PriorStep, FewStep, ManyStep, MergeStep, FinishStep, PublishStep DEF Pack
  <1> QED  BY <1>2, <1>3, <1>4, <1>5, <1>6, <1>7 DEF Next, Done

-----------------------------------------------------------------------------
(***************************************************************************)
(* The invariant of every build, and of every sequence of builds, whatever *)
(* the releases, the numbers of layers and the order of fresh packings,    *)
(* packings by a prior image and packings by the command line.             *)
(***************************************************************************)
THEOREM PackingInvariant == Spec => []BinInv
  BY InitBinInv, NextBinInv, PTL DEF Spec

(***************************************************************************)
(* The types of a packing: its bins hold components of the release, and    *)
(* every layer of an image has at least one name.                          *)
(***************************************************************************)
THEOREM PackingTypes == Spec => []TypeOK
  <1>1. ASSUME BinInv PROVE TypeOK
    <2>1. PackTypes /\ ImageOK
      BY <1>1 DEF BinInv
    <2>2. /\ at \in 0..Len(line) /\ phase \in Working \union Ended
          /\ how \in {"fresh", "prior", "cli"} /\ bins \in Nat /\ r \in Seq(Seq(ToSet(components)))
      BY <2>1 DEF PackTypes
    <2>3. \A i \in DOMAIN r : ToSet(r[i]) \subseteq ToSet(components)
      <3> DEFINE X == ToSet(components)
      <3> SUFFICES ASSUME NEW i \in DOMAIN r PROVE ToSet(r[i]) \subseteq X
        OBVIOUS
      <3> HIDE DEF X
      <3>1. r[i] \in Seq(X)
        BY <2>2 DEF X
      <3> QED  BY <3>1 DEF ToSet
    <2>4. \A i \in DOMAIN image : Len(image[i].packages) > 0
      BY <2>1 DEF ImageOK, LayerOK
    <2>5. lineage \in [started : BOOLEAN, bins : Nat, distinct : BOOLEAN]
      BY <2>1 DEF ImageOK
    <2>6. DOMAIN lineage = {"started", "bins", "distinct"}
      BY <2>5
    <2> QED  BY <2>2, <2>3, <2>4, <2>6 DEF TypeOK
  <1> QED  BY <1>1, PackingInvariant, PTL

(***************************************************************************)
(* A published image has every object of its release, in exactly one       *)
(* layer, and names what each layer has: process_mapping's assertion that  *)
(* nothing is left over is all that is needed, as no packing has a         *)
(* component in two places.                                                *)
(***************************************************************************)
THEOREM PackingLosesNothing == Spec => []NothingLost
  <1>1. BinInv => NothingLost
    BY DEF BinInv
  <1> QED  BY <1>1, PackingInvariant, PTL

(***************************************************************************)
(* In a new packing the large components have bins of their own, the small *)
(* ones are together, what changes in every build comes before the empty   *)
(* bin, and on the command line each package has its layer: merging never  *)
(* reaches the bins in front.                                              *)
(***************************************************************************)
THEOREM PackingOwnBins == Spec => []OwnBins
  <1>1. BinInv => OwnBins
    BY DEF BinInv
  <1> QED  BY <1>1, PackingInvariant, PTL

(***************************************************************************)
(* Every pass over too many bins merges a pair, and merging keeps every    *)
(* component: the loop in basic_packing ends.                              *)
(***************************************************************************)
THEOREM PackingMergingEnds == Spec => []MergingEnds
  <1>1. ASSUME BinInv, phase = "merging"
        PROVE  /\ Len(r) > MaxBins => Len(MergePass(r)) < Len(r)
               /\ Cardinality(Places(r)) = Len(Regular)
    <2>1. bins >= 4 /\ bins \in Nat /\ Packable(components)
      BY <1>1, AtWork DEF Working
    <2>2. Tiles(r, RegularSet)
      BY <1>1 DEF BinInv, Merging
    <2>3. Together(r, {})
      BY DEF Together
    <2>4. Len(r) > MaxBins => Len(MergePass(r)) < Len(r)
      BY <2>1, <2>2, <2>3, MergePassIs
    <2>5. IsFiniteSet(RegularSet) /\ Cardinality(RegularSet) = Len(Regular)
      BY <2>1, RegularIs, ListCount
    <2> QED  BY <2>2, <2>4, <2>5, TilesCount
  <1>2. BinInv => MergingEnds
    BY <1>1 DEF MergingEnds
  <1> QED  BY <1>2, PackingInvariant, PTL

(***************************************************************************)
(* A build that follows an image keeps its layers: each one but the last   *)
(* has exactly the components it had, as they are in the new release.      *)
(***************************************************************************)
THEOREM PackingStableLayers == Spec => StableLayers
  <1> DEFINE Stable ==
        Publish /\ how = "prior" =>
            /\ Len(image') = Len(image)
            /\ \A i \in 1..(Len(image) - 1) : image'[i].content = Successors(image[i].content)
  <1>1. ASSUME BinInv, Publish, how = "prior"
        PROVE  /\ Len(image') = Len(image)
               /\ \A i \in 1..(Len(image) - 1) : image'[i].content = Successors(image[i].content)
    <2>1. phase = "packed" /\ ~LeftOver /\ image' = Layers
      BY <1>1 DEF Publish, Layers
    <2>2. at > 0 /\ Packable(components) /\ PackTypes /\ Given /\ ImageOK
      BY <1>1, <2>1, AtWork DEF Working, BinInv
    <2>3. r = PriorBins /\ Annotated(image)
      BY <1>1, <2>1 DEF BinInv, PackedBins
    <2>4. image \in Seq(LayerType) /\ Len(image) \in Nat /\ DOMAIN image = 1..Len(image)
      BY <2>2 DEF ImageOK
    <2>5. Separate(r)
      BY <1>1, <2>1, ReadyToPublish
    <2>6. r \in Seq(Seq(ToSet(components)))
      BY <2>2 DEF PackTypes
    <2>7. Len(Layers) = Len(r) /\ \A i \in 1..Len(r) : Layers[i].content = Identifiers(r[i])
      BY <2>2, <2>5, <2>6, LayersAre
    <2>8. Len(r) = Len(image)
      BY <2>2, <2>3, <2>4, PriorBinsAre
    <2> DEFINE T == Identifiers(components)
               n == Len(r)
    <2>9. ASSUME NEW id \in T PROVE \E j \in 1..n : \E k \in 1..Len(r[j]) : Identifier(r[j][k]) = id
      <3>1. T = Identifiers(Release.components)
        BY <1>1, <2>2, GivenComponents
      <3>2. Identifiers(Release.components) \subseteq UNION {Identifiers(r[j]) : j \in DOMAIN r}
        BY <2>1 DEF LeftOver
      <3>3. DOMAIN r = 1..n /\ \A j \in 1..n : r[j] \in Seq(ToSet(components))
        BY <2>6
      <3>4. \A j \in 1..n : DOMAIN r[j] = 1..Len(r[j])
        BY <3>3
      <3>5. PICK j \in 1..n : id \in Identifiers(r[j])
        BY <2>9, <3>1, <3>2, <3>3
      <3>6. PICK k \in 1..Len(r[j]) : id = Identifier(r[j][k])
        BY <3>4, <3>5 DEF Identifiers
      <3> QED  BY <3>6
    <2>10. ASSUME NEW i \in 1..(Len(image) - 1) PROVE Layers[i].content = Successors(image[i].content)
      <3>1. i \in 1..Len(image) /\ i # Len(image)
        <4> DEFINE m == Len(image)
        <4>1. m \in Nat /\ i \in 1..(m - 1)
          BY <2>4
        <4> HIDE DEF m
        <4>2. i \in 1..m /\ i # m
          BY <4>1
        <4> QED  BY <4>2 DEF m
      <3>2. LayerOK(image[i]) /\ image[i].packages # Unannotated
        BY <2>2, <2>3, <2>4, <3>1 DEF ImageOK, Annotated
      <3>3. \A id \in Identifiers(components) :
               \E j \in 1..Len(PriorBins) : \E k \in 1..Len(PriorBins[j]) : Identifier(PriorBins[j][k]) = id
        BY <2>3, <2>9, SMTT(30) DEF T, n
      <3>4. Identifiers(PriorBins[i]) = Successors(image[i].content)
        BY <2>2, <2>4, <3>1, <3>2, <3>3, KeptContent
      <3> QED  BY <2>3, <2>7, <2>8, <3>1, <3>4
    <2> HIDE DEF Layers
    <2> QED  BY <2>1, <2>7, <2>8, <2>10
  <1>2. BinInv /\ [Next]_vars => [Stable]_vars
    BY <1>1
  <1>3. Spec => [][Stable]_vars
    <2> HIDE DEF Stable
    <2> QED  BY <1>2, PackingInvariant, PTL DEF Spec
  <1> QED  BY <1>3 DEF StableLayers
-----------------------------------------------------------------------------
(***************************************************************************)
(* Why a packing of enough components does not panic.  Sizes descend, so   *)
(* the upper half is not below the median, and the deviation from it is at *)
(* most twice the median: a low size is in the lower half.                 *)
(***************************************************************************)
Falling(z) == \A i, j \in 1..Len(z) : i < j => z[i] >= z[j]

LEMMA Half ==
    ASSUME NEW n \in Nat
    PROVE  LET h == n \div 2
           IN  /\ h \in Nat /\ (n = 2 * h \/ n = 2 * h + 1)
               /\ n % 2 = 1 <=> n = 2 * h + 1
  OBVIOUS

LEMMA MedianIs ==
    ASSUME NEW z \in Seq(Nat), Len(z) # 0
    PROVE  LET n == Len(z)
               h == n \div 2
           IN  /\ h + 1 \in 1..n /\ (n = 2 * h => h \in 1..n)
               /\ n = 2 * h + 1 => TwiceMedian(z) = 2 * z[h + 1]
               /\ n = 2 * h => TwiceMedian(z) = z[h] + z[h + 1]
               /\ TwiceMedian(z) \in Nat
  <1> DEFINE n == Len(z)
             h == n \div 2
  <1>1. n \in Nat \ {0}
    OBVIOUS
  <1>2. h \in Nat /\ (n = 2 * h \/ n = 2 * h + 1) /\ (n % 2 = 1 <=> n = 2 * h + 1)
    BY <1>1, Half
  <1>3. TwiceMedian(z) = IF n % 2 = 1 THEN 2 * z[h + 1] ELSE z[h] + z[h + 1]
    BY DEF TwiceMedian
  <1> HIDE DEF h, n
  <1>4. h + 1 \in 1..n /\ (n = 2 * h => h \in 1..n)
    BY <1>1, <1>2
  <1>5. \A i \in 1..n : z[i] \in Nat
    BY DEF n
  <1>6. CASE n = 2 * h + 1
    <2>1. TwiceMedian(z) = 2 * z[h + 1] /\ z[h + 1] \in Nat /\ n # 2 * h
      BY <1>2, <1>3, <1>4, <1>5, <1>6
    <2> QED  BY <1>4, <1>6, <2>1 DEF h, n
  <1>7. CASE n = 2 * h
    <2>1. TwiceMedian(z) = z[h] + z[h + 1] /\ z[h + 1] \in Nat /\ z[h] \in Nat /\ n # 2 * h + 1
      BY <1>2, <1>3, <1>4, <1>5, <1>7
    <2> QED  BY <1>4, <1>7, <2>1 DEF h, n
  <1> QED  BY <1>2, <1>6, <1>7

(***************************************************************************)
(* Sorted values: when the last n - h places have values of at most v,     *)
(* those of the first h + 1 places are at most v once they are sorted.     *)
(***************************************************************************)
LEMMA SortedIs ==
    ASSUME NEW d \in Seq(Nat)
    PROVE  Orders(StableSort(d, d), d, 1..Len(d), d)
  <1> DEFINE n == Len(d)
  <1>1. n \in Nat /\ DOMAIN d = 1..n /\ \A i \in 1..n : d[i] \in Int
    OBVIOUS
  <1>2. IsFiniteSet(1..n) /\ 1..n \in SUBSET Int
    BY <1>1, Segment
  <1>3. StableSort(d, d) = Arranged(d, 1..n, d)
    BY <1>1 DEF StableSort
  <1> HIDE DEF n
  <1> QED  BY <1>1, <1>2, <1>3, ArrangedIs DEF n

LEMMA SortedLow ==
    ASSUME NEW d \in Seq(Nat), NEW h \in Nat, 2 * h <= Len(d), h < Len(d), NEW v \in Nat,
           \A i \in (Len(d) - h)..Len(d) : d[i] <= v, Len(d) - h >= 1
    PROVE  LET t == StableSort(d, d)
           IN  t \in Seq(Nat) /\ Len(t) = Len(d) /\ \A k \in 1..(h + 1) : t[k] <= v
  <1> DEFINE n == Len(d)
             t == StableSort(d, d)
  <1>1. n \in Nat /\ \A i \in 1..n : d[i] \in Nat
    OBVIOUS
  <1>2. IsFiniteSet(1..n) /\ Cardinality(1..n) = n
    BY <1>1, Segment
  <1>3. Orders(t, d, 1..n, d)
    BY SortedIs
  <1> HIDE DEF t
  <1>4. PICK p : Ordering(p, 1..n, d) /\ t = [k \in 1..n |-> d[p[k]]]
    BY <1>2, <1>3 DEF Orders
  <1>5. /\ \A k \in 1..n : p[k] \in 1..n
        /\ \A k, l \in 1..n : p[k] = p[l] => k = l
        /\ \A k, l \in 1..n : k < l => d[p[k]] < d[p[l]] \/ d[p[k]] = d[p[l]]
    BY <1>2, <1>4 DEF Ordering
  <1>6. \A i \in (n - h)..n : d[i] <= v
    OBVIOUS
  <1>7. h <= n /\ h < n /\ n - h >= 1
    OBVIOUS
  <1> HIDE DEF n
  <1>8. t \in Seq(Nat) /\ Len(t) = n /\ \A k \in 1..n : t[k] = d[p[k]] /\ t[k] \in Nat
    <2>1. \A k \in 1..n : d[p[k]] \in Nat
      BY <1>1, <1>5
    <2> QED  BY <1>1, <1>4, <2>1
  <1>9. ASSUME NEW k \in 1..(h + 1), t[k] > v PROVE FALSE
    <2> DEFINE S == (h + 1)..n
               T == 1..(n - h - 1)
    <2>1. \A l \in S : l \in 1..n /\ k \in 1..n /\ (k < l \/ k = l)
      BY <1>1, <1>7
    <2>2. ASSUME NEW l \in S PROVE d[p[l]] > v
      <3>1. d[p[k]] \in Nat /\ d[p[l]] \in Nat /\ d[p[k]] > v
        BY <1>8, <1>9, <2>1, <2>2
      <3>2. d[p[l]] >= d[p[k]]
        <4>1. k \in 1..n /\ l \in 1..n /\ (k < l \/ k = l)
          BY <2>1, <2>2
        <4>2. k < l => d[p[k]] < d[p[l]] \/ d[p[k]] = d[p[l]]
          BY <1>5, <4>1
        <4>3. k = l => d[p[k]] = d[p[l]]
          OBVIOUS
        <4> QED  BY <3>1, <4>1, <4>2, <4>3
      <3> QED  BY <3>1, <3>2
    <2>3. ASSUME NEW l \in S PROVE p[l] \in T
      <3>1. p[l] \in 1..n /\ d[p[l]] > v /\ d[p[l]] \in Nat
        BY <1>5, <1>8, <2>1, <2>2, <2>3
      <3>2. p[l] \notin (n - h)..n
        BY <1>6, <3>1
      <3> QED  BY <1>1, <1>7, <3>1, <3>2
    <2> DEFINE f == [l \in S |-> p[l]]
    <2>4. IsFiniteSet(S) /\ Cardinality(S) = n - h
      <3>1. h + 1 \in Int /\ n \in Int /\ ~(h + 1 > n) /\ n - (h + 1) + 1 = n - h
        BY <1>1, <1>7
      <3> QED  BY <3>1, FS_Interval
    <2>5. IsFiniteSet(T) /\ Cardinality(T) = n - h - 1
      <3>1. n - h - 1 \in Nat
        BY <1>1, <1>7
      <3> QED  BY <3>1, Segment
    <2>6. Cardinality(T) < Cardinality(S)
      BY <1>1, <2>4, <2>5
    <2>7. f \in [S -> T]
      BY <2>3
    <2>8. \A l \in S : f[l] = p[l]
      OBVIOUS
    <2> HIDE DEF S, T, f
    <2>9. PICK x, y \in S : x # y /\ f[x] = f[y]
      BY <2>4, <2>5, <2>6, <2>7, FS_PigeonHole
    <2>10. p[x] = p[y]
      BY <2>8, <2>9
    <2> QED  BY <1>5, <2>1, <2>9, <2>10
  <1>10. \A k \in 1..(h + 1) : k \in 1..n
    BY <1>1, <1>7
  <1>11. \A k \in 1..(h + 1) : t[k] <= v
    BY <1>8, <1>9, <1>10
  <1> QED  BY <1>8, <1>11 DEF t, n

LEMMA SortedAtLeast ==
    ASSUME NEW d \in Seq(Nat), NEW v \in Int, \A i \in 1..Len(d) : d[i] >= v
    PROVE  LET t == StableSort(d, d)
           IN  \A k \in 1..Len(d) : t[k] >= v
  <1> DEFINE n == Len(d)
             t == StableSort(d, d)
  <1>1. n \in Nat
    OBVIOUS
  <1>2. IsFiniteSet(1..n) /\ Cardinality(1..n) = n
    BY <1>1, Segment
  <1>3. Orders(t, d, 1..n, d)
    BY SortedIs
  <1> HIDE DEF t
  <1>4. PICK p : Ordering(p, 1..n, d) /\ t = [k \in 1..n |-> d[p[k]]]
    BY <1>2, <1>3 DEF Orders
  <1>5. \A k \in 1..n : p[k] \in 1..n
    BY <1>2, <1>4 DEF Ordering
  <1>6. \A k \in 1..n : t[k] >= v
    BY <1>4, <1>5
  <1> QED  BY <1>6 DEF t

(***************************************************************************)
(* The median and the deviation of sizes that descend.                     *)
(***************************************************************************)
LEMMA Deviations ==
    ASSUME NEW z \in Seq(Nat)
    PROVE  LET m == TwiceMedian(z)
               d == [i \in DOMAIN z |-> Abs(2 * z[i] - m)]
           IN  m \in Nat => /\ d \in Seq(Nat) /\ Len(d) = Len(z)
                            /\ \A i \in 1..Len(z) : d[i] = Abs(2 * z[i] - m)
                            /\ FourTimesDeviation(z) = TwiceMedian(StableSort(d, d))
  <1> DEFINE m == TwiceMedian(z)
             d == [i \in DOMAIN z |-> Abs(2 * z[i] - m)]
             n == Len(z)
  <1>1. FourTimesDeviation(z) = TwiceMedian(StableSort(d, d))
    BY DEF FourTimesDeviation
  <1> SUFFICES ASSUME m \in Nat
               PROVE  d \in Seq(Nat) /\ Len(d) = Len(z) /\ \A i \in 1..Len(z) : d[i] = Abs(2 * z[i] - m)
    BY <1>1
  <1> HIDE DEF m
  <1>2. n \in Nat /\ DOMAIN z = 1..n /\ \A i \in 1..n : z[i] \in Nat
    OBVIOUS
  <1>3. \A i \in 1..n : Abs(2 * z[i] - m) \in Nat
    BY <1>2, SMTT(30) DEF Abs
  <1>4. d = [i \in 1..n |-> Abs(2 * z[i] - m)]
    BY <1>2
  <1> HIDE DEF n, d
  <1>5. d \in Seq(Nat) /\ Len(d) = n /\ \A i \in 1..n : d[i] = Abs(2 * z[i] - m)
    BY <1>2, <1>3, <1>4
  <1> QED  BY <1>5 DEF n

LEMMA Spread ==
    ASSUME NEW z \in Seq(Nat), Len(z) # 0, Falling(z)
    PROVE  LET n == Len(z)
               h == n \div 2
               m == TwiceMedian(z)
               e == FourTimesDeviation(z)
           IN  /\ m \in Nat /\ e \in Nat /\ e <= 2 * m
               /\ \A i \in 1..(n - h) : 2 * z[i] >= m
               /\ n = 2 * h => e >= 2 * (z[h] - z[h + 1])
  <1> DEFINE n == Len(z)
             h == n \div 2
             m == TwiceMedian(z)
             e == FourTimesDeviation(z)
             d == [i \in DOMAIN z |-> Abs(2 * z[i] - m)]
             t == StableSort(d, d)
  <1>1. n \in Nat \ {0} /\ \A i \in 1..n : z[i] \in Nat
    OBVIOUS
  <1>2. h \in Nat /\ (n = 2 * h \/ n = 2 * h + 1)
    BY <1>1, Half
  <1>3. /\ h + 1 \in 1..n /\ (n = 2 * h => h \in 1..n)
        /\ n = 2 * h + 1 => m = 2 * z[h + 1]
        /\ n = 2 * h => m = z[h] + z[h + 1]
        /\ m \in Nat
    BY MedianIs
  <1>4. \A i, j \in 1..n : i < j => z[i] >= z[j]
    BY DEF Falling
  <1>5. d \in Seq(Nat) /\ Len(d) = n /\ (\A i \in 1..n : d[i] = Abs(2 * z[i] - m)) /\ e = TwiceMedian(t)
    BY <1>3, Deviations
  <1> HIDE DEF d, m, e, h, n
  <1>6. h < n /\ n - h \in 1..n /\ n - h >= 1 /\ 2 * h <= n
    BY <1>1, <1>2
  <1>order. \A i, j \in 1..n : i <= j => z[i] \in Nat /\ z[j] \in Nat /\ z[i] >= z[j]
    <2> SUFFICES ASSUME NEW i \in 1..n, NEW j \in 1..n, i <= j
                 PROVE  z[i] \in Nat /\ z[j] \in Nat /\ z[i] >= z[j]
      OBVIOUS
    <2>1. z[i] \in Nat /\ z[j] \in Nat
      BY <1>1
    <2>2. CASE i = j
      BY <2>1, <2>2
    <2>3. CASE i # j
      <3>1. i < j
        BY <2>3
      <3> QED  BY <1>4, <2>1, <3>1
    <2> QED  BY <2>2, <2>3
  <1>7. ASSUME NEW i \in 1..(n - h) PROVE 2 * z[i] >= m
    <2>1. i \in 1..n /\ h + 1 \in 1..n
      BY <1>1, <1>2, <1>3
    <2>2. CASE n = 2 * h + 1
      <3>1. i <= h + 1
        BY <1>2, <2>2
      <3>2. z[i] \in Nat /\ z[h + 1] \in Nat /\ z[i] >= z[h + 1]
        BY <1>order, <2>1, <3>1
      <3>3. m = 2 * z[h + 1]
        BY <1>3, <2>2
      <3> QED  BY <3>2, <3>3
    <2>3. CASE n = 2 * h
      <3>1. i <= h + 1 /\ i <= h /\ h \in 1..n
        BY <1>2, <1>3, <2>3
      <3>2. z[i] \in Nat /\ z[h + 1] \in Nat /\ z[i] >= z[h + 1]
        BY <1>order, <2>1, <3>1
      <3>3. z[h] \in Nat /\ z[i] >= z[h]
        BY <1>order, <2>1, <3>1
      <3>4. m = z[h] + z[h + 1]
        BY <1>3, <2>3
      <3> QED  BY <3>2, <3>3, <3>4, SMTT(30)
    <2> QED  BY <1>2, <2>2, <2>3
  <1>8. ASSUME NEW i \in (n - h)..n PROVE d[i] <= m
    <2>1. i \in 1..n /\ h + 1 \in 1..n
      BY <1>1, <1>2, <1>3, <1>6
    <2>2. z[i] \in Nat /\ z[i] <= m
      <3>1. CASE n = 2 * h + 1
        <4>1. h + 1 <= i
          BY <1>2, <3>1
        <4>2. z[i] \in Nat /\ z[h + 1] \in Nat /\ z[i] <= z[h + 1]
          BY <1>order, <2>1, <4>1
        <4>3. m = 2 * z[h + 1]
          BY <1>3, <3>1
        <4> QED  BY <4>2, <4>3
      <3>2. CASE n = 2 * h
        <4>1. h <= i /\ h \in 1..n
          BY <1>2, <1>3, <3>2
        <4>2. z[i] \in Nat /\ z[h] \in Nat /\ z[i] <= z[h]
          BY <1>order, <2>1, <4>1
        <4>3. m = z[h] + z[h + 1] /\ z[h + 1] \in Nat
          BY <1>1, <1>3, <2>1, <3>2
        <4> QED  BY <4>2, <4>3
      <3> QED  BY <1>2, <3>1, <3>2
    <2>3. d[i] = Abs(2 * z[i] - m)
      BY <1>5, <2>1
    <2> QED  BY <1>3, <2>1, <2>2, <2>3 DEF Abs
  <1>9. t \in Seq(Nat) /\ Len(t) = n /\ \A k \in 1..(h + 1) : t[k] <= m
    <2>1. \A i \in (Len(d) - h)..Len(d) : d[i] <= m
      BY <1>5, <1>8
    <2>2. 2 * h <= Len(d) /\ h < Len(d) /\ Len(d) - h >= 1 /\ d \in Seq(Nat)
      BY <1>5, <1>6
    <2>3. t \in Seq(Nat) /\ Len(t) = Len(d) /\ \A k \in 1..(h + 1) : t[k] <= m
      BY <1>2, <1>3, <2>1, <2>2, SortedLow
    <2> QED  BY <1>5, <2>3
  <1> HIDE DEF t
  <1>10. /\ n = 2 * h + 1 => e = 2 * t[h + 1]
         /\ n = 2 * h => e = t[h] + t[h + 1]
         /\ e \in Nat
    <2>1. Len(t) # 0
      BY <1>1, <1>9
    <2> QED  BY <1>5, <1>9, <2>1, MedianIs DEF h
  <1>11. t[h + 1] \in Nat /\ t[h + 1] <= m /\ (n = 2 * h => t[h] \in Nat /\ t[h] <= m)
    <2>1. \A k \in 1..n : t[k] \in Nat
      BY <1>9
    <2>2. h + 1 \in 1..(h + 1) /\ h + 1 \in 1..n
      BY <1>2, <1>3
    <2>3. t[h + 1] \in Nat /\ t[h + 1] <= m
      BY <1>9, <2>1, <2>2
    <2>4. ASSUME n = 2 * h PROVE t[h] \in Nat /\ t[h] <= m
      <3>1. h \in 1..n
        BY <1>3, <2>4
      <3>2. h \in 1..(h + 1)
        BY <3>1
      <3> QED  BY <1>9, <2>1, <3>1, <3>2
    <2> QED  BY <2>3, <2>4
  <1>12. e <= 2 * m
    <2>1. CASE n = 2 * h + 1
      BY <1>3, <1>10, <1>11, <2>1
    <2>2. CASE n = 2 * h
      <3>1. e = t[h] + t[h + 1] /\ t[h] \in Nat /\ t[h] <= m
        BY <1>10, <1>11, <2>2
      <3> QED  BY <1>3, <1>11, <3>1
    <2> QED  BY <1>2, <2>1, <2>2
  <1>13. ASSUME n = 2 * h PROVE e >= 2 * (z[h] - z[h + 1])
    <2> DEFINE a == z[h]
               b == z[h + 1]
    <2>1. h \in 1..n /\ a \in Nat /\ b \in Nat /\ m = a + b /\ h \in Nat
      BY <1>1, <1>2, <1>3, <1>13
    <2>2. ASSUME NEW i \in 1..n PROVE d[i] >= a - b
      <3>1. d[i] = Abs(2 * z[i] - m) /\ z[i] \in Nat
        BY <1>1, <1>5
      <3>2. z[i] >= a \/ z[i] <= b
        <4>1. i <= h \/ h + 1 <= i
          BY <2>1
        <4>2. i <= h => z[i] >= a
          BY <1>order, <2>1
        <4>3. h + 1 <= i => z[i] <= b
          BY <1>3, <1>order
        <4> QED  BY <4>1, <4>2, <4>3
      <3> HIDE DEF a, b
      <3>3. a >= b \/ a < b
        BY <2>1
      <3>4. Abs(2 * z[i] - m) >= a - b
        <4> DEFINE x == z[i]
        <4>1. x \in Nat /\ (x >= a \/ x <= b)
          BY <3>1, <3>2
        <4> HIDE DEF x
        <4>2. Abs(2 * x - (a + b)) >= a - b
          BY <2>1, <4>1 DEF Abs
        <4> QED  BY <2>1, <4>2 DEF x
      <3> QED  BY <3>1, <3>4
    <2>3. a - b \in Int
      BY <2>1
    <2> HIDE DEF a, b
    <2>4. \A k \in 1..n : t[k] >= a - b
      <3>1. \A i \in 1..Len(d) : d[i] >= a - b
        BY <1>5, <2>2
      <3> QED  BY <1>5, <2>3, <3>1, SortedAtLeast DEF t
    <2>5. t[h] >= a - b /\ t[h + 1] >= a - b
      BY <1>3, <2>1, <2>4
    <2>6. e = t[h] + t[h + 1] /\ t[h] \in Nat /\ t[h + 1] \in Nat
      BY <1>10, <1>11, <1>13
    <2>7. e >= 2 * (a - b)
      BY <2>1, <2>5, <2>6
    <2> QED  BY <2>7 DEF a, b
  <1> QED  BY <1>3, <1>7, <1>10, <1>12, <1>13 DEF d, m, e, h, n

(***************************************************************************)
(* Low sizes are in the lower half, and when no size is medium there are   *)
(* more high ones than half of the sizes.                                  *)
(***************************************************************************)
ClassOf(z, i) == MedianClass(z[i], TwiceMedian(z), FourTimesDeviation(z))
InClass(z, class) == {i \in 1..Len(z) : ClassOf(z, i) = class}

LEMMA FewLow ==
    ASSUME NEW z \in Seq(Nat), Len(z) # 0, Falling(z)
    PROVE  LET h == Len(z) \div 2
           IN  /\ IsFiniteSet(InClass(z, "low")) /\ IsFiniteSet(InClass(z, "high"))
               /\ Cardinality(InClass(z, "low")) <= h
               /\ InClass(z, "medium") = {} => Cardinality(InClass(z, "high")) > h
  <1> DEFINE n == Len(z)
             h == n \div 2
             m == TwiceMedian(z)
             e == FourTimesDeviation(z)
             L == InClass(z, "low")
             H == InClass(z, "high")
  <1>1. n \in Nat \ {0} /\ \A i \in 1..n : z[i] \in Nat
    OBVIOUS
  <1>2. h \in Nat /\ (n = 2 * h \/ n = 2 * h + 1)
    BY <1>1, Half
  <1>3. /\ m \in Nat /\ e \in Nat /\ e <= 2 * m
        /\ \A i \in 1..(n - h) : 2 * z[i] >= m
        /\ n = 2 * h => e >= 2 * (z[h] - z[h + 1])
    BY Spread
  <1>4. n = 2 * h => m = z[h] + z[h + 1]
    BY MedianIs
  <1>5. \A i, j \in 1..n : i < j => z[i] >= z[j]
    BY DEF Falling
  <1>6. \A i : ClassOf(z, i) = IF 2 * z[i] >= m + e THEN "high"
                               ELSE IF 4 * z[i] <= Abs(m - e) THEN "low" ELSE "medium"
    BY DEF ClassOf, MedianClass
  <1>7. /\ L = {i \in 1..n : ClassOf(z, i) = "low"} /\ H = {i \in 1..n : ClassOf(z, i) = "high"}
    BY DEF InClass
  <1> HIDE DEF n, h, m, e, L, H
  <1>8. ASSUME NEW i \in 1..(n - h) PROVE i \in 1..n /\ i \notin L
    <2>1. i \in 1..n
      BY <1>1, <1>2
    <2>2. z[i] \in Nat /\ 2 * z[i] >= m
      BY <1>1, <1>3, <2>1
    <2>3. Abs(m - e) <= m
      BY <1>3 DEF Abs
    <2>4. Abs(m - e) \in Nat
      BY <1>3 DEF Abs
    <2>5. ~(2 * z[i] >= m + e) => ~(4 * z[i] <= Abs(m - e))
      BY <1>3, <2>2, <2>3, <2>4
    <2>6. ClassOf(z, i) # "low"
      BY <1>6, <2>5
    <2> QED  BY <1>7, <2>1, <2>6
  <1>9. IsFiniteSet(1..n) /\ IsFiniteSet(L) /\ IsFiniteSet(H)
    <2>1. IsFiniteSet(1..n) /\ L \in SUBSET (1..n) /\ H \in SUBSET (1..n)
      BY <1>1, <1>7, Segment
    <2> QED  BY <2>1, FS_Subset
  <1>10. Cardinality(L) <= h
    <2> DEFINE S == (n - h + 1)..n
    <2>1. L \in SUBSET S
      <3> SUFFICES ASSUME NEW i \in L PROVE i \in S
        OBVIOUS
      <3>1. i \in 1..n /\ i \notin 1..(n - h)
        BY <1>7, <1>8
      <3> QED  BY <1>1, <1>2, <3>1
    <2>2. IsFiniteSet(S) /\ Cardinality(S) = h
      <3>1. n - h + 1 \in Int /\ n \in Int
        BY <1>1, <1>2
      <3>2. (IF n - h + 1 > n THEN 0 ELSE n - (n - h + 1) + 1) = h
        BY <1>1, <1>2
      <3> QED  BY <3>1, <3>2, FS_Interval
    <2> HIDE DEF S
    <2>3. Cardinality(L) <= Cardinality(S)
      BY <2>1, <2>2, FS_Subset
    <2> QED  BY <2>2, <2>3
  <1>11. ASSUME InClass(z, "medium") = {}, Cardinality(H) <= h PROVE FALSE
    <2> DEFINE T == 1..(n - h)
    <2>1. \A i \in 1..n : ClassOf(z, i) # "medium"
      BY <1>11 DEF InClass, n
    <2>2. T \in SUBSET H
      <3> SUFFICES ASSUME NEW i \in T PROVE i \in H
        OBVIOUS
      <3>1. i \in 1..n /\ ClassOf(z, i) # "low" /\ ClassOf(z, i) # "medium"
        BY <1>7, <1>8, <2>1
      <3> QED  BY <1>6, <1>7, <3>1
    <2>3. IsFiniteSet(T) /\ Cardinality(T) = n - h
      <3>1. n - h \in Nat
        BY <1>1, <1>2
      <3> QED  BY <3>1, Segment
    <2> HIDE DEF T
    <2>4. Cardinality(T) <= Cardinality(H) /\ (Cardinality(H) = Cardinality(T) => H = T)
      BY <1>9, <2>2, FS_Subset
    <2>5. Cardinality(H) \in Nat
      BY <1>9, FS_CardinalityType
    <2>6. n = 2 * h /\ Cardinality(H) = Cardinality(T)
      BY <1>1, <1>2, <1>11, <2>3, <2>4, <2>5
    <2>7. H = 1..h /\ h \in 1..n /\ h + 1 \in 1..n /\ h \in H /\ h + 1 \notin H
      <3>1. n - h = h /\ h >= 1
        BY <1>1, <1>2, <2>6
      <3>2. H = 1..h
        BY <2>4, <2>6, <3>1 DEF T
      <3> QED  BY <1>1, <1>2, <2>6, <3>1, <3>2
    <2> DEFINE a == z[h]
               b == z[h + 1]
    <2>8. a \in Nat /\ b \in Nat /\ a >= b /\ m = a + b /\ e >= 2 * (a - b)
      <3>1. h < h + 1
        BY <1>2
      <3> QED  BY <1>1, <1>3, <1>4, <1>5, <2>6, <2>7, <3>1
    <2>9. 2 * a >= m + e
      BY <1>6, <1>7, <2>7
    <2>10. ~(2 * b >= m + e)
      BY <1>6, <1>7, <2>7
    <2> HIDE DEF a, b
    <2> QED  BY <1>3, <2>8, <2>9, <2>10
  <1>12. InClass(z, "medium") = {} => Cardinality(H) > h
    <2>1. Cardinality(H) \in Nat
      BY <1>9, FS_CardinalityType
    <2> QED  BY <1>2, <1>11, <2>1
  <1> QED  BY <1>9, <1>10, <1>12 DEF n, h, L, H

LEMMA EnoughToPack ==
    ASSUME Packable(components), Descending(components), bins \in Nat, bins >= 4,
           Regular # <<>>, Len(Regular) >= 2 * LimitHs
    PROVE  Partitions.rest # <<>> /\ ~(Spare(Partitions) < 0)
  <1> DEFINE cs == Regular
             n == Len(cs)
             z == Field(cs, "size")
             class(i) == MedianClass(cs[i].size, TwiceMedian(z), FourTimesDeviation(z))
             of(k) == Chosen(cs, {i \in DOMAIN cs : class(i) = k})
             high == of("high")
             tail == SubSeq(high, LimitHs + 1, Len(high))
             medium == of("medium")
             rest == tail \o medium
             keys == Field(rest, "freq")
             h == n \div 2
  <1>1. /\ List(cs, RegularSet) /\ cs \in Seq(RegularSet) /\ n \in Nat \ {0} /\ DOMAIN cs = 1..n
        /\ LimitHs \in Nat
    <2>1. List(cs, RegularSet) /\ cs \in Seq(RegularSet) /\ LimitHs \in Nat
      BY RegularIs, Limits DEF List
    <2> QED  BY <2>1
  <1>2. Partitions.low = of("low") /\ Partitions.rest = StableSort(rest, keys)
    BY Zenon DEF Partitions
  <1>3. RegularSet \subseteq Component
    BY DEF RegularSet, ToSet, Packable
  <1>4. \A i \in 1..n : cs[i] \in Component /\ cs[i].size \in Nat /\ cs[i]["size"] = cs[i].size
    <2>1. \A i \in 1..n : cs[i] \in Component
      BY <1>1, <1>3
    <2> QED  BY <2>1, ComponentFields
  <1>5. z \in Seq(Nat) /\ Len(z) = n /\ \A i \in 1..n : z[i] = cs[i].size
    <2>1. z = [i \in 1..n |-> cs[i]["size"]]
      BY <1>1 DEF Field
    <2> HIDE DEF z, n, cs
    <2> QED  BY <1>1, <1>4, <2>1
  <1>6. Falling(z)
    <2>1. \A i, j \in 1..n : i < j => cs[i].size >= cs[j].size
      BY RegularDescending DEF Descending
    <2> HIDE DEF z, n, cs
    <2> QED  BY <1>5, <2>1 DEF Falling
  <1>7. ASSUME NEW k PROVE {i \in DOMAIN cs : class(i) = k} = InClass(z, k)
    <2>1. InClass(z, k) = {i \in 1..n : ClassOf(z, i) = k}
      BY <1>5 DEF InClass
    <2>2. \A i \in 1..n : ClassOf(z, i) = class(i)
      BY <1>5 DEF ClassOf
    <2> HIDE DEF z, cs, n, class
    <2> QED  BY <1>1, <2>1, <2>2
  <1>8. ASSUME NEW k
        PROVE  of(k) \in Seq(RegularSet) /\ Len(of(k)) = Cardinality(InClass(z, k)) /\ IsFiniteSet(InClass(z, k))
    <2> DEFINE I == InClass(z, k)
               ids == [i \in I |-> i]
    <2>1. of(k) = Chosen(cs, I)
      BY <1>7
    <2>2. I \in SUBSET (1..Len(cs))
      BY <1>5 DEF InClass
    <2>3. Chosen(cs, I) = Arranged(cs, I, ids)
      BY DEF Chosen
    <2> HIDE DEF I, of, cs
    <2>4. \A i \in I : ids[i] \in Int
      BY <1>1, <2>2
    <2> HIDE DEF ids
    <2>5. /\ IsFiniteSet(I) /\ Arranged(cs, I, ids) \in Seq(RegularSet)
          /\ Len(Arranged(cs, I, ids)) = Cardinality(I)
      BY <1>1, <2>2, <2>4, ArrangedSet
    <2> QED  BY <2>1, <2>3, <2>5 DEF I
  <1>9. /\ high \in Seq(RegularSet) /\ Len(high) = Cardinality(InClass(z, "high"))
        /\ medium \in Seq(RegularSet) /\ Len(medium) = Cardinality(InClass(z, "medium"))
        /\ Len(Partitions.low) = Cardinality(InClass(z, "low"))
        /\ IsFiniteSet(InClass(z, "medium"))
    BY <1>2, <1>8
  <1>10. /\ IsFiniteSet(InClass(z, "low")) /\ IsFiniteSet(InClass(z, "high"))
         /\ Cardinality(InClass(z, "low")) <= h
         /\ InClass(z, "medium") = {} => Cardinality(InClass(z, "high")) > h
    <2>1. Len(z) # 0
      BY <1>1, <1>5
    <2> QED  BY <1>5, <1>6, <2>1, FewLow
  <1>11. h \in Nat /\ (n = 2 * h \/ n = 2 * h + 1)
    BY <1>1, Half
  <1>12. LimitHs <= h
    <2>1. n >= 2 * LimitHs
      OBVIOUS
    <2> HIDE DEF n, h
    <2> QED  BY <1>1, <1>11, <2>1
  <1>13. Len(Partitions.low) \in Nat
    BY <1>9, <1>10, FS_CardinalityType
  <1>14. ~(Spare(Partitions) < 0)
    <2>1. Spare(Partitions) = n - LimitHs - Len(Partitions.low)
      BY DEF Spare
    <2> HIDE DEF n, h
    <2> QED  BY <1>1, <1>9, <1>10, <1>11, <1>12, <1>13, <2>1
  <1>15. ASSUME Partitions.rest = <<>> PROVE FALSE
    <2>1. StableSort(rest, keys) = <<>>
      BY <1>2, <1>15
    <2> HIDE DEF high, medium, z
    <2>2. tail \in Seq(RegularSet) /\ (Len(high) > LimitHs => Len(tail) > 0)
      <3>1. Len(high) \in Nat /\ \A i \in 1..Len(high) : high[i] \in RegularSet
        BY <1>9
      <3>2. CASE Len(high) > LimitHs
        <4>1. LimitHs + 1 \in 1..Len(high) /\ Len(high) \in 1..Len(high)
          BY <1>1, <3>1, <3>2
        <4>2. tail \in Seq(RegularSet) /\ Len(tail) = Len(high) - (LimitHs + 1) + 1
          <5>1. LimitHs + 1 <= Len(high) + 1
            BY <4>1
          <5> QED  BY <1>9, <4>1, <5>1, SubSeqProperties
        <4> DEFINE x == Len(high)
                   y == Len(tail)
        <4>3. LimitHs \in Nat /\ x \in Nat /\ x > LimitHs /\ y = x - (LimitHs + 1) + 1
          BY <1>1, <3>1, <3>2, <4>2
        <4> HIDE DEF x, y
        <4>4. y > 0
          BY <4>3
        <4> QED  BY <4>2, <4>4 DEF y
      <3>3. CASE ~(Len(high) > LimitHs)
        <4>1. tail = <<>>
          <5>1. LimitHs + 1 \in Int /\ Len(high) \in Int /\ Len(high) < LimitHs + 1
            BY <1>1, <3>1, <3>3
          <5> QED  BY <5>1, SubSeqEmpty
        <4> HIDE DEF tail
        <4>2. tail \in Seq(RegularSet)
          BY <4>1
        <4> QED  BY <3>3, <4>2, Zenon
      <3> QED  BY <3>2, <3>3
    <2> HIDE DEF tail
    <2>3. tail \in Seq(RegularSet) /\ medium \in Seq(RegularSet)
      BY <1>9, <2>2
    <2>4. rest \in Seq(RegularSet) /\ Len(rest) = Len(tail) + Len(medium) /\ Len(tail) \in Nat /\ Len(medium) \in Nat
      BY <2>3, Concat
    <2> HIDE DEF rest
    <2>5. DOMAIN rest = 1..Len(rest) /\ Len(rest) \in Nat /\ \A i \in 1..Len(rest) : rest[i] \in Component
      BY <1>3, <2>4
    <2>6. \A i \in 1..Len(rest) : keys[i] \in Int
      <3> SUFFICES ASSUME NEW i \in 1..Len(rest) PROVE keys[i] \in Int
        OBVIOUS
      <3>1. rest[i]["freq"] \in Int
        BY <2>5, ComponentFields, MaxFreqAssumption
      <3> QED  BY <2>5, <3>1 DEF Field
    <2> HIDE DEF keys
    <2>7. Len(Arranged(rest, 1..Len(rest), keys)) = Cardinality(1..Len(rest))
      <3>1. 1..Len(rest) \in SUBSET (1..Len(rest))
        OBVIOUS
      <3> QED  BY <2>4, <2>6, <3>1, ArrangedSet
    <2>8. Cardinality(1..Len(rest)) = Len(rest)
      BY <2>5, Segment
    <2>9. Len(rest) = 0
      BY <2>1, <2>5, <2>7, <2>8 DEF StableSort
    <2>10. Len(tail) = 0 /\ Len(medium) = 0
      <3> DEFINE x == Len(tail)
                 y == Len(medium)
      <3>1. x \in Nat /\ y \in Nat /\ 0 = x + y
        BY <2>4, <2>9
      <3> HIDE DEF x, y
      <3>2. x = 0 /\ y = 0
        BY <3>1
      <3> QED  BY <3>2 DEF x, y
    <2>11. InClass(z, "medium") = {}
      BY <1>9, <2>10, FS_EmptySet
    <2>12. Len(high) > h
      BY <1>9, <1>10, <2>11
    <2>13. Len(high) \in Nat
      BY <1>9
    <2>14. Len(high) > LimitHs
      <3> DEFINE x == Len(high)
      <3>1. LimitHs \in Nat /\ h \in Nat /\ x \in Nat /\ x > h /\ LimitHs <= h
        BY <1>1, <1>11, <1>12, <2>12, <2>13
      <3> HIDE DEF h, x
      <3>2. x > LimitHs
        BY <3>1
      <3> QED  BY <3>2 DEF x
    <2> QED  BY <2>2, <2>10, <2>14
  <1> QED  BY <1>14, <1>15

(***************************************************************************)
(* The assertions of a packing by a prior image, and of the assignment of  *)
(* the objects to the chunks.                                              *)
(***************************************************************************)
LEMMA PriorHolds ==
    ASSUME BinInv, phase = "packing", GoodInput, how = "prior", Annotated(image)
    PROVE  image # <<>> /\ PackingHolds(PriorBins)
  <1>1. Packable(components) /\ bins \in Nat /\ ImageOK
    BY AtWork DEF Working, BinInv
  <1>2. Distinct(components) /\ lineage.started /\ lineage.distinct /\ lineage.bins <= bins
    BY DEF GoodInput
  <1>3. image \in Seq(LayerType) /\ image # <<>> /\ Apart(image) /\ Len(image) <= lineage.bins
    BY <1>1, <1>2 DEF ImageOK
  <1>4. lineage.bins \in Nat
    <2>1. lineage \in [started : BOOLEAN, bins : Nat, distinct : BOOLEAN]
      BY <1>1 DEF ImageOK
    <2> QED  BY <2>1
  <1>5. Cardinality(Places(PriorBins)) = Len(components)
    BY <1>1, <1>2, <1>3, PriorComplete
  <1>6. Len(PriorBins) = Len(image) /\ Len(image) \in Nat
    BY <1>1, <1>3, PriorBinsAre
  <1>7. Len(PriorBins) <= bins
    BY <1>1, <1>2, <1>3, <1>4, <1>6
  <1> QED  BY <1>3, <1>5, <1>7 DEF PackingHolds

LEMMA AssignHolds ==
    ASSUME BinInv, phase = "packed", GoodInput
    PROVE  AllOwned /\ ~LeftOver
  <1> DEFINE X == ToSet(components)
             T == Identifiers(components)
             n == Len(r)
  <1>1. at > 0 /\ Packable(components) /\ PackTypes /\ Given /\ ImageOK
    BY AtWork DEF Working, BinInv
  <1>2. T = Identifiers(Release.components)
    <2>1. how = "cli" => Release.empty = <<>>
      BY DEF GoodInput
    <2> QED  BY <1>1, <2>1, GivenComponents
  <1>3. r \in Seq(Seq(X)) /\ DOMAIN r = 1..n /\ \A i \in 1..n : r[i] \in Seq(X)
    BY <1>1 DEF PackTypes
  <1>4. \A c \in X : Identifier(c) \in T
    BY DEF ToSet, Identifiers
  <1> HIDE DEF X
  <1>5. \A i \in 1..n : DOMAIN r[i] = 1..Len(r[i]) /\ \A k \in 1..Len(r[i]) : r[i][k] \in X
    BY <1>3
  <1> HIDE DEF T, n
  <1>6. AllOwned
    <2> SUFFICES ASSUME NEW i \in 1..n, NEW id \in Identifiers(r[i]) PROVE id \in T
      BY <1>2, <1>3 DEF AllOwned
    <2>1. PICK k \in 1..Len(r[i]) : id = Identifier(r[i][k])
      BY <1>5 DEF Identifiers
    <2> QED  BY <1>4, <1>5, <2>1
  <1>7. \A id \in T : \E i \in 1..n : \E k \in 1..Len(r[i]) : Identifier(r[i][k]) = id
    <2>1. CASE how # "prior"
      <3>1. Tiles(r, ToSet(components))
        BY <2>1 DEF BinInv, PackedBins
      <3> QED  BY <1>1, <3>1, TilesSeparate DEF T, n
    <2>2. CASE how = "prior"
      <3>1. r = PriorBins /\ image # <<>> /\ Annotated(image)
        BY <2>2 DEF BinInv, PackedBins
      <3>2. Distinct(components) /\ lineage.distinct
        BY <2>2 DEF GoodInput
      <3>3. image \in Seq(LayerType) /\ Apart(image)
        BY <1>1, <3>1, <3>2 DEF ImageOK
      <3>4. \A id \in Identifiers(components) :
               \E i \in 1..Len(PriorBins) : \E k \in 1..Len(PriorBins[i]) : Identifier(PriorBins[i][k]) = id
        BY <1>1, <3>1, <3>2, <3>3, PriorComplete
      <3> QED  BY <3>1, <3>4, Zenon DEF T, n
    <2> QED  BY <2>1, <2>2
  <1>8. ~LeftOver
    <2>1. ~Release.unowned
      BY DEF GoodInput
    <2>2. ASSUME NEW id \in T PROVE id \in UNION {Identifiers(r[i]) : i \in DOMAIN r}
      <3>1. PICK i \in 1..n : \E k \in 1..Len(r[i]) : Identifier(r[i][k]) = id
        BY <1>7
      <3>2. PICK k \in 1..Len(r[i]) : Identifier(r[i][k]) = id
        BY <3>1
      <3>3. id \in Identifiers(r[i])
        BY <1>5, <3>2 DEF Identifiers
      <3> QED  BY <1>3, <3>3
    <2> QED  BY <1>2, <2>1, <2>2 DEF LeftOver
  <1> QED  BY <1>6, <1>8

(***************************************************************************)
(* No build that has what it can rely on panics.  A panic is the end of a  *)
(* build, so that what it relied on is still there to be looked at.        *)
(***************************************************************************)
LEMMA SameInput ==
    ASSUME UNCHANGED <<line, at, how, bins, components, lineage>>
    PROVE  GoodInput' <=> GoodInput
  <1>1. Release' = Release /\ EnoughForBins' = EnoughForBins
    BY SameView DEF Release
  <1>2. /\ how' = how /\ bins' = bins /\ lineage' = lineage
        /\ Distinct(components') <=> Distinct(components)
    OBVIOUS
  <1> QED  BY <1>1, <1>2, Zenon DEF GoodInput

LEMMA NextNoPanic == BinInv /\ NoPanic /\ [Next]_vars => NoPanic'
  <1> SUFFICES ASSUME BinInv, NoPanic, [Next]_vars, phase' = "panic", GoodInput' PROVE FALSE
    BY DEF NoPanic
  <1>1. CASE UNCHANGED vars
    <2>1. UNCHANGED <<line, at, how, bins, components, lineage>> /\ phase' = phase
      BY <1>1 DEF vars
    <2> QED  BY <2>1, SameInput DEF NoPanic
  <1>2. ASSUME NEW b \in BinSizes, Fresh(b) \/ Again(b) PROVE FALSE
    BY <1>2 DEF Fresh, Again, StartWith
  <1>3. CASE CommandLine
    BY <1>3 DEF CommandLine, StartWith
  <1>4. CASE Derive \/ Unmapped \/ PackFew \/ MergeBins \/ Publish
    BY <1>4 DEF Derive, Unmapped, Stop, PackFew, MergeBins, Publish, NoPanic
  <1>5. CASE FinishBins
    <2>1. phase' = "packed"
      BY <1>5, FinishStep
    <2> QED  BY <2>1
  <1>6. CASE PackByPrior
    <2>1. phase = "packing" /\ how = "prior" /\ UNCHANGED <<line, at, how, bins, components, lineage>>
      BY <1>6 DEF PackByPrior, Stop, Packed
    <2>2. GoodInput
      BY <2>1, SameInput
    <2>3. Annotated(image)
      BY <1>6 DEF PackByPrior, Stop, Annotated
    <2>4. image # <<>> /\ PackingHolds(PriorBins)
      BY <2>1, <2>2, <2>3, PriorHolds
    <2> QED  BY <1>6, <2>3, <2>4 DEF PackByPrior, Packed, Annotated
  <1>7. CASE PackMany
    <2>1. phase = "packing" /\ how # "prior" /\ Len(components) >= bins
      BY <1>7 DEF PackMany
    <2>2. Regular # <<>> /\ PackRegular(Partitions)
      BY <1>7 DEF PackMany, ToMerge
    <2>3. Stop("panic") /\ (Partitions.rest = <<>> \/ Spare(Partitions) < 0)
      BY <2>2 DEF PackRegular, ToMerge
    <2>4. UNCHANGED <<line, at, how, bins, components, lineage>>
      BY <2>3 DEF Stop
    <2>5. GoodInput
      BY <2>4, SameInput
    <2>6. at > 0 /\ bins >= 4 /\ bins \in Nat /\ Packable(components) /\ PackTypes /\ Given
      BY <2>1, AtWork DEF Working, BinInv
    <2>7. Len(components) \in Nat
      BY <2>6, PackableList
    <2>8. how # "cli"
      BY <2>1, <2>6, <2>7 DEF Given
    <2>9. Descending(components)
      BY <2>6, <2>8, GivenComponents
    <2>10. Len(Regular) >= 2 * LimitHs
      BY <2>1, <2>2, <2>5, <2>6, <2>7 DEF GoodInput, EnoughForBins
    <2> QED  BY <2>2, <2>3, <2>6, <2>9, <2>10, EnoughToPack
  <1>8. CASE AssignFails
    <2>1. phase = "packed" /\ (~AllOwned \/ LeftOver) /\ Stop("panic")
      BY <1>8 DEF AssignFails
    <2>2. UNCHANGED <<line, at, how, bins, components, lineage>>
      BY <2>1 DEF Stop
    <2>3. GoodInput
      BY <2>2, SameInput
    <2> QED  BY <2>1, <2>3, AssignHolds
  <1> QED  BY <1>1, <1>2, <1>3, <1>4, <1>5, <1>6, <1>7, <1>8 DEF Next, Pack, Done

(***************************************************************************)
(* The assertions, unwraps and panics of chunking.rs are out of reach of a *)
(* build with good input: in particular the two in basic_packing that a    *)
(* median decides, and the ones a packing by a prior image has to meet     *)
(* after any number of builds.                                             *)
(***************************************************************************)
THEOREM PackingNoPanic == Spec => []NoPanic
  <1>1. Init => NoPanic
    BY DEF Init, NoPanic
  <1> QED  BY <1>1, PackingInvariant, NextNoPanic, PTL DEF Spec
=============================================================================

----------------------------- MODULE ListProofs -----------------------------
(***************************************************************************)
(* Facts about the operators of Lists, for sequences of any length.        *)
(***************************************************************************)
EXTENDS Lists, FiniteSetTheorems, WellFoundedInduction, TLAPS

(* R is a strict order of I in which any two elements are ordered.          *)
StrictOrder(I, R) ==
  /\ \A i \in I : <<i, i>> \notin R
  /\ \A i, j, k \in I : <<i, j>> \in R /\ <<j, k>> \in R => <<i, k>> \in R
  /\ \A i, j \in I : i = j \/ <<i, j>> \in R \/ <<j, i>> \in R

(* L holds the elements of I, each once, in the order R.                    *)
Enumerates(L, I, R) ==
  /\ L \in [1 .. Cardinality(I) -> I]
  /\ \A i \in I : \E k \in DOMAIN L : L[k] = i
  /\ \A k, l \in DOMAIN L : k < l => <<L[k], L[l]>> \in R

Before(I, R, i) == {j \in I : <<j, i>> \in R}
Ascending(I) == {x \in I \X I : x[1] < x[2]}

(* The number of predecessors is below the number of elements, and grows    *)
(* along the order.                                                         *)
LEMMA RankGrows ==
  ASSUME NEW I, NEW R, IsFiniteSet(I), StrictOrder(I, R)
  PROVE  /\ \A i \in I : Cardinality(Before(I, R, i)) \in 0 .. Cardinality(I) - 1
         /\ \A i, j \in I : <<i, j>> \in R =>
              Cardinality(Before(I, R, i)) < Cardinality(Before(I, R, j))
<1>1. ASSUME NEW i \in I
      PROVE  /\ IsFiniteSet(Before(I, R, i)) /\ Cardinality(Before(I, R, i)) \in Nat
             /\ Cardinality(Before(I, R, i)) <= Cardinality(I) - 1
  <2>1. i \notin Before(I, R, i) /\ Before(I, R, i) \in SUBSET (I \ {i})
    BY DEF StrictOrder, Before
  <2>2. IsFiniteSet(I \ {i}) /\ Cardinality(I \ {i}) = Cardinality(I) - 1
    BY FS_RemoveElement
  <2>3. IsFiniteSet(Before(I, R, i)) /\ Cardinality(Before(I, R, i)) <= Cardinality(I \ {i})
    BY <2>1, <2>2, FS_Subset
  <2> QED
    BY <2>2, <2>3, FS_CardinalityType
<1>2. Cardinality(I) \in Nat
  BY FS_CardinalityType
<1>3. ASSUME NEW i \in I, NEW j \in I, <<i, j>> \in R
      PROVE  Cardinality(Before(I, R, i)) < Cardinality(Before(I, R, j))
  <2>1. i \in Before(I, R, j) /\ i \notin Before(I, R, i)
    BY <1>3 DEF StrictOrder, Before
  <2>2. Before(I, R, i) \in SUBSET Before(I, R, j)
    BY <1>3 DEF StrictOrder, Before
  <2>3. Cardinality(Before(I, R, i)) <= Cardinality(Before(I, R, j))
    BY <1>1, <2>2, FS_Subset
  <2>4. Cardinality(Before(I, R, i)) # Cardinality(Before(I, R, j))
    BY <1>1, <2>1, <2>2, FS_Subset
  <2> QED
    BY <1>1, <2>3, <2>4
<1> QED
  BY <1>1, <1>2, <1>3

(* Every place is taken, by one element.                                    *)
LEMMA RankTaken ==
  ASSUME NEW I, NEW R, IsFiniteSet(I), StrictOrder(I, R)
  PROVE  /\ \A k \in 1 .. Cardinality(I) : \E i \in I : Cardinality(Before(I, R, i)) = k - 1
         /\ \A i, j \in I : Cardinality(Before(I, R, i)) = Cardinality(Before(I, R, j)) => i = j
<1> DEFINE n == Cardinality(I)
           f == [i \in I |-> Cardinality(Before(I, R, i)) + 1]
<1>0. n \in Nat
  BY FS_CardinalityType
<1>1. \A i, j \in I : Cardinality(Before(I, R, i)) = Cardinality(Before(I, R, j)) => i = j
  <2> TAKE i, j \in I
  <2>1. /\ Cardinality(Before(I, R, i)) \in Nat /\ Cardinality(Before(I, R, j)) \in Nat
        /\ <<i, j>> \in R => Cardinality(Before(I, R, i)) < Cardinality(Before(I, R, j))
        /\ <<j, i>> \in R => Cardinality(Before(I, R, j)) < Cardinality(Before(I, R, i))
    BY <1>0, RankGrows
  <2>2. i = j \/ <<i, j>> \in R \/ <<j, i>> \in R
    BY DEF StrictOrder
  <2> QED
    BY <2>1, <2>2
<1>2. f \in [I -> 1 .. n]
  BY <1>0, RankGrows
<1>3. f \in Injection(I, 1 .. n)
  <2>1. \A i, j \in I : f[i] = f[j] => i = j
    BY <1>0, <1>1, RankGrows
  <2> QED
    BY <1>2, <2>1 DEF Injection, IsInjective
<1>4. IsFiniteSet(1 .. n) /\ Cardinality(1 .. n) = n
  BY <1>0, FS_Interval
<1>5. f \in Surjection(I, 1 .. n)
  BY <1>3, <1>4, FS_Injection
<1>6. \A k \in 1 .. n : \E i \in I : f[i] = k
  BY <1>5 DEF Surjection
<1> QED
  BY <1>0, <1>1, <1>6, RankGrows

(* A list with every element at its place has them in their order.          *)
LEMMA PlacedEnumerates ==
  ASSUME NEW I, NEW R, IsFiniteSet(I), StrictOrder(I, R),
         NEW L \in [1 .. Cardinality(I) -> I],
         \A k \in 1 .. Cardinality(I) : Cardinality(Before(I, R, L[k])) = k - 1
  PROVE  Enumerates(L, I, R)
<1> DEFINE n == Cardinality(I)
<1>0. n \in Nat /\ DOMAIN L = 1 .. n
  BY FS_CardinalityType
<1>1. \A k \in 1 .. n : L[k] \in I /\ Cardinality(Before(I, R, L[k])) = k - 1
  OBVIOUS
<1>3. ASSUME NEW i \in I PROVE \E k \in DOMAIN L : L[k] = i
  <2>1. Cardinality(Before(I, R, i)) + 1 \in 1 .. n
    BY <1>0, RankGrows
  <2>2. L[Cardinality(Before(I, R, i)) + 1] = i
    BY <1>0, <1>1, <2>1, RankGrows, RankTaken
  <2> QED
    BY <1>0, <2>1, <2>2
<1>4. ASSUME NEW k \in DOMAIN L, NEW l \in DOMAIN L, k < l PROVE <<L[k], L[l]>> \in R
  <2>1. L[k] \in I /\ L[l] \in I /\ Cardinality(Before(I, R, L[k])) = k - 1
          /\ Cardinality(Before(I, R, L[l])) = l - 1
    BY <1>0, <1>1
  <2>2. L[k] # L[l]
    BY <1>0, <1>4, <2>1
  <2>3. <<L[l], L[k]>> \notin R
    BY <1>0, <1>4, <2>1, RankGrows
  <2> QED
    BY <2>1, <2>2, <2>3 DEF StrictOrder
<1> QED
  BY <1>3, <1>4 DEF Enumerates

(* Ordered lists the elements in their order.                               *)
LEMMA OrderedEnumerates ==
  ASSUME NEW I, NEW R, IsFiniteSet(I), StrictOrder(I, R)
  PROVE  Enumerates(Ordered(I, R), I, R)
<1> DEFINE n == Cardinality(I)
           at(k) == CHOOSE i \in I : Cardinality(Before(I, R, i)) = k - 1
           L == Ordered(I, R)
<1>1. L = [k \in 1 .. n |-> at(k)]
  BY DEF Ordered, Before
<1>2. \A k \in 1 .. n : at(k) \in I /\ Cardinality(Before(I, R, at(k))) = k - 1
  BY RankTaken
<1> HIDE DEF L, at
<1>3. L \in [1 .. n -> I] /\ \A k \in 1 .. n : Cardinality(Before(I, R, L[k])) = k - 1
  BY <1>1, <1>2
<1> QED
  BY <1>3, PlacedEnumerates DEF L

(* There is one list.                                                       *)
LEMMA OneList ==
  ASSUME NEW I, NEW R, IsFiniteSet(I), StrictOrder(I, R),
         NEW L, NEW M, Enumerates(L, I, R), Enumerates(M, I, R)
  PROVE  L = M
<1> DEFINE n == Cardinality(I)
<1>0. n \in Nat
  BY FS_CardinalityType
<1>1. ASSUME NEW N, Enumerates(N, I, R), NEW k \in 1 .. n
      PROVE  Cardinality(Before(I, R, N[k])) = k - 1
  <2> DEFINE f == [l \in 1 .. k - 1 |-> N[l]]
             B == Before(I, R, N[k])
  <2>1. N \in [1 .. n -> I] /\ (\A i \in I : \E l \in 1 .. n : N[l] = i)
          /\ (\A l, m \in 1 .. n : l < m => <<N[l], N[m]>> \in R)
    BY <1>1 DEF Enumerates
  <2>2. \A l \in 1 .. n : l < k <=> <<N[l], N[k]>> \in R
    <3> TAKE l \in 1 .. n
    <3>1. l < k => <<N[l], N[k]>> \in R
      BY <2>1
    <3>2. k < l => <<N[k], N[l]>> \in R
      BY <2>1
    <3>3. N[k] \in I /\ N[l] \in I
      BY <2>1
    <3>4. <<N[l], N[k]>> \in R => ~(k < l) /\ k # l
      BY <3>2, <3>3 DEF StrictOrder
    <3> QED
      BY <1>0, <3>1, <3>4
  <2>3. f \in [1 .. k - 1 -> B]
    BY <1>0, <2>1, <2>2 DEF Before
  <2>4. \A b \in B : \E l \in 1 .. k - 1 : f[l] = b
    <3> TAKE b \in B
    <3>1. PICK l \in 1 .. n : N[l] = b /\ <<b, N[k]>> \in R
      BY <2>1 DEF Before
    <3> QED
      BY <1>0, <2>2, <3>1
  <2>5. \A l, m \in 1 .. k - 1 : f[l] = f[m] => l = m
    <3> TAKE l, m \in 1 .. k - 1
    <3>1. l \in 1 .. n /\ m \in 1 .. n /\ N[l] \in I /\ N[m] \in I
      BY <1>0, <2>1
    <3>2. l < m => N[l] # N[m]
      BY <2>1, <3>1 DEF StrictOrder
    <3>3. m < l => N[l] # N[m]
      BY <2>1, <3>1 DEF StrictOrder
    <3> QED
      BY <1>0, <3>2, <3>3
  <2>6. ExistsBijection(1 .. k - 1, B)
    BY <2>3, <2>4, <2>5 DEF ExistsBijection, Bijection, Injection, Surjection, IsInjective
  <2> QED
    BY <1>0, <2>6, FS_CountingElements
<1>2. L \in [1 .. n -> I] /\ M \in [1 .. n -> I]
  BY DEF Enumerates
<1>3. \A k \in 1 .. n : L[k] = M[k]
  <2> TAKE k \in 1 .. n
  <2>1. L[k] \in I /\ M[k] \in I
    BY <1>2
  <2>2. Cardinality(Before(I, R, L[k])) = k - 1 /\ Cardinality(Before(I, R, M[k])) = k - 1
    BY <1>1
  <2> QED
    BY <2>1, <2>2, RankTaken
<1>4. L = [k \in 1 .. n |-> L[k]] /\ M = [k \in 1 .. n |-> M[k]]
  BY <1>2
<1>5. [k \in 1 .. n |-> L[k]] = [k \in 1 .. n |-> M[k]]
  BY <1>3
<1> QED
  BY <1>4, <1>5, Zenon

-----------------------------------------------------------------------------
(* Retain.                                                                  *)

(* Positions are finitely many, and ordered.                                *)
LEMMA PositionsOrdered ==
  ASSUME NEW T, NEW s \in Seq(T), NEW S
  PROVE  /\ Hits(s, S) \subseteq 1 .. Len(s)
         /\ IsFiniteSet(Hits(s, S))
         /\ Cardinality(Hits(s, S)) \in Nat
         /\ StrictOrder(Hits(s, S), Ascending(Hits(s, S)))
<1>1. Hits(s, S) \subseteq 1 .. Len(s) /\ Len(s) \in Nat
  BY DEF Hits
<1>2. IsFiniteSet(1 .. Len(s))
  BY <1>1, FS_Interval
<1>3. IsFiniteSet(Hits(s, S))
  BY <1>1, <1>2, FS_Subset
<1>4. StrictOrder(Hits(s, S), Ascending(Hits(s, S)))
  BY <1>1 DEF StrictOrder, Ascending
<1> QED
  BY <1>1, <1>3, <1>4, FS_CardinalityType

(* Retain keeps the elements of S, each from its position, in their order.  *)
LEMMA RetainIs ==
  ASSUME NEW T, NEW s \in Seq(T), NEW S
  PROVE  /\ Retain(s, S) \in Seq(T)
         /\ Len(Retain(s, S)) = Cardinality(Hits(s, S))
         /\ \E p \in [1 .. Len(Retain(s, S)) -> Hits(s, S)] :
              /\ \A i \in Hits(s, S) : \E k \in 1 .. Len(Retain(s, S)) : p[k] = i
              /\ \A k, l \in 1 .. Len(Retain(s, S)) : k < l => p[k] < p[l]
              /\ \A k \in 1 .. Len(Retain(s, S)) : Retain(s, S)[k] = s[p[k]]
<1> DEFINE H == Hits(s, S)
           n == Cardinality(H)
           at(k) == CHOOSE i \in H : Cardinality({j \in H : j < i}) = k - 1
           p == [k \in 1 .. n |-> at(k)]
<1>1. H \subseteq 1 .. Len(s) /\ IsFiniteSet(H) /\ n \in Nat /\ StrictOrder(H, Ascending(H))
  BY PositionsOrdered
<1>2. Enumerates(p, H, Ascending(H))
  <2>1. \A i \in H : Before(H, Ascending(H), i) = {j \in H : j < i}
    BY DEF Before, Ascending
  <2>2. \A k \in 1 .. n : \E i \in H : Cardinality({j \in H : j < i}) = k - 1
    <3>1. \A k \in 1 .. n : \E i \in H : Cardinality(Before(H, Ascending(H), i)) = k - 1
      BY <1>1, RankTaken
    <3> HIDE DEF H, n
    <3> TAKE k \in 1 .. n
    <3>2. PICK i \in H : Cardinality(Before(H, Ascending(H), i)) = k - 1
      BY <3>1
    <3>3. Cardinality({j \in H : j < i}) = k - 1
      BY <2>1, <3>2
    <3> QED
      BY <3>3
  <2>3. \A k \in 1 .. n : at(k) \in H /\ Cardinality({j \in H : j < at(k)}) = k - 1
    BY <2>2
  <2> HIDE DEF at, H
  <2>4. p \in [1 .. n -> H] /\ \A k \in 1 .. n : Cardinality(Before(H, Ascending(H), p[k])) = k - 1
    BY <2>1, <2>3
  <2> QED
    BY <1>1, <2>4, PlacedEnumerates
<1>3. Retain(s, S) = [k \in 1 .. n |-> s[p[k]]]
  BY DEF Retain
<1> HIDE DEF p, at
<1>4. /\ p \in [1 .. n -> H]
      /\ \A i \in H : \E k \in 1 .. n : p[k] = i
      /\ \A k, l \in 1 .. n : k < l => p[k] < p[l]
  <2>1. /\ p \in [1 .. n -> H]
        /\ \A i \in H : \E k \in DOMAIN p : p[k] = i
        /\ \A k, l \in DOMAIN p : k < l => <<p[k], p[l]>> \in Ascending(H)
    BY <1>2 DEF Enumerates
  <2>2. \A i, j : <<i, j>> \in Ascending(H) => i < j
    BY DEF Ascending
  <2> HIDE DEF H
  <2> QED
    BY <2>1, <2>2
<1>5. \A k \in 1 .. n : s[p[k]] \in T
  BY <1>1, <1>4
<1> HIDE DEF H, n
<1>6. Retain(s, S) \in Seq(T) /\ Len(Retain(s, S)) = n
  BY <1>1, <1>5, <1>3
<1>7. \A k \in 1 .. n : Retain(s, S)[k] = s[p[k]]
  BY <1>3
<1>8. \E x \in [1 .. n -> H] :
        /\ \A i \in H : \E k \in 1 .. n : x[k] = i
        /\ \A k, l \in 1 .. n : k < l => x[k] < x[l]
        /\ \A k \in 1 .. n : Retain(s, S)[k] = s[x[k]]
  <2>1. p \in [1 .. n -> H]
    BY <1>4
  <2> WITNESS p \in [1 .. n -> H]
  <2> QED
    BY <1>4, <1>7
<1> QED
  BY <1>6, <1>8, Zenon DEF H, n

(* Only elements of S are kept, and all of them.                            *)
LEMMA RetainKeeps ==
  ASSUME NEW T, NEW s \in Seq(T), NEW S
  PROVE  /\ \A k \in 1 .. Len(Retain(s, S)) :
               Retain(s, S)[k] \in S /\ \E i \in 1 .. Len(s) : s[i] = Retain(s, S)[k]
         /\ \A i \in 1 .. Len(s) :
               s[i] \in S => \E k \in 1 .. Len(Retain(s, S)) : Retain(s, S)[k] = s[i]
<1>1. PICK p \in [1 .. Len(Retain(s, S)) -> Hits(s, S)] :
        /\ \A i \in Hits(s, S) : \E k \in 1 .. Len(Retain(s, S)) : p[k] = i
        /\ \A k, l \in 1 .. Len(Retain(s, S)) : k < l => p[k] < p[l]
        /\ \A k \in 1 .. Len(Retain(s, S)) : Retain(s, S)[k] = s[p[k]]
  BY RetainIs
<1>2. \A i : i \in Hits(s, S) <=> i \in 1 .. Len(s) /\ s[i] \in S
  BY DEF Hits
<1> QED
  BY <1>1, <1>2

(* x is somewhere before y.                                                 *)
Earlier(s, x, y) == \E i, j \in DOMAIN s : i < j /\ s[i] = x /\ s[j] = y

(* What is kept keeps its order.                                            *)
LEMMA RetainEarlier ==
  ASSUME NEW T, NEW s \in Seq(T), NEW S, NEW x \in S, NEW y \in S
  PROVE  Earlier(Retain(s, S), x, y) <=> Earlier(s, x, y)
<1> DEFINE r == Retain(s, S)
<1>1. PICK p \in [1 .. Len(r) -> Hits(s, S)] :
        /\ \A i \in Hits(s, S) : \E k \in 1 .. Len(r) : p[k] = i
        /\ \A k, l \in 1 .. Len(r) : k < l => p[k] < p[l]
        /\ \A k \in 1 .. Len(r) : r[k] = s[p[k]]
  BY RetainIs
<1>2. r \in Seq(T) /\ Len(r) \in Nat /\ DOMAIN r = 1 .. Len(r)
  BY RetainIs
<1>3. \A i : i \in Hits(s, S) <=> i \in DOMAIN s /\ s[i] \in S
  BY DEF Hits
<1>4. \A i \in DOMAIN s : i \in Nat
  OBVIOUS
<1> HIDE DEF r
<1>5. ASSUME Earlier(r, x, y) PROVE Earlier(s, x, y)
  <2>1. PICK k, l \in 1 .. Len(r) : k < l /\ r[k] = x /\ r[l] = y
    BY <1>2, <1>5 DEF Earlier
  <2>2. p[k] < p[l] /\ p[k] \in DOMAIN s /\ p[l] \in DOMAIN s /\ s[p[k]] = x /\ s[p[l]] = y
    BY <1>1, <1>3, <2>1
  <2> QED
    BY <2>2 DEF Earlier
<1>6. ASSUME Earlier(s, x, y) PROVE Earlier(r, x, y)
  <2>1. PICK i, j \in DOMAIN s : i < j /\ s[i] = x /\ s[j] = y
    BY <1>6 DEF Earlier
  <2>2. PICK k \in 1 .. Len(r) : p[k] = i
    BY <1>1, <1>3, <2>1
  <2>3. PICK l \in 1 .. Len(r) : p[l] = j
    BY <1>1, <1>3, <2>1
  <2>4. ~(l < k) /\ l # k
    BY <1>1, <1>4, <2>1, <2>2, <2>3
  <2>5. k < l /\ r[k] = x /\ r[l] = y
    BY <1>1, <1>2, <2>1, <2>2, <2>3, <2>4
  <2> QED
    BY <1>2, <2>5 DEF Earlier
<1> QED
  BY <1>5, <1>6 DEF r

(* What is kept is counted as before.                                       *)
LEMMA RetainCounts ==
  ASSUME NEW T, NEW s \in Seq(T), NEW S, NEW U
  PROVE  Cardinality(Hits(Retain(s, S), U)) = Cardinality(Hits(s, S \cap U))
<1>1. PICK p \in [1 .. Len(Retain(s, S)) -> Hits(s, S)] :
        /\ \A i \in Hits(s, S) : \E k \in 1 .. Len(Retain(s, S)) : p[k] = i
        /\ \A k, l \in 1 .. Len(Retain(s, S)) : k < l => p[k] < p[l]
        /\ \A k \in 1 .. Len(Retain(s, S)) : Retain(s, S)[k] = s[p[k]]
  BY RetainIs
<1> DEFINE r == Retain(s, S)
           A == Hits(r, U)
           B == Hits(s, S \cap U)
           f == [k \in A |-> p[k]]
<1>2. r \in Seq(T) /\ Len(r) \in Nat /\ DOMAIN r = 1 .. Len(r)
  BY RetainIs
<1>3. \A i \in Hits(s, S) : i \in Nat /\ s[i] \in S /\ (i \in B <=> s[i] \in U)
  BY PositionsOrdered DEF Hits
<1>4. B \subseteq Hits(s, S)
  BY DEF Hits
<1>5. \A k \in 1 .. Len(r) : k \in A <=> p[k] \in B
  BY <1>1, <1>2, <1>3 DEF Hits
<1>6. A \subseteq 1 .. Len(r)
  BY <1>2 DEF Hits
<1> HIDE DEF r, A, B
<1>7. f \in [A -> B]
  BY <1>5, <1>6
<1>8. \A b \in B : \E k \in A : f[k] = b
  <2> TAKE b \in B
  <2>1. PICK k \in 1 .. Len(r) : p[k] = b
    BY <1>1, <1>4 DEF r
  <2> QED
    BY <1>5, <2>1
<1>9. \A k, l \in A : f[k] = f[l] => k = l
  <2> TAKE k, l \in A
  <2>1. k \in 1 .. Len(r) /\ l \in 1 .. Len(r) /\ p[k] \in Nat /\ p[l] \in Nat
    BY <1>1, <1>3, <1>6 DEF r
  <2>2. (k < l => p[k] < p[l]) /\ (l < k => p[l] < p[k])
    BY <1>1, <2>1 DEF r
  <2> QED
    BY <1>2, <2>1, <2>2
<1>10. ExistsBijection(A, B)
  BY <1>7, <1>8, <1>9 DEF ExistsBijection, Bijection, Injection, Surjection, IsInjective
<1>11. IsFiniteSet(A)
  BY <1>2, PositionsOrdered DEF A
<1> QED
  BY <1>10, <1>11, FS_Bijection DEF A, B, r
-----------------------------------------------------------------------------
(* Least and greatest elements.                                             *)

(* Every set of naturals has a least element.                               *)
LEMMA NatMin == \A T \in SUBSET Nat : T # {} => \E n \in T : \A m \in T : n <= m
<1> DEFINE R == OpToRel(<, Nat)
<1>1. IsWellFoundedOn(R, Nat)
  BY NatLessThanWellFounded
<1>2. \A x, y \in Nat : x < y => <<x, y>> \in R
  BY DEF OpToRel
<1> HIDE DEF R
<1> SUFFICES ASSUME NEW T \in SUBSET Nat, T # {} PROVE \E n \in T : \A m \in T : n <= m
  OBVIOUS
<1>3. PICK n \in T : \A m \in T : ~(<<m, n>> \in R)
  BY <1>1, WFMin
<1>4. \A m \in T : m \in Nat /\ n \in Nat /\ ~(m < n)
  BY <1>2, <1>3
<1>5. \A m \in T : n <= m
  BY <1>4
<1> QED
  BY <1>5

(* A finite set of naturals has a greatest element.                         *)
LEMMA NatMax ==
  ASSUME NEW S \in SUBSET Nat, IsFiniteSet(S), S # {}
  PROVE  \E n \in S : \A m \in S : n >= m
<1> DEFINE c == Cardinality(S)
           L == Ordered(S, Ascending(S))
<1>1. StrictOrder(S, Ascending(S))
  BY DEF StrictOrder, Ascending
<1>2. Enumerates(L, S, Ascending(S))
  BY <1>1, OrderedEnumerates
<1>3. c \in Nat /\ c # 0
  BY FS_CardinalityType, FS_EmptySet
<1> HIDE DEF L, c
<1>4. L \in [1 .. c -> S] /\ (\A m \in S : \E k \in 1 .. c : L[k] = m)
        /\ (\A k, l \in 1 .. c : k < l => <<L[k], L[l]>> \in Ascending(S))
  <2>1. L \in [1 .. c -> S] /\ (\A m \in S : \E k \in DOMAIN L : L[k] = m)
          /\ (\A k, l \in DOMAIN L : k < l => <<L[k], L[l]>> \in Ascending(S))
    BY <1>2 DEF Enumerates, c
  <2> QED
    BY <2>1
<1>5. c \in 1 .. c /\ L[c] \in S
  BY <1>3, <1>4
<1>6. \A m \in S : L[c] >= m
  <2> TAKE m \in S
  <2>1. PICK k \in 1 .. c : L[k] = m
    BY <1>4
  <2>2. CASE k = c
    BY <1>5, <2>1, <2>2
  <2>3. CASE k < c
    <3>1. <<m, L[c]>> \in Ascending(S)
      BY <1>4, <1>5, <2>1, <2>3
    <3>2. m < L[c]
      BY <3>1 DEF Ascending
    <3>3. m \in Nat /\ L[c] \in Nat
      BY <1>5
    <3> QED
      BY <3>2, <3>3
  <2> QED
    BY <1>3, <2>2, <2>3
<1> QED
  BY <1>5, <1>6
=============================================================================

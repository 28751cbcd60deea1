-------------------------- MODULE PlaylistsProofs --------------------------
(***************************************************************************)
(* Proofs about Playlists for any number of playlists, users and songs and *)
(* any bounds on positions and on the songs of a request.                  *)
(***************************************************************************)
EXTENDS Playlists, FiniteSetTheorems, TLAPS

-----------------------------------------------------------------------------
(* The positions of a list in ascending order.                             *)

\* e lists the n elements of D in ascending order.
Enumerates(e, n, D) ==
  /\ n \in Nat /\ e \in [1..n -> D]
  /\ \A k, l \in 1..n : k < l => e[k] < e[l]
  /\ \A i \in D : \E k \in 1..n : e[k] = i

Below(D, i) == {j \in D : j < i}

\* Ranks go up with the elements.
LEMMA RanksGrow ==
  ASSUME NEW D \in SUBSET Int, IsFiniteSet(D), NEW i \in D
  PROVE  /\ IsFiniteSet(Below(D, i)) /\ Cardinality(Below(D, i)) \in 0..(Cardinality(D) - 1)
         /\ \A h \in D : h < i => Cardinality(Below(D, h)) < Cardinality(Below(D, i))
<1>1. Below(D, i) \in SUBSET D /\ i \notin Below(D, i)
  BY DEF Below
<1>2. /\ IsFiniteSet(Below(D, i)) /\ Cardinality(Below(D, i)) \in Nat
      /\ Cardinality(D) \in Nat /\ Cardinality(Below(D, i)) < Cardinality(D)
  <2>1. IsFiniteSet(Below(D, i)) /\ Cardinality(Below(D, i)) <= Cardinality(D)
        /\ Cardinality(Below(D, i)) # Cardinality(D)
    BY <1>1, FS_Subset
  <2> QED BY <2>1, FS_CardinalityType
<1>3. ASSUME NEW h \in D, h < i
      PROVE  Cardinality(Below(D, h)) < Cardinality(Below(D, i))
  <2>1. Below(D, h) \in SUBSET Below(D, i)
    <3>1. \A j \in D : j \in Int
      OBVIOUS
    <3>2. \A j \in D : j < h => j < i
      BY <1>3, <3>1
    <3> QED BY <3>2 DEF Below
  <2>2. h \in Below(D, i) /\ h \notin Below(D, h)
    BY <1>3 DEF Below
  <2>3. /\ IsFiniteSet(Below(D, h)) /\ Cardinality(Below(D, h)) <= Cardinality(Below(D, i))
        /\ Cardinality(Below(D, h)) # Cardinality(Below(D, i))
    BY <1>2, <2>1, <2>2, FS_Subset
  <2> QED BY <1>2, <2>3, FS_CardinalityType
<1> QED BY <1>2, <1>3

\* The elements of an ascending list have the ranks of their places.
LEMMA RankIsPlace ==
  ASSUME NEW D \in SUBSET Int, NEW n, NEW e, Enumerates(e, n, D)
  PROVE  /\ IsFiniteSet(D) /\ Cardinality(D) = n
         /\ \A k \in 1..n : Cardinality(Below(D, e[k])) = k - 1
<1> USE DEF Enumerates
<1>0. ASSUME NEW k \in 1..n PROVE k \in Int /\ e[k] \in D /\ e[k] \in Int
  <2>1. e[k] \in D /\ n \in Nat
    OBVIOUS
  <2> HIDE DEF Enumerates
  <2>2. \A i \in D : i \in Int
    OBVIOUS
  <2>3. k \in Int
    BY <2>1
  <2>4. e[k] \in Int
    BY <2>1, <2>2, Zenon
  <2> QED BY <2>1, <2>3, <2>4
<1>1. \A k, l \in 1..n : e[k] = e[l] => k = l
  <2>1. SUFFICES ASSUME NEW k \in 1..n, NEW l \in 1..n, k # l PROVE e[k] # e[l]
    OBVIOUS
  <2>2. k < l \/ l < k
    BY <2>1, <1>0
  <2>3. e[k] < e[l] \/ e[l] < e[k]
    BY <2>2
  <2> QED BY <2>3, <1>0
<1>2. e \in Bijection(1..n, D)
  BY <1>1 DEF Bijection, Injection, Surjection, IsInjective
<1>3. IsFiniteSet(D) /\ Cardinality(D) = n
  BY <1>2, FS_Bijection, FS_Interval DEF ExistsBijection
<1>4. ASSUME NEW k \in 1..n PROVE Cardinality(Below(D, e[k])) = k - 1
  <2> DEFINE f == [l \in 1..(k - 1) |-> e[l]]
  <2>1. ASSUME NEW l \in 1..n PROVE e[l] < e[k] <=> l < k
    <3>1. l < k \/ l = k \/ k < l
      BY <1>0
    <3>2. (l < k => e[l] < e[k]) /\ (k < l => e[k] < e[l])
      OBVIOUS
    <3> QED BY <3>1, <3>2, <1>0
  <2>2. f \in [1..(k - 1) -> Below(D, e[k])]
    BY <2>1 DEF Below
  <2>3. \A i \in Below(D, e[k]) : \E l \in 1..(k - 1) : f[l] = i
    BY <2>1 DEF Below
  <2>4. \A l, m \in 1..(k - 1) : f[l] = f[m] => l = m
    BY <1>1
  <2> HIDE DEF f
  <2>5. f \in Bijection(1..(k - 1), Below(D, e[k]))
    BY <2>2, <2>3, <2>4 DEF Bijection, Injection, Surjection, IsInjective
  <2>6. IsFiniteSet(1..(k - 1)) /\ Cardinality(1..(k - 1)) = k - 1
    BY FS_Interval
  <2> QED BY <2>5, <2>6, FS_Bijection DEF ExistsBijection
<1> QED BY <1>3, <1>4

\* Every finite set is listed by Nth.
LEMMA NthEnumerates ==
  ASSUME NEW D \in SUBSET Int, IsFiniteSet(D)
  PROVE  Enumerates([k \in 1..Cardinality(D) |-> Nth(D, k)], Cardinality(D), D)
<1> DEFINE n == Cardinality(D)
           r == [i \in D |-> Cardinality(Below(D, i))]
<1>1. n \in Nat
  BY FS_CardinalityType
<1> HIDE DEF n
<1>2. ASSUME NEW i \in D PROVE r[i] \in 0..(n - 1) /\ \A h \in D : h < i => r[h] < r[i]
  BY RanksGrow DEF n
<1>3. ASSUME NEW h \in D, NEW i \in D, h # i PROVE r[h] # r[i]
  <2>1. h \in Int /\ i \in Int
    OBVIOUS
  <2>2. h < i \/ i < h
    BY <1>3, <2>1
  <2>3. r[h] < r[i] \/ r[i] < r[h]
    BY <1>2, <2>2
  <2>4. r[h] \in 0..(n - 1) /\ r[i] \in 0..(n - 1)
    BY <1>2
  <2> HIDE DEF r
  <2> QED BY <2>3, <2>4, <1>1
<1>4. r \in Injection(D, 0..(n - 1))
  <2>1. r \in [D -> 0..(n - 1)]
    BY <1>2
  <2>2. \A h, i \in D : r[h] = r[i] => h = i
    BY <1>3
  <2> HIDE DEF r
  <2> QED BY <2>1, <2>2 DEF Injection, IsInjective
<1>5. IsFiniteSet(0..(n - 1)) /\ Cardinality(0..(n - 1)) = n
  BY <1>1, FS_Interval
<1>6. r \in Surjection(D, 0..(n - 1))
  BY <1>4, <1>5, FS_Injection DEF n
<1>7. ASSUME NEW k \in 1..n PROVE Nth(D, k) \in D /\ r[Nth(D, k)] = k - 1
  <2>1. k - 1 \in 0..(n - 1)
    BY <1>1
  <2>2. \E i \in D : r[i] = k - 1
    BY <1>6, <2>1 DEF Surjection
  <2> QED BY <2>2 DEF Nth, Below
<1>8. ASSUME NEW k \in 1..n, NEW l \in 1..n, k < l PROVE Nth(D, k) < Nth(D, l)
  <2>1. /\ Nth(D, k) \in D /\ Nth(D, l) \in D /\ k \in Int /\ l \in Int
        /\ r[Nth(D, k)] = k - 1 /\ r[Nth(D, l)] = l - 1
    BY <1>7
  <2>2. Nth(D, k) \in Int /\ Nth(D, l) \in Int
    BY <2>1
  <2>3. CASE Nth(D, l) < Nth(D, k)
    <3>1. r[Nth(D, l)] < r[Nth(D, k)]
      BY <1>2, <2>1, <2>3
    <3> QED BY <3>1, <2>1, <1>8
  <2>4. Nth(D, k) # Nth(D, l)
    BY <2>1, <1>8
  <2> QED BY <2>2, <2>3, <2>4
<1>9. ASSUME NEW i \in D PROVE \E k \in 1..n : Nth(D, k) = i
  <2> DEFINE k == r[i] + 1
  <2>1. k \in 1..n /\ r[i] = k - 1
    BY <1>1, <1>2
  <2>2. Nth(D, k) \in D /\ r[Nth(D, k)] = r[i]
    BY <1>7, <2>1
  <2>3. Nth(D, k) = i
    BY <1>3, <2>2
  <2> QED BY <2>1, <2>3
<1> QED BY <1>1, <1>7, <1>8, <1>9 DEF Enumerates, n

\* So the value of an ascending list is what InOrder returns.
LEMMA InOrderIs ==
  ASSUME NEW t, DOMAIN t \in SUBSET Int, NEW n, NEW e, Enumerates(e, n, DOMAIN t)
  PROVE  InOrder(t) = [k \in 1..n |-> t[e[k]]]
<1> DEFINE D == DOMAIN t
<1>1. /\ IsFiniteSet(D) /\ Cardinality(D) = n
      /\ \A k \in 1..n : Cardinality(Below(D, e[k])) = k - 1
  BY RankIsPlace
<1>2. ASSUME NEW k \in 1..n, NEW i \in D, Cardinality(Below(D, i)) = k - 1
      PROVE  i = e[k]
  <2>1. PICK l \in 1..n : i = e[l]
    BY DEF Enumerates
  <2>2. l - 1 = k - 1
    BY <1>1, <1>2, <2>1
  <2> QED BY <2>1, <2>2
<1>3. ASSUME NEW k \in 1..n PROVE Nth(D, k) = e[k]
  <2>1. e[k] \in D /\ Cardinality({j \in D : j < e[k]}) = k - 1
    BY <1>1 DEF Enumerates, Below
  <2>2. \A i \in D : Cardinality({j \in D : j < i}) = k - 1 => i = e[k]
    BY <1>2 DEF Below
  <2> HIDE DEF D
  <2> QED BY <2>1, <2>2 DEF Nth
<1> QED BY <1>1, <1>3 DEF InOrder

-----------------------------------------------------------------------------
(* What Listed returns for the tables the handlers build.                  *)

\* A table of songs by position.
IsTable(t, S) ==
  /\ DOMAIN t \in SUBSET Int /\ IsFiniteSet(DOMAIN t) /\ t \in [DOMAIN t -> S]

LEMMA Listing ==
  ASSUME NEW S, NEW t, IsTable(t, S)
  PROVE  \E e : /\ Enumerates(e, Cardinality(DOMAIN t), DOMAIN t)
                /\ Cardinality(DOMAIN t) \in Nat
                /\ Listed(t) = [k \in 1..Cardinality(DOMAIN t) |-> t[e[k]]]
                /\ Listed(t) \in Seq(S) /\ Len(Listed(t)) = Cardinality(DOMAIN t)
<1> DEFINE D == DOMAIN t
           n == Cardinality(D)
           e == [k \in 1..n |-> Nth(D, k)]
<1>1. Enumerates(e, n, D)
  BY NthEnumerates DEF IsTable
<1> HIDE DEF e
<1> HIDE DEF n
<1>2. n \in Nat /\ Listed(t) = [k \in 1..n |-> t[e[k]]]
  <2>1. n \in Nat
    BY <1>1 DEF Enumerates
  <2>2. DOMAIN t \in SUBSET Int
    BY DEF IsTable
  <2>3. InOrder(t) = [k \in 1..n |-> t[e[k]]]
    BY <1>1, <2>2, InOrderIs
  <2> QED BY <2>1, <2>3 DEF Listed
<1>3. \A k \in 1..n : t[e[k]] \in S
  BY <1>1 DEF Enumerates, IsTable
<1>4. Listed(t) \in Seq(S) /\ Len(Listed(t)) = n
  BY <1>2, <1>3
<1> QED BY <1>1, <1>2, <1>4 DEF n

\* Songs at consecutive positions.
Row(at, add) == [i \in at..(at + Len(add) - 1) |-> add[i - at + 1]]

LEMMA ListedRow ==
  ASSUME NEW S, NEW add \in Seq(S), NEW at \in Int
  PROVE  Listed(Row(at, add)) = add /\ IsTable(Row(at, add), S)
<1> DEFINE n == Len(add)
           D == at..(at + n - 1)
           e == [k \in 1..n |-> at + k - 1]
<1>1. n \in Nat /\ D \in SUBSET Int /\ IsFiniteSet(D) /\ DOMAIN Row(at, add) = D
  BY FS_Interval DEF Row
<1>2. Enumerates(e, n, D)
  <2>1. e \in [1..n -> D] /\ \A k, l \in 1..n : k < l => e[k] < e[l]
    OBVIOUS
  <2>2. ASSUME NEW i \in D PROVE \E k \in 1..n : e[k] = i
    <3>1. i - at + 1 \in 1..n /\ e[i - at + 1] = i
      BY <1>1
    <3> QED BY <3>1
  <2> QED BY <1>1, <2>1, <2>2 DEF Enumerates
<1>3. Listed(Row(at, add)) = [k \in 1..n |-> Row(at, add)[e[k]]]
  BY <1>1, <1>2, InOrderIs DEF Listed
<1>4. \A k \in 1..n : Row(at, add)[e[k]] = add[k]
  BY <1>1 DEF Row
<1>5. Listed(Row(at, add)) = [k \in 1..n |-> add[k]]
  BY <1>3, <1>4
<1>6. \A i \in D : Row(at, add)[i] \in S
  <2>1. SUFFICES ASSUME NEW i \in D PROVE add[i - at + 1] \in S
    BY DEF Row
  <2>2. i - at + 1 \in 1..n
    BY <1>1
  <2> QED BY <2>2
<1>7. Row(at, add) \in [D -> S]
  BY <1>6 DEF Row
<1> QED BY <1>1, <1>5, <1>7 DEF IsTable

\* Renumbering keeps the list and leaves no gap.
LEMMA ListedResequenced ==
  ASSUME NEW S, NEW t, IsTable(t, S)
  PROVE  /\ Listed(Resequenced(t)) = Listed(t) /\ IsTable(Resequenced(t), S)
         /\ DOMAIN Resequenced(t) = 0..(Cardinality(DOMAIN t) - 1)
<1>1. Listed(t) \in Seq(S) /\ Len(Listed(t)) = Cardinality(DOMAIN t)
  BY Listing
<1>2. Resequenced(t) = Row(0, Listed(t))
  BY <1>1 DEF Resequenced, Row
<1>3. DOMAIN Row(0, Listed(t)) = 0..(Len(Listed(t)) - 1)
  BY <1>1 DEF Row
<1> QED BY <1>1, <1>2, <1>3, ListedRow

\* Nothing but the empty list has no position.
LEMMA NoPositions ==
  ASSUME NEW S, NEW t, t \in [{} -> S]
  PROVE  t = NoRows /\ IsTable(NoRows, S) /\ DOMAIN NoRows = {}
<1>1. t \in [1..0 -> S] /\ DOMAIN t = {}
  OBVIOUS
<1>2. t \in Seq(S) /\ Len(t) = 0
  BY <1>1
<1>3. t = << >>
  BY <1>2
<1>4. IsFiniteSet({})
  BY FS_EmptySet
<1> QED BY <1>1, <1>3, <1>4 DEF NoRows, IsTable

\* Dropping positions keeps the order of the others.
LEMMA ListedRestrict ==
  ASSUME NEW S, NEW t, IsTable(t, S), NEW R \in SUBSET DOMAIN t
  PROVE  /\ IsTable(Restrict(t, R), S) /\ DOMAIN Restrict(t, R) = R
         /\ \E K \in SUBSET (DOMAIN Listed(t)) :
              /\ Listed(Restrict(t, R)) = Kept(Listed(t), K)
              /\ Cardinality(K) = Cardinality(R)
<1> DEFINE D == DOMAIN t
           n == Cardinality(D)
<1>1. PICK e : /\ Enumerates(e, n, D) /\ n \in Nat
               /\ Listed(t) = [k \in 1..n |-> t[e[k]]]
  BY Listing
<1> DEFINE K == {k \in 1..n : e[k] \in R}
           m == Cardinality(K)
           d == [k \in 1..m |-> Nth(K, k)]
           c == [k \in 1..m |-> e[d[k]]]
<1>2. IsFiniteSet(K) /\ K \in SUBSET Int /\ K \in SUBSET (1..n)
  <2>1. K \in SUBSET (1..n) /\ 1..n \in SUBSET Int
    OBVIOUS
  <2>2. IsFiniteSet(1..n)
    BY <1>1, FS_Interval
  <2> HIDE DEF K
  <2> QED BY <2>1, <2>2, FS_Subset
<1>3. Enumerates(d, m, K)
  BY <1>2, NthEnumerates
<1>4. DOMAIN t \in SUBSET Int /\ IsFiniteSet(DOMAIN t) /\ t \in [DOMAIN t -> S]
  BY DEF IsTable
<1>5. /\ DOMAIN Restrict(t, R) = R /\ R \in SUBSET Int /\ IsFiniteSet(R)
      /\ IsTable(Restrict(t, R), S)
  BY <1>4, FS_Subset DEF Restrict, IsTable
<1> HIDE DEF m, d
<1>6. Enumerates(c, m, R)
  <2>1. m \in Nat /\ \A k \in 1..m : d[k] \in K
    BY <1>3 DEF Enumerates
  <2>2. c \in [1..m -> R]
    BY <2>1
  <2>3. ASSUME NEW k \in 1..m, NEW l \in 1..m, k < l PROVE c[k] < c[l]
    <3>1. d[k] < d[l]
      BY <1>3, <2>3 DEF Enumerates
    <3>2. d[k] \in 1..n /\ d[l] \in 1..n
      BY <2>1
    <3>3. e[d[k]] < e[d[l]]
      BY <1>1, <3>1, <3>2 DEF Enumerates
    <3> QED BY <3>3
  <2>4. ASSUME NEW i \in R PROVE \E k \in 1..m : c[k] = i
    <3>1. PICK j \in 1..n : e[j] = i
      BY <1>1 DEF Enumerates
    <3>2. j \in K
      BY <3>1
    <3>3. PICK k \in 1..m : d[k] = j
      BY <1>3, <3>2 DEF Enumerates
    <3> QED BY <3>1, <3>3
  <2> HIDE DEF c
  <2> QED BY <2>1, <2>2, <2>3, <2>4 DEF Enumerates
<1>7. Listed(Restrict(t, R)) = [k \in 1..m |-> Restrict(t, R)[c[k]]]
  <2> HIDE DEF c
  <2> QED BY <1>5, <1>6, InOrderIs DEF Listed
<1>8. \A k \in 1..m : c[k] \in R /\ c[k] = e[d[k]] /\ d[k] \in K
  BY <1>3 DEF Enumerates
<1>9. Listed(Restrict(t, R)) = [k \in 1..m |-> t[e[d[k]]]]
  <2> HIDE DEF c
  <2> QED BY <1>7, <1>8 DEF Restrict
<1>10. DOMAIN Restrict(Listed(t), K) = K
  BY DEF Restrict
<1>11. Kept(Listed(t), K) = [k \in 1..m |-> Restrict(Listed(t), K)[d[k]]]
  <2> DEFINE u == Restrict(Listed(t), K)
  <2>1. DOMAIN u = K
    BY <1>10
  <2> HIDE DEF K, u
  <2>2. InOrder(u) = [k \in 1..m |-> u[d[k]]]
    BY <1>2, <1>3, <2>1, InOrderIs
  <2> QED BY <2>2 DEF Kept, u
<1>12. \A k \in 1..m : Restrict(Listed(t), K)[d[k]] = t[e[d[k]]]
  BY <1>1, <1>2, <1>8 DEF Restrict
<1>13. m = Cardinality(R)
  <2> HIDE DEF c
  <2> QED BY <1>5, <1>6, RankIsPlace
<1>14. Listed(Restrict(t, R)) = Kept(Listed(t), K)
  BY <1>9, <1>11, <1>12
<1>15. K \in SUBSET DOMAIN Listed(t)
  BY <1>1, <1>2
<1> QED BY <1>5, <1>13, <1>14, <1>15 DEF m

\* The positions from at on are free.
Behind(at, t) == at \in Int /\ \A i \in DOMAIN t : i < at

\* Songs there are listed after the others.
Appends(u, t, at, add, S) ==
  /\ Listed(u) = Listed(t) \o add
  /\ IsTable(u, S)
  /\ DOMAIN u = DOMAIN t \cup at..(at + Len(add) - 1)
  /\ \A i \in DOMAIN t : u[i] = t[i]
  /\ \A i \in DOMAIN add : u[at + i - 1] = add[i]

LEMMA ListedInserted ==
  ASSUME NEW S, NEW t, IsTable(t, S), NEW add, add \in Seq(S), NEW at, Behind(at, t)
  PROVE  Appends(Inserted(t, at, add), t, at, add, S)
<1> DEFINE D == DOMAIN t
           n == Cardinality(D)
           m == Len(add)
           new == at..(at + m - 1)
           u == Inserted(t, at, add)
<1>0. at \in Int /\ \A i \in DOMAIN t : i < at
  BY DEF Behind
<1> USE <1>0
<1>1. PICK e : /\ Enumerates(e, n, D) /\ n \in Nat
               /\ Listed(t) = [k \in 1..n |-> t[e[k]]]
               /\ Listed(t) \in Seq(S) /\ Len(Listed(t)) = n
  BY Listing
<1>2. /\ m \in Nat /\ IsFiniteSet(new) /\ new \in SUBSET Int
      /\ D \in SUBSET Int /\ IsFiniteSet(D) /\ t \in [D -> S] /\ D \cap new = {}
  BY FS_Interval DEF IsTable
<1>3. /\ DOMAIN u = D \cup new
      /\ \A i \in D : u[i] = t[i]
      /\ \A i \in new : u[i] = add[i - at + 1]
  BY <1>2 DEF Inserted
<1>4. ASSUME NEW i \in new PROVE i - at + 1 \in 1..m /\ add[i - at + 1] \in S
  <2>1. i - at + 1 \in 1..m
    BY <1>2
  <2> QED BY <2>1
<1>5. IsTable(u, S)
  <2>1. IsFiniteSet(D \cup new) /\ D \cup new \in SUBSET Int
    BY <1>2, FS_Union
  <2>2. u = [i \in D \cup new |-> u[i]]
    BY DEF Inserted
  <2>3. \A i \in D \cup new : u[i] \in S
    BY <1>2, <1>3, <1>4
  <2> HIDE DEF u
  <2> QED BY <1>3, <2>1, <2>2, <2>3 DEF IsTable
<1> DEFINE f == [k \in 1..(n + m) |-> IF k <= n THEN e[k] ELSE at + k - n - 1]
<1>6. /\ \A k \in 1..n : f[k] = e[k] /\ e[k] \in D
      /\ \A k \in 1..(n + m) : ~(k <= n) => f[k] = at + k - n - 1 /\ f[k] \in new
  BY <1>1, <1>2 DEF Enumerates
<1>7. Enumerates(f, n + m, D \cup new)
  <2>1. f \in [1..(n + m) -> D \cup new]
    <3>1. \A k \in 1..(n + m) : f[k] \in D \cup new
      <4>1. SUFFICES ASSUME NEW k \in 1..(n + m) PROVE f[k] \in D \cup new
        OBVIOUS
      <4>2. k <= n => k \in 1..n
        BY <1>1, <1>2
      <4> HIDE DEF f
      <4> QED BY <1>6, <4>1, <4>2
    <3> QED BY <3>1
  <2> HIDE DEF f
  <2>2. ASSUME NEW k \in 1..(n + m), NEW l \in 1..(n + m), k < l PROVE f[k] < f[l]
    <3>1. CASE l <= n
      <4>1. k \in 1..n /\ l \in 1..n
        BY <1>1, <1>2, <2>2, <3>1
      <4>2. e[k] < e[l]
        BY <1>1, <2>2, <4>1 DEF Enumerates
      <4> QED BY <1>6, <4>1, <4>2
    <3>2. CASE k <= n /\ ~(l <= n)
      <4>1. k \in 1..n
        BY <1>1, <1>2, <3>2
      <4>2. f[k] \in D /\ f[l] \in new
        BY <1>6, <3>2, <4>1
      <4>3. f[k] < at /\ f[k] \in Int
        BY <1>2, <4>2
      <4> QED BY <4>2, <4>3
    <3>3. CASE ~(k <= n)
      <4>1. ~(l <= n)
        BY <1>1, <1>2, <2>2, <3>3
      <4>2. f[k] = at + k - n - 1 /\ f[l] = at + l - n - 1
        BY <1>6, <3>3, <4>1
      <4> QED BY <1>1, <1>2, <2>2, <4>2
    <3> QED BY <3>1, <3>2, <3>3
  <2>3. ASSUME NEW i \in D \cup new PROVE \E k \in 1..(n + m) : f[k] = i
    <3>1. CASE i \in D
      <4>1. PICK k \in 1..n : e[k] = i
        BY <1>1, <3>1 DEF Enumerates
      <4>2. k \in 1..(n + m)
        BY <1>1, <1>2
      <4> QED BY <1>6, <4>1, <4>2
    <3>2. CASE i \in new
      <4> DEFINE k == n + (i - at + 1)
      <4>1. k \in 1..(n + m) /\ ~(k <= n) /\ at + k - n - 1 = i
        BY <1>1, <1>2, <3>2
      <4> HIDE DEF k
      <4> QED BY <1>6, <4>1
    <3> QED BY <3>1, <3>2
  <2>4. n + m \in Nat
    BY <1>1, <1>2
  <2> QED BY <2>1, <2>2, <2>3, <2>4 DEF Enumerates
<1>8. Listed(u) = [k \in 1..(n + m) |-> u[f[k]]]
  <2>1. DOMAIN u \in SUBSET Int /\ Enumerates(f, n + m, DOMAIN u)
    BY <1>2, <1>3, <1>7
  <2> HIDE DEF u, f
  <2> QED BY <2>1, InOrderIs DEF Listed
<1>9. Listed(t) \o add = [k \in 1..(n + m) |-> IF k <= n THEN Listed(t)[k] ELSE add[k - n]]
  BY <1>1, <1>2
<1>10. ASSUME NEW k \in 1..(n + m)
       PROVE  u[f[k]] = IF k <= n THEN Listed(t)[k] ELSE add[k - n]
  <2> HIDE DEF u, f
  <2>1. CASE k <= n
    <3>1. k \in 1..n
      BY <1>1, <1>2, <2>1
    <3>2. u[f[k]] = t[e[k]] /\ Listed(t)[k] = t[e[k]]
      BY <1>1, <1>3, <1>6, <3>1
    <3> QED BY <2>1, <3>2
  <2>2. CASE ~(k <= n)
    <3>1. f[k] = at + k - n - 1 /\ f[k] \in new
      BY <1>6, <2>2
    <3>2. f[k] - at + 1 = k - n
      BY <1>1, <1>2, <3>1
    <3>3. u[f[k]] = add[k - n]
      BY <1>3, <3>1, <3>2
    <3> QED BY <2>2, <3>3
  <2> QED BY <2>1, <2>2
<1>11. Listed(u) = Listed(t) \o add
  <2> HIDE DEF u, f
  <2> QED BY <1>8, <1>9, <1>10
<1>12. ASSUME NEW i \in DOMAIN add PROVE u[at + i - 1] = add[i]
  <2>1. at + i - 1 \in new /\ (at + i - 1) - at + 1 = i
    BY <1>2
  <2> HIDE DEF u, new
  <2> QED BY <1>3, <2>1
<1> QED BY <1>3, <1>5, <1>11, <1>12 DEF Appends

\* AppendAt is behind every position, and the next one when there is no gap.
LEMMA AppendAtIsBehind ==
  ASSUME NEW D \in SUBSET Nat, IsFiniteSet(D), NEW t, DOMAIN t = D
  PROVE  /\ AppendAt(t) \in Nat /\ \A i \in D : i < AppendAt(t)
         /\ \A n \in Nat : D = 0..(n - 1) => AppendAt(t) = n
<1> DEFINE B == {-1} \cup D
           n == Cardinality(B)
           e == [k \in 1..n |-> Nth(B, k)]
<1>1. IsFiniteSet(B) /\ B \in SUBSET Int /\ -1 \in B
  BY FS_AddElement
<1>2. Enumerates(e, n, B)
  <2> HIDE DEF B
  <2> QED BY <1>1, NthEnumerates
<1> HIDE DEF e, n
<1>3. n \in Nat /\ n # 0
  <2>1. n \in Nat
    BY <1>2 DEF Enumerates
  <2>2. \E k \in 1..n : e[k] = -1
    BY <1>1, <1>2 DEF Enumerates
  <2> QED BY <2>1, <2>2
<1>4. e[n] \in B /\ \A i \in B : e[n] >= i
  <2>1. n \in 1..n
    BY <1>3
  <2>2. e[n] \in B
    BY <1>2, <2>1 DEF Enumerates
  <2>3. ASSUME NEW i \in B PROVE e[n] >= i
    <3>1. PICK k \in 1..n : e[k] = i
      BY <1>2 DEF Enumerates
    <3>2. k = n \/ k < n
      BY <1>3
    <3>3. k < n => e[k] < e[n]
      BY <1>2, <2>1 DEF Enumerates
    <3>4. i \in Int /\ e[n] \in Int
      BY <1>1, <2>2
    <3> QED BY <3>1, <3>2, <3>3, <3>4
  <2> QED BY <2>2, <2>3
<1>5. Max(B) \in B /\ \A i \in B : Max(B) >= i
  <2> HIDE DEF B
  <2> QED BY <1>4 DEF Max
<1>6. Max(B) \in Int /\ Max(B) >= -1 /\ \A i \in D : Max(B) >= i /\ i \in Int
  BY <1>1, <1>5
<1>7. AppendAt(t) = Max(B) + 1
  BY DEF AppendAt
<1>8. ASSUME NEW k \in Nat, D = 0..(k - 1) PROVE Max(B) + 1 = k
  <2>1. k # 0 => k - 1 \in D
    BY <1>8
  <2>2. k = 0 => D = {}
    BY <1>8
  <2>3. Max(B) = -1 \/ (Max(B) \in D /\ Max(B) \in 0..(k - 1))
    BY <1>5, <1>8
  <2> HIDE DEF B
  <2> QED BY <1>6, <2>1, <2>2, <2>3
<1> HIDE DEF B
<1> QED BY <1>6, <1>7, <1>8

-----------------------------------------------------------------------------
(* The inductive invariant.                                                *)

RowsOK(t, o, l) ==
  /\ IsTable(t, Song)
  /\ DOMAIN t \subseteq 0..MaxPosition
  /\ Range(t) \subseteq l
  /\ o = NoOwner => t = NoRows

IInv ==
  /\ TypeOK
  /\ DOMAIN rows = Playlist
  /\ \A p \in Playlist : IsTable(rows[p], Song)

LEMMA RowsOKInInv ==
  IInv <=> /\ owner \in [Playlist -> User \cup {NoOwner}] /\ live \subseteq Song
           /\ DOMAIN rows = Playlist
           /\ \A p \in Playlist : RowsOK(rows[p], owner[p], live)
BY DEF IInv, TypeOK, RowsOK

LEMMA NoRowsOK ==
  ASSUME NEW o, NEW l PROVE RowsOK(NoRows, o, l) /\ DOMAIN NoRows = {}
<1>1. [x \in {} |-> x] \in [{} -> Song]
  OBVIOUS
<1>2. IsTable(NoRows, Song) /\ DOMAIN NoRows = {}
  BY <1>1, NoPositions
<1> QED BY <1>2 DEF RowsOK, Range

LEMMA AddsAreSequences ==
  ASSUME NEW add \in Adds
  PROVE  add \in Seq(Song) /\ DOMAIN add = 1..Len(add) /\ Len(add) \in Nat
<1>1. PICK m \in 0..MaxRequestSongs : add \in [1..m -> Song]
  BY DEF Adds, BoundedSeq, SeqOf
<1>2. m \in Nat
  OBVIOUS
<1> QED BY <1>1, <1>2

\* What a successful INSERT of every song leaves.
LEMMA InsertOK ==
  ASSUME NEW t, NEW o, RowsOK(t, o, live), NEW at \in Nat, \A i \in DOMAIN t : i < at,
         NEW add \in Adds, at + Len(add) - 1 <= MaxPosition,
         CanInsert(t, o # NoOwner, at, add)
  PROVE  RowsOK(Inserted(t, at, add), o, live)
<1> DEFINE u == Inserted(t, at, add)
<1>1. add \in Seq(Song) /\ DOMAIN add = 1..Len(add) /\ Len(add) \in Nat
  BY AddsAreSequences
<1>2. /\ IsTable(u, Song) /\ DOMAIN u = DOMAIN t \cup at..(at + Len(add) - 1)
      /\ \A i \in DOMAIN t : u[i] = t[i]
      /\ \A i \in DOMAIN add : u[at + i - 1] = add[i]
  <2>1. IsTable(t, Song) /\ at \in Int
    BY DEF RowsOK
  <2>2. Behind(at, t)
    BY <2>1 DEF Behind
  <2>3. Appends(u, t, at, add, Song)
    BY <1>1, <2>1, <2>2, ListedInserted
  <2> HIDE DEF u
  <2> QED BY <2>3 DEF Appends
<1> HIDE DEF u
<1>3. DOMAIN u \subseteq 0..MaxPosition
  BY <1>1, <1>2, PlaylistAssumption DEF RowsOK
<1>4. ASSUME NEW i \in DOMAIN u PROVE u[i] \in live
  <2>1. CASE i \in DOMAIN t
    BY <1>2, <2>1 DEF RowsOK, Range
  <2>2. CASE i \in at..(at + Len(add) - 1)
    <3>1. i - at + 1 \in DOMAIN add /\ at + (i - at + 1) - 1 = i
      BY <1>1, <2>2
    <3>2. u[i] = add[i - at + 1]
      BY <1>2, <3>1
    <3> QED BY <3>1, <3>2 DEF CanInsert
  <2> QED BY <1>2, <2>1, <2>2
<1>5. ASSUME o = NoOwner PROVE u = NoRows
  <2>1. t = NoRows /\ DOMAIN t = {}
    BY <1>5, NoRowsOK DEF RowsOK
  <2>2. DOMAIN add = {}
    BY <1>5 DEF CanInsert
  <2>3. Len(add) = 0
    BY <1>1, <2>2
  <2>4. DOMAIN u = {}
    BY <1>2, <2>1, <2>3
  <2>5. u \in [{} -> Song]
    BY <1>2, <2>4 DEF IsTable
  <2> QED BY <2>5, NoPositions
<1>6. Range(u) \subseteq live
  BY <1>4 DEF Range
<1> QED BY <1>2, <1>3, <1>5, <1>6 DEF RowsOK, u

\* What the DELETE of positions leaves.
LEMMA RestrictOK ==
  ASSUME NEW t, NEW o, NEW l, RowsOK(t, o, l), NEW R \in SUBSET DOMAIN t,
         NEW k, \A i \in R : t[i] \in k
  PROVE  RowsOK(Restrict(t, R), o, k)
<1> DEFINE u == Restrict(t, R)
<1>1. IsTable(u, Song) /\ DOMAIN u = R /\ \A i \in R : u[i] = t[i]
  BY ListedRestrict DEF RowsOK, Restrict
<1> HIDE DEF u
<1>2. Range(u) \subseteq k
  BY <1>1 DEF Range
<1>3. ASSUME o = NoOwner PROVE u = NoRows
  <2>1. DOMAIN t = {}
    BY <1>3, NoRowsOK DEF RowsOK
  <2>2. u \in [{} -> Song]
    BY <1>1, <2>1 DEF IsTable
  <2> QED BY <2>2, NoPositions
<1> QED BY <1>1, <1>2, <1>3 DEF RowsOK, u

\* The positions of a list with n songs and no gap.
LEMMA ResequencedOK ==
  ASSUME NEW t, NEW o, NEW l, RowsOK(t, o, l)
  PROVE  RowsOK(Resequenced(t), o, l)
<1> DEFINE u == Resequenced(t)
           n == Cardinality(DOMAIN t)
<1>1. IsTable(u, Song) /\ DOMAIN u = 0..(n - 1)
  BY ListedResequenced DEF RowsOK
<1>2. PICK e : /\ Enumerates(e, n, DOMAIN t) /\ n \in Nat
               /\ Listed(t) = [k \in 1..n |-> t[e[k]]]
               /\ Listed(t) \in Seq(Song) /\ Len(Listed(t)) = n
  BY Listing DEF RowsOK
<1>3. ASSUME NEW i \in 0..(n - 1) PROVE u[i] \in Range(t)
  <2>1. u[i] = Listed(t)[i + 1] /\ i + 1 \in 1..n
    BY <1>2, <1>3 DEF Resequenced
  <2> HIDE DEF u
  <2>2. u[i] = t[e[i + 1]] /\ e[i + 1] \in DOMAIN t
    BY <1>2, <2>1 DEF Enumerates
  <2> QED BY <2>2 DEF Range
<1>4. n <= MaxPosition + 1
  <2>1. IsFiniteSet(0..MaxPosition) /\ Cardinality(0..MaxPosition) = MaxPosition + 1
    BY PlaylistAssumption, FS_Interval
  <2> QED BY <2>1, FS_Subset DEF RowsOK
<1> HIDE DEF u, n
<1>5. DOMAIN u \subseteq 0..MaxPosition
  BY <1>1, <1>2, <1>4, PlaylistAssumption
<1>6. Range(u) \subseteq l
  BY <1>1, <1>3 DEF Range, RowsOK
<1>7. ASSUME o = NoOwner PROVE u = NoRows
  <2>1. DOMAIN t = {}
    BY <1>7, NoRowsOK DEF RowsOK
  <2>2. n = 0
    BY <2>1, FS_EmptySet DEF n
  <2>3. u \in [{} -> Song]
    BY <1>1, <2>2 DEF IsTable
  <2> QED BY <2>3, NoPositions
<1> QED BY <1>1, <1>5, <1>6, <1>7 DEF RowsOK, u

\* The list between the removals and the additions of an update.
LEMMA RemovedOK ==
  ASSUME NEW t, NEW o, NEW l, RowsOK(t, o, l),
         NEW given \in BOOLEAN, NEW index \in SUBSET (0..MaxPosition), index # {} => given
  PROVE  LET left == Removed(t, given, index)
             at == AppendAt(left)
         IN /\ RowsOK(left, o, l)
            /\ at \in Nat /\ \A i \in DOMAIN left : i < at
            /\ \E K \in SUBSET (DOMAIN Listed(t)) :
                 /\ Cardinality(K) >= Len(Listed(t)) - Cardinality(index)
                 /\ Listed(left) = Kept(Listed(t), K)
            /\ given => DOMAIN left = 0..(at - 1) /\ at = Len(Listed(left))
<1> DEFINE R == DOMAIN t \ index
           r == Restrict(t, R)
           left == Removed(t, given, index)
<1>1. /\ IsTable(t, Song) /\ R \in SUBSET DOMAIN t /\ \A i \in R : t[i] \in l
      /\ IsFiniteSet(DOMAIN t) /\ IsFiniteSet(index)
  <2>1. IsFiniteSet(0..MaxPosition)
    BY PlaylistAssumption, FS_Interval
  <2> QED BY <2>1, FS_Subset DEF RowsOK, Range, IsTable
<1>2. RowsOK(r, o, l)
  <2> HIDE DEF R
  <2> QED BY <1>1, RestrictOK
<1>3. PICK K \in SUBSET (DOMAIN Listed(t)) :
        Listed(r) = Kept(Listed(t), K) /\ Cardinality(K) = Cardinality(R)
  <2> HIDE DEF R
  <2> QED BY <1>1, ListedRestrict
<1>4. Cardinality(K) >= Len(Listed(t)) - Cardinality(index)
  <2>1. Cardinality(R) = Cardinality(DOMAIN t) - Cardinality(DOMAIN t \cap index)
    BY <1>1, FS_Difference
  <2>2. IsFiniteSet(DOMAIN t \cap index) /\ Cardinality(DOMAIN t \cap index) <= Cardinality(index)
    BY <1>1, FS_Subset
  <2>3. Len(Listed(t)) = Cardinality(DOMAIN t)
    BY <1>1, Listing
  <2>4. Cardinality(DOMAIN t) \in Nat /\ Cardinality(index) \in Nat
        /\ Cardinality(DOMAIN t \cap index) \in Nat
    BY <1>1, <2>2, FS_CardinalityType
  <2> HIDE DEF R
  <2> QED BY <1>3, <2>1, <2>2, <2>3, <2>4
<1>5. RowsOK(left, o, l) /\ Listed(left) = Listed(r)
  <2>1. CASE given
    <3>1. left = Resequenced(r)
      BY <2>1 DEF Removed
    <3>2. IsTable(r, Song)
      BY <1>2 DEF RowsOK
    <3> HIDE DEF left, r
    <3>3. Listed(Resequenced(r)) = Listed(r)
      BY <3>2, ListedResequenced
    <3> QED BY <1>2, <3>1, <3>3, ResequencedOK
  <2>2. CASE ~given
    <3>1. index = {} /\ left = t
      BY <2>2 DEF Removed
    <3>2. r = t
      BY <1>1, <3>1 DEF Restrict, IsTable
    <3> QED BY <1>2, <3>1, <3>2
  <2> QED BY <2>1, <2>2
<1>6. given => DOMAIN left = 0..(Len(Listed(left)) - 1) /\ Len(Listed(left)) \in Nat
  <2> SUFFICES ASSUME given PROVE DOMAIN left = 0..(Len(Listed(left)) - 1) /\ Len(Listed(left)) \in Nat
    OBVIOUS
  <2>1. left = Resequenced(r)
    BY DEF Removed
  <2>2. IsTable(r, Song)
    BY <1>2 DEF RowsOK
  <2> HIDE DEF left, r
  <2>3. /\ DOMAIN left = 0..(Cardinality(DOMAIN r) - 1)
        /\ Len(Listed(r)) = Cardinality(DOMAIN r) /\ Cardinality(DOMAIN r) \in Nat
    BY <2>1, <2>2, ListedResequenced, Listing
  <2> QED BY <1>5, <2>3
<1> HIDE DEF left, r
<1>7. DOMAIN left \in SUBSET Nat /\ IsFiniteSet(DOMAIN left)
  BY <1>5, PlaylistAssumption DEF RowsOK, IsTable
<1>8. /\ AppendAt(left) \in Nat /\ \A i \in DOMAIN left : i < AppendAt(left)
      /\ \A n \in Nat : DOMAIN left = 0..(n - 1) => AppendAt(left) = n
  BY <1>7, AppendAtIsBehind
<1>9. given => DOMAIN left = 0..(AppendAt(left) - 1) /\ AppendAt(left) = Len(Listed(left))
  BY <1>6, <1>8
<1> QED BY <1>3, <1>4, <1>5, <1>8, <1>9 DEF left

LEMMA StepKeepsIInv ==
  IInv /\ [Next]_vars => IInv'
<1> SUFFICES ASSUME IInv, [Next]_vars PROVE IInv'
  OBVIOUS
<1>0. /\ owner \in [Playlist -> User \cup {NoOwner}] /\ live \subseteq Song
      /\ DOMAIN rows = Playlist
      /\ \A p \in Playlist : RowsOK(rows[p], owner[p], live)
  BY RowsOKInInv
<1> SUFFICES /\ owner' \in [Playlist -> User \cup {NoOwner}] /\ live' \subseteq Song
             /\ DOMAIN rows' = Playlist
             /\ \A p \in Playlist : RowsOK(rows'[p], owner'[p], live')
  BY DEF IInv, TypeOK, RowsOK
<1>1. ASSUME NEW p \in Playlist, NEW add \in Adds, NEW u \in User, CreateNew(u, p, add)
      PROVE  /\ owner' \in [Playlist -> User \cup {NoOwner}] /\ live' \subseteq Song
             /\ DOMAIN rows' = Playlist
             /\ \A q \in Playlist : RowsOK(rows'[q], owner'[q], live')
  <2>1. Len(add) \in Nat
    BY AddsAreSequences
  <2>2. 0 + Len(add) - 1 <= MaxPosition
    BY <1>1, <2>1, PlaylistAssumption DEF CreateNew
  <2>3. RowsOK(NoRows, u, live) /\ DOMAIN NoRows = {} /\ u # NoOwner
    BY NoRowsOK, PlaylistAssumption
  <2>4. CanInsert(NoRows, TRUE, 0, add) => CanInsert(NoRows, u # NoOwner, 0, add)
    BY <2>3
  <2>5. CanInsert(NoRows, TRUE, 0, add) => RowsOK(Inserted(NoRows, 0, add), u, live)
    BY <2>2, <2>3, <2>4, InsertOK
  <2> QED BY <1>0, <1>1, <2>5 DEF CreateNew
<1>2. ASSUME NEW p \in Playlist, NEW add \in Adds, Replace(p, add)
      PROVE  /\ owner' \in [Playlist -> User \cup {NoOwner}] /\ live' \subseteq Song
             /\ DOMAIN rows' = Playlist
             /\ \A q \in Playlist : RowsOK(rows'[q], owner'[q], live')
  <2>1. Len(add) \in Nat
    BY AddsAreSequences
  <2>2. 0 + Len(add) - 1 <= MaxPosition
    BY <1>2, <2>1, PlaylistAssumption DEF Replace
  <2>3. RowsOK(NoRows, owner[p], live) /\ DOMAIN NoRows = {}
    BY NoRowsOK
  <2>4. CanInsert(NoRows, owner[p] # NoOwner, 0, add)
          => RowsOK(Inserted(NoRows, 0, add), owner[p], live)
    BY <2>2, <2>3, InsertOK
  <2> QED BY <1>0, <1>2, <2>4 DEF Replace
<1>3. ASSUME NEW p \in Playlist, NEW add \in Adds, NEW given \in BOOLEAN,
             NEW index \in SUBSET (0..MaxPosition), Update(p, given, index, add)
      PROVE  /\ owner' \in [Playlist -> User \cup {NoOwner}] /\ live' \subseteq Song
             /\ DOMAIN rows' = Playlist
             /\ \A q \in Playlist : RowsOK(rows'[q], owner'[q], live')
  <2> DEFINE left == Removed(rows[p], given, index)
             at == AppendAt(left)
  <2>1. RowsOK(left, owner[p], live) /\ at \in Nat /\ \A i \in DOMAIN left : i < at
    BY <1>0, <1>3, RemovedOK DEF Update
  <2>2. at + Len(add) - 1 <= MaxPosition
    BY <1>3 DEF Update
  <2>3. rows' = [rows EXCEPT ![p] = IF CanInsert(left, owner[p] # NoOwner, at, add)
                                    THEN Inserted(left, at, add) ELSE @]
    BY <1>3 DEF Update
  <2> HIDE DEF left, at
  <2>4. CanInsert(left, owner[p] # NoOwner, at, add)
          => RowsOK(Inserted(left, at, add), owner[p], live)
    BY <2>1, <2>2, InsertOK
  <2> QED BY <1>0, <1>3, <2>3, <2>4 DEF Update
<1>4. ASSUME NEW u \in User, NEW p \in Playlist, DeletePlaylist(u, p)
      PROVE  /\ owner' \in [Playlist -> User \cup {NoOwner}] /\ live' \subseteq Song
             /\ DOMAIN rows' = Playlist
             /\ \A q \in Playlist : RowsOK(rows'[q], owner'[q], live')
  BY <1>0, <1>4, NoRowsOK DEF DeletePlaylist
<1>5. ASSUME NEW s \in Song, NewSong(s)
      PROVE  /\ owner' \in [Playlist -> User \cup {NoOwner}] /\ live' \subseteq Song
             /\ DOMAIN rows' = Playlist
             /\ \A q \in Playlist : RowsOK(rows'[q], owner'[q], live')
  BY <1>0, <1>5 DEF NewSong, RowsOK
<1>6. ASSUME NEW gone \in SUBSET Song, SweepSongs(gone)
      PROVE  /\ owner' \in [Playlist -> User \cup {NoOwner}] /\ live' \subseteq Song
             /\ DOMAIN rows' = Playlist
             /\ \A q \in Playlist : RowsOK(rows'[q], owner'[q], live')
  <2>1. ASSUME NEW q \in Playlist PROVE RowsOK(rows'[q], owner[q], live \ gone)
    <3> DEFINE R == {i \in DOMAIN rows[q] : rows[q][i] \notin gone}
    <3>1. rows'[q] = Restrict(rows[q], R)
      BY <1>6 DEF SweepSongs
    <3>2. \A i \in R : rows[q][i] \in live \ gone
      BY <1>0 DEF RowsOK, Range
    <3>3. R \in SUBSET DOMAIN rows[q]
      OBVIOUS
    <3> HIDE DEF R
    <3> QED BY <1>0, <3>1, <3>2, <3>3, RestrictOK
  <2> QED BY <1>0, <1>6, <2>1 DEF SweepSongs
<1>7. CASE UNCHANGED vars
  BY <1>0, <1>7 DEF vars
<1> QED BY <1>1, <1>2, <1>3, <1>4, <1>5, <1>6, <1>7 DEF Next

LEMMA SpecIInv == Spec => []IInv
<1>1. Init => IInv
  <2>1. IsTable(NoRows, Song) /\ DOMAIN NoRows = {}
    BY NoRowsOK DEF RowsOK
  <2> QED BY <2>1 DEF Init, IInv, TypeOK, Range
<1> QED BY <1>1, StepKeepsIInv, PTL DEF Spec

-----------------------------------------------------------------------------
(* Theorems.                                                               *)

\* At every commit playlist_song names rows that exist: no song of a playlist
\* is gone from the library and no list without a playlist row has songs, however
\* requests that name dead songs or lists mix with sweeps.
THEOREM TypeCorrect == Spec => []TypeOK
<1>1. IInv => TypeOK
  BY DEF IInv
<1> QED BY <1>1, SpecIInv, PTL

\* createPlaylist with playlistId leaves the old list or the whole new one.
THEOREM ReplaceKeepsAllOrNothing == Spec => ReplaceAllOrNothing
<1> DEFINE A == served'.op = "replace" =>
                  LET p == served'.list
                  IN Listed(rows'[p]) = served'.add \/ rows'[p] = rows[p]
<1>1. ASSUME IInv, Next PROVE A
  <2>0. DOMAIN rows = Playlist
    BY <1>1 DEF IInv
  <2>1. ASSUME NEW p \in Playlist, NEW add \in Adds, Replace(p, add) PROVE A
    <3> DEFINE new == Inserted(NoRows, 0, add)
    <3>1. add \in Seq(Song) /\ IsTable(NoRows, Song) /\ DOMAIN NoRows = {}
      BY AddsAreSequences, NoRowsOK DEF RowsOK
    <3>2. new = Row(0, add)
      BY <3>1 DEF Inserted, Row
    <3>3. Listed(new) = add
      BY <3>1, <3>2, ListedRow
    <3>4. rows'[p] = new \/ rows'[p] = rows[p]
      BY <2>0, <2>1 DEF Replace
    <3>5. served'.list = p /\ served'.add = add
      BY <2>1 DEF Replace
    <3> HIDE DEF new
    <3> QED BY <3>3, <3>4, <3>5
  <2>2. \/ \E p \in Playlist, add \in Adds : Replace(p, add)
        \/ \E p \in Playlist, add \in Adds, given \in BOOLEAN, index \in SUBSET (0..MaxPosition) :
             Update(p, given, index, add)
        \/ served' = Nothing
    BY <1>1 DEF Next, CreateNew, DeletePlaylist, NewSong, SweepSongs
  <2>3. ASSUME NEW p \in Playlist, NEW add \in Adds, NEW given \in BOOLEAN,
               NEW index \in SUBSET (0..MaxPosition), Update(p, given, index, add)
        PROVE  served'.op # "replace"
    BY <2>3 DEF Update
  <2>4. served' = Nothing => served'.op # "replace"
    BY DEF Nothing
  <2> QED BY <2>1, <2>2, <2>3, <2>4
<1>2. IInv /\ [Next]_vars => [A]_vars
  BY <1>1
<1> QED BY <1>2, SpecIInv, PTL DEF Spec, ReplaceAllOrNothing

\* updatePlaylist takes out at most as many songs as it names indices, keeps the
\* order of the others and adds at the end; it is refused only for a list that
\* does not exist or a song that is gone, whatever gaps sweeps left before it.
THEOREM UpdatesEdit == Spec => UpdateEdits
<1> DEFINE A == served'.op = "update" =>
                  LET p == served'.list
                      before == Listed(rows[p])  after == Listed(rows'[p])
                  IN \/ /\ \E K \in SUBSET (DOMAIN before) :
                             /\ Cardinality(K) >= Len(before) - Cardinality(served'.index)
                             /\ after = Kept(before, K) \o served'.add
                        /\ served'.given => DOMAIN rows'[p] = 0..(Len(after) - 1)
                     \/ /\ rows'[p] = rows[p]
                        /\ owner[p] = NoOwner \/ ~(Range(served'.add) \subseteq live)
<1>1. ASSUME IInv, Next PROVE A
  <2>1. ASSUME NEW p \in Playlist, NEW add \in Adds, NEW given \in BOOLEAN,
               NEW index \in SUBSET (0..MaxPosition), Update(p, given, index, add)
        PROVE  A
    <3> DEFINE left == Removed(rows[p], given, index)
               at == AppendAt(left)
               new == Inserted(left, at, add)
    <3>1. DOMAIN rows = Playlist /\ RowsOK(rows[p], owner[p], live) /\ (index # {} => given)
      BY <1>1, <2>1, RowsOKInInv DEF Update
    <3>2. /\ RowsOK(left, owner[p], live)
          /\ at \in Nat /\ \A i \in DOMAIN left : i < at
          /\ \E K \in SUBSET (DOMAIN Listed(rows[p])) :
               /\ Cardinality(K) >= Len(Listed(rows[p])) - Cardinality(index)
               /\ Listed(left) = Kept(Listed(rows[p]), K)
          /\ given => DOMAIN left = 0..(at - 1) /\ at = Len(Listed(left))
      BY <3>1, RemovedOK
    <3>3. rows' = [rows EXCEPT ![p] = IF CanInsert(left, owner[p] # NoOwner, at, add)
                                      THEN new ELSE @]
      BY <2>1 DEF Update
    <3>4. served' = [op |-> "update", list |-> p, given |-> given, index |-> index, add |-> add]
      BY <2>1 DEF Update
    <3> HIDE DEF left, at, new
    <3>5. add \in Seq(Song) /\ DOMAIN add = 1..Len(add) /\ Len(add) \in Nat
      BY AddsAreSequences
    <3>6. CASE CanInsert(left, owner[p] # NoOwner, at, add)
      <4>1. rows'[p] = new
        BY <3>1, <3>3, <3>6
      <4>2. IsTable(left, Song) /\ Behind(at, left)
        BY <3>2 DEF RowsOK, Behind
      <4>3. /\ Listed(new) = Listed(left) \o add
            /\ DOMAIN new = DOMAIN left \cup at..(at + Len(add) - 1)
        <5>1. Appends(new, left, at, add, Song)
          BY <3>5, <4>2, ListedInserted DEF new
        <5> QED BY <5>1 DEF Appends
      <4>4. Listed(left) \in Seq(Song)
        BY <4>2, Listing
      <4>5. ASSUME given PROVE DOMAIN new = 0..(Len(Listed(new)) - 1)
        <5>1. Len(Listed(new)) = at + Len(add)
          <6>1. \A v, w \in Seq(Song) : Len(v \o w) = Len(v) + Len(w)
            OBVIOUS
          <6>2. Len(Listed(left) \o add) = Len(Listed(left)) + Len(add)
            BY <3>5, <4>4, <6>1
          <6>3. at = Len(Listed(left))
            BY <3>2, <4>5
          <6> QED BY <4>3, <6>2, <6>3
        <5> QED BY <3>2, <3>5, <4>3, <4>5, <5>1
      <4> QED BY <3>2, <3>4, <4>1, <4>3, <4>5
    <3>7. CASE ~CanInsert(left, owner[p] # NoOwner, at, add)
      <4>1. rows'[p] = rows[p]
        BY <3>1, <3>3, <3>7
      <4>2. PICK i \in DOMAIN add :
              ~(owner[p] # NoOwner /\ add[i] \in live /\ at + i - 1 \notin DOMAIN left)
        BY <3>7 DEF CanInsert
      <4>3. at + i - 1 \notin DOMAIN left
        <5>1. i \in Int /\ i >= 1
          BY <3>5, <4>2
        <5>2. ~(at + i - 1 < at)
          BY <3>2, <5>1
        <5> QED BY <3>2, <5>2
      <4>4. owner[p] = NoOwner \/ ~(Range(add) \subseteq live)
        BY <4>2, <4>3 DEF Range
      <4> QED BY <3>4, <4>1, <4>4
    <3> QED BY <3>6, <3>7
  <2>2. \/ \E p \in Playlist, add \in Adds, given \in BOOLEAN, index \in SUBSET (0..MaxPosition) :
             Update(p, given, index, add)
        \/ \E p \in Playlist, add \in Adds : Replace(p, add)
        \/ served' = Nothing
    BY <1>1 DEF Next, CreateNew, DeletePlaylist, NewSong, SweepSongs
  <2>3. ASSUME NEW p \in Playlist, NEW add \in Adds, Replace(p, add)
        PROVE  served'.op # "update"
    BY <2>3 DEF Replace
  <2>4. served' = Nothing => served'.op # "update"
    BY DEF Nothing
  <2> QED BY <2>1, <2>2, <2>3, <2>4
<1>2. IInv /\ [Next]_vars => [A]_vars
  BY <1>1
<1> QED BY <1>2, SpecIInv, PTL DEF Spec, UpdateEdits
=============================================================================

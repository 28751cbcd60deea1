-------------------------- MODULE MediaFileProofs --------------------------
(***************************************************************************)
(* Proofs about module MediaFile, for every set of files as their formats  *)
(* have them, every sequence of ranges, and tags of any size: neither walk *)
(* through a tag leaves the bytes that were read; both parsers take a file *)
(* to be as long; tracks asked for one after the other join to the sample, *)
(* hold what they must, and together reach the end of the audio, wherever  *)
(* float64 rounds.                                                         *)
(*                                                                         *)
(* The provers do little with products and quotients that stand inside     *)
(* other terms, so each gets a name (PICK x \in Nat : x = ...) and is      *)
(* compared by the lemmas at the beginning.                                *)
(***************************************************************************)
EXTENDS MediaFile, WellFoundedInduction, TLAPS

-----------------------------------------------------------------------------
(* Division and products of whole numbers.                                 *)

LEMMA Quotient ==
  ASSUME NEW n \in Nat, NEW d \in Nat \ {0}
  PROVE  n \div d \in Nat /\ (n \div d) * d <= n /\ n < (n \div d + 1) * d
         /\ n % d \in 0..(d - 1) /\ n = ((n \div d) * d) + (n % d)
  OBVIOUS

LEMMA QuotientMonotone ==
  ASSUME NEW m \in Int, NEW n \in Int, NEW d \in Nat \ {0}, m <= n
  PROVE  m \div d <= n \div d
  OBVIOUS

LEMMA QuotientAtLeast ==
  ASSUME NEW n \in Int, NEW q \in Int, NEW d \in Nat \ {0}, q * d <= n
  PROVE  q <= n \div d
  OBVIOUS

LEMMA QuotientBelow ==
  ASSUME NEW n \in Int, NEW q \in Int, NEW d \in Nat \ {0}, n < q * d
  PROVE  n \div d < q
  OBVIOUS

LEMMA QuotientExact ==
  ASSUME NEW q \in Int, NEW d \in Nat \ {0}
  PROVE  (q * d) \div d = q
  OBVIOUS

LEMMA QuotientCancels ==
  ASSUME NEW n \in Nat, NEW d \in Nat \ {0}, NEW c \in Nat \ {0}
  PROVE  (n * c) \div (d * c) = n \div d
  OBVIOUS

LEMMA ProductMonotone ==
  ASSUME NEW a \in Int, NEW b \in Int, NEW c \in Nat, a <= b
  PROVE  a * c <= b * c /\ c * a <= c * b
  OBVIOUS

LEMMA ProductLess ==
  ASSUME NEW a \in Int, NEW b \in Int, NEW c \in Nat \ {0}
  PROVE  a * c < b * c <=> a < b
  OBVIOUS

LEMMA ProductType ==
  ASSUME NEW a \in Nat, NEW b \in Nat
  PROVE  a * b \in Nat /\ (a # 0 /\ b # 0 => a * b # 0)
  OBVIOUS

LEMMA Lesser ==
  ASSUME NEW a \in Int, NEW b \in Int
  PROVE  Min({a, b}) = IF a <= b THEN a ELSE b
  BY DEF Min

-----------------------------------------------------------------------------
(* int64 of a float64.                                                     *)

LEMMA Truncation ==
  ASSUME NEW n \in Nat, NEW d \in Nat \ {0}, NEW e \in 0..1
  PROVE  /\ Truncated(n, d, e) \in Nat /\ Truncated(n, d, e) <= n \div d /\ n \div d <= Truncated(n, d, e) + e
         /\ n \div d \in Nat /\ Truncated(n, d, 0) = n \div d
         /\ n % d # 0 => Truncated(n, d, e) = n \div d
  <1>1. PICK q \in Nat, r \in 0..(d - 1) : q = n \div d /\ r = n % d /\ n = (q * d) + r
    BY Quotient
  <1>2. n > 0 /\ r = 0 => q # 0
    BY <1>1
  <1> QED BY <1>1, <1>2 DEF Truncated

\* Where float64 makes a whole number early, what is less than it is none the less
\* not behind it.
LEMMA TruncatedAtLeast ==
  ASSUME NEW n \in Nat, NEW d \in Nat \ {0}, NEW e \in 0..1, NEW q \in Nat, q * d < n
  PROVE  q <= Truncated(n, d, e)
  <1>1. PICK k \in Nat, r \in 0..(d - 1) : k = n \div d /\ r = n % d /\ n = (k * d) + r
    BY Quotient
  <1>2. PICK qd \in Nat, kd \in Nat : qd = q * d /\ kd = k * d
    BY ProductType
  <1>3. CASE r = 0
    <2>1. q * d < k * d
      BY <1>1, <1>2, <1>3
    <2>2. q < k
      BY <2>1, ProductLess
    <2> QED BY <1>1, <2>2 DEF Truncated
  <1>4. CASE r # 0
    <2>1. qd <= n
      BY <1>2
    <2>2. q <= n \div d
      BY <1>2, <2>1, QuotientAtLeast
    <2> QED BY <1>1, <1>4, <2>2, Truncation
  <1> QED BY <1>3, <1>4

LEMMA TruncatedMonotone ==
  ASSUME NEW m \in Nat, NEW n \in Nat, m < n, NEW d \in Nat \ {0}, NEW e \in 0..1, NEW f \in 0..1
  PROVE  Truncated(m, d, e) \in Nat /\ Truncated(n, d, f) \in Nat /\ Truncated(m, d, e) <= Truncated(n, d, f)
  <1>1. PICK q \in Nat, qd \in Nat : q = m \div d /\ qd = q * d /\ qd <= m
    BY Quotient, ProductType
  <1>2. q * d < n
    BY <1>1
  <1>3. q <= Truncated(n, d, f)
    BY <1>2, TruncatedAtLeast
  <1>4. Truncated(m, d, e) \in Nat /\ Truncated(m, d, e) <= q
    BY <1>1, Truncation
  <1>5. Truncated(n, d, f) \in Nat
    BY Truncation
  <1> QED BY <1>3, <1>4, <1>5

LEMMA TruncatedCancels ==
  ASSUME NEW n \in Nat, NEW d \in Nat \ {0}, NEW c \in Nat \ {0}, NEW e \in 0..1
  PROVE  Truncated(n * c, d * c, e) = Truncated(n, d, e)
  <1>1. PICK q \in Nat, r \in 0..(d - 1) : q = n \div d /\ r = n % d /\ n = (q * d) + r
    BY Quotient
  <1>2. PICK nc \in Nat, dc \in Nat \ {0} : nc = n * c /\ dc = d * c
    BY ProductType
  <1>3. nc \div dc = q
    BY <1>1, <1>2, QuotientCancels
  <1>4. PICK qdc \in Nat, rc \in Nat : qdc = q * dc /\ rc = r * c
    BY ProductType
  <1>5. nc = qdc + rc
    <2>1. (q * d) * c = q * (d * c)
      OBVIOUS
    <2>2. ((q * d) + r) * c = (q * d) * c + r * c
      <3>1. q * d \in Nat
        BY ProductType
      <3> QED BY <3>1
    <2> QED BY <1>1, <1>2, <1>4, <2>1, <2>2
  <1>6. nc % dc = rc
    <2>1. nc = ((nc \div dc) * dc) + (nc % dc) /\ nc % dc \in Nat
      BY Quotient
    <2>2. (nc \div dc) * dc = qdc
      BY <1>3, <1>4
    <2> QED BY <1>4, <1>5, <2>1, <2>2
  <1>7. (rc = 0 <=> r = 0) /\ (nc > 0 <=> n > 0)
    <2>1. r # 0 => r * c # 0
      BY ProductType
    <2>2. n # 0 => n * c # 0
      BY ProductType
    <2> QED BY <1>2, <1>4, <2>1, <2>2
  <1> QED BY <1>1, <1>2, <1>3, <1>6, <1>7 DEF Truncated

-----------------------------------------------------------------------------
(* Least and greatest members, and proper files.                           *)

\* A set of natural numbers has a least one.
LEMMA LeastNatural ==
  ASSUME NEW S \in SUBSET Nat, S # {}
  PROVE  \E m \in S : \A k \in S : m <= k
  <1>1. PICK m \in S : \A k \in S : ~(<<k, m>> \in OpToRel(<, Nat))
    BY NatLessThanWellFounded, WFMin
  <1>2. \A k \in S : ~(k < m)
    BY <1>1 DEF OpToRel
  <1> QED BY <1>2

LEMMA LeastIsMin ==
  ASSUME NEW S \in SUBSET Nat, S # {}
  PROVE  Min(S) \in S /\ \A k \in S : Min(S) <= k
  BY LeastNatural DEF Min

LEMMA GreatestIsMax ==
  ASSUME NEW n \in Nat, NEW S \in SUBSET (0..n), S # {}
  PROVE  Max(S) \in S /\ \A k \in S : k <= Max(S)
  <1> DEFINE Left == {n - k : k \in S}
  <1>1. Left \in SUBSET Nat /\ Left # {}
    <2>1. \A k \in S : n - k \in Nat
      OBVIOUS
    <2> QED BY <2>1
  <1>2. PICK l \in Left : \A k \in Left : l <= k
    <2> HIDE DEF Left
    <2> QED BY <1>1, LeastNatural
  <1>3. PICK m \in S : l = n - m
    BY <1>2
  <1>4. \A k \in S : k <= m
    <2> TAKE k \in S
    <2>1. n - m <= n - k
      BY <1>2, <1>3
    <2> QED BY <2>1
  <1> QED BY <1>4 DEF Max

\* What a file must be for the slicer to find times in it.
LEMMA ProperFiles ==
  ASSUME NEW f \in Files
  PROVE  /\ f.kind = "mp3" => ProperMP3(f)
         /\ f.kind = "flac" => ProperFLAC(f)
         /\ f.kind = "wav" => ProperWAV(f)
         /\ f.kind \notin {"mp3", "flac", "wav"} => f.start \in Nat
  BY FilesAssumption

-----------------------------------------------------------------------------
(* The chunks of a WAV file.                                               *)

ChunkSeqs == Seq([id : ChunkIds, size : Nat])

\* One header after the other, from the end of the RIFF header on.
HeadersOf(header, chunks, n) ==
  /\ header[1] = 12
  /\ \A j \in 2..n : header[j] = header[j - 1] + 8 + chunks[j - 1].size + (chunks[j - 1].size % 2)

LEMMA ChunkSizes ==
  ASSUME NEW chunks \in ChunkSeqs
  PROVE  /\ Len(chunks) \in Nat /\ DOMAIN chunks = 1..Len(chunks)
         /\ \A i \in 1..Len(chunks) : chunks[i].size \in Nat
  <1>1. ASSUME NEW S, NEW s \in Seq(S)
        PROVE  Len(s) \in Nat /\ DOMAIN s = 1..Len(s) /\ \A i \in 1..Len(s) : s[i] \in S
    OBVIOUS
  <1>2. \A c \in [id : ChunkIds, size : Nat] : c.size \in Nat
    OBVIOUS
  <1> QED BY <1>1, <1>2 DEF ChunkSeqs

\* There is a function that says where each header is.
LEMMA HeadersExist ==
  ASSUME NEW chunks \in ChunkSeqs, NEW n \in 1..(Len(chunks) + 1)
  PROVE  \E header \in [1..n -> Nat] : HeadersOf(header, chunks, n)
  <1> DEFINE Bad == {m \in 1..(Len(chunks) + 1) :
                       ~\E header \in [1..m -> Nat] : HeadersOf(header, chunks, m)}
  <1> SUFFICES ASSUME Bad # {} PROVE FALSE
    OBVIOUS
  <1>1. Len(chunks) \in Nat /\ \A i \in 1..Len(chunks) : chunks[i].size \in Nat
    BY ChunkSizes
  <1>2. PICK m \in Bad : \A k \in Bad : m <= k
    <2>1. Bad \in SUBSET Nat
      BY <1>1
    <2> QED BY <2>1, LeastNatural
  <1>3. m \in 1..(Len(chunks) + 1) /\ ~\E header \in [1..m -> Nat] : HeadersOf(header, chunks, m)
    BY <1>2
  <1>4. CASE m = 1
    <2> DEFINE g == [j \in 1..m |-> 12]
    <2>1. g \in [1..m -> Nat] /\ g[1] = 12
      BY <1>4
    <2>2. 2..m = {}
      BY <1>4
    <2> HIDE DEF g
    <2>3. HeadersOf(g, chunks, m)
      BY <2>1, <2>2 DEF HeadersOf
    <2> QED BY <1>3, <2>1, <2>3
  <1>5. CASE m # 1
    <2>0. m - 1 \in 1..Len(chunks) /\ m - 1 \in 1..(Len(chunks) + 1)
      BY <1>1, <1>3, <1>5
    <2>1. m - 1 \in 1..Len(chunks) /\ m - 1 \notin Bad
      <3>1. ~(m <= m - 1)
        BY <1>3
      <3> HIDE DEF Bad
      <3> QED BY <1>2, <2>0, <3>1
    <2>2. PICK h \in [1..(m - 1) -> Nat] : HeadersOf(h, chunks, m - 1)
      BY <2>0, <2>1
    <2>3. PICK size \in Nat : size = chunks[m - 1].size
      BY <1>1, <2>1
    <2> DEFINE g == [j \in 1..m |-> IF j = m THEN h[m - 1] + 8 + size + (size % 2) ELSE h[j]]
    <2>4. size % 2 \in Nat
      BY <2>3
    <2>5. g \in [1..m -> Nat]
      BY <1>3, <2>1, <2>2, <2>4
    <2>6. g[1] = 12
      BY <1>3, <1>5, <2>1, <2>2 DEF HeadersOf
    <2>7. ASSUME NEW j \in 2..m
          PROVE  g[j] = g[j - 1] + 8 + chunks[j - 1].size + (chunks[j - 1].size % 2)
      <3>1. CASE j = m
        BY <1>3, <2>1, <2>3, <3>1
      <3>2. CASE j # m
        <4>1. j \in 2..(m - 1) /\ j \in 1..m /\ j - 1 \in 1..m /\ j - 1 # m
          BY <1>3, <3>2
        <4>2. h[j] = h[j - 1] + 8 + chunks[j - 1].size + (chunks[j - 1].size % 2)
          BY <2>2, <4>1 DEF HeadersOf
        <4> QED BY <3>2, <4>1, <4>2
      <3> QED BY <3>1, <3>2
    <2> HIDE DEF g
    <2>8. HeadersOf(g, chunks, m)
      BY <2>6, <2>7 DEF HeadersOf
    <2> QED BY <1>3, <2>5, <2>8
  <1> QED BY <1>4, <1>5

\* What the recursive function in ChunkAt says of its values.
LEMMA ChunkSteps ==
  ASSUME NEW chunks \in ChunkSeqs
  PROVE  /\ ChunkAt(chunks, 1) = 12
         /\ \A k \in 1..Len(chunks) :
              /\ ChunkAt(chunks, k) \in Nat /\ ChunkAt(chunks, k + 1) \in Nat
              /\ ChunkAt(chunks, k + 1) =
                   ChunkAt(chunks, k) + 8 + chunks[k].size + (chunks[k].size % 2)
  <1> DEFINE N == Len(chunks) + 1
             Def(header) ==
               [j \in 1..N |-> IF j = 1 THEN 12
                               ELSE header[j - 1] + 8 + chunks[j - 1].size + (chunks[j - 1].size % 2)]
             fixed == CHOOSE header : header = Def(header)
  <1>1. Len(chunks) \in Nat /\ N \in Nat
    BY ChunkSizes
  <1>2. PICK h \in [1..N -> Nat] : HeadersOf(h, chunks, N)
    BY <1>1, HeadersExist
  <1>3. h = Def(h)
    <2>1. ASSUME NEW j \in 1..N PROVE h[j] = Def(h)[j]
      BY <1>2, <2>1 DEF HeadersOf
    <2> QED BY <2>1
  <1>4. fixed = Def(fixed)
    BY <1>3
  <1>5. \A k \in 1..N : ChunkAt(chunks, k) = fixed[k]
    BY DEF ChunkAt
  <1>6. fixed[1] = 12 /\ \A j \in 2..N : fixed[j] = fixed[j - 1] + 8 + chunks[j - 1].size + (chunks[j - 1].size % 2)
    <2> HIDE DEF fixed
    <2>1. \A j \in 1..N : fixed[j] = Def(fixed)[j]
      BY <1>4
    <2> QED BY <1>1, <2>1
  <1> HIDE DEF fixed
  <1>7. \A j \in 1..N : fixed[j] \in Nat
    <2> DEFINE Bad == {j \in 1..N : fixed[j] \notin Nat}
    <2> SUFFICES ASSUME Bad # {} PROVE FALSE
      OBVIOUS
    <2>1. PICK m \in Bad : \A k \in Bad : m <= k
      <3>1. Bad \in SUBSET Nat
        OBVIOUS
      <3> QED BY <3>1, LeastNatural
    <2>2. m # 1 /\ m \in 2..N /\ m - 1 \in 1..Len(chunks) /\ m - 1 \notin Bad
      BY <1>1, <1>6, <2>1
    <2>3. fixed[m - 1] \in Nat
      BY <1>1, <2>2
    <2>4. chunks[m - 1].size \in Nat
      BY <2>2, ChunkSizes
    <2>5. fixed[m] \in Nat
      <3>1. fixed[m] = fixed[m - 1] + 8 + chunks[m - 1].size + (chunks[m - 1].size % 2)
        BY <1>6, <2>2
      <3>2. PICK p \in Nat, z \in Nat : p = fixed[m - 1] /\ z = chunks[m - 1].size
        BY <2>3, <2>4
      <3>3. PICK r \in Nat : r = z % 2
        OBVIOUS
      <3>4. fixed[m] = p + 8 + z + r
        BY <3>1, <3>2, <3>3
      <3> QED BY <3>4
    <2> QED BY <2>1, <2>5
  <1>8. ASSUME NEW k \in 1..Len(chunks)
        PROVE  k \in 1..N /\ k + 1 \in 1..N /\ k + 1 \in 2..N /\ (k + 1) - 1 = k
    BY <1>1
  <1> HIDE DEF N
  <1>9. 1 \in 1..N
    BY <1>1 DEF N
  <1>10. ChunkAt(chunks, 1) = 12
    BY <1>5, <1>6, <1>9
  <1>11. ASSUME NEW k \in 1..Len(chunks)
         PROVE  /\ ChunkAt(chunks, k) \in Nat /\ ChunkAt(chunks, k + 1) \in Nat
                /\ ChunkAt(chunks, k + 1) =
                     ChunkAt(chunks, k) + 8 + chunks[k].size + (chunks[k].size % 2)
    <2>1. k \in 1..N /\ k + 1 \in 1..N /\ k + 1 \in 2..N /\ (k + 1) - 1 = k
      BY <1>8
    <2>2. ChunkAt(chunks, k) = fixed[k] /\ ChunkAt(chunks, k + 1) = fixed[k + 1]
      BY <1>5, <2>1
    <2>3. fixed[k] \in Nat /\ fixed[k + 1] \in Nat
      BY <1>7, <2>1
    <2>4. fixed[k + 1] = fixed[k] + 8 + chunks[k].size + (chunks[k].size % 2)
      BY <1>6, <2>1
    <2> QED BY <2>2, <2>3, <2>4
  <1> QED BY <1>10, <1>11

\* A header lies behind every chunk before it.
LEMMA ChunkOrder ==
  ASSUME NEW chunks \in ChunkSeqs, NEW i \in 1..Len(chunks), NEW j \in 1..(Len(chunks) + 1), i < j
  PROVE  /\ ChunkAt(chunks, i) \in Nat /\ ChunkAt(chunks, j) \in Nat /\ chunks[i].size \in Nat
         /\ ChunkAt(chunks, i) + 8 + chunks[i].size <= ChunkAt(chunks, j)
  <1> DEFINE Ends(m) == /\ ChunkAt(chunks, m) \in Nat
                        /\ ChunkAt(chunks, i) + 8 + chunks[i].size <= ChunkAt(chunks, m)
             Bad == {m \in (i + 1)..(Len(chunks) + 1) : ~Ends(m)}
  <1>1. /\ Len(chunks) \in Nat /\ chunks[i].size \in Nat /\ ChunkAt(chunks, i) \in Nat
    BY ChunkSizes, ChunkSteps
  <1>2. ASSUME NEW k \in 1..Len(chunks)
        PROVE  /\ ChunkAt(chunks, k) \in Nat /\ ChunkAt(chunks, k + 1) \in Nat
               /\ ChunkAt(chunks, k) + 8 + chunks[k].size <= ChunkAt(chunks, k + 1)
    <2>1. PICK z \in Nat : z = chunks[k].size
      BY ChunkSizes
    <2>2. PICK r \in Nat : r = z % 2
      OBVIOUS
    <2>3. PICK a \in Nat, b \in Nat : a = ChunkAt(chunks, k) /\ b = ChunkAt(chunks, k + 1)
      BY ChunkSteps
    <2>4. b = a + 8 + z + r
      BY <2>1, <2>2, <2>3, ChunkSteps
    <2> QED BY <2>1, <2>3, <2>4
  <1>3. Bad = {}
    <2> SUFFICES ASSUME Bad # {} PROVE FALSE
      OBVIOUS
    <2>1. PICK m \in Bad : \A k \in Bad : m <= k
      <3>1. Bad \in SUBSET Nat
        BY <1>1
      <3> HIDE DEF Bad
      <3> QED BY <3>1, LeastNatural
    <2>2. m \in (i + 1)..(Len(chunks) + 1) /\ ~Ends(m)
      BY <2>1
    <2>3. CASE m = i + 1
      BY <1>2, <2>2, <2>3
    <2>4. CASE m # i + 1
      <3>1. m - 1 \in (i + 1)..(Len(chunks) + 1) /\ m - 1 \in 1..Len(chunks) /\ (m - 1) + 1 = m
            /\ ~(m <= m - 1)
        BY <1>1, <2>2, <2>4
      <3>2. m - 1 \notin Bad
        <4> HIDE DEF Bad
        <4> QED BY <2>1, <3>1
      <3>3. Ends(m - 1)
        BY <3>1, <3>2
      <3>4. PICK a \in Nat, b \in Nat, z \in Nat, o \in Nat, y \in Nat :
              /\ a = ChunkAt(chunks, m - 1) /\ b = ChunkAt(chunks, m) /\ z = chunks[m - 1].size
              /\ o = ChunkAt(chunks, i) /\ y = chunks[i].size /\ a + 8 + z <= b /\ o + 8 + y <= a
        BY <1>1, <1>2, <3>1, <3>3, ChunkSizes
      <3>5. o + 8 + y <= b
        <4>1. a + 8 + z <= b /\ o + 8 + y <= a
          BY <3>4
        <4> QED BY <4>1
      <3>6. Ends(m)
        BY <3>4, <3>5
      <3> QED BY <2>2, <3>6
    <2> QED BY <2>3, <2>4
  <1>4. j \in (i + 1)..(Len(chunks) + 1) /\ j \notin Bad
    BY <1>1, <1>3
  <1>5. Ends(j)
    BY <1>4
  <1> QED BY <1>1, <1>5

\* What the walk returns it has found in the file.
LEMMA WavWalkFinds ==
  ASSUME NEW chunks \in ChunkSeqs, NEW size \in Nat
  PROVE  LET w == WavWalk(chunks, size)
         IN /\ \/ w.dataOffset = 0 /\ w.dataSize = 0
               \/ \E k \in 1..Len(chunks) : /\ chunks[k].id = "data"
                                             /\ w.dataOffset = ChunkAt(chunks, k) + 8
                                             /\ w.dataSize = chunks[k].size
            /\ \/ w.fmtLen = 0
               \/ \E k \in 1..Len(chunks) : /\ chunks[k].id = "fmt" /\ w.fmtLen = chunks[k].size
                                             /\ chunks[k].size \in FmtSizes
                                             /\ ChunkAt(chunks, k) + 8 + chunks[k].size <= size
  <1> DEFINE ids(K) == {chunks[k].id : k \in K}
             seen == {k \in DOMAIN chunks : ChunkAt(chunks, k) < size - 8
                                            /\ ~({"fmt", "data"} \subseteq ids(1..(k - 1)))}
             named(id) == {k \in seen : chunks[k].id = id}
             has(id) == id \in ids(seen)
             Read(k) == chunks[k].size \in FmtSizes /\ ChunkAt(chunks, k) + 8 + chunks[k].size <= size
             formatted == has("fmt") /\ \A k \in seen : chunks[k].id = "fmt" => Read(k)
             w == WavWalk(chunks, size)
  <1>1. Len(chunks) \in Nat /\ DOMAIN chunks = 1..Len(chunks)
    BY ChunkSizes
  <1>2. ASSUME NEW id, has(id)
        PROVE  Max(named(id)) \in 1..Len(chunks) /\ Max(named(id)) \in seen /\ chunks[Max(named(id))].id = id
    <2>1. named(id) # {} /\ named(id) \in SUBSET (0..Len(chunks))
      BY <1>1, <1>2
    <2>2. Max(named(id)) \in named(id)
      <3> HIDE DEF named
      <3> QED BY <1>1, <2>1, GreatestIsMax
    <2> QED BY <1>1, <2>2
  <1>3. w = [fmtLen     |-> IF formatted THEN chunks[Max(named("fmt"))].size ELSE 0,
             dataOffset |-> IF has("data") THEN ChunkAt(chunks, Max(named("data"))) + 8 ELSE 0,
             dataSize   |-> IF has("data") THEN chunks[Max(named("data"))].size ELSE 0]
    BY DEF WavWalk
  <1> HIDE DEF named, seen, w
  <1>4. \/ w.dataOffset = 0 /\ w.dataSize = 0
        \/ \E k \in 1..Len(chunks) : /\ chunks[k].id = "data"
                                      /\ w.dataOffset = ChunkAt(chunks, k) + 8
                                      /\ w.dataSize = chunks[k].size
    BY <1>2, <1>3
  <1>5. \/ w.fmtLen = 0
        \/ \E k \in 1..Len(chunks) : /\ chunks[k].id = "fmt" /\ w.fmtLen = chunks[k].size
                                      /\ chunks[k].size \in FmtSizes
                                      /\ ChunkAt(chunks, k) + 8 + chunks[k].size <= size
    BY <1>2, <1>3
  <1> QED BY <1>4, <1>5 DEF w

LEMMA WavWalkType ==
  ASSUME NEW chunks \in ChunkSeqs, NEW size \in Nat
  PROVE  /\ WavWalk(chunks, size).fmtLen \in {0} \cup FmtSizes
         /\ WavWalk(chunks, size).dataOffset \in Nat /\ WavWalk(chunks, size).dataSize \in Nat
  <1>1. \A k \in 1..Len(chunks) : ChunkAt(chunks, k) + 8 \in Nat /\ chunks[k].size \in Nat
    BY ChunkSizes, ChunkSteps
  <1> QED BY <1>1, WavWalkFinds

-----------------------------------------------------------------------------
(* The stored length.                                                      *)

\* Length n/d in seconds, of which the stored one is the floor or the nearest.
LEMMA WholeSeconds ==
  ASSUME NEW n \in Nat, NEW d \in Nat \ {0}, NEW s \in Nat \ {0},
         s = n \div d \/ s = (2 * n + d) \div (2 * d)
  PROVE  /\ \A k \in 0..(s - 1) : k * d < n
         /\ n <= (s + 1) * d
  <1>1. CASE s = n \div d
    <2>1. s * d <= n /\ n < (s + 1) * d
      BY <1>1, Quotient
    <2>2. ASSUME NEW k \in 0..(s - 1) PROVE k * d < n
      <3>1. k * d < s * d
        BY ProductLess
      <3> QED BY <2>1, <3>1
    <2> QED BY <2>1, <2>2
  <1>2. CASE s = (2 * n + d) \div (2 * d)
    <2>1. s * (2 * d) <= 2 * n + d /\ 2 * n + d < (s + 1) * (2 * d)
      <3>1. PICK a \in Nat, b \in Nat \ {0} : a = 2 * n + d /\ b = 2 * d
        OBVIOUS
      <3> QED BY <1>2, <3>1, Quotient
    <2>2. ASSUME NEW k \in 0..(s - 1) PROVE k * d < n
      <3>1. (k + 1) * d <= s * d
        BY ProductMonotone
      <3>2. (k + 1) * d = k * d + d /\ s * (2 * d) = 2 * (s * d)
        OBVIOUS
      <3> QED BY <2>1, <3>1, <3>2
    <2>3. (s + 1) * (2 * d) = 2 * ((s + 1) * d)
      OBVIOUS
    <2> QED BY <2>1, <2>2, <2>3
  <1> QED BY <1>1, <1>2

\* The length an MP3 file claims is a positive number of ticks, n over d.
LEMMA Mp3TotalType ==
  ASSUME NEW f, ProperMP3(f)
  PROVE  /\ Mp3Total(f).n \in Nat \ {0} /\ Mp3Total(f).d \in Nat \ {0}
         /\ AudioBytes(f) \in Nat \ {0} /\ SamplesPerFrame(f.version) \in Nat \ {0}
  <1>1. AudioBytes(f) \in Nat \ {0} /\ f.frames \in Nat /\ f.sampleRate \in Nat \ {0} /\ f.rate \in Nat \ {0}
    BY DEF ProperMP3, AudioBytes
  <1>2. SamplesPerFrame(f.version) \in Nat \ {0}
    BY SlicesAssumption DEF SamplesPerFrame
  <1>3. f.frames > 0 => f.frames * SamplesPerFrame(f.version) * TicksPerSecond \in Nat \ {0}
    <2> SUFFICES ASSUME f.frames > 0 PROVE f.frames * SamplesPerFrame(f.version) * TicksPerSecond \in Nat \ {0}
      OBVIOUS
    <2>1. PICK a \in Nat \ {0} : a = f.frames * SamplesPerFrame(f.version)
      BY <1>1, <1>2, ProductType
    <2> QED BY <2>1, ProductType, SlicesAssumption
  <1> QED BY <1>1, <1>2, <1>3 DEF Mp3Total

LEMMA Mp3Stored ==
  ASSUME NEW f \in Files, f.kind = "mp3", ProperMP3(f), NEW s \in ParseDuration(f), s > 0
  PROVE  LET n == Mp3Total(f).n
             d == Mp3Total(f).d * TicksPerSecond
         IN s = n \div d \/ s = (2 * n + d) \div (2 * d)
  <1>1. PICK n \in Nat \ {0}, d \in Nat \ {0} : n = Mp3Total(f).n /\ d = Mp3Total(f).d * TicksPerSecond
    BY Mp3TotalType, ProductType, SlicesAssumption
  <1>2. CASE s = Mp3Seconds(f)
    <2>1. CASE f.frames > 0
      <3>1. PICK a \in Nat, r \in Nat \ {0} : a = f.frames * SamplesPerFrame(f.version) /\ r = f.sampleRate
        BY Mp3TotalType, ProductType DEF ProperMP3
      <3>2. s = a \div r
        BY <1>2, <2>1, <3>1 DEF Mp3Seconds, SamplesPerFrame, ProperMP3
      <3>3. n = a * TicksPerSecond /\ d = r * TicksPerSecond
        BY <1>1, <2>1, <3>1 DEF Mp3Total
      <3>4. s = n \div d
        BY <3>2, <3>3, QuotientCancels, SlicesAssumption
      <3> QED BY <1>1, <3>4
    <2>2. CASE ~(f.frames > 0)
      <3>1. f.frames = 0
        BY <2>2 DEF ProperMP3
      <3>2. ~f.counted
        <4> SUFFICES ASSUME f.counted PROVE FALSE
          OBVIOUS
        <4>1. PICK a, r \in Nat \ {0} : a = 0 /\ s = a \div r
          <5>1. PICK h \in Nat : h = IF f.version = 1 THEN 2 * HalfFrame ELSE HalfFrame
            BY SlicesAssumption
          <5>2. s = (0 * h) \div f.sampleRate
            BY <1>2, <3>1, <5>1 DEF Mp3Seconds
          <5>3. 0 * h = 0
            OBVIOUS
          <5> QED BY <5>2, <5>3 DEF ProperMP3
        <4>2. 0 \div r = 0
          BY <4>1
        <4> QED BY <4>1, <4>2
      <3>3. s = AudioBytes(f) \div (f.rate * TicksPerSecond)
        BY <1>2, <3>2 DEF Mp3Seconds
      <3>4. Mp3Total(f).n = AudioBytes(f) /\ Mp3Total(f).d = f.rate
        BY <2>2 DEF Mp3Total
      <3> QED BY <3>3, <3>4
    <2> QED BY <2>1, <2>2
  <1>3. CASE s # Mp3Seconds(f)
    <2>1. s \in Probed(f)
      BY <1>3 DEF ParseDuration, NativeSeconds
    <2>2. s = 0 \/ s = (2 * n + d) \div (2 * d)
      BY <1>1, <2>1 DEF Probed
    <2> QED BY <1>1, <2>2
  <1> QED BY <1>2, <1>3

LEMMA FlacStored ==
  ASSUME NEW f \in Files, f.kind = "flac", NEW s \in ParseDuration(f), s > 0
  PROVE  s = f.samples \div f.rate \/ s = (2 * f.samples + f.rate) \div (2 * f.rate)
  <1>1. s = FlacSeconds(f) \/ s \in Probed(f)
    BY DEF ParseDuration, NativeSeconds
  <1>2. s \in Probed(f) => s = 0 \/ s = (2 * f.samples + f.rate) \div (2 * f.rate)
    BY DEF Probed
  <1> QED BY <1>1, <1>2 DEF FlacSeconds

LEMMA WavStored ==
  ASSUME NEW f \in Files, f.kind = "wav", NEW s \in ParseDuration(f), s > 0
  PROVE  LET n == WavWalk(f.chunks, f.size).dataSize
             d == f.rate * f.align
         IN s = (2 * n + d) \div (2 * d)
  <1>1. NativeSeconds(f) = 0
    BY DEF NativeSeconds
  <1>2. s \in Probed(f)
    BY <1>1 DEF ParseDuration
  <1> QED BY <1>2 DEF Probed

\* Every whole second of the stored length can be played from; past it there is
\* less than another one.
LEMMA StoredIsSliced ==
  ASSUME NEW f \in Files, f.kind \in {"mp3", "flac", "wav"}, NEW s \in ParseDuration(f), s > 0
  PROVE  /\ \A k \in 0..(s - 1) : ~Past(f, k * TicksPerSecond)
         /\ Past(f, (s + 1) * TicksPerSecond)
  <1> DEFINE T == TicksPerSecond
  <1>0. T \in Nat \ {0}
    BY SlicesAssumption
  <1> HIDE DEF T
  <1>1. CASE f.kind = "mp3"
    <2>1. ProperMP3(f)
      BY <1>1, ProperFiles
    <2>2. PICK n \in Nat, c \in Nat \ {0} : n = Mp3Total(f).n /\ c = Mp3Total(f).d
      BY <2>1, Mp3TotalType
    <2>3. PICK d \in Nat \ {0} : d = c * T
      BY <1>0, ProductType
    <2>4. s = n \div d \/ s = (2 * n + d) \div (2 * d)
      BY <1>1, <2>1, <2>2, <2>3, Mp3Stored DEF T
    <2>5. s \in Nat \ {0}
      <3>1. PICK a \in Nat, b \in Nat \ {0} : a = 2 * n + d /\ b = 2 * d
        OBVIOUS
      <3>2. n \div d \in Nat /\ a \div b \in Nat
        BY <3>1, Quotient
      <3> QED BY <2>4, <3>1, <3>2
    <2>6. (\A k \in 0..(s - 1) : k * d < n) /\ n <= (s + 1) * d
      BY <2>4, <2>5, WholeSeconds
    <2>7. \A k \in Nat : (k * T) * c = k * d
      BY <1>0, <2>3
    <2>8. \A t : Past(f, t) <=> t * c >= n
      BY <1>1, <2>2 DEF Past
    <2>9. ASSUME NEW k \in 0..(s - 1) PROVE ~Past(f, k * T)
      <3>1. (k * T) * c = k * d /\ k * d < n
        BY <2>5, <2>6, <2>7
      <3>2. ~(k * d >= n)
        BY <3>1
      <3> QED BY <2>8, <3>1, <3>2
    <2>10. Past(f, (s + 1) * T)
      <3>1. ((s + 1) * T) * c = (s + 1) * d
        BY <2>5, <2>7
      <3> QED BY <2>5, <2>6, <2>8, <3>1
    <2> QED BY <2>9, <2>10 DEF T
  <1>2. ASSUME NEW n \in Nat, NEW d \in Nat \ {0},
               s = n \div d \/ s = (2 * n + d) \div (2 * d),
               \A t \in Nat : Past(f, t * T) <=> (t * T) * d >= n * T
        PROVE  (\A k \in 0..(s - 1) : ~Past(f, k * T)) /\ Past(f, (s + 1) * T)
    <2>5. s \in Nat \ {0}
      <3>1. PICK a \in Nat, b \in Nat \ {0} : a = 2 * n + d /\ b = 2 * d
        OBVIOUS
      <3>2. n \div d \in Nat /\ a \div b \in Nat
        BY <3>1, Quotient
      <3> QED BY <1>2, <3>1, <3>2
    <2>6. (\A k \in 0..(s - 1) : k * d < n) /\ n <= (s + 1) * d
      BY <1>2, <2>5, WholeSeconds
    <2>7. ASSUME NEW k \in Nat PROVE (k * T) * d >= n * T <=> k * d >= n
      <3>1. PICK a \in Nat : a = k * d
        BY ProductType
      <3>2. (k * T) * d = a * T
        BY <1>0, <3>1
      <3>3. a * T < n * T <=> a < n
        BY <1>0, ProductLess
      <3>4. a * T \in Nat /\ n * T \in Nat
        BY <1>0, ProductType
      <3> QED BY <3>1, <3>2, <3>3, <3>4
    <2>9. ASSUME NEW k \in 0..(s - 1) PROVE ~Past(f, k * T)
      <3>1. k \in Nat /\ k * d \in Nat /\ k * d < n
        BY <2>5, <2>6, ProductType
      <3> QED BY <1>2, <2>7, <3>1
    <2>10. Past(f, (s + 1) * T)
      <3>1. s + 1 \in Nat /\ (s + 1) * d \in Nat /\ (s + 1) * d >= n
        BY <2>5, <2>6, ProductType
      <3> QED BY <1>2, <2>7, <3>1
    <2> QED BY <2>9, <2>10
  <1>3. CASE f.kind = "flac"
    <2>1. f.samples \in Nat /\ f.rate \in Nat \ {0}
      BY <1>3, ProperFiles DEF ProperFLAC
    <2>2. \A t \in Nat : Past(f, t * T) <=> (t * T) * f.rate >= f.samples * T
      BY <1>3 DEF Past, T
    <2> QED BY <1>2, <1>3, <2>1, <2>2, FlacStored DEF T
  <1>4. CASE f.kind = "wav"
    <2>0. ProperWAV(f)
      BY <1>4, ProperFiles
    <2>1. PICK n \in Nat : n = WavWalk(f.chunks, f.size).dataSize
      BY <2>0, WavWalkType DEF ProperWAV, ChunkSeqs
    <2>2. PICK d \in Nat \ {0} : d = f.rate * f.align
      BY <2>0, ProductType DEF ProperWAV
    <2>3. \A t : Past(f, t) <=> t * f.rate * f.align >= n * T
      BY <1>4, <2>1 DEF Past, T
    <2>4. \A t \in Nat : Past(f, t * T) <=> (t * T) * d >= n * T
      <3> TAKE t \in Nat
      <3>1. PICK u \in Nat : u = t * T
        BY <1>0, ProductType
      <3>2. PICK r \in Nat, a \in Nat : r = f.rate /\ a = f.align
        BY <2>0 DEF ProperWAV
      <3>3. u * r * a = u * (r * a)
        OBVIOUS
      <3> QED BY <2>2, <2>3, <3>1, <3>2, <3>3
    <2>5. s = (2 * n + d) \div (2 * d)
      BY <1>4, <2>1, <2>2, WavStored
    <2> QED BY <1>2, <2>4, <2>5 DEF T
  <1> QED BY <1>1, <1>3, <1>4

-----------------------------------------------------------------------------
(* MP3: where a time is in the file.                                       *)

\* A time inside the file falls behind an entry i of the table, and is looked
\* up as x of the total times the scale of an entry: between entries i and i + 1.
TocAt(n, d, i, r) == i = (n * TocSize) \div d /\ r = (n * TocSize) % d

TocPlace(toc, a, n, d, e, i, r, x) ==
  /\ TocLookup(toc, a, n, d, e) = Truncated(x * a, TocScale * d, IF Rises(toc, n, d) THEN e ELSE 0)
  /\ x = toc[i + 1] * d + IF i = TocSize - 1 THEN 0 ELSE r * (toc[i + 2] - toc[i + 1])
  /\ toc[i + 1] * d <= x /\ x <= TocScale * d
  /\ i # TocSize - 1 => x <= toc[i + 2] * d

LEMMA TocPoint ==
  ASSUME NEW toc \in [1..TocSize -> 0..(TocScale - 1)], Ascending(toc), NEW a \in Nat,
         NEW d \in Nat \ {0}, NEW n \in 1..(d - 1), NEW e \in 0..1
  PROVE  \E i \in 0..(TocSize - 1), r \in 0..(d - 1), x \in Nat :
           TocAt(n, d, i, r) /\ TocPlace(toc, a, n, d, e, i, r, x)
  <1> DEFINE low == IF Rises(toc, n, d) THEN e ELSE 0
  <1>0. low \in 0..1
    OBVIOUS
  <1>1. PICK S \in Nat \ {0}, C \in Nat \ {0} : S = TocSize /\ C = TocScale
    BY SlicesAssumption
  <1>2. PICK p \in Nat : p = n * S
    BY <1>1, ProductType
  <1>3. PICK i \in Nat, r \in 0..(d - 1) : i = p \div d /\ r = p % d
    BY <1>2, Quotient
  <1>4. i \in 0..(S - 1)
    <2>1. p < S * d
      <3>1. n * S < d * S
        BY ProductLess
      <3> QED BY <1>2, <3>1
    <2>2. p \div d < S
      BY <2>1, QuotientBelow
    <2> QED BY <1>3, <2>2
  <1>5. PICK v \in Nat : v = toc[i + 1] /\ v < C
    <2>1. i + 1 \in 1..TocSize
      BY <1>1, <1>4
    <2>2. toc[i + 1] \in 0..(TocScale - 1)
      BY <2>1
    <2> QED BY <1>1, <2>2
  <1>6. v * d \in Nat /\ v * d <= C * d /\ C * d \in Nat \ {0}
    BY <1>5, ProductType, ProductMonotone
  <1>7. TocLookup(toc, a, n, d, e) =
          IF i >= S - 1 THEN Truncated(toc[S] * a, C, low)
          ELSE Truncated((v * d + r * (toc[i + 2] - v)) * a, C * d, low)
    <2>1. ~(n <= 0) /\ ~(n >= d + e)
      OBVIOUS
    <2> QED BY <1>1, <1>2, <1>3, <1>5, <2>1 DEF TocLookup
  <1> HIDE DEF low
  <1>8. CASE i = S - 1
    <2>1. v = toc[S] /\ i >= S - 1
      BY <1>5, <1>8
    <2>2. PICK y \in Nat : y = v * a
      BY ProductType
    <2>3. (v * d) * a = y * d
      BY <2>2
    <2>4. Truncated((v * d) * a, C * d, low) = Truncated(y, C, low)
      BY <1>0, <2>2, <2>3, TruncatedCancels
    <2>5. TocLookup(toc, a, n, d, e) = Truncated((v * d) * a, C * d, low)
      BY <1>7, <2>1, <2>2, <2>4
    <2>6. PICK x \in Nat : x = v * d
      BY <1>6
    <2>7. TocPlace(toc, a, n, d, e, i, r, x)
      <3>1. TocLookup(toc, a, n, d, e) = Truncated(x * a, TocScale * d, low)
        BY <1>1, <2>5, <2>6
      <3>2. toc[i + 1] * d = x
        BY <1>5, <2>6
      <3>3. x <= TocScale * d
        BY <1>1, <1>6, <2>6
      <3> QED BY <1>1, <1>8, <3>1, <3>2, <3>3 DEF TocPlace, low
    <2> QED BY <1>1, <1>2, <1>3, <1>4, <2>7 DEF TocAt
  <1>9. CASE i # S - 1
    <2>1. PICK u \in Nat : u = toc[i + 2] /\ v <= u /\ u < C
      <3>1. i + 1 \in 1..TocSize /\ i + 2 \in 1..TocSize /\ i + 1 <= i + 2
        BY <1>1, <1>4, <1>9
      <3>2. toc[i + 2] \in 0..(TocScale - 1)
        BY <3>1
      <3>3. toc[i + 1] <= toc[i + 2]
        BY <3>1 DEF Ascending
      <3> QED BY <1>1, <1>5, <3>2, <3>3
    <2>2. PICK g \in Nat : g = u - v
      BY <2>1
    <2>3. PICK h \in Nat : h = r * g /\ h <= d * g
      <3>1. r \in Nat /\ r <= d
        BY <1>3
      <3>2. r * g \in Nat /\ r * g <= d * g
        BY <3>1, ProductType, ProductMonotone
      <3> QED BY <3>2
    <2>4. u * d = v * d + d * g
      <3>1. u = v + g
        BY <2>1, <2>2
      <3> QED BY <3>1
    <2>5. u * d \in Nat /\ u * d <= C * d
      BY <2>1, ProductType, ProductMonotone
    <2>6. PICK vd \in Nat, ud \in Nat, dg \in Nat, cd \in Nat \ {0} :
            vd = v * d /\ ud = u * d /\ dg = d * g /\ cd = C * d /\ ud = vd + dg /\ ud <= cd /\ h <= dg
      BY <1>6, <2>2, <2>3, <2>4, <2>5, ProductType
    <2>7. PICK x \in Nat : x = vd + h
      OBVIOUS
    <2>8. vd <= x /\ x <= ud /\ x <= cd
      BY <2>6, <2>7
    <2>9. TocLookup(toc, a, n, d, e) = Truncated(x * a, cd, low)
      <3>1. ~(i >= S - 1)
        BY <1>4, <1>9
      <3>2. TocLookup(toc, a, n, d, e) = Truncated((v * d + r * (u - v)) * a, C * d, low)
        BY <1>7, <2>1, <3>1
      <3>3. v * d + r * (u - v) = x
        BY <2>2, <2>3, <2>6, <2>7
      <3> QED BY <2>6, <3>2, <3>3
    <2>10. TocPlace(toc, a, n, d, e, i, r, x)
      <3>1. TocLookup(toc, a, n, d, e) = Truncated(x * a, TocScale * d, low)
        BY <1>1, <2>6, <2>9
      <3>2. toc[i + 1] * d = vd /\ toc[i + 2] * d = ud /\ r * (toc[i + 2] - toc[i + 1]) = h
        BY <1>5, <2>1, <2>2, <2>3, <2>6
      <3>3. x <= TocScale * d
        BY <1>1, <2>6, <2>8
      <3> QED BY <1>1, <1>9, <2>7, <2>8, <3>1, <3>2, <3>3 DEF TocPlace, low
    <2> QED BY <1>1, <1>2, <1>3, <1>4, <2>10 DEF TocAt
  <1> QED BY <1>8, <1>9


\* At the very end, where float64 makes it early, the last entry is looked up.
LEMMA TocEnd ==
  ASSUME NEW toc \in [1..TocSize -> 0..(TocScale - 1)], NEW a \in Nat, NEW d \in Nat \ {0}
  PROVE  \E x \in Nat : /\ x = toc[TocSize] * d /\ x <= TocScale * d
                        /\ TocLookup(toc, a, d, d, 1) = Truncated(x * a, TocScale * d, 0)
  <1>1. PICK S \in Nat \ {0}, C \in Nat \ {0} : S = TocSize /\ C = TocScale
    BY SlicesAssumption
  <1>2. PICK v \in Nat : v = toc[S] /\ v < C
    <2>1. toc[TocSize] \in 0..(TocScale - 1)
      BY <1>1
    <2> QED BY <1>1, <2>1
  <1>3. (d * S) \div d = S /\ (d * S) % d = 0
    <2>1. PICK p \in Nat, q \in Nat : p = d * S /\ q = S * d /\ p = q
      BY ProductType
    <2>2. p \div d = S
      BY <2>1, QuotientExact
    <2>3. p = ((p \div d) * d) + (p % d) /\ p % d \in Nat
      BY Quotient
    <2> QED BY <2>1, <2>2, <2>3
  <1>4. ~Rises(toc, d, d)
    BY <1>1, <1>3 DEF Rises
  <1>5. TocLookup(toc, a, d, d, 1) = Truncated(v * a, C, 0)
    <2>1. ~(d <= 0) /\ ~(d >= d + 1) /\ S >= S - 1
      BY <1>1
    <2> QED BY <1>1, <1>2, <1>3, <1>4, <2>1 DEF TocLookup
  <1>6. PICK y \in Nat, x \in Nat : y = v * a /\ x = v * d /\ x <= C * d
    <2>1. v * a \in Nat /\ v * d \in Nat
      BY ProductType
    <2>2. v * d <= C * d
      BY <1>2, ProductMonotone
    <2> QED BY <2>1, <2>2
  <1>7. x * a = y * d
    <2>1. (v * d) * a = (v * a) * d
      OBVIOUS
    <2> QED BY <1>6, <2>1
  <1>8. Truncated(y * d, C * d, 0) = Truncated(y, C, 0)
    BY TruncatedCancels
  <1> QED BY <1>1, <1>2, <1>5, <1>6, <1>7, <1>8

\* Of two times the later one is not behind less of the table, and behind more of
\* it where the table rises up to it.
LEMMA TocPlacesInOrder ==
  ASSUME NEW S \in Nat \ {0}, NEW toc, NEW a, NEW d \in Nat \ {0}, NEW e, NEW f,
         NEW m \in Nat, NEW i \in 0..(S - 1), NEW r \in 0..(d - 1), NEW x \in Nat,
         NEW n \in Nat, NEW j \in 0..(S - 1), NEW s \in 0..(d - 1), NEW y \in Nat
  PROVE  /\ S = TocSize /\ toc \in [1..S -> 0..(TocScale - 1)] /\ Ascending(toc) /\ m < n
         /\ TocAt(m, d, i, r) /\ TocPlace(toc, a, m, d, e, i, r, x)
         /\ TocAt(n, d, j, s) /\ TocPlace(toc, a, n, d, f, j, s, y)
         => x <= y /\ (Rises(toc, n, d) => x < y)
  <1>1. SUFFICES ASSUME S = TocSize, toc \in [1..S -> 0..(TocScale - 1)], Ascending(toc), m < n,
                        TocAt(m, d, i, r), TocPlace(toc, a, m, d, e, i, r, x),
                        TocAt(n, d, j, s), TocPlace(toc, a, n, d, f, j, s, y)
                 PROVE  x <= y /\ (Rises(toc, n, d) => x < y)
    OBVIOUS
  <1>2. PICK p \in Nat, q \in Nat : p = m * S /\ q = n * S /\ p < q
    <2>1. m * S < n * S
      BY <1>1, ProductLess
    <2> QED BY <2>1, ProductType
  <1>3. i = p \div d /\ r = p % d /\ j = q \div d /\ s = q % d
    BY <1>1, <1>2 DEF TocAt
  <1>4. /\ x = toc[i + 1] * d + IF i = S - 1 THEN 0 ELSE r * (toc[i + 2] - toc[i + 1])
        /\ i # S - 1 => x <= toc[i + 2] * d
        /\ y = toc[j + 1] * d + IF j = S - 1 THEN 0 ELSE s * (toc[j + 2] - toc[j + 1])
        /\ toc[j + 1] * d <= y
    BY <1>1 DEF TocPlace
  <1>5. (\A k \in 1..S : toc[k] \in Nat) /\ \A k, l \in 1..S : k <= l => toc[k] <= toc[l]
    <2>1. DOMAIN toc = 1..S /\ \A k \in 1..S : toc[k] \in 0..(TocScale - 1)
      BY <1>1
    <2>2. \A v \in 0..(TocScale - 1) : v \in Nat
      BY SlicesAssumption
    <2> QED BY <1>1, <2>1, <2>2 DEF Ascending
  <1>6. Rises(toc, n, d) <=> IF s = 0 THEN j \in 1..(S - 1) /\ toc[j] < toc[j + 1]
                             ELSE j < S - 1 /\ toc[j + 1] < toc[j + 2]
    BY <1>1 DEF Rises, TocAt
  <1>7. p = i * d + r /\ q = j * d + s
    BY <1>2, <1>3, Quotient
  <1>8. i <= j
    <2>1. p \div d <= q \div d
      BY <1>2, QuotientMonotone
    <2> QED BY <1>3, <2>1
  <1>9. CASE i = j
    <2>1. r < s
      <3>1. PICK z \in Nat : z = i * d
        BY ProductType
      <3>2. p = z + r /\ q = z + s
        BY <1>7, <1>9, <3>1
      <3> QED BY <1>2, <3>2
    <2>2. CASE i = S - 1
      <3>1. x = y
        BY <1>4, <1>9, <2>2
      <3>2. ~Rises(toc, n, d)
        BY <1>6, <1>9, <2>1, <2>2
      <3> QED BY <3>1, <3>2
    <2>3. CASE i # S - 1
      <3>1. i + 1 \in 1..S /\ i + 2 \in 1..S /\ i + 1 <= i + 2
        BY <2>3
      <3>2. PICK v \in Nat, u \in Nat : v = toc[i + 1] /\ u = toc[i + 2] /\ v <= u
        BY <1>5, <3>1
      <3>3. PICK g \in Nat : g = u - v
        BY <3>2
      <3>4. PICK rg \in Nat, sg \in Nat, vd \in Nat :
              rg = r * g /\ sg = s * g /\ vd = v * d /\ rg <= sg /\ (g # 0 => rg < sg)
        <4>1. r \in Nat /\ s \in Nat /\ r <= s
          BY <2>1
        <4>2. r * g \in Nat /\ s * g \in Nat /\ v * d \in Nat /\ r * g <= s * g
          BY <4>1, ProductType, ProductMonotone
        <4>3. g # 0 => r * g < s * g
          BY <2>1, <4>1, ProductLess
        <4> QED BY <4>2, <4>3
      <3>5. x = vd + rg /\ y = vd + sg
        BY <1>4, <1>9, <2>3, <3>2, <3>3, <3>4
      <3>6. Rises(toc, n, d) => g # 0
        BY <1>6, <1>9, <2>1, <3>2, <3>3
      <3> QED BY <3>4, <3>5, <3>6
    <2> QED BY <2>2, <2>3
  <1>10. CASE i # j
    <2>1. i + 1 \in 1..S /\ i + 2 \in 1..S /\ j \in 1..S /\ j + 1 \in 1..S /\ i + 2 <= j + 1 /\ i # S - 1 /\ i < j
      BY <1>8, <1>10
    <2>2. PICK u \in Nat, v \in Nat : u = toc[i + 2] /\ v = toc[j + 1] /\ u <= v
      BY <1>5, <2>1
    <2>3. PICK ud \in Nat, vd \in Nat : ud = u * d /\ vd = v * d /\ ud <= vd
      BY <2>2, ProductType, ProductMonotone
    <2>4. x <= ud /\ vd <= y
      BY <1>4, <2>1, <2>2, <2>3
    <2>5. ASSUME Rises(toc, n, d), s # 0 PROVE vd < y
      <3>1. j # S - 1 /\ j + 2 \in 1..S
        BY <1>6, <2>1, <2>5
      <3>2. PICK w \in Nat : w = toc[j + 2] /\ v < w
        BY <1>5, <1>6, <2>2, <2>5, <3>1
      <3>3. PICK g \in Nat \ {0} : g = w - v
        BY <3>2, <2>2
      <3>4. PICK sg \in Nat \ {0} : sg = s * g
        BY <2>5, ProductType
      <3>5. y = vd + sg
        BY <1>4, <2>2, <2>3, <3>1, <3>2, <3>3, <3>4
      <3> QED BY <3>5
    <2>6. ASSUME Rises(toc, n, d), s = 0 PROVE x < vd
      <3>1. PICK w \in Nat : w = toc[j] /\ w < v
        BY <1>5, <1>6, <2>1, <2>2, <2>6
      <3>2. w * d < v * d
        BY <3>1, <2>2, ProductLess
      <3>3. CASE i + 2 <= j
        <4>1. u <= w
          BY <1>5, <2>1, <2>2, <3>1, <3>3
        <4>2. u * d <= w * d /\ w * d \in Nat
          BY <2>2, <3>1, <4>1, ProductMonotone, ProductType
        <4> QED BY <2>3, <2>4, <3>2, <4>2
      <3>4. CASE ~(i + 2 <= j)
        <4>1. i + 1 = j /\ i + 2 = j + 1
          BY <2>1, <3>4
        <4>2. PICK g \in Nat \ {0} : g = v - w
          BY <3>1, <2>2
        <4>3. PICK rg \in Nat, dg \in Nat, wd \in Nat : rg = r * g /\ dg = d * g /\ wd = w * d /\ rg < dg
          <5>1. r * g < d * g
            BY ProductLess
          <5>2. r * g \in Nat /\ d * g \in Nat
            BY ProductType
          <5>3. w * d \in Nat
            BY ProductType
          <5> QED BY <5>1, <5>2, <5>3
        <4>4. x = wd + rg
          BY <1>4, <2>1, <2>2, <3>1, <4>1, <4>2, <4>3
        <4>5. v * d = w * d + d * g
          <5>1. v = w + g
            BY <2>2, <3>1, <4>2
          <5> QED BY <5>1, <3>1
        <4>6. vd = wd + dg
          BY <2>3, <4>3, <4>5
        <4> QED BY <4>3, <4>4, <4>6
      <3> QED BY <3>3, <3>4
    <2> QED BY <2>3, <2>4, <2>5, <2>6
  <1> QED BY <1>9, <1>10

\* No time is looked up outside the audio.
LEMMA TocLookupRange ==
  ASSUME NEW toc \in [1..TocSize -> 0..(TocScale - 1)], Ascending(toc), NEW a \in Nat \ {0},
         NEW d \in Nat \ {0}, NEW n \in Nat, NEW e \in 0..1
  PROVE  TocLookup(toc, a, n, d, e) \in 0..a
  <1>1. PICK cd \in Nat \ {0} : cd = TocScale * d
    BY ProductType, SlicesAssumption
  <1>2. ASSUME NEW x \in Nat, x <= cd, NEW low \in 0..1
        PROVE  Truncated(x * a, cd, low) \in 0..a
    <2>1. PICK xa \in Nat : xa = x * a /\ xa <= cd * a
      BY <1>2, ProductType, ProductMonotone
    <2>2. xa < (a + 1) * cd
      <3>1. (a + 1) * cd = cd * a + cd /\ cd * a \in Nat
        BY ProductType
      <3> QED BY <2>1, <3>1
    <2>3. xa \div cd < a + 1
      BY <2>2, QuotientBelow
    <2>4. Truncated(xa, cd, low) \in Nat /\ Truncated(xa, cd, low) <= xa \div cd /\ xa \div cd \in Nat
      BY Truncation
    <2> QED BY <2>1, <2>3, <2>4
  <1>3. CASE n = 0 \/ n >= d + e
    BY <1>3 DEF TocLookup
  <1>4. CASE n \in 1..(d - 1)
    <2>1. PICK i \in 0..(TocSize - 1), r \in 0..(d - 1), x \in Nat : TocPlace(toc, a, n, d, e, i, r, x)
      BY <1>4, TocPoint
    <2>2. PICK low \in 0..1 : low = IF Rises(toc, n, d) THEN e ELSE 0
      OBVIOUS
    <2>3. TocLookup(toc, a, n, d, e) = Truncated(x * a, cd, low) /\ x <= cd
      BY <1>1, <2>1, <2>2 DEF TocPlace
    <2> QED BY <1>2, <2>3
  <1>5. CASE n = d /\ e = 1
    <2>1. PICK x \in Nat : x <= cd /\ TocLookup(toc, a, d, d, 1) = Truncated(x * a, cd, 0)
      BY <1>1, TocEnd
    <2>2. 0 \in 0..1
      OBVIOUS
    <2>3. Truncated(x * a, cd, 0) \in 0..a
      BY <1>2, <2>1, <2>2
    <2> QED BY <1>5, <2>1, <2>3
  <1>6. n = 0 \/ n >= d + e \/ n \in 1..(d - 1) \/ (n = d /\ e = 1)
    OBVIOUS
  <1> QED BY <1>3, <1>4, <1>5, <1>6

LEMMA TocLookupMonotone ==
  ASSUME NEW toc \in [1..TocSize -> 0..(TocScale - 1)], Ascending(toc), NEW a \in Nat \ {0},
         NEW d \in Nat \ {0}, NEW m \in Nat, NEW n \in Nat, m < n, NEW e \in 0..1, NEW f \in 0..1
  PROVE  TocLookup(toc, a, m, d, e) <= TocLookup(toc, a, n, d, f)
  <1>1. TocLookup(toc, a, m, d, e) \in 0..a /\ TocLookup(toc, a, n, d, f) \in 0..a
    BY TocLookupRange
  <1>2. PICK cd \in Nat \ {0} : cd = TocScale * d
    BY ProductType, SlicesAssumption
  <1>3. CASE m = 0
    BY <1>1, <1>3 DEF TocLookup
  <1>4. CASE n >= d + f
    BY <1>1, <1>4 DEF TocLookup
  <1>5. CASE m # 0 /\ ~(n >= d + f)
    <2>1. m \in 1..(d - 1) /\ (n \in 1..(d - 1) \/ (n = d /\ f = 1))
      BY <1>5
    <2>2. PICK i \in 0..(TocSize - 1), r \in 0..(d - 1), x \in Nat :
            TocAt(m, d, i, r) /\ TocPlace(toc, a, m, d, e, i, r, x)
      BY <2>1, TocPoint
    <2>3. PICK le \in 0..1 : TocLookup(toc, a, m, d, e) = Truncated(x * a, cd, le)
      <3>1. (IF Rises(toc, m, d) THEN e ELSE 0) \in 0..1
        OBVIOUS
      <3> QED BY <1>2, <2>2, <3>1 DEF TocPlace
    <2>4. ASSUME NEW y \in Nat, x <= y, NEW lf \in 0..1, lf = 1 => x < y
          PROVE  Truncated(x * a, cd, le) <= Truncated(y * a, cd, lf)
      <3>1. PICK xa \in Nat, ya \in Nat : xa = x * a /\ ya = y * a /\ xa <= ya
        BY <2>4, ProductType, ProductMonotone
      <3>2. CASE lf = 1
        <4>1. x * a < y * a
          BY <2>4, <3>2, ProductLess
        <4> QED BY <3>1, <4>1, TruncatedMonotone
      <3>3. CASE lf = 0
        <4>1. xa \div cd <= ya \div cd
          BY <3>1, QuotientMonotone
        <4>2. Truncated(xa, cd, le) \in Nat /\ Truncated(xa, cd, le) <= xa \div cd /\ xa \div cd \in Nat
          BY Truncation
        <4>3. Truncated(ya, cd, 0) = ya \div cd /\ ya \div cd \in Nat
          BY Truncation
        <4> QED BY <3>1, <3>3, <4>1, <4>2, <4>3
      <3> QED BY <3>2, <3>3
    <2>5. CASE n \in 1..(d - 1)
      <3>1. PICK j \in 0..(TocSize - 1), s \in 0..(d - 1), y \in Nat :
              TocAt(n, d, j, s) /\ TocPlace(toc, a, n, d, f, j, s, y)
        BY <2>5, TocPoint
      <3>2. x <= y /\ (Rises(toc, n, d) => x < y)
        BY <2>2, <3>1, SlicesAssumption, TocPlacesInOrder
      <3>3. PICK lf \in 0..1 : lf = IF Rises(toc, n, d) THEN f ELSE 0
        OBVIOUS
      <3>4. TocLookup(toc, a, n, d, f) = Truncated(y * a, cd, lf)
        BY <1>2, <3>1, <3>3 DEF TocPlace
      <3>5. lf = 1 => x < y
        BY <3>2, <3>3
      <3> QED BY <2>3, <2>4, <3>2, <3>4, <3>5
    <2>6. CASE n = d /\ f = 1
      <3>1. PICK y \in Nat : y = toc[TocSize] * d /\ TocLookup(toc, a, d, d, 1) = Truncated(y * a, cd, 0)
        <4>1. PICK y \in Nat : /\ y = toc[TocSize] * d
                               /\ TocLookup(toc, a, d, d, 1) = Truncated(y * a, TocScale * d, 0)
          <5>1. a \in Nat
            OBVIOUS
          <5> QED BY <5>1, TocEnd
        <4> QED BY <1>2, <4>1
      <3>2. x <= y
        <4>1. CASE i = TocSize - 1
          <5>1. x = toc[i + 1] * d + 0 /\ i + 1 = TocSize
            BY <2>2, <4>1, SlicesAssumption DEF TocPlace
          <5> QED BY <3>1, <5>1
        <4>2. CASE i # TocSize - 1
          <5>1. i + 2 \in 1..TocSize /\ TocSize \in 1..TocSize /\ i + 2 <= TocSize
            BY <4>2, SlicesAssumption
          <5>2. PICK u \in Nat, v \in Nat : u = toc[i + 2] /\ v = toc[TocSize] /\ u <= v
            <6>1. toc[i + 2] <= toc[TocSize]
              BY <5>1 DEF Ascending
            <6>2. toc[i + 2] \in 0..(TocScale - 1) /\ toc[TocSize] \in 0..(TocScale - 1)
              BY <5>1
            <6> QED BY <6>1, <6>2, SlicesAssumption
          <5>3. PICK ud \in Nat, vd \in Nat : ud = u * d /\ vd = v * d /\ ud <= vd
            BY <5>2, ProductType, ProductMonotone
          <5>4. x <= ud
            BY <2>2, <4>2, <5>2, <5>3 DEF TocPlace
          <5>5. y = vd
            BY <3>1, <5>2, <5>3
          <5> QED BY <5>3, <5>4, <5>5
        <4> QED BY <4>1, <4>2
      <3>3. 0 \in 0..1 /\ 0 # 1
        OBVIOUS
      <3>4. Truncated(x * a, cd, le) <= Truncated(y * a, cd, 0)
        <4>1. \A lf \in 0..1 : (lf = 1 => x < y) => Truncated(x * a, cd, le) <= Truncated(y * a, cd, lf)
          BY <2>4, <3>2
        <4> QED BY <3>3, <4>1
      <3> QED BY <2>3, <2>6, <3>1, <3>4
    <2> QED BY <2>1, <2>5, <2>6
  <1> QED BY <1>3, <1>4, <1>5

\* Before the end float64 moves a time by one byte at most.
LEMMA TocLookupNear ==
  ASSUME NEW toc \in [1..TocSize -> 0..(TocScale - 1)], Ascending(toc), NEW a \in Nat \ {0},
         NEW d \in Nat \ {0}, NEW n \in 0..(d - 1), NEW e \in 0..1, NEW f \in 0..1
  PROVE  TocLookup(toc, a, n, d, e) <= TocLookup(toc, a, n, d, f) + 1
  <1>1. CASE n = 0
    BY <1>1 DEF TocLookup
  <1>2. CASE n # 0
    <2>1. n \in 1..(d - 1)
      BY <1>2
    <2>2. PICK cd \in Nat \ {0} : cd = TocScale * d
      BY ProductType, SlicesAssumption
    <2>3. PICK i \in 0..(TocSize - 1), r \in 0..(d - 1), x \in Nat :
            TocAt(n, d, i, r) /\ TocPlace(toc, a, n, d, e, i, r, x)
      BY <2>1, TocPoint
    <2>4. PICK j \in 0..(TocSize - 1), s \in 0..(d - 1), y \in Nat :
            TocAt(n, d, j, s) /\ TocPlace(toc, a, n, d, f, j, s, y)
      BY <2>1, TocPoint
    <2>5. x = y
      <3> DEFINE z == toc[i + 1] * d + IF i = TocSize - 1 THEN 0 ELSE r * (toc[i + 2] - toc[i + 1])
      <3>1. i = j /\ r = s
        BY <2>3, <2>4 DEF TocAt
      <3>2. TocPlace(toc, a, n, d, f, i, r, y)
        BY <2>4, <3>1
      <3>3. x = z
        BY <2>3 DEF TocPlace
      <3>4. y = z
        BY <3>2 DEF TocPlace
      <3> QED BY <3>3, <3>4
    <2>6. PICK le \in 0..1 : le = IF Rises(toc, n, d) THEN e ELSE 0
      OBVIOUS
    <2>lf. PICK lf \in 0..1 : lf = IF Rises(toc, n, d) THEN f ELSE 0
      OBVIOUS
    <2>7. PICK xa \in Nat : xa = x * a
      BY ProductType
    <2>8. TocLookup(toc, a, n, d, e) = Truncated(xa, cd, le) /\ TocLookup(toc, a, n, d, f) = Truncated(xa, cd, lf)
      <3>1. TocLookup(toc, a, n, d, e) = Truncated(xa, cd, le)
        BY <2>2, <2>3, <2>6, <2>7 DEF TocPlace
      <3>2. TocLookup(toc, a, n, d, f) = Truncated(y * a, cd, lf)
        BY <2>2, <2>4, <2>lf DEF TocPlace
      <3> QED BY <2>5, <2>7, <3>1, <3>2
    <2>9. Truncated(xa, cd, le) \in Nat /\ Truncated(xa, cd, le) <= xa \div cd /\ xa \div cd \in Nat
      BY Truncation
    <2>10. Truncated(xa, cd, lf) \in Nat /\ xa \div cd <= Truncated(xa, cd, lf) + lf
      BY Truncation
    <2> QED BY <2>8, <2>9, <2>10
  <1> QED BY <1>1, <1>2

\* Without a table: the byte of a time, and the one it is cut to.
LEMMA Mp3Rate ==
  ASSUME NEW f, ProperMP3(f)
  PROVE  /\ f.rate \in Nat \ {0} /\ f.lost \in 0..1 /\ f.start \in Nat /\ f.size \in Nat
         /\ (Mp3Total(f).n * f.rate) \div Mp3Total(f).d - f.lost \in Nat
  <1>1. PICK n \in Nat \ {0}, d \in Nat \ {0}, rate \in Nat \ {0}, lost \in 0..1 :
          /\ n = Mp3Total(f).n /\ d = Mp3Total(f).d /\ rate = f.rate /\ lost = f.lost
          /\ lost = 1 => (n * rate) % d = 0
    <2>1. /\ f.lost \in {0, 1} /\ f.rate \in Nat \ {0}
          /\ f.lost = 1 => (Mp3Total(f).n * f.rate) % Mp3Total(f).d = 0
      BY DEF ProperMP3
    <2>2. f.lost \in 0..1
      BY <2>1
    <2> QED BY <2>1, <2>2, Mp3TotalType
  <1>2. PICK nr \in Nat \ {0} : nr = n * rate
    BY ProductType
  <1>3. Truncated(nr, d, lost) \in Nat
    BY Truncation
  <1>4. nr \div d - lost = Truncated(nr, d, lost)
    <2>1. nr \div d \in Nat
      BY Quotient
    <2>2. lost = 1 => nr % d = 0
      BY <1>1, <1>2
    <2>3. nr > 0
      BY <1>2
    <2>4. CASE lost = 0
      BY <2>1, <2>4 DEF Truncated
    <2>5. CASE lost = 1
      BY <2>2, <2>3, <2>5 DEF Truncated
    <2> QED BY <2>4, <2>5
  <1> QED BY <1>1, <1>2, <1>3, <1>4 DEF ProperMP3

\* A later time is never an earlier byte.
LEMMA Mp3ByteMonotone ==
  ASSUME NEW f, ProperMP3(f), NEW t \in Nat, NEW u \in Nat, t < u, NEW e \in 0..1, NEW g \in 0..1
  PROVE  Mp3Byte(f, t, e) <= Mp3Byte(f, u, g)
  <1>1. PICK n \in Nat \ {0}, d \in Nat \ {0}, a \in Nat \ {0}, start \in Nat :
          n = Mp3Total(f).n /\ d = Mp3Total(f).d /\ a = AudioBytes(f) /\ start = f.start
    BY Mp3TotalType DEF ProperMP3
  <1>2. CASE f.toc # <<>>
    <2>1. f.toc \in [1..TocSize -> 0..(TocScale - 1)] /\ Ascending(f.toc)
      BY <1>2 DEF ProperMP3
    <2>2. PICK x \in Nat, y \in Nat : x = t * d /\ y = u * d /\ x < y
      <3>1. t * d < u * d
        BY ProductLess
      <3> QED BY <3>1, ProductType
    <2>3. PICK b \in Nat, c \in Nat : /\ b = TocLookup(f.toc, a, x, n, e) /\ c = TocLookup(f.toc, a, y, n, g)
                                      /\ b <= c
      <3>1. TocLookup(f.toc, a, x, n, e) \in 0..a /\ TocLookup(f.toc, a, y, n, g) \in 0..a
        BY <2>1, TocLookupRange
      <3>2. TocLookup(f.toc, a, x, n, e) <= TocLookup(f.toc, a, y, n, g)
        BY <2>1, <2>2, TocLookupMonotone
      <3> QED BY <3>1, <3>2
    <2>4. Mp3Byte(f, t, e) = start + b /\ Mp3Byte(f, u, g) = start + c
      BY <1>1, <1>2, <2>2, <2>3 DEF Mp3Byte
    <2> QED BY <2>3, <2>4
  <1>3. CASE f.toc = <<>>
    <2>1. PICK k \in Nat, rate \in Nat \ {0} : k = (n * f.rate) \div d - f.lost /\ rate = f.rate
      BY <1>1, Mp3Rate
    <2>2. PICK x \in Nat, y \in Nat : x = t * rate /\ y = u * rate /\ x < y
      <3>1. t * rate < u * rate
        BY ProductLess
      <3> QED BY <3>1, ProductType
    <2>3. PICK b \in Nat, c \in Nat : b = Truncated(x, 1, e) /\ c = Truncated(y, 1, g) /\ b <= c
      <3>1. 1 \in Nat \ {0}
        OBVIOUS
      <3>2. /\ Truncated(x, 1, e) \in Nat /\ Truncated(y, 1, g) \in Nat
            /\ Truncated(x, 1, e) <= Truncated(y, 1, g)
        BY <2>2, <3>1, TruncatedMonotone
      <3> QED BY <3>2
    <2>4. Mp3Byte(f, t, e) = start + Min({b, k}) /\ Mp3Byte(f, u, g) = start + Min({c, k})
      BY <1>1, <1>3, <2>1, <2>2, <2>3 DEF Mp3Byte
    <2>5. Min({b, k}) = (IF b <= k THEN b ELSE k) /\ Min({c, k}) = IF c <= k THEN c ELSE k
      BY Lesser
    <2> QED BY <2>3, <2>4, <2>5
  <1> QED BY <1>2, <1>3

\* None is before the audio.
LEMMA Mp3ByteType ==
  ASSUME NEW f, ProperMP3(f), NEW t \in Nat, NEW e \in 0..1
  PROVE  Mp3Byte(f, t, e) \in Nat /\ f.start <= Mp3Byte(f, t, e)
  <1>1. PICK n \in Nat \ {0}, d \in Nat \ {0}, a \in Nat \ {0}, start \in Nat :
          n = Mp3Total(f).n /\ d = Mp3Total(f).d /\ a = AudioBytes(f) /\ start = f.start
    BY Mp3TotalType DEF ProperMP3
  <1>2. PICK b \in Nat : Mp3Byte(f, t, e) = start + b
    <2>1. CASE f.toc # <<>>
      <3>1. PICK x \in Nat : x = t * d
        BY ProductType
      <3>2. TocLookup(f.toc, a, x, n, e) \in 0..a
        BY <2>1, TocLookupRange DEF ProperMP3
      <3>3. Mp3Byte(f, t, e) = start + TocLookup(f.toc, a, x, n, e)
        BY <1>1, <2>1, <3>1 DEF Mp3Byte
      <3> QED BY <3>2, <3>3
    <2>2. CASE f.toc = <<>>
      <3>1. PICK k \in Nat, rate \in Nat \ {0} : k = (n * f.rate) \div d - f.lost /\ rate = f.rate
        BY <1>1, Mp3Rate
      <3>2. PICK x \in Nat : x = t * rate
        BY ProductType
      <3>3. PICK b \in Nat : b = Truncated(x, 1, e)
        <4>1. 1 \in Nat \ {0}
          OBVIOUS
        <4> QED BY <4>1, Truncation
      <3>4. Min({b, k}) \in Nat
        BY Lesser
      <3>5. Mp3Byte(f, t, e) = start + Min({b, k})
        BY <1>1, <2>2, <3>1, <3>2, <3>3 DEF Mp3Byte
      <3> QED BY <3>4, <3>5
    <2> QED BY <2>1, <2>2
  <1> QED BY <1>1, <1>2

\* Before the end float64 moves the byte of a time by one at most.
LEMMA Mp3ByteNear ==
  ASSUME NEW f, ProperMP3(f), NEW t \in Nat, ~(t * Mp3Total(f).d >= Mp3Total(f).n),
         NEW e \in 0..1, NEW g \in 0..1
  PROVE  Mp3Byte(f, t, e) <= Mp3Byte(f, t, g) + 1
  <1>1. PICK n \in Nat \ {0}, d \in Nat \ {0}, a \in Nat \ {0}, start \in Nat :
          n = Mp3Total(f).n /\ d = Mp3Total(f).d /\ a = AudioBytes(f) /\ start = f.start
    BY Mp3TotalType DEF ProperMP3
  <1>2. CASE f.toc # <<>>
    <2>1. f.toc \in [1..TocSize -> 0..(TocScale - 1)] /\ Ascending(f.toc)
      BY <1>2 DEF ProperMP3
    <2>2. PICK x \in 0..(n - 1) : x = t * d
      <3>1. t * d \in Nat
        BY ProductType
      <3> QED BY <1>1, <3>1
    <2>3. PICK b \in Nat, c \in Nat : /\ b = TocLookup(f.toc, a, x, n, e) /\ c = TocLookup(f.toc, a, x, n, g)
                                      /\ b <= c + 1
      <3>1. TocLookup(f.toc, a, x, n, e) \in 0..a /\ TocLookup(f.toc, a, x, n, g) \in 0..a
        <4>1. x \in Nat
          OBVIOUS
        <4> QED BY <2>1, <4>1, TocLookupRange
      <3>2. TocLookup(f.toc, a, x, n, e) <= TocLookup(f.toc, a, x, n, g) + 1
        BY <2>1, TocLookupNear
      <3> QED BY <3>1, <3>2
    <2>4. Mp3Byte(f, t, e) = start + b /\ Mp3Byte(f, t, g) = start + c
      BY <1>1, <1>2, <2>2, <2>3 DEF Mp3Byte
    <2> QED BY <2>3, <2>4
  <1>3. CASE f.toc = <<>>
    <2>1. PICK k \in Nat, rate \in Nat \ {0} : k = (n * f.rate) \div d - f.lost /\ rate = f.rate
      BY <1>1, Mp3Rate
    <2>2. PICK x \in Nat : x = t * rate
      BY ProductType
    <2>3. PICK b \in Nat, c \in Nat : b = Truncated(x, 1, e) /\ c = Truncated(x, 1, g) /\ b <= c + 1
      <3>1. Truncated(x, 1, e) \in Nat /\ Truncated(x, 1, e) <= x \div 1 /\ x \div 1 \in Nat
        BY Truncation
      <3>2. Truncated(x, 1, g) \in Nat /\ x \div 1 <= Truncated(x, 1, g) + g
        BY Truncation
      <3> QED BY <3>1, <3>2
    <2>4. Mp3Byte(f, t, e) = start + Min({b, k}) /\ Mp3Byte(f, t, g) = start + Min({c, k})
      BY <1>1, <1>3, <2>1, <2>2, <2>3 DEF Mp3Byte
    <2>5. Min({b, k}) = (IF b <= k THEN b ELSE k) /\ Min({c, k}) = IF c <= k THEN c ELSE k
      BY Lesser
    <2> QED BY <2>3, <2>4, <2>5
  <1> QED BY <1>2, <1>3

\* The byte behind the end.
LEMMA Mp3ByteAtEnd ==
  ASSUME NEW f, ProperMP3(f), NEW t \in Nat, t * Mp3Total(f).d > Mp3Total(f).n, NEW e \in 0..1
  PROVE  /\ f.toc # <<>> => Mp3Byte(f, t, e) = f.size
         /\ f.toc = <<>> /\ f.frames = 0 => Mp3Byte(f, t, e) = f.size - f.lost
  <1>1. PICK n \in Nat \ {0}, d \in Nat \ {0}, a \in Nat :
          n = Mp3Total(f).n /\ d = Mp3Total(f).d /\ a = AudioBytes(f)
    BY Mp3TotalType
  <1>2. PICK x \in Nat : x = t * d /\ x > n
    BY <1>1, ProductType
  <1>3. f.start \in Nat /\ f.size \in Nat /\ a = f.size - f.start /\ f.lost \in 0..1
    BY <1>1 DEF ProperMP3, AudioBytes
  <1>4. CASE f.toc # <<>>
    <2>1. TocLookup(f.toc, a, x, n, e) = a
      BY <1>2 DEF TocLookup
    <2>2. Mp3Byte(f, t, e) = f.start + a
      BY <1>1, <1>2, <1>4, <2>1 DEF Mp3Byte
    <2> QED BY <1>3, <1>4, <2>2
  <1>5. CASE f.toc = <<>> /\ f.frames = 0
    <2>1. n = a /\ d = f.rate
      BY <1>1, <1>5 DEF Mp3Total
    <2>2. (n * f.rate) \div d = a
      BY <2>1, QuotientExact
    <2>3. PICK b \in Nat : b = Truncated(x, 1, e) /\ a <= b
      <3>1. a * 1 < x
        BY <1>2, <2>1
      <3>2. a <= Truncated(x, 1, e)
        BY <3>1, TruncatedAtLeast
      <3>3. Truncated(x, 1, e) \in Nat
        <4>1. 1 \in Nat \ {0}
          OBVIOUS
        <4> QED BY <4>1, Truncation
      <3> QED BY <3>2, <3>3
    <2>4. PICK k \in Int : k = a - f.lost /\ k <= b
      BY <1>3, <2>3
    <2>5. Min({b, k}) = k
      BY <2>4, Lesser
    <2>6. Mp3Byte(f, t, e) = f.start + k
      BY <1>1, <1>2, <1>5, <2>1, <2>2, <2>3, <2>4, <2>5 DEF Mp3Byte
    <2> QED BY <1>3, <1>5, <2>4, <2>6
  <1> QED BY <1>4, <1>5

-----------------------------------------------------------------------------
(* Times in samples.                                                       *)

LEMMA SamplesTypes ==
  ASSUME NEW t \in Nat, NEW rate \in Nat, NEW e \in 0..1
  PROVE  Samples(t, rate, e) \in Nat
  <1>1. PICK x \in Nat : x = t * rate
    BY ProductType
  <1> QED BY <1>1, Truncation, SlicesAssumption DEF Samples

\* Past the end a file stays.
LEMMA PastMonotone ==
  ASSUME NEW f \in Files, f.kind \in {"mp3", "flac", "wav"}, NEW t \in Nat, NEW u \in Nat, t <= u, Past(f, t)
  PROVE  Past(f, u)
  <1>1. CASE f.kind = "mp3"
    <2>1. ProperMP3(f)
      BY <1>1, ProperFiles
    <2>2. PICK n \in Nat, d \in Nat : n = Mp3Total(f).n /\ d = Mp3Total(f).d
      BY <2>1, Mp3TotalType
    <2>3. PICK x \in Nat, y \in Nat : x = t * d /\ y = u * d /\ x <= y
      BY ProductType, ProductMonotone
    <2> QED BY <1>1, <2>2, <2>3 DEF Past
  <1>2. CASE f.kind = "flac"
    <2>1. PICK d \in Nat, n \in Nat : d = f.rate /\ n = f.samples * TicksPerSecond
      BY <1>2, ProperFiles, ProductType, SlicesAssumption DEF ProperFLAC
    <2>3. PICK x \in Nat, y \in Nat : x = t * d /\ y = u * d /\ x <= y
      BY ProductType, ProductMonotone
    <2> QED BY <1>2, <2>1, <2>3 DEF Past
  <1>3. CASE f.kind = "wav"
    <2>0. ProperWAV(f)
      BY <1>3, ProperFiles
    <2>1. PICK d \in Nat, a \in Nat : d = f.rate /\ a = f.align
      BY <2>0 DEF ProperWAV
    <2>2. PICK n \in Nat : n = WavWalk(f.chunks, f.size).dataSize * TicksPerSecond
      BY <2>0, WavWalkType, ProductType, SlicesAssumption DEF ProperWAV, ChunkSeqs
    <2>3. PICK x \in Nat, y \in Nat : x = t * d /\ y = u * d /\ x <= y
      BY ProductType, ProductMonotone
    <2>4. x * a \in Nat /\ y * a \in Nat /\ x * a <= y * a
      BY <2>3, ProductType, ProductMonotone
    <2> QED BY <1>3, <2>1, <2>2, <2>3, <2>4 DEF Past
  <1> QED BY <1>1, <1>2, <1>3

-----------------------------------------------------------------------------
(* WAV.                                                                    *)

\* A time before the end is before the last whole sample that float64 leaves,
\* one behind it is not before any.
LEMMA WavSamples ==
  ASSUME NEW f, f.kind = "wav", ProperWAV(f), NEW t \in Nat, NEW g \in 0..1
  PROVE  LET whole == WavWalk(f.chunks, f.size).dataSize \div f.align
         IN /\ whole \in Nat
            /\ ~Past(f, t) => Samples(t, f.rate, g) <= whole - f.lost
            /\ Beyond(f, t) => whole <= Samples(t, f.rate, g)
  <1>1. PICK D \in Nat : D = WavWalk(f.chunks, f.size).dataSize
    BY WavWalkType DEF ProperWAV, ChunkSeqs
  <1>2. PICK r \in Nat, a \in Nat \ {0}, lost \in {0, 1} : r = f.rate /\ a = f.align /\ lost = f.lost
                                                       /\ (lost = 1 => D % a = 0)
    BY <1>1 DEF ProperWAV
  <1>3. PICK T \in Nat \ {0} : T = TicksPerSecond
    BY SlicesAssumption
  <1>4. PICK e \in Nat, ea \in Nat, m \in Nat : e = D \div a /\ ea = e * a /\ m = D % a /\ D = ea + m
                                              /\ D < (e + 1) * a
    <2>1. PICK e \in Nat : e = D \div a
      BY Quotient
    <2>2. PICK ea \in Nat : ea = e * a
      BY ProductType
    <2> QED BY <2>1, <2>2, Quotient
  <1>5. PICK x \in Nat, xa \in Nat : x = t * r /\ xa = x * a
    BY ProductType
  <1>6. PICK q \in Nat, qT \in Nat : q = x \div T /\ qT = q * T /\ qT <= x
    <2>1. PICK q \in Nat : q = x \div T
      BY Quotient
    <2>2. PICK qT \in Nat : qT = q * T
      BY ProductType
    <2>3. qT <= x
      BY <2>1, <2>2, Quotient
    <2> QED BY <2>1, <2>2, <2>3
  <1>7. (Past(f, t) <=> xa >= D * T) /\ (Beyond(f, t) <=> xa > D * T)
    BY <1>1, <1>2, <1>3, <1>5 DEF Past, Beyond
  <1>8. ASSUME xa < D * T PROVE q <= e - lost
    <2>1. PICK qa \in Nat : qa = q * a
      BY ProductType
    <2>2. qT * a <= x * a
      BY <1>6, ProductMonotone
    <2>3. qT * a = qa * T
      <3>1. qT = q * T
        BY <1>6
      <3> QED BY <2>1, <3>1
    <2>4. qa * T < D * T
      <3>1. qa * T \in Nat /\ D * T \in Nat
        BY ProductType
      <3> QED BY <1>5, <1>8, <2>2, <2>3, <3>1
    <2>5. qa < D
      BY <2>4, ProductLess
    <2>6. CASE lost = 0
      <3>1. q * a < (e + 1) * a
        <4>1. (e + 1) * a \in Nat
          BY ProductType
        <4> QED BY <1>4, <2>1, <2>5, <4>1
      <3>2. q < e + 1
        BY <3>1, ProductLess
      <3> QED BY <2>6, <3>2
    <2>7. CASE lost = 1
      <3>1. q * a < e * a
        BY <1>2, <1>4, <2>1, <2>5, <2>7
      <3>2. q < e
        BY <3>1, ProductLess
      <3> QED BY <2>7, <3>2
    <2> QED BY <2>6, <2>7
  <1>9. ASSUME xa > D * T PROVE e <= Truncated(x, T, g)
    <2>1. PICK eT \in Nat : eT = e * T
      BY ProductType
    <2>2. ea * T <= D * T
      BY <1>4, ProductMonotone
    <2>3. ea * T = eT * a
      BY <1>4, <2>1
    <2>4. eT * a < x * a
      <3>1. eT * a \in Nat /\ D * T \in Nat /\ x * a \in Nat
        BY ProductType
      <3> QED BY <1>5, <1>9, <2>2, <2>3, <3>1
    <2>5. eT < x
      BY <2>4, ProductLess
    <2>6. e * T < x
      BY <2>1, <2>5
    <2> QED BY <2>6, TruncatedAtLeast
  <1>10. xa < D * T \/ xa >= D * T
    BY ProductType
  <1>11. Truncated(x, T, g) \in Nat /\ Truncated(x, T, g) <= q
    BY <1>6, Truncation
  <1>12. Truncated(x, T, g) = Samples(t, f.rate, g)
    BY <1>2, <1>3, <1>5 DEF Samples
  <1>13. /\ e \in Nat
         /\ ~Past(f, t) => Truncated(x, T, g) <= e - lost
         /\ Beyond(f, t) => e <= Truncated(x, T, g)
    BY <1>7, <1>8, <1>9, <1>10, <1>11
  <1>14. e = WavWalk(f.chunks, f.size).dataSize \div f.align /\ lost = f.lost
    BY <1>1, <1>2, <1>4
  <1> QED BY <1>12, <1>13, <1>14

-----------------------------------------------------------------------------
(* FLAC.                                                                   *)

LEMMA SeekPointTypes ==
  ASSUME NEW points \in Seq([sample : Nat, offset : Nat]), NEW target \in Int, NEW size \in Int
  PROVE  SeekPointFloor(points, target) \in Nat /\ SeekPointCeil(points, target, size) \in Int
  <1>1. /\ Len(points) \in Nat /\ DOMAIN points = 1..Len(points)
        /\ \A i \in 1..Len(points) : points[i].sample \in Nat /\ points[i].offset \in Nat
    <2>1. ASSUME NEW S, NEW s \in Seq(S)
          PROVE  Len(s) \in Nat /\ DOMAIN s = 1..Len(s) /\ \A i \in 1..Len(s) : s[i] \in S
      OBVIOUS
    <2>2. \A p \in [sample : Nat, offset : Nat] : p.sample \in Nat /\ p.offset \in Nat
      OBVIOUS
    <2> QED BY <2>1, <2>2
  <1> DEFINE Passed(i) == points[i].sample = Placeholder \/ points[i].sample <= target
             passed == {i \in DOMAIN points : points[i].sample # Placeholder /\ \A j \in 1..i : Passed(j)}
             later == {i \in DOMAIN points : points[i].sample # Placeholder /\ points[i].sample > target}
  <1>2. SeekPointFloor(points, target) = IF passed = {} THEN 0 ELSE points[Max(passed)].offset
    BY DEF SeekPointFloor
  <1>3. SeekPointCeil(points, target, size) = IF later = {} THEN size ELSE points[Min(later)].offset
    BY DEF SeekPointCeil
  <1>4. passed \in SUBSET (0..Len(points)) /\ passed \in SUBSET (1..Len(points))
    BY <1>1
  <1>5. later \in SUBSET Nat /\ later \in SUBSET (1..Len(points))
    BY <1>1
  <1> HIDE DEF passed, later
  <1>6. passed # {} => Max(passed) \in passed
    BY <1>1, <1>4, GreatestIsMax
  <1>7. later # {} => Min(later) \in later
    BY <1>5, LeastIsMin
  <1>8. SeekPointFloor(points, target) \in Nat
    <2>1. CASE passed = {}
      BY <1>2, <2>1
    <2>2. CASE passed # {}
      <3>1. Max(passed) \in 1..Len(points)
        BY <1>4, <1>6, <2>2
      <3>2. points[Max(passed)].offset \in Nat
        BY <1>1, <3>1
      <3> QED BY <1>2, <2>2, <3>2
    <2> QED BY <2>1, <2>2
  <1>9. SeekPointCeil(points, target, size) \in Int
    <2>1. CASE later = {}
      BY <1>3, <2>1
    <2>2. CASE later # {}
      <3>1. Min(later) \in 1..Len(points)
        BY <1>5, <1>7, <2>2
      <3>2. points[Min(later)].offset \in Nat
        BY <1>1, <3>1
      <3> QED BY <1>3, <2>2, <3>2
    <2> QED BY <2>1, <2>2
  <1> QED BY <1>8, <1>9

\* The point before the target is a frame whose first sample is not behind it,
\* the one after it a frame whose first sample is.
LEMMA SeekPointFrames ==
  ASSUME NEW f, ProperFLAC(f), NEW target \in Int
  PROVE  /\ \/ SeekPointFloor(f.points, target) = 0
            \/ \E k \in DOMAIN f.frames : /\ (k - 1) * f.frameLen <= target
                                          /\ f.start + SeekPointFloor(f.points, target) = f.frames[k]
         /\ \/ SeekPointCeil(f.points, target, f.size - f.start) = f.size - f.start
            \/ \E k \in DOMAIN f.frames :
                 /\ (k - 1) * f.frameLen > target
                 /\ f.start + SeekPointCeil(f.points, target, f.size - f.start) = f.frames[k]
  <1>1. PICK points : points = f.points /\ points \in Seq([sample : Nat, offset : Nat])
    BY DEF ProperFLAC
  <1>2. Len(points) \in Nat /\ DOMAIN points = 1..Len(points)
    BY <1>1
  <1>3. \A i \in DOMAIN points : points[i].sample # Placeholder =>
          \E k \in DOMAIN f.frames : /\ points[i].sample = (k - 1) * f.frameLen
                                     /\ f.start + points[i].offset = f.frames[k]
    BY <1>1 DEF ProperFLAC
  <1> DEFINE Passed(i) == points[i].sample = Placeholder \/ points[i].sample <= target
             passed == {i \in DOMAIN points : points[i].sample # Placeholder /\ \A j \in 1..i : Passed(j)}
             later == {i \in DOMAIN points : points[i].sample # Placeholder /\ points[i].sample > target}
  <1>4. SeekPointFloor(f.points, target) = IF passed = {} THEN 0 ELSE points[Max(passed)].offset
    BY <1>1 DEF SeekPointFloor
  <1>5. SeekPointCeil(f.points, target, f.size - f.start) =
          IF later = {} THEN f.size - f.start ELSE points[Min(later)].offset
    BY <1>1 DEF SeekPointCeil
  <1>6. \A i \in passed : i \in DOMAIN points /\ i \in 1..i /\ points[i].sample # Placeholder
                          /\ points[i].sample <= target
    <2> TAKE i \in passed
    <2>1. i \in DOMAIN points /\ points[i].sample # Placeholder /\ \A j \in 1..i : Passed(j)
      OBVIOUS
    <2>2. i \in 1..i
      BY <1>2, <2>1
    <2>3. Passed(i)
      BY <2>1, <2>2
    <2> QED BY <2>1, <2>2, <2>3
  <1>7. \A i \in later : i \in DOMAIN points /\ points[i].sample # Placeholder /\ points[i].sample > target
    OBVIOUS
  <1>8. passed \in SUBSET (0..Len(points)) /\ later \in SUBSET Nat
    BY <1>2
  <1> HIDE DEF passed, later
  <1>9. passed # {} => Max(passed) \in passed
    BY <1>2, <1>8, GreatestIsMax
  <1>10. later # {} => Min(later) \in later
    BY <1>8, LeastIsMin
  <1>11. \/ SeekPointFloor(f.points, target) = 0
         \/ \E k \in DOMAIN f.frames : /\ (k - 1) * f.frameLen <= target
                                       /\ f.start + SeekPointFloor(f.points, target) = f.frames[k]
    <2>1. CASE passed = {}
      BY <1>4, <2>1
    <2>2. CASE passed # {}
      <3>1. PICK i : i = Max(passed) /\ i \in passed
        BY <1>9, <2>2
      <3>2. PICK k \in DOMAIN f.frames : /\ points[i].sample = (k - 1) * f.frameLen
                                         /\ f.start + points[i].offset = f.frames[k]
        BY <1>3, <1>6, <3>1
      <3>3. points[i].sample <= target
        BY <1>6, <3>1
      <3> QED BY <1>4, <2>2, <3>1, <3>2, <3>3
    <2> QED BY <2>1, <2>2
  <1>12. \/ SeekPointCeil(f.points, target, f.size - f.start) = f.size - f.start
         \/ \E k \in DOMAIN f.frames :
              /\ (k - 1) * f.frameLen > target
              /\ f.start + SeekPointCeil(f.points, target, f.size - f.start) = f.frames[k]
    <2>1. CASE later = {}
      BY <1>5, <2>1
    <2>2. CASE later # {}
      <3>1. PICK i : i = Min(later) /\ i \in later
        BY <1>10, <2>2
      <3>2. PICK k \in DOMAIN f.frames : /\ points[i].sample = (k - 1) * f.frameLen
                                         /\ f.start + points[i].offset = f.frames[k]
        BY <1>3, <1>7, <3>1
      <3>3. points[i].sample > target
        BY <1>7, <3>1
      <3> QED BY <1>5, <2>2, <3>1, <3>2, <3>3
    <2> QED BY <2>1, <2>2
  <1> QED BY <1>11, <1>12

-----------------------------------------------------------------------------
(* What a range is served as.                                              *)

Sliceable == {"mp3", "flac", "wav"}
Found(f) == WavWalk(f.chunks, f.size)
Whole(f) == Found(f).dataSize \div f.align

\* The bytes a range that begins or ends at time t is cut at.
StartByte(f, t, e) ==
  CASE f.kind = "mp3"  -> Mp3Byte(f, t, e)
    [] f.kind = "flac" -> f.start + SeekPointFloor(f.points, Samples(t, f.rate, e))
    [] OTHER           -> Found(f).dataOffset + Samples(t, f.rate, e) * f.align

EndByte(f, t, e) ==
  CASE f.kind = "mp3"  -> Min({Mp3Byte(f, t, e), f.size})
    [] f.kind = "flac" -> Min({f.start + SeekPointCeil(f.points, Min({Samples(t, f.rate, e), f.samples - f.lost}),
                                                       f.size - f.start), f.size})
    [] OTHER           -> Found(f).dataOffset + Min({Samples(t, f.rate, e), Whole(f) - f.lost}) * f.align

HeaderLength(f) ==
  CASE f.kind = "mp3" -> 0 [] f.kind = "flac" -> 42 [] OTHER -> 28 + Found(f).fmtLen

\* What a slice that ends at time t is.
Served(f, t, r) ==
  /\ f.kind \in Sliceable /\ ~Past(f, 0)
  /\ r.from \in Nat /\ r.to \in Nat /\ AudioStart(f) <= r.from /\ r.from < r.to
  /\ \E e \in 0..1 : r.to = EndByte(f, t, e)
  /\ r.length = HeaderLength(f) + (r.to - r.from)
  /\ r.length \in Nat /\ r.riff \in Nat
  /\ f.kind = "wav" =>
       /\ Found(f).fmtLen # 0
       /\ r.riff = (r.length - 8) % SizeModulus
       /\ r.chunks = <<[id |-> "fmt", size |-> Found(f).fmtLen], [id |-> "data", size |-> r.to - r.from]>>

\* All that is used of how a range is served.
Serves(f, s, t, r) ==
  /\ r.sliced => Served(f, t, r) /\ \E e \in 0..1 : r.from = StartByte(f, s, e)
  /\ ~r.sliced => r = WholeFile

LEMMA NoReply ==
  ASSUME NEW from, NEW to, NEW header, from >= to
  PROVE  Reply(from, to, header) = WholeFile /\ ~WholeFile.sliced
  BY DEF Reply, WholeFile

LEMMA WavTypes ==
  ASSUME NEW f, ProperWAV(f)
  PROVE  /\ Found(f).dataOffset \in Nat /\ Found(f).dataSize \in Nat /\ Found(f).fmtLen \in Nat
         /\ f.size \in Nat /\ f.rate \in Nat \ {0} /\ f.align \in Nat \ {0} /\ f.lost \in {0, 1}
  <1>1. f.chunks \in ChunkSeqs /\ f.size \in Nat
    BY DEF ProperWAV, ChunkSeqs
  <1>2. \A m \in {0} \cup FmtSizes : m \in Nat
    BY DEF FmtSizes
  <1>3. Found(f).dataOffset \in Nat /\ Found(f).fmtLen \in Nat /\ Found(f).dataSize \in Nat
    BY <1>1, <1>2, WavWalkType DEF Found
  <1> QED BY <1>3 DEF ProperWAV

LEMMA EarlyTypes ==
  ASSUME NEW early \in Early
  PROVE  early.from \in 0..1 /\ early.to \in 0..1
  BY DEF Early

LEMMA Mp3Serves ==
  ASSUME NEW f \in Files, f.kind = "mp3", NEW s \in Nat, NEW d \in Nat \ {0}, NEW early \in Early
  PROVE  Serves(f, s, s + d, ServeSliced(f, s, d, early))
  <1>0. ProperMP3(f)
    BY ProperFiles
  <1>1. PICK e \in 0..1, g \in 0..1 : e = early.from /\ g = early.to
    BY EarlyTypes
  <1>2. PICK from \in Nat, to \in Nat : from = Mp3Byte(f, s, e) /\ to = Mp3Byte(f, s + d, g) /\ f.start <= from
    <2>1. Mp3Byte(f, s, e) \in Nat /\ f.start <= Mp3Byte(f, s, e)
      BY <1>0, Mp3ByteType
    <2>2. s + d \in Nat
      OBVIOUS
    <2>3. Mp3Byte(f, s + d, g) \in Nat
      BY <1>0, <2>2, Mp3ByteType
    <2> QED BY <2>1, <2>3
  <1>3. PICK size \in Nat, start \in Nat : size = f.size /\ start = f.start
    BY <1>0 DEF ProperMP3
  <1>4. PICK end \in Nat : end = Min({to, size}) /\ end <= size
    BY Lesser
  <1>5. StartByte(f, s, e) = from /\ EndByte(f, s + d, g) = end
    BY <1>2, <1>3, <1>4 DEF StartByte, EndByte
  <1>6. AudioStart(f) = start /\ HeaderLength(f) = 0
    BY <1>3 DEF AudioStart, HeaderLength
  <1>7. ~Past(f, 0)
    <2>1. PICK n \in Nat \ {0}, c \in Nat : n = Mp3Total(f).n /\ c = Mp3Total(f).d
      BY <1>0, Mp3TotalType
    <2>2. 0 * c = 0
      OBVIOUS
    <2> QED BY <2>1, <2>2 DEF Past
  <1>8. PICK r : r = ServeSliced(f, s, d, early)
    OBVIOUS
  <1>9. r = IF Mp3Ended(f, s, e) THEN WholeFile ELSE Reply(from, end, 0)
    BY <1>1, <1>2, <1>3, <1>4, <1>8 DEF ServeSliced, SliceMP3
  <1>10. CASE r = WholeFile
    <2>1. ~r.sliced
      BY <1>10 DEF WholeFile
    <2> QED BY <1>8, <1>10, <2>1 DEF Serves
  <1>11. CASE r # WholeFile
    <2>1. r = Reply(from, end, 0) /\ from < end
      BY <1>9, <1>11, NoReply
    <2>2. r.sliced /\ r.from = from /\ r.to = end /\ r.length = 0 + (end - from) /\ r.riff = 0
      <3>1. r = [WholeFile EXCEPT !.sliced = TRUE, !.from = from, !.to = end, !.length = 0 + end - from]
        BY <2>1 DEF Reply
      <3>2. 0 + end - from = 0 + (end - from)
        OBVIOUS
      <3> QED BY <3>1, <3>2 DEF WholeFile
    <2>3. r.length \in Nat
      BY <2>1, <2>2
    <2>4. Served(f, s + d, r)
      BY <1>2, <1>3, <1>5, <1>6, <1>7, <2>1, <2>2, <2>3 DEF Served, Sliceable
    <2> QED BY <1>5, <1>8, <2>2, <2>4 DEF Serves
  <1> QED BY <1>10, <1>11

LEMMA FlacServes ==
  ASSUME NEW f \in Files, f.kind = "flac", NEW s \in Nat, NEW d \in Nat \ {0}, NEW early \in Early
  PROVE  Serves(f, s, s + d, ServeSliced(f, s, d, early))
  <1>0. ProperFLAC(f)
    BY ProperFiles
  <1>1. PICK start \in Nat, size \in Nat, points \in Seq([sample : Nat, offset : Nat]), samples \in Nat,
             lost \in {0, 1} :
          start = f.start /\ size = f.size /\ points = f.points /\ samples = f.samples /\ lost = f.lost
    BY <1>0 DEF ProperFLAC
  <1>early. PICK ef \in 0..1, et \in 0..1 : ef = early.from /\ et = early.to
    BY EarlyTypes
  <1>2. PICK x \in Nat, y \in Nat : x = Samples(s, f.rate, ef) /\ y = Samples(s + d, f.rate, et)
    <2>1. s + d \in Nat /\ f.rate \in Nat
      BY <1>0 DEF ProperFLAC
    <2>2. Samples(s, f.rate, ef) \in Nat
      BY <2>1, SamplesTypes
    <2>3. Samples(s + d, f.rate, et) \in Nat
      BY <2>1, SamplesTypes
    <2> QED BY <2>2, <2>3
  <1>3. PICK e \in Int : e = Min({y, samples - lost})
    BY Lesser
  <1>4. PICK floor \in Nat, ceil \in Int :
          floor = SeekPointFloor(points, x) /\ ceil = SeekPointCeil(points, e, size - start)
    <2>1. x \in Int /\ size - start \in Int
      OBVIOUS
    <2>2. SeekPointFloor(points, x) \in Nat
      BY <2>1, SeekPointTypes
    <2>3. SeekPointCeil(points, e, size - start) \in Int
      BY <2>1, SeekPointTypes
    <2> QED BY <2>2, <2>3
  <1>5. PICK from \in Nat, end \in Int : from = start + floor /\ end = Min({start + ceil, size})
    <2>1. PICK c \in Int : c = start + ceil
      OBVIOUS
    <2>2. PICK e2 \in Int : e2 = Min({c, size})
      BY Lesser
    <2>3. PICK b \in Nat : b = start + floor
      OBVIOUS
    <2> QED BY <2>1, <2>2, <2>3
  <1>6. StartByte(f, s, ef) = from /\ EndByte(f, s + d, et) = end
    BY <1>1, <1>2, <1>3, <1>4, <1>5 DEF StartByte, EndByte
  <1>7. AudioStart(f) = start /\ HeaderLength(f) = 42
    BY <1>1 DEF AudioStart, HeaderLength
  <1>8. PICK r : r = ServeSliced(f, s, d, early)
    OBVIOUS
  <1>9. r = SliceFLAC(f, s, d, early)
    BY <1>8 DEF ServeSliced
  <1>10. r = IF f.points = <<>> \/ Past(f, s) THEN WholeFile ELSE Reply(from, end, 4 + 4 + 34)
    BY <1>1, <1>2, <1>3, <1>4, <1>5, <1>9, <1>early DEF SliceFLAC, Past
  <1>11. CASE r = WholeFile
    <2>1. ~r.sliced
      BY <1>11 DEF WholeFile
    <2> QED BY <1>8, <1>11, <2>1 DEF Serves
  <1>12. CASE r # WholeFile
    <2>1. ~Past(f, s) /\ r = Reply(from, end, 42)
      BY <1>10, <1>12
    <2>2. from < end
      BY <1>12, <2>1, NoReply
    <2>3. r.sliced /\ r.from = from /\ r.to = end /\ r.length = 42 + (end - from) /\ r.riff = 0
      <3>1. r = [WholeFile EXCEPT !.sliced = TRUE, !.from = from, !.to = end, !.length = 42 + end - from]
        BY <2>1, <2>2 DEF Reply
      <3>2. 42 + end - from = 42 + (end - from)
        OBVIOUS
      <3> QED BY <3>1, <3>2 DEF WholeFile
    <2>4. ~Past(f, 0)
      BY <2>1, PastMonotone
    <2>5. r.length \in Nat /\ end \in Nat /\ start <= from
      BY <1>5, <2>2, <2>3
    <2>6. Served(f, s + d, r)
      BY <1>6, <1>7, <2>2, <2>3, <2>4, <2>5 DEF Served, Sliceable
    <2> QED BY <1>6, <1>8, <2>1, <2>3, <2>6 DEF Serves
  <1> QED BY <1>11, <1>12

LEMMA WavServes ==
  ASSUME NEW f \in Files, f.kind = "wav", NEW s \in Nat, NEW d \in Nat \ {0}, NEW early \in Early
  PROVE  Serves(f, s, s + d, ServeSliced(f, s, d, early))
  <1>0. ProperWAV(f)
    BY ProperFiles
  <1>1. PICK w : w = Found(f) /\ w.fmtLen \in Nat /\ w.dataOffset \in Nat /\ w.dataSize \in Nat
    BY <1>0, WavTypes
  <1>early. PICK ef \in 0..1, et \in 0..1 : ef = early.from /\ et = early.to
    BY EarlyTypes
  <1>2. PICK x \in Nat, y \in Nat : x = Samples(s, f.rate, ef) /\ y = Samples(s + d, f.rate, et)
    <2>1. s + d \in Nat /\ f.rate \in Nat
      BY <1>0 DEF ProperWAV
    <2>2. Samples(s, f.rate, ef) \in Nat
      BY <2>1, SamplesTypes
    <2>3. Samples(s + d, f.rate, et) \in Nat
      BY <2>1, SamplesTypes
    <2> QED BY <2>2, <2>3
  <1>3. PICK e \in Int : e = Min({y, w.dataSize \div f.align - f.lost})
    <2>1. PICK n \in Nat, a \in Nat \ {0}, lost \in Int : n = w.dataSize /\ a = f.align /\ lost = f.lost
      BY <1>0, <1>1 DEF ProperWAV
    <2>2. PICK p \in Nat : p = n \div a
      BY Quotient
    <2>3. PICK q \in Int : q = p - lost
      OBVIOUS
    <2>4. Min({y, q}) \in Int
      BY Lesser
    <2> QED BY <2>1, <2>2, <2>3, <2>4
  <1>4. PICK a \in Nat : a = f.align
    BY <1>0 DEF ProperWAV
  <1>5. PICK xa \in Nat, ea \in Int : xa = x * a /\ ea = e * a
    BY ProductType
  <1>6. PICK from \in Nat, end \in Int : from = w.dataOffset + xa /\ end = w.dataOffset + ea
    BY <1>1
  <1>7. StartByte(f, s, ef) = from /\ EndByte(f, s + d, et) = end
    BY <1>1, <1>2, <1>3, <1>4, <1>5, <1>6 DEF StartByte, EndByte, Whole
  <1>8. AudioStart(f) = w.dataOffset /\ HeaderLength(f) = 28 + w.fmtLen
    BY <1>1 DEF AudioStart, HeaderLength, Found
  <1>9. PICK r : r = ServeSliced(f, s, d, early)
    OBVIOUS
  <1>10. r = SliceWAV(f, s, d, early)
    BY <1>9 DEF ServeSliced
  <1>11. r = IF w.fmtLen = 0 \/ Past(f, s) THEN WholeFile ELSE WavReply(w, xa, ea)
    BY <1>1, <1>2, <1>3, <1>4, <1>5, <1>10, <1>early DEF SliceWAV, Past, Found
  <1>12. CASE w.fmtLen = 0 \/ Past(f, s)
    <2>1. r = WholeFile /\ ~r.sliced
      BY <1>11, <1>12 DEF WholeFile
    <2> QED BY <1>1, <1>9, <1>12, <2>1 DEF Serves
  <1>13. CASE ~(w.fmtLen = 0 \/ Past(f, s))
    <2>1. PICK h \in Nat : h = 12 + 8 + w.fmtLen + 8 /\ h = 28 + w.fmtLen
      BY <1>1
    <2>2. PICK q : q = Reply(from, end, h)
      OBVIOUS
    <2>3. r = IF ~q.sliced THEN q
              ELSE [q EXCEPT !.riff = (q.length - 8) % SizeModulus,
                             !.chunks = <<[id |-> "fmt", size |-> w.fmtLen],
                                          [id |-> "data", size |-> ea - xa]>>]
      BY <1>6, <1>11, <1>13, <2>1, <2>2 DEF WavReply
    <2>4. CASE from < end
      <3>1. q.sliced /\ q.from = from /\ q.to = end /\ q.length = h + (end - from)
        <4>1. q = [WholeFile EXCEPT !.sliced = TRUE, !.from = from, !.to = end, !.length = h + end - from]
          BY <2>2, <2>4 DEF Reply
        <4>2. h + end - from = h + (end - from)
          OBVIOUS
        <4> QED BY <4>1, <4>2 DEF WholeFile
      <3>2. q = [WholeFile EXCEPT !.sliced = TRUE, !.from = from, !.to = end, !.length = h + end - from]
        BY <2>2, <2>4 DEF Reply
      <3>3. /\ r.sliced /\ r.from = from /\ r.to = end /\ r.length = h + (end - from)
            /\ r.riff = (r.length - 8) % SizeModulus
            /\ r.chunks = <<[id |-> "fmt", size |-> w.fmtLen], [id |-> "data", size |-> ea - xa]>>
        BY <2>3, <3>1, <3>2 DEF WholeFile
      <3>4. ea - xa = end - from
        BY <1>1, <1>6
      <3>5. PICK l \in Nat : l = r.length /\ l - 8 \in Nat
        BY <1>1, <2>1, <2>4, <3>3
      <3>6. r.riff \in Nat
        BY <3>3, <3>5, Quotient, SlicesAssumption
      <3>7. ~Past(f, 0)
        BY <1>13, PastMonotone
      <3>8. end \in Nat /\ w.dataOffset <= from
        BY <1>1, <1>6, <2>4
      <3>9. Served(f, s + d, r)
        BY <1>1, <1>7, <1>8, <1>13, <2>1, <2>4, <3>3, <3>4, <3>5, <3>6, <3>7, <3>8 DEF Served, Sliceable
      <3> QED BY <1>7, <1>9, <1>13, <3>3, <3>9 DEF Serves
    <2>5. CASE ~(from < end)
      <3>1. q = WholeFile /\ ~q.sliced
        BY <2>2, <2>5, NoReply
      <3> QED BY <1>7, <1>9, <2>3, <2>5, <3>1 DEF Serves
    <2> QED BY <2>4, <2>5
  <1> QED BY <1>12, <1>13

LEMMA Serving ==
  ASSUME NEW f \in Files, NEW s \in Nat, NEW d \in Nat \ {0}, NEW early \in Early
  PROVE  Serves(f, s, s + d, ServeSliced(f, s, d, early))
  <1>1. CASE f.kind \notin Sliceable
    <2>1. ServeSliced(f, s, d, early) = WholeFile
      BY <1>1 DEF ServeSliced, Sliceable
    <2> QED BY <2>1 DEF Serves, WholeFile
  <1> QED BY <1>1, Mp3Serves, FlacServes, WavServes DEF Sliceable

-----------------------------------------------------------------------------
(* The invariant of the player.                                            *)

PlayerInv ==
  /\ at \in 0..MaxTime
  /\ file = Unread => at = 0 /\ reply = WholeFile
  /\ file # Unread =>
       /\ file \in Files /\ stored \in ParseDuration(file)
       /\ reply = WholeFile \/ Served(file, at, reply)

LEMMA PlayerInvInit == Init => PlayerInv
  <1> SUFFICES ASSUME Init PROVE PlayerInv
    OBVIOUS
  <1>1. 0 \in 0..MaxTime
    BY SlicesAssumption
  <1> QED BY <1>1 DEF Init, PlayerInv

LEMMA PlayerInvNext == PlayerInv /\ [Next]_media => PlayerInv'
  <1> SUFFICES ASSUME PlayerInv, [Next]_media PROVE PlayerInv'
    OBVIOUS
  <1>1. CASE UNCHANGED <<file, at, reply, stored>>
    BY <1>1 DEF PlayerInv
  <1>2. ASSUME NEW f \in Files, ReadTrack(f)
        PROVE  PlayerInv'
    <2>1. /\ at = 0 /\ reply = WholeFile /\ at' = 0 /\ reply' = WholeFile
          /\ file' = f /\ stored' \in ParseDuration(f) /\ 0 \in 0..MaxTime
      BY <1>2 DEF ReadTrack, PlayerInv
    <2> QED BY <2>1 DEF PlayerInv
  <1>3. ASSUME NEW d \in Durations, PlayOn(d)
        PROVE  PlayerInv'
    <2>1. /\ file # Unread /\ file' = file /\ stored' = stored /\ at' = at + d /\ at + d <= MaxTime
          /\ \E early \in Early : reply' = ServeSliced(file, at, d, early)
      BY <1>3 DEF PlayOn, Play
    <2>2. d \in Nat \ {0} /\ at \in Nat /\ at + d \in 0..MaxTime /\ MaxTime \in Nat
      BY <2>1, SlicesAssumption DEF PlayerInv
    <2>3. file \in Files /\ stored \in ParseDuration(file)
      BY <2>1 DEF PlayerInv
    <2>4. Serves(file, at, at + d, reply')
      BY <2>1, <2>2, <2>3, Serving
    <2>5. reply'.sliced => Served(file, at + d, reply')
      BY <2>4 DEF Serves
    <2>6. ~reply'.sliced => reply' = WholeFile
      BY <2>4 DEF Serves
    <2> QED BY <2>1, <2>2, <2>3, <2>5, <2>6 DEF PlayerInv
  <1>4. CASE Walk
    BY <1>1, <1>4 DEF Walk
  <1>5. CASE UNCHANGED media
    BY <1>1, <1>5 DEF media
  <1> QED BY <1>2, <1>3, <1>4, <1>5 DEF Next

\* Every slice is what the byte and sample arithmetic makes of the place the
\* player has come to (serveSlicedAudio after any number of requests).
THEOREM PlayerInvariant == Spec => []PlayerInv
  BY PlayerInvInit, PlayerInvNext, PTL DEF Spec

-----------------------------------------------------------------------------
(* The theorems about slices.                                              *)

\* A slice is not empty, starts in the audio and has a length: Content-Length is
\* never negative, and sliceX sends what it announces.
THEOREM SlicesTyped == Spec => []TypeOK
  <1>1. PlayerInv => TypeOK
    <2> SUFFICES ASSUME PlayerInv PROVE TypeOK
      OBVIOUS
    <2>1. CASE reply = WholeFile
      BY <2>1 DEF PlayerInv, TypeOK, WholeFile
    <2>2. CASE reply # WholeFile
      BY <2>2 DEF PlayerInv, TypeOK, Served
    <2> QED BY <2>1, <2>2
  <1> QED BY <1>1, PlayerInvariant, PTL

\* duration.go and slice.go agree: every whole second of the stored length is
\* one the slicer can start at, and past it there is less than another.
THEOREM StoredLengthFits == Spec => []StoredLengthSliced
  <1>1. PlayerInv => StoredLengthSliced
    <2> SUFFICES ASSUME PlayerInv, stored > 0, file.kind \in {"mp3", "flac", "wav"} PROVE StoredLengthSliced
      BY DEF StoredLengthSliced
    <2>1. file \in Files /\ stored \in ParseDuration(file)
      BY DEF PlayerInv, Unread
    <2>2. /\ \A k \in 0..(stored - 1) : ~Past(file, k * TicksPerSecond)
          /\ Past(file, (stored + 1) * TicksPerSecond)
      BY <2>1, StoredIsSliced
    <2> QED BY <2>2 DEF StoredLengthSliced
  <1> QED BY <1>1, PlayerInvariant, PTL

\* A later time is never an earlier byte, whatever table the Xing header has
\* (tocLookup), and where there is none.
THEOREM LaterIsBehind == Spec => []TocMonotone
  <1>1. PlayerInv => TocMonotone
    <2> SUFFICES ASSUME PlayerInv, file.kind = "mp3", NEW t \in 0..MaxTime, NEW u \in Durations,
                        NEW early \in Early
                 PROVE  Mp3Byte(file, t, early.from) <= Mp3Byte(file, t + u, early.to)
      BY DEF TocMonotone
    <2>1. ProperMP3(file)
      BY ProperFiles DEF PlayerInv, Unread
    <2>2. PICK v \in Nat : v = t + u /\ t < v /\ t \in Nat
      BY SlicesAssumption
    <2>3. PICK e \in 0..1, g \in 0..1 : e = early.from /\ g = early.to
      BY EarlyTypes
    <2>4. Mp3Byte(file, t, e) <= Mp3Byte(file, v, g)
      BY <2>1, <2>2, Mp3ByteMonotone
    <2> QED BY <2>2, <2>3, <2>4
  <1> QED BY <1>1, PlayerInvariant, PTL

\* What a step of the player does.
LEMMA PlayStep ==
  ASSUME PlayerInv, [Next]_media
  PROVE  \/ reply' = reply /\ at' = at /\ (UNCHANGED vars \/ reply' = WholeFile)
         \/ \E d \in Nat \ {0} : /\ file \in Files /\ file' = file /\ at \in Nat /\ at' = at + d
                                 /\ Serves(file, at, at + d, reply')
  <1>1. CASE UNCHANGED media \/ Walk
    BY <1>1 DEF media, Walk, vars
  <1>2. ASSUME NEW f \in Files, ReadTrack(f)
        PROVE  reply' = reply /\ at' = at /\ reply' = WholeFile
    BY <1>2 DEF ReadTrack, PlayerInv
  <1>3. ASSUME NEW d \in Durations, PlayOn(d)
        PROVE  \E dd \in Nat \ {0} : /\ file \in Files /\ file' = file /\ at \in Nat /\ at' = at + dd
                                     /\ Serves(file, at, at + dd, reply')
    <2>1. d \in Nat \ {0} /\ file \in Files /\ at \in Nat
      BY <1>3, SlicesAssumption DEF PlayOn, PlayerInv
    <2>2. file' = file /\ at' = at + d /\ \E early \in Early : reply' = ServeSliced(file, at, d, early)
      BY <1>3 DEF PlayOn, Play
    <2> QED BY <2>1, <2>2, Serving
  <1> QED BY <1>1, <1>2, <1>3 DEF Next

\* Tracks of an MP3 or WAV file asked for one after the other join: sliceMP3 and
\* sliceWAV find the end of one and the start of the next from the same time, and
\* float64 parts them only where that is a whole number, by one.
THEOREM TracksJoin == Spec => JoinsToTheSample
  <1> DEFINE Joins ==
        reply.sliced /\ reply'.sliced /\ file.kind \in {"mp3", "wav"} /\ ~Past(file, at) =>
          LET unit == IF file.kind = "wav" THEN file.align ELSE 1
              whole == file.kind = "wav" => (at * file.rate) % TicksPerSecond = 0
          IN \/ reply'.from = reply.to
             \/ whole /\ reply'.from \in {reply.to - unit, reply.to + unit}
  <1>1. PlayerInv /\ [Next]_media => [Joins]_vars
    <2> SUFFICES ASSUME PlayerInv, [Next]_media, ~UNCHANGED vars, reply.sliced, reply'.sliced,
                        file.kind \in {"mp3", "wav"}, ~Past(file, at)
                 PROVE  Joins
      OBVIOUS
    <2>1. PICK d \in Nat \ {0} : file \in Files /\ at \in Nat /\ Serves(file, at, at + d, reply')
      BY PlayStep DEF WholeFile
    <2>2. Served(file, at, reply) /\ Served(file, at + d, reply')
      <3>1. file # Unread /\ reply # WholeFile
        BY DEF PlayerInv, WholeFile
      <3> QED BY <2>1, <3>1 DEF PlayerInv, Serves
    <2>3. PICK e \in 0..1, g \in 0..1, h \in 0..1 :
            /\ reply.to = EndByte(file, at, e) /\ reply'.from = StartByte(file, at, g)
            /\ reply'.to = EndByte(file, at + d, h)
      BY <2>1, <2>2 DEF Serves, Served
    <2>4. CASE file.kind = "mp3"
      <3>1. ProperMP3(file)
        BY <2>1, <2>4, ProperFiles
      <3>2. PICK a \in Nat, b \in Nat, c \in Nat, size \in Nat :
              /\ a = Mp3Byte(file, at, e) /\ b = Mp3Byte(file, at, g) /\ c = Mp3Byte(file, at + d, h)
              /\ size = file.size
        <4>1. at + d \in Nat /\ file.size \in Nat
          BY <2>1, <3>1 DEF ProperMP3
        <4>2. Mp3Byte(file, at, e) \in Nat /\ Mp3Byte(file, at, g) \in Nat
          BY <2>1, <3>1, Mp3ByteType
        <4>3. Mp3Byte(file, at + d, h) \in Nat
          BY <3>1, <4>1, Mp3ByteType
        <4> QED BY <4>1, <4>2, <4>3
      <3>3. a <= b + 1 /\ b <= a + 1
        <4>1. ~(at * Mp3Total(file).d >= Mp3Total(file).n)
          BY <2>4 DEF Past
        <4>2. Mp3Byte(file, at, e) <= Mp3Byte(file, at, g) + 1
          BY <2>1, <3>1, <4>1, Mp3ByteNear
        <4>3. Mp3Byte(file, at, g) <= Mp3Byte(file, at, e) + 1
          BY <2>1, <3>1, <4>1, Mp3ByteNear
        <4> QED BY <3>2, <4>2, <4>3
      <3>4. reply.to = (IF a <= size THEN a ELSE size) /\ reply'.to = IF c <= size THEN c ELSE size
        BY <2>3, <2>4, <3>2, Lesser DEF EndByte
      <3>5. reply'.from = b /\ b < reply'.to
        BY <2>2, <2>3, <2>4, <3>2 DEF Served, StartByte
      <3>6. b < size
        BY <3>4, <3>5
      <3>7. reply'.from = reply.to \/ reply'.from \in {reply.to - 1, reply.to + 1}
        BY <3>3, <3>4, <3>5, <3>6
      <3> QED BY <2>4, <3>7
    <2>5. CASE file.kind = "wav"
      <3>1. ProperWAV(file)
        BY <2>1, <2>5, ProperFiles
      <3>2. PICK o \in Nat, a \in Nat, rate \in Nat, T \in Nat \ {0} :
              o = Found(file).dataOffset /\ a = file.align /\ rate = file.rate /\ T = TicksPerSecond
        BY <3>1, WavTypes, SlicesAssumption
      <3>3. PICK z \in Nat : z = at * rate
        BY <2>1, ProductType
      <3>4. PICK x \in Nat, y \in Nat : /\ x = Samples(at, rate, e) /\ y = Samples(at, rate, g)
                                       /\ x <= y + 1 /\ y <= x + 1 /\ (z % T # 0 => x = y)
        <4>1. PICK q \in Nat : q = z \div T
          BY Quotient
        <4>2. /\ Truncated(z, T, e) \in Nat /\ Truncated(z, T, e) <= q /\ q <= Truncated(z, T, e) + e
              /\ z % T # 0 => Truncated(z, T, e) = q
          BY <4>1, Truncation
        <4>3. /\ Truncated(z, T, g) \in Nat /\ Truncated(z, T, g) <= q /\ q <= Truncated(z, T, g) + g
              /\ z % T # 0 => Truncated(z, T, g) = q
          BY <4>1, Truncation
        <4>4. Samples(at, rate, e) = Truncated(z, T, e) /\ Samples(at, rate, g) = Truncated(z, T, g)
          BY <3>2, <3>3 DEF Samples
        <4> QED BY <4>2, <4>3, <4>4
      <3>5. PICK m \in Int : m = Whole(file) - file.lost /\ x <= m
        <4>1. Whole(file) \in Nat /\ x <= Whole(file) - file.lost
          BY <2>1, <2>5, <3>1, <3>2, <3>4, WavSamples DEF Whole, Found
        <4>2. file.lost \in Nat
          BY <3>1, WavTypes
        <4> QED BY <4>1, <4>2
      <3>6. Min({x, m}) = x
        BY <3>5, Lesser
      <3>7. PICK xa \in Nat, ya \in Nat : xa = x * a /\ ya = y * a
        BY ProductType
      <3>8. reply.to = o + xa /\ reply'.from = o + ya
        BY <2>3, <2>5, <3>2, <3>4, <3>5, <3>6, <3>7 DEF EndByte, StartByte
      <3>9. CASE x = y
        BY <3>7, <3>8, <3>9
      <3>10. CASE x # y
        <4>1. z % T = 0 /\ (y = x + 1 \/ x = y + 1)
          BY <3>4, <3>10
        <4>2. (x + 1) * a = x * a + a /\ (y + 1) * a = y * a + a
          OBVIOUS
        <4>3. ya = xa + a \/ xa = ya + a
          BY <3>7, <4>1, <4>2
        <4>4. reply'.from = reply.to + a \/ reply'.from = reply.to - a
          BY <3>8, <4>3
        <4>5. (at * file.rate) % TicksPerSecond = 0
          BY <3>2, <3>3, <4>1
        <4> QED BY <2>5, <3>2, <4>4, <4>5
      <3> QED BY <3>9, <3>10
    <2> QED BY <2>4, <2>5
  <1> QED BY <1>1, PlayerInvariant, PTL DEF Spec, JoinsToTheSample

\* The frames a FLAC range needs are in its slice, whichever of them have seek
\* points (seekPointFloor, seekPointCeil).
THEOREM RangeCovered == Spec => FlacCovers
  <1> DEFINE Covers ==
        \A d \in Durations : reply'.sliced /\ file.kind = "flac" /\ at' = at + d =>
          \A k \in DOMAIN file.frames :
            LET first == (k - 1) * file.frameLen
                wanted == first * TicksPerSecond < (at + d) * file.rate
                          /\ Samples(at, file.rate, 0) < first + file.frameLen
            IN wanted => reply'.from <= FrameAt(file, k) /\ FrameAt(file, k + 1) <= reply'.to
  <1>1. PlayerInv /\ [Next]_media => [Covers]_vars
    <2> SUFFICES ASSUME PlayerInv, [Next]_media, ~UNCHANGED vars, NEW d \in Durations,
                        reply'.sliced, file.kind = "flac", at' = at + d, NEW k \in DOMAIN file.frames,
                        (k - 1) * file.frameLen * TicksPerSecond < (at + d) * file.rate,
                        Samples(at, file.rate, 0) < (k - 1) * file.frameLen + file.frameLen
                 PROVE  reply'.from <= FrameAt(file, k) /\ FrameAt(file, k + 1) <= reply'.to
      OBVIOUS
    <2>1. file \in Files /\ at \in Nat /\ d \in Nat \ {0} /\ Serves(file, at, at + d, reply')
      <3>1. d \in Nat \ {0} /\ at \in Nat
        BY SlicesAssumption DEF PlayerInv
      <3>2. PICK dd \in Nat \ {0} : file \in Files /\ at' = at + dd /\ Serves(file, at, at + dd, reply')
        BY PlayStep DEF WholeFile
      <3>3. d = dd
        BY <3>1, <3>2
      <3> QED BY <3>1, <3>2, <3>3
    <2>2. PICK ef \in 0..1, et \in 0..1 : /\ ~Past(file, 0) /\ reply'.from = StartByte(file, at, ef)
                                           /\ reply'.to = EndByte(file, at + d, et)
      BY <2>1 DEF Serves, Served
    <2>3. ProperFLAC(file)
      BY <2>1, ProperFiles
    <2>4. PICK start \in Nat, size \in Nat, rate \in Nat, len \in Nat \ {0}, samples \in Nat, lost \in {0, 1} :
            /\ start = file.start /\ size = file.size /\ rate = file.rate /\ len = file.frameLen
            /\ samples = file.samples /\ lost = file.lost
      BY <2>3 DEF ProperFLAC
    <2>5. PICK n \in Nat : /\ n = Len(file.frames) /\ DOMAIN file.frames = 1..n
                           /\ \A i \in 1..n : file.frames[i] \in Nat /\ start <= file.frames[i] /\ file.frames[i] <= size
      <3>1. file.frames \in Seq(start..size)
        BY <2>3, <2>4 DEF ProperFLAC
      <3>2. Len(file.frames) \in Nat /\ DOMAIN file.frames = 1..Len(file.frames)
            /\ \A i \in 1..Len(file.frames) : file.frames[i] \in start..size
        BY <3>1
      <3>3. \A x \in start..size : x \in Nat /\ start <= x /\ x <= size
        BY <2>4
      <3> QED BY <3>2, <3>3
    <2>6. \A i, j \in 1..n : i <= j => file.frames[i] <= file.frames[j]
      BY <2>3, <2>5 DEF ProperFLAC, Ascending
    <2>7. k \in 1..n /\ FrameAt(file, k) = file.frames[k] /\ n \in Nat \ {0}
      BY <2>5 DEF FrameAt
    <2>8. samples > 0
      <3>1. ~(0 * rate >= samples * TicksPerSecond)
        BY <2>2, <2>4 DEF Past
      <3>2. samples # 0
        BY <2>4, <3>1, SlicesAssumption
      <3> QED BY <3>2
    <2>9. PICK first \in Nat : first = (k - 1) * len
      BY <2>7, ProductType
    <2>10. PICK x \in Nat, y \in Nat : /\ x = Samples(at, rate, ef) /\ x <= Samples(at, rate, 0)
                                        /\ y = Samples(at + d, rate, et) /\ Samples(at, rate, 0) \in Nat
      <3>1. PICK z \in Nat, T \in Nat \ {0} : z = at * rate /\ T = TicksPerSecond
        BY <2>1, ProductType, SlicesAssumption
      <3>2. Truncated(z, T, ef) \in Nat /\ Truncated(z, T, ef) <= z \div T /\ z \div T \in Nat
        BY Truncation
      <3>3. Truncated(z, T, 0) = z \div T
        BY Truncation
      <3>4. at + d \in Nat
        BY <2>1
      <3>5. Samples(at + d, rate, et) \in Nat
        BY <3>4, SamplesTypes
      <3> QED BY <3>1, <3>2, <3>3, <3>5 DEF Samples
    <2>11. PICK e \in Int : e = Min({y, samples - lost}) /\ e = IF y <= samples - lost THEN y ELSE samples - lost
      <3>1. PICK m \in Int : m = samples - lost
        BY <2>4
      <3>2. Min({y, m}) = IF y <= m THEN y ELSE m
        BY Lesser
      <3> QED BY <3>1, <3>2
    <2>12. first <= e
      <3>1. first <= y
        <4>1. PICK z \in Nat : z = (at + d) * rate
          <5>1. at + d \in Nat
            BY <2>1
          <5> QED BY <5>1, ProductType
        <4>2. first * TicksPerSecond < z
          BY <2>4, <2>9, <4>1
        <4>3. first <= Truncated(z, TicksPerSecond, et)
          BY <4>2, TruncatedAtLeast, SlicesAssumption
        <4> QED BY <2>10, <4>1, <4>3 DEF Samples
      <3>2. first <= samples - lost
        <4>1. (n - 1) * len < samples
          BY <2>3, <2>4, <2>5, <2>8 DEF ProperFLAC
        <4>2. first <= (n - 1) * len
          <5>1. k - 1 <= n - 1 /\ k - 1 \in Int /\ n - 1 \in Int
            BY <2>7
          <5> QED BY <2>9, <5>1, ProductMonotone
        <4>3. (n - 1) * len \in Nat
          BY <2>7, ProductType
        <4> QED BY <2>4, <2>9, <4>1, <4>2, <4>3
      <3> QED BY <2>11, <3>1, <3>2
    <2>13. reply'.from <= file.frames[k]
      <3>1. reply'.from = start + SeekPointFloor(file.points, x)
        BY <2>2, <2>4, <2>10 DEF StartByte
      <3>2. CASE SeekPointFloor(file.points, x) = 0
        BY <2>5, <2>7, <3>1, <3>2
      <3>3. CASE SeekPointFloor(file.points, x) # 0
        <4>1. PICK j \in 1..n : (j - 1) * len <= x /\ start + SeekPointFloor(file.points, x) = file.frames[j]
          <5>1. x \in Int
            BY <2>10
          <5>2. \E j \in DOMAIN file.frames :
                  (j - 1) * file.frameLen <= x /\ file.start + SeekPointFloor(file.points, x) = file.frames[j]
            BY <2>3, <3>3, <5>1, SeekPointFrames
          <5> QED BY <2>4, <2>5, <5>2
        <4>2. x < first + len
          BY <2>4, <2>9, <2>10
        <4>3. first + len = k * len
          BY <2>7, <2>9
        <4>4. (j - 1) * len < k * len
          <5>1. (j - 1) * len \in Nat
            BY ProductType
          <5> QED BY <2>9, <4>1, <4>2, <4>3, <5>1
        <4>5. j - 1 < k
          <5>1. j - 1 \in Int /\ k \in Int
            BY <2>7
          <5> QED BY <4>4, <5>1, ProductLess
        <4>6. j <= k
          BY <2>7, <4>5
        <4> QED BY <2>6, <2>7, <3>1, <4>1, <4>6
      <3> QED BY <3>2, <3>3
    <2>14. FrameAt(file, k + 1) <= reply'.to
      <3>1. PICK c \in Int : c = SeekPointCeil(file.points, e, size - start)
        <4>1. file.points \in Seq([sample : Nat, offset : Nat]) /\ size - start \in Int
          BY <2>3 DEF ProperFLAC
        <4> QED BY <4>1, SeekPointTypes
      <3>2. reply'.to = IF start + c <= size THEN start + c ELSE size
        <4>1. reply'.to = Min({start + c, size})
          BY <2>2, <2>4, <2>10, <2>11, <3>1 DEF EndByte
        <4>2. PICK sc \in Int : sc = start + c
          BY <3>1
        <4>3. Min({sc, size}) = IF sc <= size THEN sc ELSE size
          BY Lesser
        <4> QED BY <4>1, <4>2, <4>3
      <3>3. FrameAt(file, k + 1) <= size
        <4>1. CASE k + 1 > n
          BY <2>4, <2>5, <4>1 DEF FrameAt
        <4>2. CASE ~(k + 1 > n)
          <5>1. k + 1 \in 1..n
            BY <2>7, <4>2
          <5> QED BY <2>5, <4>2, <5>1 DEF FrameAt
        <4> QED BY <4>1, <4>2
      <3>4. CASE c = size - start
        <4>1. start + c = size
          BY <3>4
        <4> QED BY <3>2, <3>3, <4>1
      <3>5. CASE c # size - start
        <4>1. PICK j \in 1..n : (j - 1) * len > e /\ start + c = file.frames[j]
          BY <2>3, <2>4, <2>5, <3>1, <3>5, SeekPointFrames
        <4>2. (k - 1) * len < (j - 1) * len
          <5>1. (j - 1) * len \in Nat
            BY ProductType
          <5> QED BY <2>9, <2>12, <4>1, <5>1
        <4>3. k - 1 < j - 1
          BY <2>7, <4>2, ProductLess
        <4>4. k + 1 \in 1..n /\ k + 1 <= j
          BY <2>7, <4>3
        <4>5. FrameAt(file, k + 1) = file.frames[k + 1]
          BY <2>5, <4>4 DEF FrameAt
        <4>6. file.frames[k + 1] <= file.frames[j] /\ file.frames[j] <= size
          BY <2>5, <2>6, <4>1, <4>4
        <4> QED BY <3>2, <4>1, <4>5, <4>6
      <3> QED BY <3>4, <3>5
    <2> QED BY <2>7, <2>13, <2>14
  <1> QED BY <1>1, PlayerInvariant, PTL DEF Spec, FlacCovers

\* The last track ends with the last whole sample, or the one before it where
\* float64 comes out below the end (endTime cut to totalDuration).
THEOREM LastTrackWhole == Spec => []LastTrackComplete
  <1>1. PlayerInv => LastTrackComplete
    <2> DEFINE guessed == file.kind = "mp3" /\ file.frames > 0 /\ file.toc = <<>>
               slack == CASE file.kind = "mp3" -> 1 [] file.kind = "flac" -> 0 [] OTHER -> file.align
    <2> SUFFICES ASSUME PlayerInv, reply.sliced, Beyond(file, at), ~guessed
                 PROVE  reply.to \in (AudioEnd(file) - file.lost * slack)..AudioEnd(file)
      BY DEF LastTrackComplete
    <2>1. at \in Nat /\ file \in Files /\ Served(file, at, reply)
      BY DEF PlayerInv, WholeFile
    <2>2. PICK e \in 0..1 : /\ reply.to \in Nat /\ reply.to = EndByte(file, at, e)
                            /\ file.kind \in Sliceable /\ ~Past(file, 0)
      BY <2>1 DEF Served
    <2>3. CASE file.kind = "mp3"
      <3>1. ProperMP3(file)
        BY <2>1, <2>3, ProperFiles
      <3>2. PICK size \in Nat, lost \in {0, 1} : size = file.size /\ lost = file.lost
        BY <3>1 DEF ProperMP3
      <3>3. at * Mp3Total(file).d > Mp3Total(file).n
        BY <2>3 DEF Beyond
      <3>4. Mp3Byte(file, at, e) = size \/ Mp3Byte(file, at, e) = size - lost
        <4>1. file.toc # <<>> \/ file.frames = 0
          BY <2>3, <3>1 DEF ProperMP3
        <4> QED BY <2>1, <3>1, <3>2, <3>3, <4>1, Mp3ByteAtEnd
      <3>5. reply.to = size \/ reply.to = size - lost
        <4>1. PICK b \in Int : b = Mp3Byte(file, at, e) /\ (b = size \/ b = size - lost) /\ b <= size
          BY <3>2, <3>4
        <4>2. Min({b, size}) = b
          BY <4>1, Lesser
        <4>3. EndByte(file, at, e) = b
          BY <2>3, <3>2, <4>1, <4>2 DEF EndByte
        <4> QED BY <2>2, <4>1, <4>3
      <3>6. AudioEnd(file) = size /\ file.lost * slack = lost
        BY <2>3, <3>2 DEF AudioEnd
      <3> QED BY <2>2, <3>2, <3>5, <3>6
    <2>4. CASE file.kind = "flac"
      <3>1. ProperFLAC(file)
        BY <2>1, <2>4, ProperFiles
      <3>2. PICK start \in Nat, size \in Nat, rate \in Nat, len \in Nat \ {0}, samples \in Nat, lost \in {0, 1} :
              /\ start = file.start /\ size = file.size /\ rate = file.rate /\ len = file.frameLen
              /\ samples = file.samples /\ lost = file.lost
        BY <3>1 DEF ProperFLAC
      <3>3. PICK T \in Nat \ {0} : T = TicksPerSecond
        BY SlicesAssumption
      <3>4. samples > 0
        <4>1. ~(0 * rate >= samples * T)
          BY <2>2, <2>4, <3>2, <3>3 DEF Past
        <4>2. samples # 0
          BY <3>2, <3>3, <4>1
        <4> QED BY <4>2
      <3>5. samples <= Samples(at, rate, e)
        <4>1. at * rate > samples * T
          BY <2>4, <3>2, <3>3 DEF Beyond
        <4>2. PICK x \in Nat : x = at * rate
          BY <2>1, ProductType
        <4>3. samples * T < x
          <5>1. samples * T \in Nat
            BY ProductType
          <5> QED BY <4>1, <4>2, <5>1
        <4>4. samples <= Truncated(x, T, e)
          BY <4>3, TruncatedAtLeast
        <4> QED BY <3>3, <4>2, <4>4 DEF Samples
      <3>6. Min({Samples(at, rate, e), samples - lost}) = samples - lost
        <4>1. PICK y \in Nat : y = Samples(at, rate, e)
          BY <2>1, SamplesTypes
        <4>2. PICK m \in Int : m = samples - lost /\ m <= y
          BY <3>2, <3>5, <4>1
        <4>3. Min({y, m}) = m
          BY <4>1, <4>2, Lesser
        <4> QED BY <4>1, <4>2, <4>3
      <3>7. SeekPointCeil(file.points, samples - lost, size - start) = size - start
        <4> SUFFICES ASSUME SeekPointCeil(file.points, samples - lost, size - start) # size - start PROVE FALSE
          OBVIOUS
        <4>1. PICK m \in Int : m = samples - lost
          BY <3>2
        <4>2. PICK k \in DOMAIN file.frames : (k - 1) * len > m
          BY <3>1, <3>2, <4>1, SeekPointFrames
        <4>3. PICK n \in Nat : n = Len(file.frames) /\ k \in 1..n
          <5>1. file.frames \in Seq(start..size)
            BY <3>1, <3>2 DEF ProperFLAC
          <5>2. Len(file.frames) \in Nat /\ DOMAIN file.frames = 1..Len(file.frames)
            BY <5>1
          <5> QED BY <5>2
        <4>4. (n - 1) * len < samples
          BY <3>1, <3>2, <3>4, <4>3 DEF ProperFLAC
        <4>5. PICK p \in Nat, q \in Nat : p = (k - 1) * len /\ q = (n - 1) * len /\ p <= q
          <5>1. k - 1 \in Nat /\ n - 1 \in Nat /\ k - 1 <= n - 1
            BY <4>3
          <5> QED BY <5>1, ProductType, ProductMonotone
        <4> QED BY <3>2, <4>1, <4>2, <4>4, <4>5
      <3>8. EndByte(file, at, e) = size
        <4>1. start + (size - start) = size
          OBVIOUS
        <4>2. Min({size, size}) = size
          BY Lesser
        <4> QED BY <2>4, <3>2, <3>6, <3>7, <4>1, <4>2 DEF EndByte
      <3>9. AudioEnd(file) = size /\ file.lost * slack = 0
        BY <2>4, <3>2 DEF AudioEnd
      <3> QED BY <2>2, <3>2, <3>8, <3>9
    <2>5. CASE file.kind = "wav"
      <3>1. ProperWAV(file)
        BY <2>1, <2>5, ProperFiles
      <3>2. PICK o \in Nat, a \in Nat, n \in Nat, lost \in {0, 1}, y \in Nat :
              /\ o = Found(file).dataOffset /\ a = file.align /\ n = Whole(file) /\ lost = file.lost
              /\ y = Samples(at, file.rate, e) /\ n <= y
        <4>1. Found(file).dataOffset \in Nat /\ file.rate \in Nat /\ file.align \in Nat /\ file.lost \in {0, 1}
          BY <3>1, WavTypes
        <4>2. Whole(file) \in Nat /\ Whole(file) <= Samples(at, file.rate, e)
          BY <2>1, <2>5, <3>1, WavSamples DEF Whole, Found
        <4>3. Samples(at, file.rate, e) \in Nat
          BY <2>1, <4>1, SamplesTypes
        <4> QED BY <4>1, <4>2, <4>3
      <3>3. Min({y, n - lost}) = n - lost
        <4>1. PICK m \in Int : m = n - lost /\ m <= y
          BY <3>2
        <4> QED BY <4>1, Lesser
      <3>4. reply.to = o + (n - lost) * a
        BY <2>2, <2>5, <3>2, <3>3 DEF EndByte
      <3>5. AudioEnd(file) = o + n * a /\ slack = a
        BY <2>5, <3>2 DEF AudioEnd, Found, Whole
      <3>6. PICK na \in Nat : na = n * a
        BY ProductType
      <3> HIDE DEF slack
      <3>7. PICK la \in Nat : la = lost * a
        BY ProductType
      <3>8. (n - lost) * a = na - la
        BY <3>2, <3>6, <3>7
      <3>9. file.lost * slack = la
        BY <3>2, <3>5, <3>7
      <3>10. reply.to = o + na - la /\ AudioEnd(file) = o + na
        BY <3>4, <3>5, <3>6, <3>8
      <3> QED BY <2>2, <3>9, <3>10
    <2> QED BY <2>2, <2>3, <2>4, <2>5 DEF Sliceable
  <1> QED BY <1>1, PlayerInvariant, PTL

\* The header that is written, as a walk through it sees it.
LEMMA WrittenHeader ==
  ASSUME NEW fmtLen \in FmtSizes, fmtLen % 2 = 0, NEW n \in Nat \ {0}
  PROVE  WavWalk(<<[id |-> "fmt", size |-> fmtLen], [id |-> "data", size |-> n]>>, 28 + fmtLen + n) =
           [fmtLen |-> fmtLen, dataOffset |-> 28 + fmtLen, dataSize |-> n]
  <1> DEFINE chunks == <<[id |-> "fmt", size |-> fmtLen], [id |-> "data", size |-> n]>>
  <1>0. fmtLen \in Nat
    BY DEF FmtSizes
  <1>1. /\ chunks \in ChunkSeqs /\ Len(chunks) = 2 /\ DOMAIN chunks = {1, 2}
        /\ chunks[1].id = "fmt" /\ chunks[1].size = fmtLen /\ chunks[2].id = "data" /\ chunks[2].size = n
    <2>0. "fmt" \in ChunkIds /\ "data" \in ChunkIds
      BY DEF ChunkIds
    <2>1. [id |-> "fmt", size |-> fmtLen] \in [id : ChunkIds, size : Nat]
      BY <1>0, <2>0
    <2>2. [id |-> "data", size |-> n] \in [id : ChunkIds, size : Nat]
      BY <2>0
    <2>3. ASSUME NEW S, NEW a \in S, NEW b \in S PROVE <<a, b>> \in Seq(S)
      OBVIOUS
    <2>4. chunks \in ChunkSeqs
      BY <2>1, <2>2, <2>3 DEF ChunkSeqs
    <2>5. Len(chunks) = 2 /\ DOMAIN chunks = 1..2
      OBVIOUS
    <2>6. 1..2 = {1, 2}
      OBVIOUS
    <2> QED BY <2>4, <2>5, <2>6
  <1> HIDE DEF chunks
  <1> DEFINE size == 28 + fmtLen + n
             ids(K) == {chunks[k].id : k \in K}
             seen == {k \in DOMAIN chunks : ChunkAt(chunks, k) < size - 8
                                            /\ ~({"fmt", "data"} \subseteq ids(1..(k - 1)))}
             named(id) == {k \in seen : chunks[k].id = id}
             has(id) == id \in ids(seen)
             Read(k) == chunks[k].size \in FmtSizes /\ ChunkAt(chunks, k) + 8 + chunks[k].size <= size
             formatted == has("fmt") /\ \A k \in seen : chunks[k].id = "fmt" => Read(k)
  <1>2. ChunkAt(chunks, 1) = 12 /\ ChunkAt(chunks, 2) = 20 + fmtLen
    <2>1. 1 \in 1..Len(chunks) /\ 1 + 1 = 2
      BY <1>1
    <2>2. ChunkAt(chunks, 1) = 12
      BY <1>1, ChunkSteps
    <2>3. ChunkAt(chunks, 2) = ChunkAt(chunks, 1) + 8 + chunks[1].size + (chunks[1].size % 2)
      BY <1>1, <2>1, ChunkSteps
    <2>4. ChunkAt(chunks, 2) = 12 + 8 + fmtLen + 0
      BY <1>1, <2>2, <2>3
    <2> QED BY <1>0, <2>2, <2>4
  <1>3. seen = {1, 2}
    <2>1. 1 \in seen
      <3>1. 12 < size - 8
        BY <1>0
      <3>2. 1..(1 - 1) = {}
        OBVIOUS
      <3>3. ~({"fmt", "data"} \subseteq ids(1..(1 - 1)))
        BY <3>2
      <3> QED BY <1>1, <1>2, <3>1, <3>3
    <2>2. 2 \in seen
      <3>1. 20 + fmtLen < size - 8
        BY <1>0
      <3>2. 1..(2 - 1) = {1}
        OBVIOUS
      <3>3. ~({"fmt", "data"} \subseteq ids(1..(2 - 1)))
        BY <1>1, <3>2
      <3> QED BY <1>1, <1>2, <3>1, <3>3
    <2> QED BY <1>1, <2>1, <2>2
  <1> HIDE DEF seen
  <1>4. named("fmt") = {1} /\ named("data") = {2}
    BY <1>1, <1>3
  <1>5. Max({1}) = 1 /\ Max({2}) = 2
    BY DEF Max
  <1>6. has("fmt") /\ has("data")
    BY <1>1, <1>3
  <1>7. formatted
    <2>1. Read(1)
      BY <1>0, <1>1, <1>2
    <2>2. \A k \in seen : chunks[k].id = "fmt" => k = 1
      BY <1>1, <1>3
    <2> QED BY <1>6, <2>1, <2>2
  <1>8. WavWalk(chunks, size) =
          [fmtLen     |-> IF formatted THEN chunks[Max(named("fmt"))].size ELSE 0,
           dataOffset |-> IF has("data") THEN ChunkAt(chunks, Max(named("data"))) + 8 ELSE 0,
           dataSize   |-> IF has("data") THEN chunks[Max(named("data"))].size ELSE 0]
    BY DEF WavWalk, seen
  <1> HIDE DEF named, has, formatted
  <1>9. WavWalk(chunks, size) = [fmtLen |-> fmtLen, dataOffset |-> (20 + fmtLen) + 8, dataSize |-> n]
    BY <1>1, <1>2, <1>4, <1>5, <1>6, <1>7, <1>8
  <1>10. (20 + fmtLen) + 8 = 28 + fmtLen
    BY <1>0
  <1> QED BY <1>9, <1>10 DEF chunks

\* Both chunks and their headers are in the file, one behind the other.
LEMMA ChunksFit ==
  ASSUME NEW f, ProperWAV(f), Found(f).fmtLen # 0, Found(f).dataSize # 0,
         Found(f).dataOffset + Found(f).dataSize <= f.size
  PROVE  Found(f).fmtLen \in FmtSizes /\ 28 + Found(f).fmtLen + Found(f).dataSize <= f.size
  <1>1. PICK chunks \in ChunkSeqs, size \in Nat : chunks = f.chunks /\ size = f.size
    BY DEF ProperWAV, ChunkSeqs
  <1>2. PICK j \in 1..Len(chunks) : /\ chunks[j].id = "fmt" /\ Found(f).fmtLen = chunks[j].size
                                    /\ chunks[j].size \in FmtSizes
                                    /\ ChunkAt(chunks, j) + 8 + chunks[j].size <= size
    BY <1>1, WavWalkFinds DEF Found
  <1>3. PICK k \in 1..Len(chunks) : /\ chunks[k].id = "data" /\ Found(f).dataOffset = ChunkAt(chunks, k) + 8
                                    /\ Found(f).dataSize = chunks[k].size
    BY <1>1, WavWalkFinds DEF Found
  <1>4. Len(chunks) \in Nat /\ 1 \in 1..Len(chunks) /\ j # k
    BY <1>2, <1>3, ChunkSizes
  <1>5. PICK J \in Nat, K \in Nat, F \in Nat, D \in Nat :
          /\ J = ChunkAt(chunks, j) /\ K = ChunkAt(chunks, k) /\ F = chunks[j].size /\ D = chunks[k].size
    BY ChunkSizes, ChunkSteps
  <1>6. \A i \in 1..Len(chunks) : ChunkAt(chunks, i) \in Nat /\ 12 <= ChunkAt(chunks, i)
    <2> TAKE i \in 1..Len(chunks)
    <2>1. CASE i = 1
      BY <2>1, ChunkSteps
    <2>2. CASE i # 1
      <3>1. i \in 1..(Len(chunks) + 1) /\ 1 < i
        BY <1>4, <2>2
      <3>2. /\ ChunkAt(chunks, 1) \in Nat /\ ChunkAt(chunks, i) \in Nat /\ chunks[1].size \in Nat
            /\ ChunkAt(chunks, 1) + 8 + chunks[1].size <= ChunkAt(chunks, i)
        BY <1>4, <3>1, ChunkOrder
      <3>3. ChunkAt(chunks, 1) = 12
        BY ChunkSteps
      <3> QED BY <3>2, <3>3
    <2> QED BY <2>1, <2>2
  <1>7. CASE j < k
    <2>1. J + 8 + F <= K
      <3>1. k \in 1..(Len(chunks) + 1)
        BY <1>4
      <3> QED BY <1>5, <1>7, <3>1, ChunkOrder
    <2>2. 12 <= J /\ K + 8 + D <= size
      BY <1>1, <1>3, <1>5, <1>6
    <2>3. 28 + F + D <= size
      BY <2>1, <2>2
    <2> QED BY <1>1, <1>2, <1>3, <1>5, <2>3
  <1>8. CASE k < j
    <2>1. K + 8 + D <= J
      <3>1. j \in 1..(Len(chunks) + 1)
        BY <1>4
      <3> QED BY <1>5, <1>8, <3>1, ChunkOrder
    <2>2. 12 <= K /\ J + 8 + F <= size
      BY <1>2, <1>5, <1>6
    <2>3. 28 + F + D <= size
      BY <2>1, <2>2
    <2> QED BY <1>1, <1>2, <1>3, <1>5, <2>3
  <1> QED BY <1>4, <1>7, <1>8

\* A player that reads the reply of sliceWAV finds the slice in it, and none of
\* the 32-bit sizes in the header wraps.
THEOREM RepliesParse == Spec => []WavReplyParses
  <1>1. PlayerInv => WavReplyParses
    <2> SUFFICES ASSUME PlayerInv, reply.sliced, file.kind = "wav", Complete(file), file.size - 8 < SizeModulus,
                        Found(file).fmtLen % 2 = 0
                 PROVE  /\ reply.riff = reply.length - 8
                        /\ WavWalk(reply.chunks, reply.length) =
                             [fmtLen |-> Found(file).fmtLen, dataOffset |-> reply.length - (reply.to - reply.from),
                              dataSize |-> reply.to - reply.from]
      BY DEF WavReplyParses, Found
    <2>1. at \in Nat /\ file \in Files /\ Served(file, at, reply)
      BY DEF PlayerInv, WholeFile
    <2>2. ProperWAV(file)
      BY <2>1, ProperFiles
    <2>3. PICK o \in Nat, F \in Nat, D \in Nat, size \in Nat, a \in Nat \ {0}, lost \in {0, 1}, rate \in Nat :
            /\ o = Found(file).dataOffset /\ F = Found(file).fmtLen /\ D = Found(file).dataSize
            /\ size = file.size /\ a = file.align /\ lost = file.lost /\ rate = file.rate
      BY <2>2, WavTypes
    <2>4. PICK n \in Nat \ {0} : n = reply.to - reply.from /\ reply.length = 28 + F + n
      <3>1. reply.from \in Nat /\ reply.to \in Nat /\ reply.from < reply.to
        BY <2>1 DEF Served
      <3>2. reply.length = HeaderLength(file) + (reply.to - reply.from)
        BY <2>1 DEF Served
      <3>3. HeaderLength(file) = 28 + F
        BY <2>3 DEF HeaderLength
      <3> QED BY <3>1, <3>2, <3>3
    <2>5. n <= D
      <3>1. PICK e \in Nat, ea \in Nat : e = D \div a /\ ea = e * a /\ ea <= D /\ e = Whole(file)
        <4>1. PICK e \in Nat : e = D \div a
          BY Quotient
        <4>2. e * a \in Nat /\ e * a <= D
          BY <4>1, Quotient, ProductType
        <4> QED BY <2>3, <4>1, <4>2 DEF Whole
      <3>2. PICK g \in 0..1, y \in Nat : reply.to = EndByte(file, at, g) /\ y = Samples(at, rate, g)
        BY <2>1, SamplesTypes DEF Served
      <3>3. PICK m \in Int : m = Min({y, e - lost}) /\ m <= e
        <4>1. PICK q \in Int : q = e - lost /\ q <= e
          BY <2>3, <3>1
        <4>2. Min({y, q}) = IF y <= q THEN y ELSE q
          BY Lesser
        <4> QED BY <4>1, <4>2
      <3>4. PICK ma \in Int : ma = m * a /\ ma <= ea
        BY <3>1, <3>3, ProductMonotone
      <3>5. reply.to = o + ma
        BY <2>1, <2>3, <3>1, <3>2, <3>3, <3>4 DEF EndByte
      <3>6. o <= reply.from /\ reply.from \in Nat
        BY <2>1, <2>3 DEF Served, AudioStart, Found
      <3> QED BY <2>4, <3>1, <3>4, <3>5, <3>6
    <2>6. F \in FmtSizes /\ 28 + F + D <= size
      <3>1. F # 0 /\ D # 0 /\ o + D <= size
        BY <2>1, <2>3, <2>4, <2>5 DEF Served, Complete, Found
      <3> QED BY <2>2, <2>3, <3>1, ChunksFit
    <2>7. reply.riff = reply.length - 8
      <3>1. PICK l \in Nat : l = reply.length - 8 /\ l < SizeModulus
        BY <2>3, <2>4, <2>5, <2>6, SlicesAssumption
      <3>2. l % SizeModulus = l
        BY <3>1, SlicesAssumption
      <3>3. reply.riff = (reply.length - 8) % SizeModulus
        BY <2>1 DEF Served
      <3> QED BY <3>1, <3>2, <3>3
    <2>8. WavWalk(reply.chunks, reply.length) = [fmtLen |-> F, dataOffset |-> 28 + F, dataSize |-> n]
      <3>1. reply.chunks = <<[id |-> "fmt", size |-> F], [id |-> "data", size |-> n]>>
        BY <2>1, <2>3, <2>4 DEF Served
      <3>2. F % 2 = 0
        BY <2>3
      <3> QED BY <2>4, <2>6, <3>1, <3>2, WrittenHeader
    <2>9. reply.length - n = 28 + F
      BY <2>4
    <2> QED BY <2>3, <2>4, <2>7, <2>8, <2>9
  <1> QED BY <1>1, PlayerInvariant, PTL

-----------------------------------------------------------------------------
(* The walks through a tag.                                                *)

WalkType ==
  /\ walk \in {"idle", "frames", "lines"}
  /\ tag \in [major : 2..4, size : Nat, kind : {"scan", "lyrics"}]
  /\ buf \in Nat /\ pos \in Nat /\ rest \in Nat
  /\ cut \in [from : Nat, to : Nat]

WalkInv == WalkType /\ WalkInBounds /\ (walk = "idle" => buf = 0)

\* The rest after a string lies in what the string was taken from.
LEMMA AfterStringRange ==
  ASSUME NEW from \in Nat, NEW to \in Nat, from <= to, NEW width \in Widths,
         NEW r \in Skipped(from, to, width)
  PROVE  r \in Nat /\ from <= r /\ r <= to
  <1>1. CASE r = to
    BY <1>1
  <1>2. CASE r # to
    <2>1. PICK n \in 0..(to - from) : r = from + width * (n + 1) /\ from + width * (n + 1) <= to
      BY <1>2 DEF Skipped, AfterString
    <2>2. CASE width = 1
      BY <2>1, <2>2
    <2>3. CASE width = 2
      BY <2>1, <2>3
    <2> QED BY <2>2, <2>3 DEF Widths
  <1> QED BY <1>1, <1>2

LEMMA WalkInvInit == WalkInit => WalkInv
  BY DEF WalkInit, NoTag, NoCut, WalkInv, WalkType, WalkInBounds

LEMMA WalkInvNext == WalkInv /\ [WalkNext]_walker => WalkInv'
  <1> SUFFICES ASSUME WalkInv, [WalkNext]_walker PROVE WalkInv'
    OBVIOUS
  <1> USE DEF WalkInv, WalkType, WalkInBounds
  <1>0. FrameHeader \in {6, 10}
    BY DEF FrameHeader
  <1>1. CASE Finish
    BY <1>1 DEF Finish, NoTag, NoCut
  <1>2. ASSUME NEW kind \in {"scan", "lyrics"}, NEW major \in 2..4, NEW size \in TagSizes, NEW n \in 0..size,
               StartWalk(kind, major, size, n)
        PROVE  WalkInv'
    <2>1. size \in Nat /\ \A ext \in Sizes : AfterExtended(major, ext) \in Nat
      BY WalkAssumption DEF AfterExtended
    <2>2. pos' \in Nat
      BY <1>2, <2>1 DEF StartWalk
    <2> QED BY <1>2, <2>1, <2>2 DEF StartWalk
  <1>3. ASSUME NEW size \in Sizes, TextFrame(size)
        PROVE  WalkInv'
    BY <1>0, <1>3, WalkAssumption DEF TextFrame, InTag, Slice
  <1>4. ASSUME NEW size \in Sizes, SkipFrame(size)
        PROVE  WalkInv'
    BY <1>0, <1>4, WalkAssumption DEF SkipFrame, InTag
  <1>5. ASSUME NEW size \in Sizes, UnsyncedFrame(size)
        PROVE  WalkInv'
    <2>1. size \in Nat /\ pos' \in Nat /\ pos + FrameHeader + 4 \in Nat /\ pos + FrameHeader + 4 <= pos'
          /\ pos' <= buf
      BY <1>0, <1>5, WalkAssumption DEF UnsyncedFrame
    <2>2. PICK width \in Widths : \E r \in Skipped(pos + FrameHeader + 4, pos', width) : cut' = Slice(r, pos')
      BY <1>5 DEF UnsyncedFrame
    <2>3. PICK r \in Skipped(pos + FrameHeader + 4, pos', width) : cut' = Slice(r, pos')
      BY <2>2
    <2>4. r \in Nat /\ r <= pos'
      BY <2>1, AfterStringRange
    <2> QED BY <1>5, <2>1, <2>3, <2>4 DEF UnsyncedFrame, InTag, Slice
  <1>6. ASSUME NEW size \in Sizes, SyncedFrame(size)
        PROVE  WalkInv'
    <2>1. size \in Nat /\ pos' \in Nat /\ pos + FrameHeader + 6 \in Nat /\ pos + FrameHeader + 6 <= pos'
          /\ pos' <= buf
      BY <1>0, <1>6, WalkAssumption DEF SyncedFrame
    <2>2. PICK width \in Widths : rest' \in Skipped(pos + FrameHeader + 6, pos', width)
      BY <1>6 DEF SyncedFrame
    <2>3. rest' \in Nat /\ rest' <= pos'
      BY <2>1, <2>2, AfterStringRange
    <2> QED BY <1>6, <2>1, <2>3 DEF SyncedFrame
  <1>7. CASE SyncedLine
    <2>0. PICK width \in Widths : \E r \in AfterString(rest, pos, width) :
            r + 4 <= pos /\ rest' = r + 4 /\ cut' = Slice(r, r + 4)
      BY <1>7 DEF SyncedLine
    <2>1. PICK r \in AfterString(rest, pos, width) :
            r + 4 <= pos /\ rest' = r + 4 /\ cut' = Slice(r, r + 4)
      BY <2>0
    <2>2. rest <= pos /\ pos <= buf /\ walk = "lines"
      BY <1>7 DEF SyncedLine
    <2>3. r \in Nat /\ r <= pos
      BY <2>1, <2>2, AfterStringRange DEF Skipped
    <2> QED BY <1>7, <2>1, <2>2, <2>3 DEF SyncedLine, Slice
  <1>8. CASE EndOfLines
    BY <1>8 DEF EndOfLines
  <1>9. CASE UNCHANGED walker
    BY <1>9 DEF walker
  <1> QED
    BY <1>1, <1>2, <1>3, <1>4, <1>5, <1>6, <1>7, <1>8, <1>9 DEF WalkNext, WalkStep, CutOffFrame, EndOfFrames

\* Whatever sizes a tag and its frames declare, and wherever a string ends,
\* every slice the two walks take lies in the bytes that were read.
THEOREM WalksStayInBounds == Spec => []WalkInBounds
  <1>1. Init => WalkInv
    BY WalkInvInit DEF Init
  <1>2. WalkInv /\ [Next]_media => WalkInv'
    <2>1. [Next]_media => [WalkNext]_walker
      BY DEF Next, Walk, ReadTrack, PlayOn, media, walker
    <2> QED BY <2>1, WalkInvNext
  <1>3. WalkInv => WalkInBounds
    BY DEF WalkInv
  <1> QED BY <1>1, <1>2, <1>3, PTL DEF Spec
=============================================================================

--------------------------- MODULE RequestsProofs ---------------------------
(***************************************************************************)
(* Proofs about module Requests, for any number of requests, entries and   *)
(* connections: nothing but a panic loses one, none is handed out twice,   *)
(* nobody waits with one in hand, a success forgives the failures before   *)
(* it, and only so many failures fit in one window.                        *)
(***************************************************************************)
EXTENDS Requests, FiniteSetTheorems, TLAPS

-----------------------------------------------------------------------------
(* Facts about queues.                                                     *)

LEMMA AppendFacts ==
  ASSUME NEW S, NEW s \in Seq(S), NEW e \in S
  PROVE  /\ Append(s, e) \in Seq(S)
         /\ \A i \in DOMAIN Append(s, e) :
              \/ i \in DOMAIN s /\ Append(s, e)[i] = s[i]
              \/ i = Len(s) + 1 /\ Append(s, e)[i] = e
         /\ \A i \in DOMAIN s : i < Len(s) + 1
  OBVIOUS

LEMMA TailFacts ==
  ASSUME NEW S, NEW s \in Seq(S), s # <<>>
  PROVE  /\ Tail(s) \in Seq(S)
         /\ 1 \in DOMAIN s /\ Head(s) = s[1]
         /\ \A i \in DOMAIN Tail(s) : i \in Nat /\ i > 0 /\ i + 1 \in DOMAIN s /\ Tail(s)[i] = s[i + 1]
  OBVIOUS

-----------------------------------------------------------------------------
(* Types.                                                                  *)

AtType == [Request -> {"idle", "auth", "authWait", "clear", "handler"}
                        \cup Checks \cup Records \cup Waits \cup ReadHolds \cup WriteHolds]

LimiterType ==
  /\ slot \in Entry \cup {None} /\ held \in [Request -> Entry \cup {None}]
  /\ entry \in [Entry -> [count : Nat, open : BOOLEAN]]
  /\ failed \in 0..FailureLimit /\ tries \in 0..TriesCap

PoolType ==
  /\ conn \in [Taker -> ReadConn \cup {WriteConn, None}]
  /\ free \subseteq ReadConn \cup {WriteConn} /\ lost \subseteq ReadConn \cup {WriteConn}
  /\ queue \in [PoolName -> Seq(Taker)]
  /\ scan \in {"none", "waiting", "running"}

LEMMA TypeParts == TypeOK <=> at \in AtType /\ LimiterType /\ PoolType
  BY DEF TypeOK, AtType, LimiterType, PoolType

LEMMA BudgetGrows ==
  ASSUME NEW m \in Nat
  PROVE  Budget(m) \in Nat /\ Budget(m + 1) = Budget(m) + FailureLimit + m /\ Budget(m) >= m
  <1>1. m * FailureLimit \in Nat /\ m * (m - 1) \in Nat
    <2>1. CASE m = 0
      BY <2>1, LimiterAssumption
    <2>2. CASE m # 0
      <3>1. m - 1 \in Nat
        BY <2>2
      <3> QED BY <3>1, LimiterAssumption
    <2> QED BY <2>1, <2>2
  <1>2. PICK p \in Nat, q \in Nat : p = m * FailureLimit /\ q = m * (m - 1)
    BY <1>1
  <1>3. (m + 1) * FailureLimit = p + FailureLimit /\ (m + 1) * (m + 1 - 1) = q + 2 * m
    BY <1>2, LimiterAssumption
  <1>4. (q + 2 * m) \div 2 = q \div 2 + m /\ q \div 2 \in Nat
    OBVIOUS
  <1>5. p >= m
    <2>1. PICK k \in Nat : FailureLimit = k + 1
      BY LimiterAssumption
    <2>2. m * k \in Nat
      BY <2>1
    <2>3. m * (k + 1) = m * k + m
      BY <2>1
    <2> QED BY <1>2, <2>1, <2>2, <2>3
  <1> QED BY <1>2, <1>3, <1>4, <1>5, LimiterAssumption DEF Budget

LEMMA BudgetMonotone ==
  ASSUME NEW m \in Nat, NEW n \in Nat, m <= n
  PROVE  Budget(m) + (n - m) <= Budget(n)
  <1>1. PICK d \in Nat : n = m + d
    <2>1. n - m \in Nat /\ n = m + (n - m)
      OBVIOUS
    <2> QED BY <2>1
  <1>2. n * FailureLimit >= m * FailureLimit + d
    <2>1. PICK k \in Nat : FailureLimit = k + 1
      BY LimiterAssumption
    <2>2. (m + d) * (k + 1) = m * (k + 1) + d * k + d
      BY <1>1, <2>1
    <2>3. d * k \in Nat /\ m * (k + 1) \in Nat
      BY <1>1, <2>1
    <2> QED BY <1>1, <2>1, <2>2, <2>3
  <1>3. n * (n - 1) >= m * (m - 1) /\ m * (m - 1) \in Int /\ n * (n - 1) \in Int
    <2>1. (m + d) * (m + d - 1) = m * (m - 1) + (2 * m * d + d * (d - 1))
      BY <1>1
    <2>2. m * d \in Nat /\ d * (d - 1) \in Nat
      <3>1. CASE d = 0
        BY <1>1, <3>1
      <3>2. CASE d # 0
        <4>1. d - 1 \in Nat
          BY <1>1, <3>2
        <4> QED BY <1>1, <4>1
      <3> QED BY <3>1, <3>2
    <2>3. 2 * m * d = 2 * (m * d) /\ m * (m - 1) \in Int
      BY <1>1
    <2> QED BY <1>1, <2>1, <2>2, <2>3
  <1>4. ASSUME NEW x \in Int, NEW y \in Int, x >= y
        PROVE  x \div 2 >= y \div 2
    BY <1>4
  <1>5. PICK p \in Nat, q \in Int, u \in Nat, v \in Int :
          /\ p = m * FailureLimit /\ q = m * (m - 1)
          /\ u = n * FailureLimit /\ v = n * (n - 1)
    BY <1>3, LimiterAssumption
  <1>6. v \div 2 >= q \div 2 /\ u >= p + d
    BY <1>2, <1>3, <1>4, <1>5
  <1> QED BY <1>1, <1>5, <1>6 DEF Budget

LEMMA CapType == TriesCap \in Nat
  <1>1. Cardinality(Request) \in Nat
    BY FS_CardinalityType, LimiterAssumption
  <1> QED BY <1>1, BudgetGrows DEF TriesCap, WindowLimit

LEMMA CappedType ==
  ASSUME NEW cap \in Nat, NEW n \in 0..cap
  PROVE  UpTo(cap, n + 1) \in 0..cap
  BY DEF UpTo

LEMMA FreshEntry ==
  ASSUME Entry \ Reachable # {}
  PROVE  (CHOOSE e \in Entry : e \notin Reachable) \in Entry \ Reachable
  OBVIOUS

\* The steps of the limiter keep the types of the limiter, ...
LEMMA LimiterKeepsTypes ==
  ASSUME at \in AtType, LimiterType, NEW r \in Request, LimiterStep(r)
  PROVE  at' \in AtType /\ LimiterType'
  <1> USE DEF LimiterType
  <1>1. ASSUME NEW next \in {"idle", "auth", "clear", "handler"} \cup Checks \cup Records, Goto(r, next)
        PROVE  at' \in AtType
    BY <1>1 DEF Goto, AtType
  <1>2. ASSUME LoadOrStore(r)
        PROVE  slot' \in Entry \cup {None} /\ held' \in [Request -> Entry \cup {None}] /\ entry' = entry
    BY <1>2, FreshEntry DEF LoadOrStore
  <1>3. ASSUME NEW en \in [Entry -> [count : Nat, open : BOOLEAN]], Release(r, en)
        PROVE  /\ slot' = slot /\ held' \in [Request -> Entry \cup {None}]
               /\ entry' \in [Entry -> [count : Nat, open : BOOLEAN]]
    BY <1>3 DEF Release, Collected, NewEntry
  <1>4. ASSUME NEW n \in Nat
        PROVE  SetCount(r, n) \in [Entry -> [count : Nat, open : BOOLEAN]]
    BY <1>4 DEF SetCount
  <1>5. Stamped(r) \in [Entry -> [count : Nat, open : BOOLEAN]]
    BY DEF Stamped
  <1>6. held[r] \in Entry => entry[held[r]].count + 1 \in Nat
    OBVIOUS
  <1>7. CASE CheckFind(r)
    BY <1>1, <1>2, <1>7 DEF CheckFind, Checks
  <1>8. CASE CheckWindow(r)
    BY <1>1, <1>8 DEF CheckWindow, Checks, limiter
  <1>9. CASE CheckZero(r)
    BY <1>1, <1>4, <1>9 DEF CheckZero, Checks
  <1>10. CASE CheckStamp(r)
    BY <1>1, <1>5, <1>10 DEF CheckStamp, Checks
  <1>11. CASE CheckCount(r)
    BY <1>1, <1>3, <1>11 DEF CheckCount
  <1>12. CASE RecordFind(r)
    BY <1>1, <1>2, <1>12, CapType, CappedType, LimiterAssumption DEF RecordFind, Records
  <1>13. CASE RecordWindow(r)
    BY <1>1, <1>13 DEF RecordWindow, Records, limiter
  <1>14. CASE RecordOne(r)
    BY <1>1, <1>4, <1>14 DEF RecordOne, Records
  <1>15. CASE RecordStamp(r)
    BY <1>1, <1>3, <1>5, <1>15 DEF RecordStamp
  <1>16. CASE RecordAdd(r)
    <2>1. SetCount(r, entry[held[r]].count + 1) \in [Entry -> [count : Nat, open : BOOLEAN]]
      BY <1>4, <1>6, LimiterAssumption DEF SetCount
    <2> QED BY <1>1, <1>3, <1>16, <2>1 DEF RecordAdd
  <1>17. CASE ClearAuthFailure(r)
    BY <1>1, <1>17, CapType, LimiterAssumption DEF ClearAuthFailure, Collected, NewEntry
  <1> QED BY <1>7, <1>8, <1>9, <1>10, <1>11, <1>12, <1>13, <1>14, <1>15, <1>16, <1>17, LimiterStep(r)
          DEF LimiterStep

-----------------------------------------------------------------------------
(* The pools.  Where a request or the scan is in its code determines which  *)
(* connections it may hold and which pool it waits for.                    *)

HeldBy(t) ==
  IF t = Scan THEN (IF scan = "running" THEN {WriteConn} ELSE {None})
  ELSE IF at[t] \in ReadHolds THEN ReadConn
  ELSE IF at[t] \in WriteHolds THEN {WriteConn} ELSE {None}

WaitsFor(t) ==
  IF t = Scan THEN (IF scan = "waiting" THEN {"write"} ELSE {})
  ELSE IF at[t] \in {"authWait", "readWait"} THEN {"read"}
  ELSE IF at[t] = "writeWait" THEN {"write"} ELSE {}

ConnFits == \A t \in Taker : conn[t] \in HeldBy(t)
QueueFits == \A p \in PoolName : \A i \in DOMAIN queue[p] : p \in WaitsFor(queue[p][i])
QueuedOnce ==
  \A p \in PoolName : \A i, j \in DOMAIN queue[p] : queue[p][i] = queue[p][j] => i = j
Exclusive ==
  /\ lost \subseteq {WriteConn} /\ lost \cap free = {}
  /\ \A c \in ReadConn \cup {WriteConn} :
       c \in free \cup lost \/ \E t \in Taker : conn[t] = c
  /\ \A t, u \in Taker :
       conn[t] # None => conn[t] \notin free \cup lost /\ (conn[u] = conn[t] => u = t)

PoolInv == PoolType /\ ConnFits /\ QueueFits /\ QueuedOnce /\ Exclusive

OthersStay(t) ==
  \A u \in Taker \ {t} : HeldBy(u)' = HeldBy(u) /\ WaitsFor(u)' = WaitsFor(u)

\* The ways in which a step can touch the pools, each for any taker and pool.
LEMMA Stays ==
  ASSUME PoolInv, UNCHANGED <<pools, scan>>, NEW t \in Taker, OthersStay(t),
         HeldBy(t)' = HeldBy(t), WaitsFor(t)' = WaitsFor(t)
  PROVE  PoolInv'
  <1>1. \A u \in Taker : HeldBy(u)' = HeldBy(u) /\ WaitsFor(u)' = WaitsFor(u)
    BY DEF OthersStay
  <1>2. conn' = conn /\ free' = free /\ queue' = queue /\ lost' = lost /\ scan' = scan
    BY DEF pools
  <1>3. PoolType' /\ QueuedOnce' /\ Exclusive'
    BY <1>2 DEF PoolInv, PoolType, QueuedOnce, Exclusive
  <1>4. ConnFits'
    BY <1>1, <1>2 DEF PoolInv, ConnFits
  <1>5. QueueFits'
    BY <1>1, <1>2 DEF PoolInv, PoolType, QueueFits
  <1> QED BY <1>3, <1>4, <1>5 DEF PoolInv

LEMMA JoinsQueue ==
  ASSUME PoolType, QueueFits, QueuedOnce, NEW t \in Taker, NEW p \in PoolName, Join(t, p),
         OthersStay(t), WaitsFor(t) = {}, WaitsFor(t)' = {p}
  PROVE  queue' \in [PoolName -> Seq(Taker)] /\ QueueFits' /\ QueuedOnce'
  <1> DEFINE s == queue[p]
  <1>1. s \in Seq(Taker) /\ queue \in [PoolName -> Seq(Taker)]
    BY DEF PoolType
  <1>2. queue' = [queue EXCEPT ![p] = Append(s, t)]
    BY DEF Join
  <1>3. /\ Append(s, t) \in Seq(Taker)
        /\ \A i \in DOMAIN Append(s, t) :
             \/ i \in DOMAIN s /\ Append(s, t)[i] = s[i]
             \/ i = Len(s) + 1 /\ Append(s, t)[i] = t
        /\ \A i \in DOMAIN s : i < Len(s) + 1
    BY <1>1, AppendFacts
  <1>4. \A q \in PoolName : \A i \in DOMAIN queue[q] : queue[q][i] \in Taker \ {t}
    BY <1>1 DEF QueueFits
  <1>5. \A q \in PoolName : \A i \in DOMAIN queue'[q] :
          \/ q = p /\ queue'[q][i] = t
          \/ queue'[q][i] \in Taker \ {t} /\ q \in WaitsFor(queue'[q][i])
    BY <1>1, <1>2, <1>3, <1>4 DEF QueueFits
  <1>6. QueueFits'
    BY <1>5 DEF QueueFits, OthersStay
  <1>7. QueuedOnce'
    BY <1>1, <1>2, <1>3, <1>4 DEF QueuedOnce
  <1> QED BY <1>1, <1>2, <1>3, <1>6, <1>7

LEMMA Joins ==
  ASSUME PoolInv, NEW t \in Taker, NEW p \in PoolName, Join(t, p), UNCHANGED <<conn, free, lost>>,
         scan' \in {"none", "waiting", "running"}, OthersStay(t),
         WaitsFor(t) = {}, WaitsFor(t)' = {p}, HeldBy(t)' = HeldBy(t)
  PROVE  PoolInv'
  <1>1. queue' \in [PoolName -> Seq(Taker)] /\ QueueFits' /\ QueuedOnce'
    BY JoinsQueue DEF PoolInv
  <1>2. PoolType' /\ Exclusive'
    BY <1>1 DEF PoolInv, PoolType, Exclusive
  <1>3. ConnFits'
    BY DEF PoolInv, ConnFits, OthersStay
  <1> QED BY <1>1, <1>2, <1>3 DEF PoolInv

LEMMA Takes ==
  ASSUME PoolInv, NEW t \in Taker, NEW p \in PoolName, Take(t, p),
         scan' \in {"none", "waiting", "running"}, OthersStay(t),
         HeldBy(t) = {None}, HeldBy(t)' = Pool(p), WaitsFor(t) = {p}, WaitsFor(t)' = {}
  PROVE  PoolInv'
  <1> DEFINE s == queue[p]
  <1>1. s \in Seq(Taker) /\ s # <<>> /\ Head(s) = t /\ queue \in [PoolName -> Seq(Taker)]
    BY DEF PoolInv, PoolType, Take
  <1>2. /\ Tail(s) \in Seq(Taker) /\ 1 \in DOMAIN s /\ Head(s) = s[1]
        /\ \A i \in DOMAIN Tail(s) : i \in Nat /\ i > 0 /\ i + 1 \in DOMAIN s /\ Tail(s)[i] = s[i + 1]
    BY <1>1, TailFacts
  <1>3. queue' = [queue EXCEPT ![p] = Tail(s)]
    BY DEF Take
  <1>4. PICK c \in free \cap Pool(p) : conn' = [conn EXCEPT ![t] = c] /\ free' = free \ {c}
         /\ lost' = lost
    BY DEF Take
  <1>5. conn[t] = None /\ conn \in [Taker -> ReadConn \cup {WriteConn, None}] /\ c # None
        /\ c \in ReadConn \cup {WriteConn}
    BY PoolAssumption DEF PoolInv, ConnFits, PoolType, Pool
  <1>6. PoolType'
    BY <1>1, <1>2, <1>3, <1>4, <1>5 DEF PoolInv, PoolType
  <1>7. ConnFits'
    BY <1>4, <1>5 DEF PoolInv, ConnFits, OthersStay
  <1>8. \A q \in PoolName : \A i \in DOMAIN queue'[q] : queue'[q][i] \in Taker \ {t}
    <2>1. \A i \in DOMAIN Tail(s) : Tail(s)[i] \in Taker \ {t}
      BY <1>1, <1>2 DEF PoolInv, QueuedOnce
    <2>2. \A q \in PoolName \ {p} : \A i \in DOMAIN queue[q] : queue[q][i] \in Taker \ {t}
      BY <1>1 DEF PoolInv, QueueFits
    <2> QED BY <1>1, <1>3, <2>1, <2>2
  <1>9. QueueFits'
    <2>1. \A q \in PoolName : \A i \in DOMAIN queue'[q] : q \in WaitsFor(queue'[q][i])
      BY <1>1, <1>2, <1>3 DEF PoolInv, QueueFits
    <2> QED BY <1>8, <2>1 DEF QueueFits, OthersStay
  <1>10. QueuedOnce'
    BY <1>1, <1>2, <1>3 DEF PoolInv, QueuedOnce
  <1>11. Exclusive'
    BY <1>4, <1>5, PoolAssumption DEF PoolInv, Exclusive
  <1> QED BY <1>6, <1>7, <1>9, <1>10, <1>11 DEF PoolInv

LEMMA PutsBack ==
  ASSUME PoolInv, NEW t \in Taker, Put(t), lost' = lost, conn[t] # None
  PROVE  /\ conn' \in [Taker -> ReadConn \cup {WriteConn, None}] /\ free' \subseteq ReadConn \cup {WriteConn}
         /\ conn' = [conn EXCEPT ![t] = None]
         /\ Exclusive'
  <1>1. conn \in [Taker -> ReadConn \cup {WriteConn, None}] /\ free \subseteq ReadConn \cup {WriteConn}
    BY DEF PoolInv, PoolType
  <1>2. conn' = [conn EXCEPT ![t] = None] /\ free' = free \cup {conn[t]}
    BY DEF Put
  <1>3. Exclusive'
    BY <1>1, <1>2 DEF PoolInv, Exclusive
  <1> QED BY <1>1, <1>2, <1>3

LEMMA Puts ==
  ASSUME PoolInv, NEW t \in Taker, Put(t), queue' = queue, lost' = lost,
         scan' \in {"none", "waiting", "running"}, OthersStay(t),
         None \notin HeldBy(t), HeldBy(t)' = {None}, WaitsFor(t)' = WaitsFor(t)
  PROVE  PoolInv'
  <1>1. conn[t] # None
    BY DEF PoolInv, ConnFits
  <1>2. conn' \in [Taker -> ReadConn \cup {WriteConn, None}] /\ free' \subseteq ReadConn \cup {WriteConn}
        /\ conn' = [conn EXCEPT ![t] = None] /\ Exclusive'
    BY <1>1, PutsBack
  <1>3. PoolType' /\ QueuedOnce'
    BY <1>2 DEF PoolInv, PoolType, QueuedOnce
  <1>4. ConnFits'
    BY <1>2 DEF PoolInv, PoolType, ConnFits, OthersStay
  <1>5. \A u \in Taker : WaitsFor(u)' = WaitsFor(u)
    BY DEF OthersStay
  <1>6. QueueFits'
    BY <1>5 DEF PoolInv, PoolType, QueueFits
  <1> QED BY <1>2, <1>3, <1>4, <1>6 DEF PoolInv

LEMMA PutsAndJoins ==
  ASSUME PoolInv, NEW t \in Taker, NEW p \in PoolName, Put(t), Join(t, p), lost' = lost, scan' = scan,
         OthersStay(t), None \notin HeldBy(t), HeldBy(t)' = {None},
         WaitsFor(t) = {}, WaitsFor(t)' = {p}
  PROVE  PoolInv'
  <1>1. conn[t] # None
    BY DEF PoolInv, ConnFits
  <1>2. conn' \in [Taker -> ReadConn \cup {WriteConn, None}] /\ free' \subseteq ReadConn \cup {WriteConn}
        /\ conn' = [conn EXCEPT ![t] = None] /\ Exclusive'
    BY <1>1, PutsBack
  <1>3. queue' \in [PoolName -> Seq(Taker)] /\ QueueFits' /\ QueuedOnce'
    BY JoinsQueue DEF PoolInv
  <1>4. PoolType'
    BY <1>2, <1>3 DEF PoolInv, PoolType
  <1>5. ConnFits'
    BY <1>2 DEF PoolInv, PoolType, ConnFits, OthersStay
  <1> QED BY <1>2, <1>3, <1>4, <1>5 DEF PoolInv

LEMMA Loses ==
  ASSUME PoolInv, NEW t \in Taker, conn' = [conn EXCEPT ![t] = None], lost' = lost \cup {conn[t]},
         UNCHANGED <<free, queue, scan>>, OthersStay(t),
         HeldBy(t) = {WriteConn}, HeldBy(t)' = {None}, WaitsFor(t)' = WaitsFor(t)
  PROVE  PoolInv'
  <1>1. conn[t] = WriteConn /\ WriteConn # None
    BY PoolAssumption DEF PoolInv, ConnFits
  <1>2. PoolType' /\ QueuedOnce'
    BY <1>1 DEF PoolInv, PoolType, QueuedOnce
  <1>3. Exclusive'
    BY <1>1 DEF PoolInv, PoolType, Exclusive
  <1>4. ConnFits'
    BY DEF PoolInv, PoolType, ConnFits, OthersStay
  <1>5. \A u \in Taker : WaitsFor(u)' = WaitsFor(u)
    BY DEF OthersStay
  <1>6. QueueFits'
    BY <1>5 DEF PoolInv, PoolType, QueueFits
  <1> QED BY <1>2, <1>3, <1>4, <1>6 DEF PoolInv

-----------------------------------------------------------------------------
(* Every step is one of these.                                             *)

\* The places of a request that neither hold a connection nor wait for one.
Plain == {"idle", "auth", "clear", "handler"} \cup Checks \cup Records

LEMMA Moved ==
  ASSUME at \in AtType, NEW r \in Request, NEW next, Goto(r, next), scan' = scan
  PROVE  at'[r] = next /\ r \in Taker /\ r # Scan /\ OthersStay(r)
  <1>1. at'[r] = next /\ \A u \in Request \ {r} : at'[u] = at[u]
    BY DEF Goto, AtType
  <1> QED BY <1>1, PoolAssumption DEF OthersStay, HeldBy, WaitsFor, Taker

LEMMA PlainPlaces ==
  ASSUME NEW r \in Request, at[r] \in Plain
  PROVE  HeldBy(r) = {None} /\ WaitsFor(r) = {}
  BY PoolAssumption DEF Plain, Checks, Records, ReadHolds, WriteHolds, HeldBy, WaitsFor

LEMMA PlainPlacesNext ==
  ASSUME NEW r \in Request, at'[r] \in Plain
  PROVE  HeldBy(r)' = {None} /\ WaitsFor(r)' = {}
  BY PoolAssumption DEF Plain, Checks, Records, ReadHolds, WriteHolds, HeldBy, WaitsFor

LEMMA LimiterStepPlain ==
  ASSUME at \in AtType, NEW r \in Request, LimiterStep(r)
  PROVE  at[r] \in Plain /\ \E next \in Plain : Goto(r, next)
  BY DEF LimiterStep, CheckFind, CheckWindow, CheckZero, CheckStamp, CheckCount, RecordFind,
         RecordWindow, RecordOne, RecordStamp, RecordAdd, ClearAuthFailure, Plain, Checks, Records

LEMMA PoolStep ==
  ASSUME at \in AtType, PoolInv, NEW r \in Request, RequestStep(r) \/ Begin(r) \/ ReplyEnd(r)
  PROVE  PoolInv'
  <1>0. r \in Taker /\ Scan \in Taker /\ r # Scan
    BY PoolAssumption DEF Taker
  <1>1. ASSUME at[r] \in Plain, NEW next \in Plain, Goto(r, next), UNCHANGED <<pools, scan>>
        PROVE  PoolInv'
    BY <1>1, Moved, PlainPlaces, PlainPlacesNext, Stays
  <1>2. CASE LimiterStep(r) /\ UNCHANGED <<pools, scan>>
    BY <1>1, <1>2, LimiterStepPlain
  <1>3. CASE Begin(r) \/ AuthAtOnce(r) \/ HandleAtOnce(r)
    BY <1>1, <1>3 DEF Begin, AuthAtOnce, HandleAtOnce, Plain, Checks, Records
  <1>4. ASSUME NEW w, Goto(r, w), w \in {"authWait", "readWait", "writeWait"},
               scan' = scan
        PROVE  /\ WaitsFor(r)' = {IF w = "writeWait" THEN "write" ELSE "read"}
               /\ HeldBy(r)' = {None} /\ OthersStay(r)
    BY <1>0, <1>4, Moved DEF WaitsFor, HeldBy, ReadHolds, WriteHolds
  <1>5. CASE AuthJoin(r)
    <2>1. HeldBy(r) = {None} /\ WaitsFor(r) = {}
      BY <1>5, PlainPlaces DEF AuthJoin, Plain
    <2>2. WaitsFor(r)' = {"read"} /\ HeldBy(r)' = {None} /\ OthersStay(r)
      BY <1>4, <1>5 DEF AuthJoin
    <2>3. "read" \in PoolName /\ scan' \in {"none", "waiting", "running"}
      BY <1>5 DEF AuthJoin, PoolName, PoolInv, PoolType
    <2> QED BY <1>0, <1>5, <2>1, <2>2, <2>3, Joins DEF AuthJoin
  <1>6. CASE HandleJoin(r)
    <2>1. PICK w \in Waits : Goto(r, w) /\ Join(r, PoolOf(w))
      BY <1>6 DEF HandleJoin
    <2>2. PoolOf(w) \in PoolName /\ PoolOf(w) = IF w = "writeWait" THEN "write" ELSE "read"
      BY DEF PoolOf, PoolName
    <2> QED BY <1>0, <1>4, <1>6, <2>1, <2>2, PlainPlaces, Joins
            DEF HandleJoin, Waits, Plain, PoolInv, PoolType
  <1>7. ASSUME at[r] \in {"authWait", "readWait", "writeWait"}, NEW next, Goto(r, next),
               scan' = scan, NEW p \in PoolName, Take(r, p),
               p = IF at[r] = "writeWait" THEN "write" ELSE "read",
               IF p = "write" THEN next = "writing" ELSE next \in ReadHolds
        PROVE  PoolInv'
    <2>1. HeldBy(r) = {None} /\ WaitsFor(r) = {p}
      BY <1>0, <1>7 DEF HeldBy, WaitsFor, ReadHolds, WriteHolds
    <2>2. HeldBy(r)' = Pool(p) /\ WaitsFor(r)' = {} /\ OthersStay(r)
      BY <1>0, <1>7, Moved DEF HeldBy, WaitsFor, ReadHolds, WriteHolds, Pool, PoolName
    <2> QED BY <1>0, <1>7, <2>1, <2>2, Takes DEF PoolInv, PoolType
  <1>8. CASE AuthTake(r)
    BY <1>7, <1>8 DEF AuthTake, PoolName, ReadHolds
  <1>9. CASE HandlerTake(r)
    BY <1>7, <1>9 DEF HandlerTake, Waits, PoolOf, AfterTake, PoolName, ReadHolds
  <1>10. ASSUME at[r] \in ReadHolds \cup WriteHolds
         PROVE  None \notin HeldBy(r) /\ WaitsFor(r) = {}
    BY <1>0, <1>10, PoolAssumption DEF HeldBy, WaitsFor, ReadHolds, WriteHolds
  <1>11. ASSUME at[r] \in ReadHolds \cup WriteHolds, NEW next \in Plain, Goto(r, next), Put(r),
                UNCHANGED <<queue, lost, scan>>
         PROVE  PoolInv'
    BY <1>0, <1>10, <1>11, Moved, PlainPlacesNext, Puts DEF PoolInv, PoolType
  <1>12. CASE AuthRead(r)
    BY <1>11, <1>12 DEF AuthRead, ReadHolds, Plain, Records
  <1>13. CASE ReadDone(r) \/ WriteDone(r) \/ ReplyEnd(r)
    BY <1>11, <1>13 DEF ReadDone, WriteDone, ReplyEnd, ReadHolds, WriteHolds, Plain
  <1>14. CASE Reply(r)
    <2>1. HeldBy(r)' = HeldBy(r) /\ WaitsFor(r)' = WaitsFor(r) /\ OthersStay(r)
      BY <1>0, <1>14, Moved DEF Reply, HeldBy, WaitsFor, ReadHolds, WriteHolds
    <2> QED BY <1>0, <1>14, <2>1, Stays DEF Reply
  <1>17. CASE NilSession(r)
    <2>1. HeldBy(r) = {WriteConn} /\ WaitsFor(r) = {}
      BY <1>0, <1>17 DEF NilSession, HeldBy, WaitsFor, ReadHolds, WriteHolds
    <2>2. HeldBy(r)' = {None} /\ WaitsFor(r)' = {} /\ OthersStay(r)
      BY <1>0, <1>17, Moved, PlainPlacesNext DEF NilSession, Plain
    <2> QED BY <1>0, <1>17, <2>1, <2>2, Loses DEF NilSession
  <1>15. CASE RenewReadBack(r)
    <2>1. WaitsFor(r)' = {"read"} /\ HeldBy(r)' = {None} /\ OthersStay(r)
      BY <1>4, <1>15 DEF RenewReadBack
    <2> QED BY <1>0, <1>10, <1>15, <2>1, PutsAndJoins DEF RenewReadBack, PoolName, WriteHolds
  <1>16. CASE HandleScan(r)
    <2>1. at'[r] = "idle" /\ at[r] = "handler" /\ \A u \in Request \ {r} : at'[u] = at[u]
      BY <1>16 DEF HandleScan, Goto, AtType
    <2>2. OthersStay(Scan)
      BY <2>1, PoolAssumption DEF OthersStay, HeldBy, WaitsFor, ReadHolds, WriteHolds, Taker
    <2>3. WaitsFor(Scan) = {} /\ WaitsFor(Scan)' = {"write"} /\ HeldBy(Scan)' = HeldBy(Scan)
      BY <1>16 DEF HandleScan, WaitsFor, HeldBy
    <2> QED BY <1>0, <1>16, <2>2, <2>3, Joins DEF HandleScan, PoolName
  <1> QED BY <1>2, <1>3, <1>5, <1>6, <1>8, <1>9, <1>12, <1>13, <1>14, <1>15, <1>16, <1>17 DEF RequestStep

LEMMA ScanPoolStep ==
  ASSUME PoolInv, ScanStep
  PROVE  PoolInv'
  <1>0. Scan \in Taker
    BY DEF Taker
  <1>1. at' = at
    BY DEF ScanStep, ScanTake, ScanDone
  <1>2. OthersStay(Scan)
    BY <1>1 DEF OthersStay, HeldBy, WaitsFor
  <1>3. CASE ScanTake
    <2>1. HeldBy(Scan) = {None} /\ WaitsFor(Scan) = {"write"}
      BY <1>3 DEF ScanTake, HeldBy, WaitsFor
    <2>2. HeldBy(Scan)' = Pool("write") /\ WaitsFor(Scan)' = {}
      BY <1>3 DEF ScanTake, HeldBy, WaitsFor, Pool
    <2> QED BY <1>0, <1>2, <1>3, <2>1, <2>2, Takes DEF ScanTake, PoolName
  <1>4. CASE ScanDone
    <2>1. None \notin HeldBy(Scan) /\ HeldBy(Scan)' = {None} /\ WaitsFor(Scan)' = WaitsFor(Scan)
      BY <1>4, PoolAssumption DEF ScanDone, HeldBy, WaitsFor
    <2> QED BY <1>0, <1>2, <1>4, <2>1, Puts DEF ScanDone
  <1> QED BY <1>3, <1>4 DEF ScanStep

-----------------------------------------------------------------------------
(* The invariant.                                                          *)

Inv == at \in AtType /\ LimiterType /\ PoolInv

LEMMA TypeStep ==
  ASSUME at \in AtType, LimiterType, [Next]_vars
  PROVE  at' \in AtType /\ LimiterType'
  <1>1. ASSUME NEW r \in Request,
               NEW next \in {"idle", "auth", "authWait", "clear", "handler"}
                              \cup Checks \cup Records \cup Waits \cup ReadHolds \cup WriteHolds,
               Goto(r, next)
        PROVE  at' \in AtType
    BY <1>1 DEF Goto, AtType
  <1>2. ASSUME UNCHANGED limiter
        PROVE  LimiterType'
    BY <1>2 DEF limiter, LimiterType
  <1>3. ASSUME NEW r \in Request, LimiterStep(r)
        PROVE  at' \in AtType /\ LimiterType'
    BY <1>3, LimiterKeepsTypes
  <1>4. ASSUME NEW r \in Request, Begin(r) \/ AuthAtOnce(r) \/ AuthJoin(r) \/ AuthTake(r) \/ AuthRead(r)
        PROVE  at' \in AtType /\ LimiterType'
    BY <1>1, <1>2, <1>4 DEF Begin, AuthAtOnce, AuthJoin, AuthTake, AuthRead, Checks, Records, ReadHolds
  <1>5. ASSUME NEW r \in Request, HandleAtOnce(r) \/ HandleJoin(r) \/ HandleScan(r) \/ HandlerTake(r)
        PROVE  at' \in AtType /\ LimiterType'
    BY <1>1, <1>2, <1>5 DEF HandleAtOnce, HandleJoin, HandleScan, HandlerTake, AfterTake, Waits, ReadHolds, WriteHolds
  <1>6. ASSUME NEW r \in Request,
               \/ ReadDone(r) \/ WriteDone(r) \/ RenewReadBack(r)
               \/ Reply(r) \/ ReplyEnd(r) \/ NilSession(r)
        PROVE  at' \in AtType /\ LimiterType'
    BY <1>1, <1>2, <1>6 DEF ReadDone, WriteDone, RenewReadBack, Reply, ReplyEnd,
                               NilSession, Waits, ReadHolds, WriteHolds
  <1>7. ASSUME NEW e \in Entry, WindowEnds(e)
        PROVE  at' \in AtType /\ LimiterType'
    <2>1. entry' \in [Entry -> [count : Nat, open : BOOLEAN]]
      BY <1>7 DEF WindowEnds, LimiterType
    <2>2. tries' \in 0..TriesCap
      BY <1>7, CapType DEF WindowEnds, LimiterType
    <2> QED BY <1>7, <2>1, <2>2 DEF WindowEnds, LimiterType
  <1>8. ASSUME ScanStep \/ UNCHANGED vars
        PROVE  at' \in AtType /\ LimiterType'
    BY <1>2, <1>8 DEF ScanStep, ScanTake, ScanDone, vars
  <1> QED BY <1>3, <1>4, <1>5, <1>6, <1>7, <1>8 DEF Next, RequestStep

LEMMA InvInit == Init => Inv
  <1> SUFFICES ASSUME Init PROVE Inv
    OBVIOUS
  <1>1. at \in AtType /\ LimiterType
    BY CapType, LimiterAssumption DEF Init, LimiterInit, AtType, LimiterType, NewEntry
  <1>2. PoolType
    BY DEF Init, PoolType, Taker, PoolName
  <1>3. ConnFits /\ Exclusive
    BY PoolAssumption DEF Init, ConnFits, Exclusive, HeldBy, Taker, ReadHolds, WriteHolds
  <1>4. QueueFits /\ QueuedOnce
    BY DEF Init, QueueFits, QueuedOnce, WaitsFor, PoolName
  <1> QED BY <1>1, <1>2, <1>3, <1>4 DEF Inv, PoolInv

LEMMA InvNext == Inv /\ [Next]_vars => Inv'
  <1> SUFFICES ASSUME Inv, [Next]_vars PROVE Inv'
    OBVIOUS
  <1>1. at' \in AtType /\ LimiterType'
    BY TypeStep DEF Inv
  <1>2. ASSUME NEW r \in Request, Begin(r) \/ RequestStep(r) \/ ReplyEnd(r)
        PROVE  PoolInv'
    BY <1>2, PoolStep DEF Inv
  <1>3. ASSUME ScanStep
        PROVE  PoolInv'
    BY <1>3, ScanPoolStep DEF Inv
  <1>4. ASSUME (\E e \in Entry : WindowEnds(e) /\ UNCHANGED <<pools, scan>>) \/ UNCHANGED vars
        PROVE  PoolInv'
    <2>1. UNCHANGED <<pools, scan>>
      BY <1>4 DEF vars
    <2>2. \A t \in Taker : HeldBy(t)' = HeldBy(t) /\ WaitsFor(t)' = WaitsFor(t)
      BY <1>4 DEF WindowEnds, HeldBy, WaitsFor, vars
    <2>3. Scan \in Taker /\ OthersStay(Scan)
      BY <2>2 DEF OthersStay, Taker
    <2> QED BY <2>1, <2>2, <2>3, Stays DEF Inv
  <1>5. PoolInv'
    BY <1>2, <1>3, <1>4 DEF Next
  <1> QED BY <1>1, <1>5 DEF Inv

LEMMA InvAlways == Spec => []Inv
  BY InvInit, InvNext, PTL DEF Spec

\* Every request, connection and queue is in one of the states the module names.
THEOREM TypeCorrect == Spec => []TypeOK
  <1>1. Inv => TypeOK
    BY TypeParts DEF Inv, PoolInv
  <1> QED BY <1>1, InvAlways, PTL

\* However many requests and connections there are, each connection is in its
\* pool, in one pair of hands, or is the write connection that a panic of the
\* management UI lost, and an answered request holds none.
THEOREM ConnectionsAreAccountedFor == Spec => []ConnectionsAccountedFor
  <1>1. Inv => ConnectionsAccountedFor
    <2> SUFFICES ASSUME Inv, NEW r \in Request, at[r] = "idle" PROVE conn[r] = None
      BY DEF Inv, PoolInv, Exclusive, ConnectionsAccountedFor
    <2> QED BY PoolAssumption DEF Inv, PoolInv, ConnFits, HeldBy, Taker, ReadHolds, WriteHolds
  <1> QED BY <1>1, InvAlways, PTL

\* What waits for a connection has none.
THEOREM WaitersHoldNothing == Spec => []NeverWaitHolding
  <1>1. ASSUME Inv, NEW p \in PoolName, NEW i \in DOMAIN queue[p]
        PROVE  conn[queue[p][i]] = None
    <2> DEFINE t == queue[p][i]
    <2>1. t \in Taker /\ WaitsFor(t) # {} /\ conn[t] \in HeldBy(t)
      BY <1>1 DEF Inv, PoolInv, PoolType, QueueFits, ConnFits
    <2>2. HeldBy(t) = {None}
      BY <2>1 DEF WaitsFor, HeldBy, ReadHolds, WriteHolds
    <2> QED BY <2>1, <2>2
  <1>2. Inv => NeverWaitHolding
    BY <1>1 DEF NeverWaitHolding
  <1> QED BY <1>2, InvAlways, PTL

-----------------------------------------------------------------------------
(* A success forgives the failures before it.  A failure is recorded when   *)
(* its entry is found and counted later: the entry in the map may still be  *)
(* counted up by the requests that found it, but by no others.              *)

Counting == {"recWindow", "recOne", "recAdd"}
Working == {"window", "zero", "stamp", "count", "recStamp"} \cup Counting
Pending(e) == {r \in Request : at[r] \in Counting /\ held[r] = e}

HeldAtWork == \A r \in Request : at[r] \notin Working => held[r] = None
UnreachableNew ==
  \A e \in Entry : e # slot /\ (\A r \in Request : held[r] # e) => entry[e] = NewEntry
CountedAtMost ==
  \A e \in Entry : slot = e =>
    UpTo(FailureLimit, entry[e].count + Cardinality(Pending(e))) <= failed

ForgivenInv == HeldAtWork /\ UnreachableNew /\ CountedAtMost

LEMMA PartSize ==
  ASSUME NEW S \in SUBSET Request, NEW r \in Request
  PROVE  /\ Cardinality(S) \in Nat
         /\ Cardinality(S \cup {r}) \in Nat /\ Cardinality(S \cup {r}) <= Cardinality(S) + 1
         /\ Cardinality(S \ {r}) = IF r \in S THEN Cardinality(S) - 1 ELSE Cardinality(S)
         /\ Cardinality(S \ {r}) \in Nat /\ Cardinality(S \ {r}) <= Cardinality(S)
  <1>1. IsFiniteSet(S)
    BY FS_Subset, LimiterAssumption
  <1>2. Cardinality(S \cup {r}) = IF r \in S THEN Cardinality(S) ELSE Cardinality(S) + 1
    BY <1>1, FS_AddElement
  <1>3. Cardinality(S \ {r}) = IF r \in S THEN Cardinality(S) - 1 ELSE Cardinality(S)
    BY <1>1, FS_RemoveElement
  <1>4. IsFiniteSet(S \cup {r}) /\ IsFiniteSet(S \ {r})
    BY <1>1, FS_AddElement, FS_RemoveElement
  <1>5. Cardinality(S) \in Nat /\ Cardinality(S \cup {r}) \in Nat /\ Cardinality(S \ {r}) \in Nat
    BY <1>1, <1>4, FS_CardinalityType
  <1>6. Cardinality(S \ {r}) <= Cardinality(S) /\ Cardinality(S \cup {r}) <= Cardinality(S) + 1
    BY <1>2, <1>3, <1>5
  <1> QED BY <1>3, <1>5, <1>6

LEMMA PendingSize ==
  ASSUME NEW e
  PROVE  Cardinality(Pending(e)) \in Nat /\ Pending(e) \in SUBSET Request
  <1>1. Pending(e) \in SUBSET Request
    BY DEF Pending
  <1>2. IsFiniteSet(Pending(e))
    BY <1>1, FS_Subset, LimiterAssumption
  <1> QED BY <1>1, <1>2, FS_CardinalityType

\* How a step of r from one place to another changes who counts on e.
LEMMA PendingMoves ==
  ASSUME at \in AtType, held \in [Request -> Entry \cup {None}],
         NEW r \in Request, NEW next, Goto(r, next), NEW h, held' = [held EXCEPT ![r] = h], NEW e
  PROVE  Pending(e)' = IF next \in Counting /\ h = e THEN Pending(e) \cup {r} ELSE Pending(e) \ {r}
  <1>1. at'[r] = next /\ held'[r] = h /\ \A u \in Request \ {r} : at'[u] = at[u] /\ held'[u] = held[u]
    BY DEF Goto, AtType
  <1> QED BY <1>1 DEF Pending

LEMMA AtMost ==
  ASSUME NEW c \in Nat, NEW p \in Nat, NEW f \in Nat, UpTo(FailureLimit, c + p) <= f,
         NEW d \in Nat, NEW q \in Nat, d + q <= c + p
  PROVE  UpTo(FailureLimit, d + q) <= f
  BY LimiterAssumption DEF UpTo

LEMMA AtMostNext ==
  ASSUME NEW c \in Nat, NEW p \in Nat, NEW f \in Nat, UpTo(FailureLimit, c + p) <= f,
         NEW q \in Nat, q <= p + 1
  PROVE  UpTo(FailureLimit, c + q) <= UpTo(FailureLimit, f + 1)
  BY LimiterAssumption DEF UpTo

\* A request that finds the entry, or makes a new one.
LEMMA FindForgiven ==
  ASSUME at \in AtType, LimiterType, ForgivenInv, NEW r \in Request, LoadOrStore(r),
         at[r] \in {"find", "recFind"}, NEW next \in {"window", "recWindow"}, Goto(r, next),
         failed' = IF next = "window" THEN failed ELSE UpTo(FailureLimit, failed + 1)
  PROVE  ForgivenInv'
  <1>0. /\ slot \in Entry \cup {None} /\ held \in [Request -> Entry \cup {None}]
        /\ entry \in [Entry -> [count : Nat, open : BOOLEAN]] /\ failed \in Nat /\ None \notin Entry
    BY LimiterAssumption DEF LimiterType
  <1>1. held[r] = None
    BY DEF ForgivenInv, HeldAtWork, Working, Counting
  <1>2. PICK s : slot' = s
    OBVIOUS
  <1>3. entry' = entry /\ held' = [held EXCEPT ![r] = s]
    BY <1>2 DEF LoadOrStore
  <1>4. s \in Entry /\ (slot # None => s = slot)
        /\ (slot = None => \A u \in Request : held[u] # s)
    BY <1>0, <1>2, FreshEntry DEF LoadOrStore, Reachable
  <1>5. HeldAtWork'
    BY <1>0, <1>3 DEF ForgivenInv, HeldAtWork, Working, Counting, Goto, AtType
  <1>6. UnreachableNew'
    BY <1>0, <1>1, <1>2, <1>3, <1>4 DEF ForgivenInv, UnreachableNew
  <1>7. Cardinality(Pending(s)') \in Nat
        /\ Cardinality(Pending(s)') <= Cardinality(Pending(s)) + (IF next = "window" THEN 0 ELSE 1)
    <2>1. Pending(s)' = IF next \in Counting /\ s = s THEN Pending(s) \cup {r} ELSE Pending(s) \ {r}
      BY <1>0, <1>3, PendingMoves
    <2>2. PICK P \in SUBSET Request : P = Pending(s)
      BY PendingSize
    <2>3. Pending(s)' = IF next = "window" THEN P \ {r} ELSE P \cup {r}
      BY <2>1, <2>2 DEF Counting
    <2>4. /\ Cardinality(P) \in Nat
          /\ Cardinality(P \cup {r}) \in Nat /\ Cardinality(P \cup {r}) <= Cardinality(P) + 1
          /\ Cardinality(P \ {r}) \in Nat /\ Cardinality(P \ {r}) <= Cardinality(P)
      BY PartSize
    <2>5. CASE next = "window"
      BY <2>2, <2>3, <2>4, <2>5
    <2>6. CASE next = "recWindow"
      BY <2>2, <2>3, <2>4, <2>6
    <2> QED BY <2>5, <2>6
  <1>8. CASE slot # None
    <2>1. UpTo(FailureLimit, entry[s].count + Cardinality(Pending(s))) <= failed
      BY <1>0, <1>4, <1>8 DEF ForgivenInv, CountedAtMost
    <2>2. UpTo(FailureLimit, entry[s].count + Cardinality(Pending(s)')) <= failed'
      <3>1. PICK c \in Nat, p \in Nat, q \in Nat :
              c = entry[s].count /\ p = Cardinality(Pending(s)) /\ q = Cardinality(Pending(s)')
        BY <1>0, <1>4, <1>7, PendingSize
      <3>2. CASE next = "window"
        BY <1>0, <1>7, <2>1, <3>1, <3>2, AtMost
      <3>3. CASE next = "recWindow"
        <4>1. UpTo(FailureLimit, c + q) <= UpTo(FailureLimit, failed + 1)
          BY <1>0, <1>7, <2>1, <3>1, <3>3, AtMostNext
        <4> QED BY <3>1, <3>3, <4>1
      <3> QED BY <3>2, <3>3
    <2> QED BY <1>2, <1>3, <1>5, <1>6, <2>2 DEF ForgivenInv, CountedAtMost
  <1>9. CASE slot = None
    <2>1. Pending(s) = {} /\ entry[s].count = 0
      BY <1>0, <1>4, <1>9 DEF ForgivenInv, UnreachableNew, Pending, NewEntry
    <2>2. UpTo(FailureLimit, entry[s].count + Cardinality(Pending(s)')) <= failed'
      BY <1>0, <1>7, <2>1, FS_EmptySet, LimiterAssumption DEF UpTo
    <2> QED BY <1>2, <1>3, <1>5, <1>6, <2>2 DEF ForgivenInv, CountedAtMost
  <1> QED BY <1>8, <1>9

\* A request that works on its entry, or lets go of it, with the entry in the
\* map and those who count on it together no more than before.
LEMMA WorkForgiven ==
  ASSUME at \in AtType, LimiterType, ForgivenInv, NEW r \in Request, NEW next, Goto(r, next),
         slot' = slot, failed' = failed, UnreachableNew', LimiterType',
         \/ held' = held /\ next \in Working
         \/ held' = [held EXCEPT ![r] = None] /\ next \notin Working,
         \A e \in Entry : slot = e =>
           entry'[e].count + Cardinality(Pending(e)') <= entry[e].count + Cardinality(Pending(e))
  PROVE  ForgivenInv'
  <1>0. /\ held \in [Request -> Entry \cup {None}] /\ failed \in Nat
        /\ entry \in [Entry -> [count : Nat, open : BOOLEAN]]
        /\ entry' \in [Entry -> [count : Nat, open : BOOLEAN]]
    BY LimiterAssumption DEF LimiterType
  <1>1. HeldAtWork'
    BY <1>0 DEF ForgivenInv, HeldAtWork, Goto, AtType
  <1>2. ASSUME NEW e \in Entry, slot = e
        PROVE  UpTo(FailureLimit, entry'[e].count + Cardinality(Pending(e)')) <= failed
    <2>1. Pending(e)' \in SUBSET Request
      BY DEF Pending
    <2>2. PICK P \in SUBSET Request : P = Pending(e)'
      BY <2>1
    <2>3. IsFiniteSet(P) /\ Cardinality(P) \in Nat
      BY FS_Subset, FS_CardinalityType, LimiterAssumption
    <2>4. PICK c \in Nat, p \in Nat, d \in Nat, q \in Nat :
            /\ c = entry[e].count /\ p = Cardinality(Pending(e))
            /\ d = entry'[e].count /\ q = Cardinality(Pending(e)')
      BY <1>0, <2>2, <2>3, PendingSize
    <2>5. UpTo(FailureLimit, c + p) <= failed /\ d + q <= c + p
      BY <1>2, <2>4 DEF ForgivenInv, CountedAtMost
    <2> QED BY <1>0, <2>4, <2>5, AtMost
  <1>3. CountedAtMost'
    BY <1>2 DEF CountedAtMost
  <1> QED BY <1>1, <1>3 DEF ForgivenInv

\* What the steps of a request do to those who count on an entry e.
LEMMA PendingKept ==
  ASSUME at \in AtType, held \in [Request -> Entry \cup {None}], NEW r \in Request, NEW next, Goto(r, next),
         \/ held' = held /\ (next \in Counting <=> at[r] \in Counting)
         \/ held' = [held EXCEPT ![r] = None] /\ at[r] \notin Counting /\ next \notin Counting,
         NEW e
  PROVE  Pending(e)' = Pending(e)
  <1>1. at'[r] = next /\ \A u \in Request \ {r} : at'[u] = at[u]
    BY DEF Goto, AtType
  <1>2. \A u \in Request \ {r} : held'[u] = held[u]
    OBVIOUS
  <1> QED BY <1>1, <1>2 DEF Pending

LEMMA PendingDone ==
  ASSUME at \in AtType, held \in [Request -> Entry \cup {None}], NEW r \in Request, NEW next, Goto(r, next),
         held' = held \/ held' = [held EXCEPT ![r] = None],
         at[r] \in Counting, next \notin Counting, NEW e
  PROVE  /\ Pending(e)' = Pending(e) \ {r}
         /\ Cardinality(Pending(e)') = IF held[r] = e THEN Cardinality(Pending(e)) - 1
                                       ELSE Cardinality(Pending(e))
  <1>1. at'[r] = next /\ \A u \in Request \ {r} : at'[u] = at[u] /\ held'[u] = held[u]
    BY DEF Goto, AtType
  <1>2. Pending(e)' = Pending(e) \ {r}
    BY <1>1 DEF Pending
  <1>3. r \in Pending(e) <=> held[r] = e
    BY DEF Pending
  <1>4. PICK P \in SUBSET Request : P = Pending(e)
    BY PendingSize
  <1>5. Cardinality(P \ {r}) = IF r \in P THEN Cardinality(P) - 1 ELSE Cardinality(P)
    BY PartSize
  <1> QED BY <1>2, <1>3, <1>4, <1>5

LEMMA LimiterForgiven ==
  ASSUME at \in AtType, LimiterType, LimiterType', ForgivenInv, NEW r \in Request, LimiterStep(r)
  PROVE  ForgivenInv'
  <1>0. /\ held \in [Request -> Entry \cup {None}]
        /\ entry \in [Entry -> [count : Nat, open : BOOLEAN]]
        /\ \A e \in Entry : Cardinality(Pending(e)) \in Nat
    BY PendingSize DEF LimiterType
  <1>1. CASE CheckFind(r) \/ RecordFind(r)
    BY <1>1, FindForgiven DEF CheckFind, RecordFind
  <1>2. CASE CheckWindow(r) \/ RecordWindow(r)
    <2>1. PICK next : Goto(r, next) /\ next \in Working /\ (next \in Counting <=> at[r] \in Counting)
      BY <1>2 DEF CheckWindow, RecordWindow, Working, Counting
    <2>2. slot' = slot /\ entry' = entry /\ held' = held /\ failed' = failed
      BY <1>2 DEF CheckWindow, RecordWindow, limiter
    <2>3. UnreachableNew'
      BY <2>2 DEF ForgivenInv, UnreachableNew
    <2>4. \A e \in Entry : entry'[e].count + Cardinality(Pending(e)') <= entry[e].count + Cardinality(Pending(e))
      BY <1>0, <2>1, <2>2, PendingKept
    <2> QED BY <2>1, <2>2, <2>3, <2>4, WorkForgiven
  <1>3. ASSUME slot' = slot, held' = held, \A e \in Entry : e # held[r] => entry'[e] = entry[e]
        PROVE  UnreachableNew'
    BY <1>3 DEF ForgivenInv, UnreachableNew
  <1>4. CASE CheckZero(r) \/ CheckStamp(r)
    <2>1. PICK next : Goto(r, next) /\ next \in Working /\ next \notin Counting /\ at[r] \notin Counting
      BY <1>4 DEF CheckZero, CheckStamp, Working, Counting
    <2>2. slot' = slot /\ held' = held /\ failed' = failed
      BY <1>4 DEF CheckZero, CheckStamp
    <2>3. \A e \in Entry : (e # held[r] => entry'[e] = entry[e])
      BY <1>0, <1>4 DEF CheckZero, CheckStamp, SetCount, Stamped
    <2>4. \A e \in Entry : entry'[e].count <= entry[e].count
      BY <1>0, <1>4 DEF CheckZero, CheckStamp, SetCount, Stamped
    <2>5. \A e \in Entry : Pending(e)' = Pending(e) /\ entry'[e].count \in Nat /\ entry[e].count \in Nat
      BY <1>0, <2>1, <2>2, PendingKept DEF LimiterType
    <2>6. \A e \in Entry : entry'[e].count + Cardinality(Pending(e)') <= entry[e].count + Cardinality(Pending(e))
      BY <1>0, <2>4, <2>5
    <2> QED BY <1>3, <2>1, <2>2, <2>3, <2>6, WorkForgiven
  <1>5. CASE RecordOne(r)
    <2>1. Goto(r, "recStamp") /\ "recStamp" \in Working \ Counting /\ at[r] \in Counting
      BY <1>5 DEF RecordOne, Working, Counting
    <2>2. slot' = slot /\ held' = held /\ failed' = failed
      BY <1>5 DEF RecordOne
    <2>3. \A e \in Entry : entry'[e].count = IF e = held[r] THEN 1 ELSE entry[e].count
      BY <1>0, <1>5 DEF RecordOne, SetCount
    <2>4. \A e \in Entry : e # held[r] => entry'[e] = entry[e]
      BY <1>0, <1>5 DEF RecordOne, SetCount
    <2>5. \A e \in Entry : Cardinality(Pending(e)') =
            IF held[r] = e THEN Cardinality(Pending(e)) - 1 ELSE Cardinality(Pending(e))
      BY <1>0, <2>1, <2>2, PendingDone
    <2>6. \A e \in Entry : entry'[e].count + Cardinality(Pending(e)') <= entry[e].count + Cardinality(Pending(e))
      BY <1>0, <2>3, <2>5
    <2> QED BY <1>3, <2>1, <2>2, <2>4, <2>6, WorkForgiven
  <1>6. ASSUME NEW en \in [Entry -> [count : Nat, open : BOOLEAN]], Release(r, en),
               \A e \in Entry : e # held[r] => en[e] = entry[e]
        PROVE  UnreachableNew' /\ slot' = slot /\ held' = [held EXCEPT ![r] = None]
               /\ \A e \in Entry : slot = e => entry'[e] = en[e]
    <2>1. slot' = slot /\ held' = [held EXCEPT ![r] = None]
      BY <1>6 DEF Release
    <2>2. \A e \in Entry : entry'[e] = IF e = slot \/ \E u \in Request : held'[u] = e THEN en[e] ELSE NewEntry
      BY <1>6 DEF Release, Collected
    <2> QED BY <2>1, <2>2 DEF UnreachableNew
  <1>7. CASE CheckCount(r)
    <2>1. PICK next : Goto(r, next) /\ next \notin Working /\ next \notin Counting /\ at[r] \notin Counting
      BY <1>7 DEF CheckCount, Working, Counting
    <2>2. UnreachableNew' /\ slot' = slot /\ held' = [held EXCEPT ![r] = None] /\ failed' = failed
          /\ \A e \in Entry : slot = e => entry'[e] = entry[e]
      BY <1>0, <1>6, <1>7 DEF CheckCount
    <2>3. \A e \in Entry : Pending(e)' = Pending(e)
      BY <1>0, <2>1, <2>2, PendingKept
    <2>4. \A e \in Entry : slot = e =>
            entry'[e].count + Cardinality(Pending(e)') <= entry[e].count + Cardinality(Pending(e))
      BY <1>0, <2>2, <2>3
    <2> QED BY <2>1, <2>2, <2>4, WorkForgiven
  <1>8. CASE RecordStamp(r)
    <2>1. Goto(r, "idle") /\ "idle" \notin Working /\ "idle" \notin Counting /\ at[r] \notin Counting
      BY <1>8 DEF RecordStamp, Working, Counting
    <2>2. /\ Stamped(r) \in [Entry -> [count : Nat, open : BOOLEAN]]
          /\ \A e \in Entry : e # held[r] => Stamped(r)[e] = entry[e]
          /\ \A e \in Entry : Stamped(r)[e].count = entry[e].count
      BY <1>0 DEF Stamped
    <2>3. UnreachableNew' /\ slot' = slot /\ held' = [held EXCEPT ![r] = None] /\ failed' = failed
          /\ \A e \in Entry : slot = e => entry'[e].count = entry[e].count
      BY <1>6, <1>8, <2>2 DEF RecordStamp
    <2>4. \A e \in Entry : Pending(e)' = Pending(e)
      BY <1>0, <2>1, <2>3, PendingKept
    <2>5. \A e \in Entry : slot = e =>
            entry'[e].count + Cardinality(Pending(e)') <= entry[e].count + Cardinality(Pending(e))
      BY <1>0, <2>3, <2>4
    <2> QED BY <2>1, <2>3, <2>5, WorkForgiven
  <1>9. CASE RecordAdd(r)
    <2>1. Goto(r, "idle") /\ "idle" \notin Working /\ "idle" \notin Counting /\ at[r] \in Counting
      BY <1>9 DEF RecordAdd, Working, Counting
    <2> DEFINE en == SetCount(r, entry[held[r]].count + 1)
    <2>2. /\ en \in [Entry -> [count : Nat, open : BOOLEAN]]
          /\ \A e \in Entry : e # held[r] => en[e] = entry[e]
          /\ \A e \in Entry : en[e].count = IF e = held[r] THEN entry[e].count + 1 ELSE entry[e].count
      <3>1. ASSUME NEW n, held[r] \in Entry => n \in Nat
            PROVE  /\ SetCount(r, n) \in [Entry -> [count : Nat, open : BOOLEAN]]
                   /\ \A e \in Entry : e # held[r] => SetCount(r, n)[e] = entry[e]
                   /\ \A e \in Entry : e = held[r] => SetCount(r, n)[e].count = n
        BY <1>0, <3>1 DEF SetCount
      <3>2. held[r] \in Entry => entry[held[r]].count + 1 \in Nat
        BY <1>0
      <3> QED BY <3>1, <3>2
    <2>3. UnreachableNew' /\ slot' = slot /\ held' = [held EXCEPT ![r] = None] /\ failed' = failed
          /\ \A e \in Entry : slot = e =>
               entry'[e].count = IF e = held[r] THEN entry[e].count + 1 ELSE entry[e].count
      BY <1>6, <1>9, <2>2 DEF RecordAdd
    <2>4. \A e \in Entry : Cardinality(Pending(e)') =
            IF held[r] = e THEN Cardinality(Pending(e)) - 1 ELSE Cardinality(Pending(e))
      BY <1>0, <2>1, <2>3, PendingDone
    <2>5. \A e \in Entry : slot = e =>
            entry'[e].count + Cardinality(Pending(e)') <= entry[e].count + Cardinality(Pending(e))
      BY <1>0, <2>3, <2>4
    <2> QED BY <2>1, <2>3, <2>5, WorkForgiven
  <1>10. CASE ClearAuthFailure(r)
    <2>1. HeldAtWork'
      BY <1>10 DEF ClearAuthFailure, ForgivenInv, HeldAtWork, Working, Counting, Goto, AtType
    <2>2. UnreachableNew'
      BY <1>10 DEF ClearAuthFailure, UnreachableNew, Collected
    <2>3. CountedAtMost'
      BY <1>10, LimiterAssumption DEF ClearAuthFailure, CountedAtMost
    <2> QED BY <2>1, <2>2, <2>3 DEF ForgivenInv
  <1> QED BY <1>1, <1>2, <1>4, <1>5, <1>7, <1>8, <1>9, <1>10 DEF LimiterStep

\* The other steps of a request find it elsewhere and leave it elsewhere.
LEMMA OtherForgiven ==
  ASSUME at \in AtType, ForgivenInv, NEW r \in Request, at[r] \notin Working,
         NEW next, next \notin Working, Goto(r, next), UNCHANGED limiter
  PROVE  ForgivenInv'
  <1>1. slot' = slot /\ held' = held /\ entry' = entry /\ failed' = failed
    BY DEF limiter
  <1>2. at'[r] = next /\ \A u \in Request \ {r} : at'[u] = at[u]
    BY DEF Goto, AtType
  <1>3. HeldAtWork' /\ UnreachableNew'
    BY <1>1, <1>2 DEF ForgivenInv, HeldAtWork, UnreachableNew
  <1>4. \A e : Pending(e)' = Pending(e)
    BY <1>1, <1>2 DEF Pending, Working
  <1>5. CountedAtMost'
    BY <1>1, <1>4 DEF ForgivenInv, CountedAtMost
  <1> QED BY <1>3, <1>5 DEF ForgivenInv

LEMMA WindowEndsForgiven ==
  ASSUME LimiterType, ForgivenInv, NEW e \in Entry, WindowEnds(e)
  PROVE  ForgivenInv'
  <1>1. at' = at /\ slot' = slot /\ held' = held /\ failed' = failed
    BY DEF WindowEnds
  <1>2. \A f \in Entry : entry'[f].count = entry[f].count /\ (f # e => entry'[f] = entry[f])
    BY DEF WindowEnds, LimiterType
  <1>3. entry[e] # NewEntry
    BY DEF WindowEnds, NewEntry
  <1>4. HeldAtWork' /\ UnreachableNew'
    BY <1>1, <1>2, <1>3 DEF ForgivenInv, HeldAtWork, UnreachableNew
  <1>5. \A f : Pending(f)' = Pending(f)
    BY <1>1 DEF Pending
  <1>6. CountedAtMost'
    BY <1>1, <1>2, <1>5 DEF ForgivenInv, CountedAtMost
  <1> QED BY <1>4, <1>6 DEF ForgivenInv

LEMMA ForgivenInit == Init => ForgivenInv
  <1> SUFFICES ASSUME Init PROVE ForgivenInv
    OBVIOUS
  <1>1. HeldAtWork /\ UnreachableNew
    BY DEF Init, LimiterInit, HeldAtWork, UnreachableNew
  <1>2. CountedAtMost
    BY LimiterAssumption DEF Init, LimiterInit, CountedAtMost
  <1> QED BY <1>1, <1>2 DEF ForgivenInv

LEMMA ForgivenNext == Inv /\ ForgivenInv /\ [Next]_vars => ForgivenInv'
  <1> SUFFICES ASSUME Inv, ForgivenInv, [Next]_vars PROVE ForgivenInv'
    OBVIOUS
  <1>0. at \in AtType /\ LimiterType /\ LimiterType'
    BY TypeStep DEF Inv
  <1>1. ASSUME NEW r \in Request, LimiterStep(r)
        PROVE  ForgivenInv'
    BY <1>0, <1>1, LimiterForgiven
  <1>2. ASSUME NEW r \in Request, Begin(r) \/ AuthAtOnce(r) \/ AuthJoin(r) \/ AuthTake(r) \/ AuthRead(r)
        PROVE  ForgivenInv'
    BY <1>0, <1>2, OtherForgiven
       DEF Begin, AuthAtOnce, AuthJoin, AuthTake, AuthRead, Working, Counting
  <1>3. ASSUME NEW r \in Request, HandleAtOnce(r) \/ HandleJoin(r) \/ HandleScan(r) \/ HandlerTake(r)
        PROVE  ForgivenInv'
    BY <1>0, <1>3, OtherForgiven
       DEF HandleAtOnce, HandleJoin, HandleScan, HandlerTake, AfterTake, Waits, Working, Counting
  <1>4. ASSUME NEW r \in Request,
               \/ ReadDone(r) \/ WriteDone(r) \/ RenewReadBack(r)
               \/ Reply(r) \/ ReplyEnd(r) \/ NilSession(r)
        PROVE  ForgivenInv'
    BY <1>0, <1>4, OtherForgiven
       DEF ReadDone, WriteDone, RenewReadBack, Reply, ReplyEnd, NilSession, Working, Counting
  <1>5. ASSUME NEW e \in Entry, WindowEnds(e)
        PROVE  ForgivenInv'
    BY <1>0, <1>5, WindowEndsForgiven
  <1>6. ASSUME ScanStep \/ UNCHANGED vars
        PROVE  ForgivenInv'
    <2>1. UNCHANGED <<at, limiter>>
      BY <1>6 DEF ScanStep, ScanTake, ScanDone, vars
    <2> QED BY <2>1 DEF limiter, ForgivenInv, HeldAtWork, UnreachableNew, CountedAtMost, Pending
  <1> QED BY <1>1, <1>2, <1>3, <1>4, <1>5, <1>6 DEF Next, RequestStep

\* However many requests race on an entry, one that has left the map included,
\* the entry in the map counts no failure from before the last success.
THEOREM SuccessesForgive == Spec => []SuccessForgives
  <1>1. Inv /\ ForgivenInv => SuccessForgives
    <2> SUFFICES ASSUME Inv, ForgivenInv, slot # None
                 PROVE  UpTo(FailureLimit, entry[slot].count) <= failed
      BY DEF SuccessForgives
    <2>1. slot \in Entry /\ entry[slot].count \in Nat /\ failed \in Nat
      BY LimiterAssumption DEF Inv, LimiterType
    <2>2. UpTo(FailureLimit, entry[slot].count + Cardinality(Pending(slot))) <= failed
      BY <2>1 DEF ForgivenInv, CountedAtMost
    <2>3. PICK c \in Nat, p \in Nat : c = entry[slot].count /\ p = Cardinality(Pending(slot))
      BY <2>1, PendingSize
    <2>4. UpTo(FailureLimit, c + 0) <= failed
      BY <2>1, <2>2, <2>3, AtMost
    <2> QED BY <2>3, <2>4
  <1>2. Spec => []ForgivenInv
    BY ForgivenInit, ForgivenNext, InvAlways, PTL DEF Spec
  <1> QED BY <1>1, <1>2, InvAlways, PTL

-----------------------------------------------------------------------------
(* How many failures fit in one window.  What a request may still do to the *)
(* window of the entry in the map is its role: it is past the check if it   *)
(* can fail without meeting the count in the map, because it was admitted or *)
(* because it is checked against an entry that has left the map.            *)

Checking == {"window", "zero", "stamp", "count"}
Admitted == {"auth", "authWait", "authRead", "recFind"}
Role(r) ==
  IF at[r] \in Admitted \/ (at[r] \in Checking /\ held[r] # slot) THEN "past"
  ELSE IF at[r] \in Working /\ held[r] = slot THEN at[r] ELSE "none"
WithRole(S) == {r \in Request : Role(r) \in S}
Count(S) == Cardinality(WithRole(S))

Adding == {"recWindow", "recAdd"}
Zeroing == {"zero", "recOne"}

Bound(m) == Budget(Cardinality(Request) - m)

\* Of t failures in an open window.  The budget of the requests that have not yet
\* to zero the count (z of them) covers those that are past the check (a); while
\* the count c is below the limit, and so lets one more through, the failures are
\* in the count, or about to be added (p) or to be the first of a count (o).
OpenBound(t, c, a, o, p, z) ==
  /\ t + a <= o + Bound(z)
  /\ z < Cardinality(Request) /\ c < FailureLimit => t <= c + p + o + Bound(z + 1)

\* Of t failures since the end of a window.  Each has its request still at work (o,
\* w and q of them), and the one that is to open the next window has counted itself,
\* unless a check has zeroed the count and will open it first (s of them).
ClosedBound(t, c, o, w, q, s) ==
  t <= o + w + q /\ (c >= 1 \/ t <= o + w \/ s > 0)

BoundInv ==
  /\ slot = None => tries = 0
  /\ slot # None =>
       IF entry[slot].open
       THEN OpenBound(tries, entry[slot].count, Count({"past"}), Count({"recOne"}), Count(Adding), Count(Zeroing))
       ELSE ClosedBound(tries, entry[slot].count, Count({"recOne"}), Count({"recWindow"}), Count({"recStamp"}),
                        Count({"stamp"}))

\* Counting roles.
LEMMA CountType ==
  ASSUME NEW S
  PROVE  Count(S) \in Nat /\ Count(S) <= Cardinality(Request)
         /\ WithRole(S) \in SUBSET Request /\ IsFiniteSet(WithRole(S))
  <1>1. WithRole(S) \in SUBSET Request
    BY DEF WithRole
  <1> QED BY <1>1, FS_Subset, FS_CardinalityType, LimiterAssumption DEF Count

LEMMA CountParts ==
  ASSUME NEW S, NEW T, S \cap T = {}
  PROVE  Count(S \cup T) = Count(S) + Count(T)
  <1>1. WithRole(S \cup T) = WithRole(S) \cup WithRole(T) /\ WithRole(S) \cap WithRole(T) = {}
    BY DEF WithRole
  <1>2. IsFiniteSet(WithRole(S)) /\ IsFiniteSet(WithRole(T))
    BY CountType
  <1>3. Cardinality(WithRole(S) \cup WithRole(T))
          = Cardinality(WithRole(S)) + Cardinality(WithRole(T)) - Cardinality(WithRole(S) \cap WithRole(T))
    BY <1>2, FS_Union
  <1>4. Cardinality(WithRole(S) \cap WithRole(T)) = 0
    BY <1>1, FS_EmptySet
  <1>5. Count(S) \in Nat /\ Count(T) \in Nat
    BY CountType
  <1>6. Count(S \cup T) = Cardinality(WithRole(S) \cup WithRole(T))
    BY <1>1, Zenon DEF Count
  <1>7. Count(S) = Cardinality(WithRole(S)) /\ Count(T) = Cardinality(WithRole(T))
    BY DEF Count
  <1> QED BY <1>3, <1>4, <1>5, <1>6, <1>7

\* A request in another role is not among those counted.
LEMMA CountWithout ==
  ASSUME NEW S, NEW r \in Request, Role(r) \notin S
  PROVE  Count(S) + 1 <= Cardinality(Request)
  <1>1. WithRole(S) \in SUBSET Request /\ r \notin WithRole(S) /\ IsFiniteSet(WithRole(S))
    BY CountType DEF WithRole
  <1>2. WithRole(S) \cup {r} \subseteq Request
    BY <1>1
  <1>3. Cardinality(WithRole(S) \cup {r}) <= Cardinality(Request)
    BY <1>2, FS_Subset, LimiterAssumption
  <1>4. Cardinality(WithRole(S) \cup {r}) = Count(S) + 1
    BY <1>1, FS_AddElement DEF Count
  <1> QED BY <1>3, <1>4

LEMMA Sizes ==
  /\ Cardinality(Request) \in Nat
  /\ \A S : Count(S) \in Nat
  /\ Count({"recOne"}) <= Count(Zeroing) /\ Count({"recWindow"}) <= Count(Adding)
  /\ Count(Adding) + Count({"recStamp"}) + Count({"past"}) + Count(Zeroing) + Count({"stamp"})
       <= Cardinality(Request)
  /\ (\E r \in Request : Role(r) = "count") =>
       Count(Adding) + Count({"recStamp"}) + Count({"past"}) + Count(Zeroing) + Count({"stamp"}) + 1
         <= Cardinality(Request)
  <1>1. Cardinality(Request) \in Nat /\ \A S : Count(S) \in Nat
    BY CountType, FS_CardinalityType, LimiterAssumption
  <1>2. Count(Zeroing) = Count({"recOne"}) + Count({"zero"})
    <2>1. Zeroing = {"recOne"} \cup {"zero"} /\ {"recOne"} \cap {"zero"} = {}
      BY DEF Zeroing
    <2> QED BY <2>1, CountParts
  <1>3. Count(Adding) = Count({"recWindow"}) + Count({"recAdd"})
    <2>1. Adding = {"recWindow"} \cup {"recAdd"} /\ {"recWindow"} \cap {"recAdd"} = {}
      BY DEF Adding
    <2> QED BY <2>1, CountParts
  <1> DEFINE D == Adding \cup {"recStamp"}
             E == D \cup {"past"}
             F == E \cup Zeroing
             G == F \cup {"stamp"}
  <1>4. Count(G) = Count(Adding) + Count({"recStamp"}) + Count({"past"}) + Count(Zeroing) + Count({"stamp"})
    <2>1. Count(D) = Count(Adding) + Count({"recStamp"})
      BY CountParts DEF Adding
    <2>2. Count(E) = Count(D) + Count({"past"})
      BY CountParts DEF Adding
    <2>3. Count(F) = Count(E) + Count(Zeroing)
      BY CountParts DEF Adding, Zeroing
    <2>4. Count(G) = Count(F) + Count({"stamp"})
      BY CountParts DEF Adding, Zeroing
    <2> HIDE DEF D, E, F, G
    <2> QED BY <2>1, <2>2, <2>3, <2>4
  <1>5. Count(G) <= Cardinality(Request)
    BY CountType
  <1>6. ASSUME NEW r \in Request, Role(r) = "count"
        PROVE  Count(G) + 1 <= Cardinality(Request)
    <2>1. Role(r) \notin G
      BY <1>6 DEF Adding, Zeroing
    <2> QED BY <2>1, CountWithout
  <1> HIDE DEF D, E, F, G
  <1>7. Count({"zero"}) \in Nat /\ Count({"recAdd"}) \in Nat /\ Count({"recOne"}) \in Nat
        /\ Count({"recWindow"}) \in Nat
    BY <1>1
  <1> QED BY <1>1, <1>2, <1>3, <1>4, <1>5, <1>6, <1>7

-----------------------------------------------------------------------------
(* Steps.                                                                  *)

OthersKeepRoles(r) == \A u \in Request \ {r} : Role(u)' = Role(u)
One(b) == IF b THEN 1 ELSE 0

\* One request changes its role.
LEMMA CountMoves ==
  ASSUME NEW r \in Request, OthersKeepRoles(r), NEW S
  PROVE  /\ Count(S)' \in Nat
         /\ Count(S)' = Count(S) - One(Role(r) \in S) + One(Role(r)' \in S)
  <1> DEFINE B == WithRole(S) \ {r}
  <1>1. WithRole(S)' = IF Role(r)' \in S THEN B \cup {r} ELSE B
    BY DEF WithRole, OthersKeepRoles
  <1>2. WithRole(S) = IF Role(r) \in S THEN B \cup {r} ELSE B
    BY DEF WithRole
  <1>3. IsFiniteSet(B) /\ r \notin B
    BY CountType, FS_Subset
  <1>4. Cardinality(B) \in Nat /\ Cardinality(B \cup {r}) = Cardinality(B) + 1
    BY <1>3, FS_AddElement, FS_CardinalityType
  <1>5. Count(S) = Cardinality(B) + One(Role(r) \in S)
    BY <1>2, <1>4 DEF Count, One
  <1>6. Count(S)' = Cardinality(B) + One(Role(r)' \in S)
    BY <1>1, <1>4 DEF Count, One
  <1> HIDE DEF B
  <1> QED BY <1>4, <1>5, <1>6 DEF One

\* The counts of the invariant after a step of r.
CountsMove(r) ==
  /\ Count({"past"})' = Count({"past"}) - One(Role(r) = "past") + One(Role(r)' = "past")
  /\ Count({"recOne"})' = Count({"recOne"}) - One(Role(r) = "recOne") + One(Role(r)' = "recOne")
  /\ Count({"recWindow"})' = Count({"recWindow"}) - One(Role(r) = "recWindow") + One(Role(r)' = "recWindow")
  /\ Count({"recStamp"})' = Count({"recStamp"}) - One(Role(r) = "recStamp") + One(Role(r)' = "recStamp")
  /\ Count({"stamp"})' = Count({"stamp"}) - One(Role(r) = "stamp") + One(Role(r)' = "stamp")
  /\ Count(Adding)' = Count(Adding) - One(Role(r) \in Adding) + One(Role(r)' \in Adding)
  /\ Count(Zeroing)' = Count(Zeroing) - One(Role(r) \in Zeroing) + One(Role(r)' \in Zeroing)

LEMMA CountsMoved ==
  ASSUME NEW r \in Request, OthersKeepRoles(r)
  PROVE  CountsMove(r)
  <1>1. \A S : Count(S)' = Count(S) - One(Role(r) \in S) + One(Role(r)' \in S)
    BY CountMoves
  <1>2. \A x, y : x \in {y} <=> x = y
    OBVIOUS
  <1>3. Adding' = Adding /\ Zeroing' = Zeroing
    BY DEF Adding, Zeroing
  <1> QED BY <1>1, <1>2, <1>3 DEF CountsMove

LEMMA OthersKeep ==
  ASSUME at \in AtType, held \in [Request -> Entry \cup {None}], NEW r \in Request, NEW next, Goto(r, next),
         NEW h, held' = held \/ held' = [held EXCEPT ![r] = h], slot' = slot
  PROVE  OthersKeepRoles(r) /\ at'[r] = next
  <1>1. at'[r] = next /\ \A u \in Request \ {r} : at'[u] = at[u]
    BY DEF Goto, AtType
  <1>2. \A u \in Request \ {r} : held'[u] = held[u]
    OBVIOUS
  <1> QED BY <1>1, <1>2 DEF OthersKeepRoles, Role


LEMMA BoundFacts ==
  ASSUME NEW z \in Nat, z <= Cardinality(Request)
  PROVE  /\ Bound(z) \in Nat /\ Bound(z) + z >= Cardinality(Request)
         /\ Bound(z) + z <= WindowLimit
         /\ z < Cardinality(Request) => Bound(z) = Bound(z + 1) + FailureLimit + (Cardinality(Request) - z - 1)
  <1> DEFINE n == Cardinality(Request)
  <1>1. n \in Nat /\ n - z \in Nat
    BY Sizes
  <1> HIDE DEF n
  <1>2. Budget(n - z) \in Nat /\ Budget(n - z) >= n - z
    BY <1>1, BudgetGrows
  <1>3. Budget(n - z) + (n - (n - z)) <= Budget(n)
    BY <1>1, BudgetMonotone
  <1>4. ASSUME z < n
        PROVE  Budget(n - z) = Budget(n - (z + 1)) + FailureLimit + (n - z - 1)
    <2>1. n - (z + 1) \in Nat /\ n - (z + 1) + 1 = n - z /\ n - (z + 1) = n - z - 1
      BY <1>1, <1>4
    <2> QED BY <2>1, BudgetGrows
  <1>5. Budget(n) \in Nat
    BY <1>1, BudgetGrows
  <1>6. /\ Budget(n - z) \in Nat /\ Budget(n - z) + z >= n /\ Budget(n - z) + z <= Budget(n)
        /\ z < n => Budget(n - z) = Budget(n - (z + 1)) + FailureLimit + (n - z - 1)
    BY <1>1, <1>2, <1>3, <1>4, <1>5
  <1> QED BY <1>6 DEF Bound, WindowLimit, n

\* The arithmetic of the steps, for any numbers of requests in the roles: what
\* becomes of the bound of an open window.
OpenLeads(t, c, a, o, p, z, q) ==
  /\ t <= WindowLimit
  /\ \A b \in Nat : b <= a => OpenBound(t, c, b, o, p, z)
  /\ c < FailureLimit /\ p + q + a + z + 1 <= Cardinality(Request) => OpenBound(t, c, a + 1, o, p, z)
  /\ z > 0 => OpenBound(t, 0, a, o, p, z - 1)
  /\ a > 0 => \A u \in Nat : u <= t + 1 => OpenBound(u, c, a - 1, o, p + 1, z)
  /\ o > 0 => OpenBound(t, 1, a, o - 1, p, z - 1)
  /\ p > 0 => OpenBound(t, c + 1, a, o, p - 1, z)

LEMMA OpenSteps ==
  ASSUME NEW t \in Nat, NEW c \in Nat, NEW a \in Nat, NEW o \in Nat, NEW p \in Nat, NEW z \in Nat,
         NEW q \in Nat, o <= z, p + q + a + z <= Cardinality(Request), OpenBound(t, c, a, o, p, z)
  PROVE  OpenLeads(t, c, a, o, p, z, q)
  <1> DEFINE n == Cardinality(Request)
  <1>1. n \in Nat /\ z <= n
    BY Sizes
  <1>2. /\ Bound(z) \in Nat /\ Bound(z) + z >= n /\ Bound(z) + z <= WindowLimit
        /\ z < n => Bound(z + 1) \in Nat /\ Bound(z) = Bound(z + 1) + FailureLimit + (n - z - 1)
    BY <1>1, BoundFacts
  <1>3. z > 0 => Bound(z - 1) \in Nat /\ Bound(z - 1) = Bound(z) + FailureLimit + (n - z) /\ z - 1 < n
                 /\ z - 1 + 1 = z
    <2>1. ASSUME z > 0
          PROVE  z - 1 \in Nat /\ z - 1 < n /\ z - 1 + 1 = z /\ z - 1 <= n
      BY <1>1, <2>1
    <2>2. ASSUME z > 0
          PROVE  Bound(z - 1) \in Nat /\ Bound(z - 1) = Bound(z - 1 + 1) + FailureLimit + (n - (z - 1) - 1)
      BY <2>1, <2>2, BoundFacts
    <2> QED BY <1>1, <2>1, <2>2
  <1>4. PICK x \in Nat : x = Bound(z) /\ x + z >= n /\ x + z <= WindowLimit
    BY <1>2
  <1>5. PICK y \in Nat : z < n => y = Bound(z + 1) /\ x = y + FailureLimit + (n - z - 1)
    BY <1>2, <1>4
  <1>6. PICK v \in Nat : z > 0 => v = Bound(z - 1) /\ v = x + FailureLimit + (n - z) /\ z - 1 < n /\ z - 1 + 1 = z
    BY <1>3, <1>4
  <1>7. t + a <= o + x /\ (z < n /\ c < FailureLimit => t <= c + p + o + y)
    BY <1>4, <1>5 DEF OpenBound
  <1>8. FailureLimit \in Nat /\ FailureLimit >= 1 /\ WindowLimit \in Nat
    BY <1>1, BudgetGrows, LimiterAssumption DEF WindowLimit
  <1>9. n = Cardinality(Request) /\ o <= z /\ p + q + a + z <= n
    OBVIOUS
  <1>10. ASSUME NEW u \in Nat, NEW d \in Nat, NEW b \in Nat, NEW s \in Nat,
                u + b <= o + x, z < n /\ d < FailureLimit => u <= d + s + o + y
         PROVE  OpenBound(u, d, b, o, s, z)
    BY <1>4, <1>5, <1>9, <1>10 DEF OpenBound
  <1>11. ASSUME z > 0, NEW d \in Nat, NEW i \in Int,
                t + a <= i + v, d < FailureLimit => t <= d + p + i + x
         PROVE  OpenBound(t, d, a, i, p, z - 1)
    BY <1>4, <1>6, <1>9, <1>11 DEF OpenBound
  <1> HIDE DEF n
  <1>12. t <= WindowLimit
    BY <1>1, <1>4, <1>7, <1>8, <1>9
  <1>13. ASSUME NEW b \in Nat, b <= a PROVE OpenBound(t, c, b, o, p, z)
    <2>1. t + b <= o + x
      BY <1>7, <1>13
    <2> QED BY <1>7, <1>10, <2>1
  <1>14. ASSUME c < FailureLimit, p + q + a + z + 1 <= n PROVE OpenBound(t, c, a + 1, o, p, z)
    <2>1. t + (a + 1) <= o + x /\ a + 1 \in Nat
      BY <1>1, <1>5, <1>7, <1>8, <1>14
    <2> QED BY <1>7, <1>10, <2>1
  <1>15. ASSUME z > 0 PROVE OpenBound(t, 0, a, o, p, z - 1)
    <2>1. t + a <= o + v /\ t <= 0 + p + o + x
      BY <1>1, <1>6, <1>7, <1>8, <1>15
    <2> QED BY <1>11, <1>15, <2>1
  <1>16. ASSUME a > 0, NEW u \in Nat, u <= t + 1 PROVE OpenBound(u, c, a - 1, o, p + 1, z)
    <2>1. u + (a - 1) <= o + x /\ a - 1 \in Nat /\ p + 1 \in Nat
      BY <1>7, <1>16
    <2>2. z < n /\ c < FailureLimit => u <= c + (p + 1) + o + y
      BY <1>7, <1>16
    <2> QED BY <1>10, <2>1, <2>2
  <1>17. ASSUME o > 0 PROVE OpenBound(t, 1, a, o - 1, p, z - 1)
    <2>1. t + a <= (o - 1) + v /\ t <= 1 + p + (o - 1) + x
      BY <1>1, <1>6, <1>7, <1>8, <1>9, <1>17
    <2>2. z > 0 /\ o - 1 \in Int
      BY <1>9, <1>17
    <2> QED BY <1>11, <2>1, <2>2
  <1>18. ASSUME p > 0 PROVE OpenBound(t, c + 1, a, o, p - 1, z)
    <2>1. z < n /\ c + 1 < FailureLimit => t <= (c + 1) + (p - 1) + o + y
      BY <1>7, <1>8, <1>18
    <2>2. p - 1 \in Nat /\ c + 1 \in Nat
      BY <1>18
    <2> QED BY <1>7, <1>10, <2>1, <2>2
  <1> QED BY <1>9, <1>12, <1>13, <1>14, <1>15, <1>16, <1>17, <1>18 DEF OpenLeads

\* What becomes of the bound of a closed window in a step.
ClosedLeads(t, c, a, o, p, z, q, w, s) ==
  /\ t <= WindowLimit
  /\ s > 0 \/ q > 0 => OpenBound(t, c, a, o, p, z)
  /\ \A u \in Nat : u <= t + 1 => ClosedBound(u, c, o, w + 1, q, s)
  /\ w > 0 => ClosedBound(t, c, o + 1, w - 1, q, s)
  /\ o > 0 => ClosedBound(t, 1, o - 1, w, q + 1, s)
  /\ ClosedBound(t, c + 1, o, w, q, s)
  /\ ClosedBound(t, 0, o, w, q, s + 1)

LEMMA ClosedSteps ==
  ASSUME NEW t \in Nat, NEW c \in Nat, NEW a \in Nat, NEW o \in Nat, NEW p \in Nat, NEW z \in Nat,
         NEW q \in Nat, NEW w \in Nat, NEW s \in Nat, o <= z, w <= p,
         p + q + a + z + s <= Cardinality(Request), ClosedBound(t, c, o, w, q, s)
  PROVE  ClosedLeads(t, c, a, o, p, z, q, w, s)
  <1> DEFINE n == Cardinality(Request)
  <1>1. n \in Nat /\ z <= n
    BY Sizes
  <1>2. Bound(z) \in Nat /\ Bound(z) + z >= n /\ Bound(z) + z <= WindowLimit
    BY <1>1, BoundFacts
  <1>3. z < n => Bound(z + 1) \in Nat /\ Bound(z + 1) + z + 1 >= n
    <2>1. ASSUME z < n
          PROVE  z + 1 <= n /\ z + 1 \in Nat
      BY <1>1, <2>1
    <2>2. ASSUME z < n
          PROVE  Bound(z + 1) \in Nat /\ Bound(z + 1) + (z + 1) >= n
      BY <2>1, <2>2, BoundFacts
    <2> QED BY <2>1, <2>2
  <1>4. PICK x \in Nat : x = Bound(z) /\ x + z >= n /\ x + z <= WindowLimit
    BY <1>2
  <1>5. PICK y \in Nat : z < n => y = Bound(z + 1) /\ y + z + 1 >= n
    BY <1>3
  <1>6. t <= o + w + q /\ (c >= 1 \/ t <= o + w \/ s > 0)
    BY DEF ClosedBound
  <1>7. n = Cardinality(Request) /\ o <= z /\ w <= p /\ p + q + a + z + s <= n /\ WindowLimit \in Nat
    BY <1>1, BudgetGrows DEF WindowLimit
  <1>8. ASSUME t + a <= o + x, z < n => t <= c + p + o + y
        PROVE  OpenBound(t, c, a, o, p, z)
    BY <1>4, <1>5, <1>7, <1>8 DEF OpenBound
  <1> HIDE DEF n
  <1>9. t <= WindowLimit
    BY <1>1, <1>4, <1>6, <1>7
  <1>10. ASSUME s > 0 \/ q > 0 PROVE OpenBound(t, c, a, o, p, z)
    <2>1. t + a <= o + x /\ (z < n => t <= c + p + o + y)
      BY <1>1, <1>4, <1>5, <1>6, <1>7, <1>10
    <2> QED BY <1>8, <2>1
  <1>11. ASSUME NEW u \in Nat, u <= t + 1 PROVE ClosedBound(u, c, o, w + 1, q, s)
    BY <1>6, <1>11 DEF ClosedBound
  <1>12. ASSUME w > 0 PROVE ClosedBound(t, c, o + 1, w - 1, q, s)
    BY <1>6, <1>12 DEF ClosedBound
  <1>13. ASSUME o > 0 PROVE ClosedBound(t, 1, o - 1, w, q + 1, s)
    BY <1>6, <1>13 DEF ClosedBound
  <1>14. ClosedBound(t, c + 1, o, w, q, s) /\ ClosedBound(t, 0, o, w, q, s + 1)
    BY <1>6 DEF ClosedBound
  <1> QED BY <1>7, <1>9, <1>10, <1>11, <1>12, <1>13, <1>14 DEF ClosedLeads

-----------------------------------------------------------------------------
(* The steps.                                                              *)

\* What the bounds are about are numbers, and those of requests make room for
\* each other.
LEMMA BoundNumbers ==
  ASSUME LimiterType, slot # None
  PROVE  /\ slot \in Entry /\ tries \in Nat /\ entry[slot].count \in Nat /\ entry[slot].open \in BOOLEAN
         /\ UpTo(TriesCap, tries + 1) \in Nat /\ UpTo(TriesCap, tries + 1) <= tries + 1
  <1>1. slot \in Entry /\ tries \in Nat
    BY CapType DEF LimiterType
  <1> QED BY <1>1, CapType DEF LimiterType, UpTo

\* A step that takes no part in the window, or leaves it.
LEMMA TakesNoPart ==
  ASSUME LimiterType, BoundInv, NEW r \in Request, OthersKeepRoles(r), slot' = slot, slot # None,
         entry'[slot] = entry[slot], tries' = tries,
         Role(r) \in {"past", "none", "window", "count"},
         Role(r)' \in {"none", "window", "count"} \/ Role(r)' = Role(r)
  PROVE  BoundInv'
  <1>1. CountsMove(r)
    BY CountsMoved
  <1>2. /\ Count({"past"})' <= Count({"past"}) /\ Count({"recOne"})' = Count({"recOne"})
        /\ Count({"recWindow"})' = Count({"recWindow"}) /\ Count({"recStamp"})' = Count({"recStamp"})
        /\ Count(Adding)' = Count(Adding) /\ Count(Zeroing)' = Count(Zeroing)
        /\ Count({"stamp"})' = Count({"stamp"})
    BY <1>1, Sizes DEF CountsMove, One, Adding, Zeroing
  <1>3. Count(Adding) + Count({"recStamp"}) + Count({"past"}) + Count(Zeroing) <= Cardinality(Request)
    BY Sizes
  <1>4. Count({"past"})' \in Nat
    BY CountMoves
  <1>5. CASE entry[slot].open
    <2>1. OpenBound(tries, entry[slot].count, Count({"past"}), Count({"recOne"}), Count(Adding), Count(Zeroing))
      BY <1>5 DEF BoundInv
    <2>2. OpenBound(tries, entry[slot].count, Count({"past"})', Count({"recOne"}), Count(Adding), Count(Zeroing))
      BY <1>2, <1>3, <1>4, <2>1, BoundNumbers, Sizes, OpenSteps DEF OpenLeads
    <2> QED BY <1>2, <1>5, <2>2 DEF BoundInv
  <1>6. CASE ~entry[slot].open
    BY <1>2, <1>6 DEF BoundInv
  <1> QED BY <1>5, <1>6

\* The parts that a request can take in the window, with what each does to the
\* entry in the map.
TakesPart(r) ==
  LET e == entry[slot]
      Turns(role, next) == Role(r) = role /\ Role(r)' = next
  IN  \/ Turns("window", IF e.open THEN "count" ELSE "zero") /\ entry'[slot] = e /\ tries' = tries
      \/ Turns("zero", "stamp") /\ entry'[slot] = [e EXCEPT !.count = 0] /\ tries' = tries
      \/ Turns("stamp", "count") /\ entry'[slot] = [e EXCEPT !.open = TRUE] /\ tries' = tries
      \/ Turns("count", "past") /\ e.count < FailureLimit /\ entry'[slot] = e /\ tries' = tries
      \/ Turns("past", "recWindow") /\ entry'[slot] = e /\ tries' = UpTo(TriesCap, tries + 1)
      \/ Turns("recWindow", IF e.open THEN "recAdd" ELSE "recOne") /\ entry'[slot] = e /\ tries' = tries
      \/ Turns("recOne", "recStamp") /\ entry'[slot] = [e EXCEPT !.count = 1] /\ tries' = tries
      \/ Turns("recStamp", "none") /\ entry'[slot] = [e EXCEPT !.open = TRUE] /\ tries' = tries
      \/ Turns("recAdd", "none") /\ entry'[slot] = [e EXCEPT !.count = @ + 1] /\ tries' = tries

LEMMA PartKeepsBound ==
  ASSUME LimiterType, BoundInv, NEW r \in Request, OthersKeepRoles(r), slot' = slot, slot # None,
         TakesPart(r)
  PROVE  BoundInv'
  <1> DEFINE n == Cardinality(Request)
  <1>1. CountsMove(r) /\ OthersKeepRoles(r)
    BY CountsMoved
  <1>2. PICK a \in Nat, o \in Nat, w \in Nat, q \in Nat, p \in Nat, z \in Nat, s \in Nat :
          /\ a = Count({"past"}) /\ o = Count({"recOne"}) /\ w = Count({"recWindow"})
          /\ q = Count({"recStamp"}) /\ p = Count(Adding) /\ z = Count(Zeroing)
          /\ s = Count({"stamp"})
    BY Sizes
  <1>3. PICK t \in Nat, c \in Nat, u \in Nat :
          t = tries /\ c = entry[slot].count /\ u = UpTo(TriesCap, tries + 1) /\ u <= t + 1
    BY BoundNumbers
  <1>4. entry[slot].open \in BOOLEAN /\ entry[slot] \in [count : Nat, open : BOOLEAN]
    BY BoundNumbers DEF LimiterType
  <1>5. o <= z /\ w <= p /\ p + q + a + z + s <= n /\ p + q + a + z <= n
    BY <1>2, Sizes
  <1>6. Role(r) = "count" => p + q + a + z + 1 <= n
    BY <1>2, Sizes
  <1>7. entry[slot].open => OpenBound(t, c, a, o, p, z)
    BY <1>2, <1>3 DEF BoundInv
  <1>8. ~entry[slot].open => ClosedBound(t, c, o, w, q, s)
    BY <1>2, <1>3 DEF BoundInv
  <1>9. /\ Role(r) = "past" => a > 0
        /\ Role(r) = "recOne" => o > 0
        /\ Role(r) = "recWindow" => w > 0
        /\ Role(r) = "recStamp" => q > 0
        /\ Role(r) = "stamp" => s > 0
        /\ Role(r) \in Adding => p > 0
        /\ Role(r) \in Zeroing => z > 0
    <2>1. ASSUME NEW S, Role(r) \in S
          PROVE  Count(S) > 0
      <3>1. r \in WithRole(S) /\ IsFiniteSet(WithRole(S))
        BY <2>1, CountType DEF WithRole
      <3>2. Cardinality(WithRole(S)) # 0
        BY <3>1, FS_EmptySet
      <3> QED BY <3>2, CountType DEF Count
    <2>2. Role(r) \in {Role(r)}
      OBVIOUS
    <2> QED BY <1>2, <2>1, <2>2
  <1>11. ASSUME entry'[slot].open, NEW t1, NEW c1, NEW a1, NEW o1, NEW p1, NEW z1,
                tries' = t1, entry'[slot].count = c1, Count({"past"})' = a1, Count({"recOne"})' = o1,
                Count(Adding)' = p1, Count(Zeroing)' = z1, OpenBound(t1, c1, a1, o1, p1, z1)
         PROVE  BoundInv'
    BY <1>11 DEF BoundInv
  <1>12. ASSUME ~entry'[slot].open, NEW t1, NEW c1, NEW o1, NEW w1, NEW q1, NEW d1,
                tries' = t1, entry'[slot].count = c1, Count({"recOne"})' = o1, Count({"recWindow"})' = w1,
                Count({"recStamp"})' = q1, Count({"stamp"})' = d1, ClosedBound(t1, c1, o1, w1, q1, d1)
         PROVE  BoundInv'
    BY <1>12 DEF BoundInv
  <1>13. ASSUME NEW role, NEW next, Role(r) = role, Role(r)' = next
         PROVE  /\ Count({"past"})' = a - One(role = "past") + One(next = "past")
                /\ Count({"recOne"})' = o - One(role = "recOne") + One(next = "recOne")
                /\ Count({"recWindow"})' = w - One(role = "recWindow") + One(next = "recWindow")
                /\ Count({"recStamp"})' = q - One(role = "recStamp") + One(next = "recStamp")
                /\ Count({"stamp"})' = s - One(role = "stamp") + One(next = "stamp")
                /\ Count(Adding)' = p - One(role \in Adding) + One(next \in Adding)
                /\ Count(Zeroing)' = z - One(role \in Zeroing) + One(next \in Zeroing)
    BY <1>1, <1>2, <1>13 DEF CountsMove
  <1> HIDE DEF n
  <1>10. entry[slot].open => OpenLeads(t, c, a, o, p, z, q)
    BY <1>5, <1>7, OpenSteps DEF n
  <1>14. ~entry[slot].open => ClosedLeads(t, c, a, o, p, z, q, w, s)
    BY <1>5, <1>8, ClosedSteps DEF n
  <1>15. CASE Role(r) = "window"
    <2>1. entry'[slot] = entry[slot] /\ tries' = t
      BY <1>3, <1>15 DEF TakesPart
    <2>2. CASE entry[slot].open
      <3>1. Role(r)' = "count"
        BY <1>15, <2>2 DEF TakesPart
      <3>2. Count({"past"})' = a /\ Count({"recOne"})' = o /\ Count(Adding)' = p /\ Count(Zeroing)' = z
        BY <1>13, <1>15, <3>1 DEF One, Adding, Zeroing
      <3> QED BY <1>3, <1>7, <1>11, <2>1, <2>2, <3>2
    <2>3. CASE ~entry[slot].open
      <3>1. Role(r)' = "zero"
        BY <1>15, <2>3 DEF TakesPart
      <3>2. Count({"recOne"})' = o /\ Count({"recWindow"})' = w /\ Count({"recStamp"})' = q /\ Count({"stamp"})' = s
        BY <1>13, <1>15, <3>1 DEF One
      <3> QED BY <1>3, <1>8, <1>12, <2>1, <2>3, <3>2
    <2> QED BY <2>2, <2>3
  <1>16. CASE Role(r) = "zero"
    <2>1. entry'[slot].count = 0 /\ entry'[slot].open = entry[slot].open /\ tries' = t /\ Role(r)' = "stamp"
      BY <1>3, <1>4, <1>16 DEF TakesPart
    <2>2. /\ Count({"past"})' = a /\ Count({"recOne"})' = o /\ Count({"recWindow"})' = w
          /\ Count({"recStamp"})' = q /\ Count(Adding)' = p /\ Count(Zeroing)' = z - 1 /\ z > 0
          /\ Count({"stamp"})' = s + 1
      BY <1>9, <1>13, <1>16, <2>1 DEF One, Adding, Zeroing
    <2>3. CASE entry[slot].open
      <3>1. OpenBound(t, 0, a, o, p, z - 1)
        BY <1>5, <1>7, <2>2, <2>3, <1>10 DEF OpenLeads, n
      <3> QED BY <1>11, <2>1, <2>2, <2>3, <3>1
    <2>4. CASE ~entry[slot].open
      <3>1. ClosedBound(t, 0, o, w, q, s + 1)
        BY <1>5, <1>8, <2>4, <1>14 DEF ClosedLeads, n
      <3> QED BY <1>12, <2>1, <2>2, <2>4, <3>1
    <2> QED BY <2>3, <2>4
  <1>17. CASE Role(r) = "stamp"
    <2>1. entry'[slot].count = c /\ entry'[slot].open /\ tries' = t /\ Role(r)' = "count"
      BY <1>3, <1>4, <1>17 DEF TakesPart
    <2>2. Count({"past"})' = a /\ Count({"recOne"})' = o /\ Count(Adding)' = p /\ Count(Zeroing)' = z
      BY <1>13, <1>17, <2>1 DEF One, Adding, Zeroing
    <2>3. OpenBound(t, c, a, o, p, z)
      BY <1>7, <1>9, <1>10, <1>14, <1>17 DEF ClosedLeads, n
    <2> QED BY <1>11, <2>1, <2>2, <2>3
  <1>18. CASE Role(r) = "count"
    <2>1. entry'[slot] = entry[slot] /\ c < FailureLimit /\ tries' = t /\ Role(r)' = "past"
      BY <1>3, <1>18 DEF TakesPart
    <2>2. /\ Count({"past"})' = a + 1 /\ Count({"recOne"})' = o /\ Count({"recWindow"})' = w
          /\ Count({"recStamp"})' = q /\ Count(Adding)' = p /\ Count(Zeroing)' = z /\ Count({"stamp"})' = s
      BY <1>13, <1>18, <2>1 DEF One, Adding, Zeroing
    <2>3. CASE entry[slot].open
      <3>1. OpenBound(t, c, a + 1, o, p, z)
        BY <1>5, <1>6, <1>7, <1>18, <2>1, <2>3, <1>10 DEF OpenLeads, n
      <3> QED BY <1>3, <1>11, <2>1, <2>2, <2>3, <3>1
    <2>4. CASE ~entry[slot].open
      BY <1>3, <1>8, <1>12, <2>1, <2>2, <2>4
    <2> QED BY <2>3, <2>4
  <1>19. CASE Role(r) = "past"
    <2>1. entry'[slot] = entry[slot] /\ tries' = u /\ Role(r)' = "recWindow"
      BY <1>3, <1>19 DEF TakesPart
    <2>2. /\ Count({"past"})' = a - 1 /\ Count({"recOne"})' = o /\ Count({"recWindow"})' = w + 1 /\ a > 0
          /\ Count({"recStamp"})' = q /\ Count(Adding)' = p + 1 /\ Count(Zeroing)' = z /\ Count({"stamp"})' = s
      BY <1>9, <1>13, <1>19, <2>1 DEF One, Adding, Zeroing
    <2>3. CASE entry[slot].open
      <3>1. OpenBound(u, c, a - 1, o, p + 1, z)
        BY <1>3, <1>5, <1>7, <2>2, <2>3, <1>10 DEF OpenLeads, n
      <3> QED BY <1>3, <1>11, <2>1, <2>2, <2>3, <3>1
    <2>4. CASE ~entry[slot].open
      <3>1. ClosedBound(u, c, o, w + 1, q, s)
        BY <1>3, <1>5, <1>8, <2>4, <1>14 DEF ClosedLeads, n
      <3> QED BY <1>3, <1>12, <2>1, <2>2, <2>4, <3>1
    <2> QED BY <2>3, <2>4
  <1>20. CASE Role(r) = "recWindow"
    <2>1. entry'[slot] = entry[slot] /\ tries' = t
      BY <1>3, <1>20 DEF TakesPart
    <2>2. CASE entry[slot].open
      <3>1. Role(r)' = "recAdd"
        BY <1>20, <2>2 DEF TakesPart
      <3>2. Count({"past"})' = a /\ Count({"recOne"})' = o /\ Count(Adding)' = p /\ Count(Zeroing)' = z
        BY <1>13, <1>20, <3>1 DEF One, Adding, Zeroing
      <3> QED BY <1>3, <1>7, <1>11, <2>1, <2>2, <3>2
    <2>3. CASE ~entry[slot].open
      <3>1. Role(r)' = "recOne"
        BY <1>20, <2>3 DEF TakesPart
      <3>2. /\ Count({"recOne"})' = o + 1 /\ Count({"recWindow"})' = w - 1 /\ w > 0
            /\ Count({"recStamp"})' = q /\ Count({"stamp"})' = s
        BY <1>9, <1>13, <1>20, <3>1 DEF One
      <3>3. ClosedBound(t, c, o + 1, w - 1, q, s)
        BY <1>5, <1>8, <2>3, <3>2, <1>14 DEF ClosedLeads, n
      <3> QED BY <1>3, <1>12, <2>1, <2>3, <3>2, <3>3
    <2> QED BY <2>2, <2>3
  <1>21. CASE Role(r) = "recOne"
    <2>1. entry'[slot].count = 1 /\ entry'[slot].open = entry[slot].open /\ tries' = t /\ Role(r)' = "recStamp"
      BY <1>3, <1>4, <1>21 DEF TakesPart
    <2>2. /\ Count({"past"})' = a /\ Count({"recOne"})' = o - 1 /\ Count({"recWindow"})' = w /\ o > 0
          /\ Count({"recStamp"})' = q + 1 /\ Count(Adding)' = p /\ Count(Zeroing)' = z - 1 /\ Count({"stamp"})' = s
      BY <1>9, <1>13, <1>21, <2>1 DEF One, Adding, Zeroing
    <2>3. CASE entry[slot].open
      <3>1. OpenBound(t, 1, a, o - 1, p, z - 1)
        BY <1>5, <1>7, <2>2, <2>3, <1>10 DEF OpenLeads, n
      <3> QED BY <1>11, <2>1, <2>2, <2>3, <3>1
    <2>4. CASE ~entry[slot].open
      <3>1. ClosedBound(t, 1, o - 1, w, q + 1, s)
        BY <1>5, <1>8, <2>2, <2>4, <1>14 DEF ClosedLeads, n
      <3> QED BY <1>12, <2>1, <2>2, <2>4, <3>1
    <2> QED BY <2>3, <2>4
  <1>22. CASE Role(r) = "recStamp"
    <2>1. entry'[slot].count = c /\ entry'[slot].open /\ tries' = t /\ Role(r)' = "none"
      BY <1>3, <1>4, <1>22 DEF TakesPart
    <2>2. Count({"past"})' = a /\ Count({"recOne"})' = o /\ Count(Adding)' = p /\ Count(Zeroing)' = z
      BY <1>13, <1>22, <2>1 DEF One, Adding, Zeroing
    <2>3. OpenBound(t, c, a, o, p, z)
      BY <1>7, <1>9, <1>10, <1>14, <1>22 DEF ClosedLeads, n
    <2> QED BY <1>11, <2>1, <2>2, <2>3
  <1>23. CASE Role(r) = "recAdd"
    <2>1. entry'[slot].count = c + 1 /\ entry'[slot].open = entry[slot].open /\ tries' = t /\ Role(r)' = "none"
      BY <1>3, <1>4, <1>23 DEF TakesPart
    <2>2. /\ Count({"past"})' = a /\ Count({"recOne"})' = o /\ Count({"recWindow"})' = w /\ p > 0
          /\ Count({"recStamp"})' = q /\ Count(Adding)' = p - 1 /\ Count(Zeroing)' = z /\ Count({"stamp"})' = s
      BY <1>9, <1>13, <1>23, <2>1 DEF One, Adding, Zeroing
    <2>3. CASE entry[slot].open
      <3>1. OpenBound(t, c + 1, a, o, p - 1, z)
        BY <1>5, <1>7, <2>2, <2>3, <1>10 DEF OpenLeads, n
      <3> QED BY <1>11, <2>1, <2>2, <2>3, <3>1
    <2>4. CASE ~entry[slot].open
      <3>1. ClosedBound(t, c + 1, o, w, q, s)
        BY <1>5, <1>8, <2>4, <1>14 DEF ClosedLeads, n
      <3> QED BY <1>12, <2>1, <2>2, <2>4, <3>1
    <2> QED BY <2>3, <2>4
  <1> QED BY <1>15, <1>16, <1>17, <1>18, <1>19, <1>20, <1>21, <1>22, <1>23 DEF TakesPart

\* A new entry in the map: no request has found it but r.
LEMMA NewKeepsBound ==
  ASSUME at \in AtType, LimiterType, ForgivenInv, BoundInv, NEW r \in Request, slot = None, LoadOrStore(r),
         \/ at[r] = "find" /\ Goto(r, "window") /\ tries' = tries
         \/ at[r] = "recFind" /\ Goto(r, "recWindow") /\ tries' = UpTo(TriesCap, tries + 1)
  PROVE  BoundInv'
  <1>1. PICK e \in Entry : /\ slot' = e /\ held' = [held EXCEPT ![r] = e] /\ entry' = entry
                           /\ \A u \in Request : held[u] # e
    BY FreshEntry DEF LoadOrStore, Reachable
  <1>2. entry'[slot'] = NewEntry /\ slot' # None
    BY <1>1, LimiterAssumption DEF ForgivenInv, UnreachableNew
  <1>3. tries = 0
    BY DEF BoundInv
  <1>4. \A S : Count(S)' \in Nat
    <2>1. ASSUME NEW S PROVE IsFiniteSet(WithRole(S)')
      <3>1. WithRole(S)' \in SUBSET Request
        BY DEF WithRole
      <3> QED BY <3>1, FS_Subset, LimiterAssumption
    <2> QED BY <2>1, FS_CardinalityType DEF Count
  <1>5. at[r] = "recFind" => Count({"recWindow"})' >= 1
    <2> SUFFICES ASSUME at[r] = "recFind" PROVE Count({"recWindow"})' >= 1
      OBVIOUS
    <2>1. r \in WithRole({"recWindow"})'
      BY <1>1 DEF Goto, AtType, LimiterType, WithRole, Role, Admitted, Checking, Working, Counting
    <2>2. WithRole({"recWindow"})' \in SUBSET Request
      BY DEF WithRole
    <2>3. IsFiniteSet(WithRole({"recWindow"})')
      BY <2>2, FS_Subset, LimiterAssumption
    <2>4. Cardinality(WithRole({"recWindow"})') # 0
      BY <2>1, <2>3, FS_EmptySet
    <2> QED BY <1>4, <2>4 DEF Count
  <1>6. tries' = 0 \/ (at[r] = "recFind" /\ tries' \in Nat /\ tries' <= 1)
    BY <1>3, CapType DEF UpTo
  <1>7. tries' <= Count({"recOne"})' + Count({"recWindow"})'
    BY <1>4, <1>5, <1>6
  <1>8. tries' <= Count({"recOne"})' + Count({"recWindow"})' + Count({"recStamp"})'
    BY <1>4, <1>6, <1>7
  <1> QED BY <1>2, <1>7, <1>8 DEF BoundInv, ClosedBound, NewEntry

LEMMA LimiterKeepsBound ==
  ASSUME at \in AtType, LimiterType, ForgivenInv, BoundInv, NEW r \in Request, LimiterStep(r)
  PROVE  BoundInv'
  <1>0. /\ held \in [Request -> Entry \cup {None}] /\ slot \in Entry \cup {None}
        /\ entry \in [Entry -> [count : Nat, open : BOOLEAN]]
    BY DEF LimiterType
  <1>1. CASE ClearAuthFailure(r)
    BY <1>1 DEF ClearAuthFailure, BoundInv
  <1>2. CASE slot = None /\ (CheckFind(r) \/ RecordFind(r))
    BY <1>2, NewKeepsBound DEF CheckFind, RecordFind
  <1>3. CASE slot = None /\ ~(CheckFind(r) \/ RecordFind(r) \/ ClearAuthFailure(r))
    <2>1. slot' = slot /\ tries' = tries
      BY <1>3, LimiterStep(r) DEF LimiterStep, CheckWindow, CheckZero, CheckStamp, CheckCount,
         RecordWindow, RecordOne, RecordStamp, RecordAdd, Release, limiter
    <2> QED BY <1>3, <2>1 DEF BoundInv
  <1> SUFFICES ASSUME slot # None, ~ClearAuthFailure(r)
               PROVE  BoundInv'
    BY <1>1, <1>2, <1>3
  <1>4. slot \in Entry /\ slot' = slot /\ entry[slot] \in [count : Nat, open : BOOLEAN]
    BY <1>0, LimiterStep(r) DEF LimiterStep, CheckFind, CheckWindow, CheckZero, CheckStamp, CheckCount,
       RecordFind, RecordWindow, RecordOne, RecordStamp, RecordAdd, Release, limiter, LoadOrStore
  <1>5. PICK next, h : /\ Goto(r, next) /\ (held' = held \/ held' = [held EXCEPT ![r] = h])
    BY LimiterStep(r) DEF LimiterStep, CheckFind, CheckWindow, CheckZero, CheckStamp, CheckCount,
       RecordFind, RecordWindow, RecordOne, RecordStamp, RecordAdd, Release, limiter, LoadOrStore
  <1>6. OthersKeepRoles(r) /\ at'[r] = next
    BY <1>0, <1>4, <1>5, OthersKeep
  <1>7. ASSUME NEW en, Release(r, en)
        PROVE  held'[r] = None /\ entry'[slot] = en[slot]
    BY <1>0, <1>4, <1>7 DEF Release, Collected
  <1>8. ASSUME held[r] # slot, NEW en, en \in {entry, SetCount(r, 0), SetCount(r, 1), Stamped(r),
                                         SetCount(r, entry[held[r]].count + 1)}
        PROVE  en[slot] = entry[slot]
    BY <1>0, <1>4, <1>8 DEF SetCount, Stamped
  <1>9. ASSUME held[r] = slot
        PROVE  /\ \A n : SetCount(r, n)[slot] = [entry[slot] EXCEPT !.count = n]
               /\ Stamped(r)[slot] = [entry[slot] EXCEPT !.open = TRUE]
    BY <1>0, <1>4, <1>9 DEF SetCount, Stamped
  <1>10. ASSUME NEW a, at[r] = a
         PROVE  /\ a = "find" => Role(r) = "none"
                /\ a \in Admitted => Role(r) = "past"
                /\ a \in Checking => Role(r) = IF held[r] = slot THEN a ELSE "past"
                /\ a \in {"recWindow", "recOne", "recStamp", "recAdd"} =>
                     Role(r) = IF held[r] = slot THEN a ELSE "none"
    BY <1>10 DEF Role, Admitted, Checking, Working, Counting
  <1>11. ASSUME NEW a, at'[r] = a
         PROVE  /\ a \in {"idle", "handler"} => Role(r)' = "none"
                /\ a \in Admitted => Role(r)' = "past"
                /\ a \in Checking => Role(r)' = IF held'[r] = slot THEN a ELSE "past"
                /\ a \in {"recWindow", "recOne", "recStamp", "recAdd"} =>
                     Role(r)' = IF held'[r] = slot THEN a ELSE "none"
    BY <1>4, <1>11 DEF Role, Admitted, Checking, Working, Counting
  <1>12. ASSUME TakesPart(r) PROVE BoundInv'
    BY <1>4, <1>6, <1>12, PartKeepsBound
  <1>13. ASSUME entry'[slot] = entry[slot], tries' = tries, Role(r) \in {"past", "none", "window", "count"},
                Role(r)' \in {"none", "window", "count"} \/ Role(r)' = Role(r)
         PROVE  BoundInv'
    BY <1>4, <1>6, <1>13, TakesNoPart
  <1>14. entry[slot] = [entry[slot] EXCEPT !.count = entry[slot].count]
    BY <1>4
  <1>15. CASE CheckFind(r)
    <2>1. Role(r) = "none" /\ Role(r)' = "window" /\ entry'[slot] = entry[slot] /\ tries' = tries
      BY <1>0, <1>4, <1>6, <1>10, <1>11, <1>15 DEF CheckFind, LoadOrStore, Goto, AtType, Checking
    <2> QED BY <1>13, <2>1
  <1>16. CASE CheckWindow(r)
    <2>1. held' = held /\ entry' = entry /\ tries' = tries /\ at[r] = "window"
          /\ at'[r] = IF entry[held[r]].open THEN "count" ELSE "zero"
      BY <1>6, <1>16 DEF CheckWindow, limiter, Goto, AtType
    <2>2. CASE held[r] = slot
      <3>1. Role(r) = "window" /\ Role(r)' = IF entry[slot].open THEN "count" ELSE "zero"
        BY <1>10, <1>11, <2>1, <2>2 DEF Checking
      <3> QED BY <1>12, <2>1, <3>1 DEF TakesPart
    <2>3. CASE held[r] # slot
      <3>1. Role(r) = "past" /\ Role(r)' = "past"
        BY <1>10, <1>11, <2>1, <2>3 DEF Checking
      <3> QED BY <1>13, <2>1, <3>1
    <2> QED BY <2>2, <2>3
  <1>17. CASE CheckZero(r)
    <2>1. held' = held /\ entry' = SetCount(r, 0) /\ tries' = tries /\ at[r] = "zero" /\ at'[r] = "stamp"
      BY <1>6, <1>17 DEF CheckZero, Goto, AtType
    <2>2. CASE held[r] = slot
      <3>1. Role(r) = "zero" /\ Role(r)' = "stamp"
        BY <1>10, <1>11, <2>1, <2>2 DEF Checking
      <3> QED BY <1>9, <1>12, <2>1, <2>2, <3>1 DEF TakesPart
    <2>3. CASE held[r] # slot
      <3>1. Role(r) = "past" /\ Role(r)' = "past"
        BY <1>10, <1>11, <2>1, <2>3 DEF Checking
      <3> QED BY <1>8, <1>13, <2>1, <2>3, <3>1
    <2> QED BY <2>2, <2>3
  <1>18. CASE CheckStamp(r)
    <2>1. held' = held /\ entry' = Stamped(r) /\ tries' = tries /\ at[r] = "stamp" /\ at'[r] = "count"
      BY <1>6, <1>18 DEF CheckStamp, Goto, AtType
    <2>2. CASE held[r] = slot
      <3>1. Role(r) = "stamp" /\ Role(r)' = "count"
        BY <1>10, <1>11, <2>1, <2>2 DEF Checking
      <3> QED BY <1>9, <1>12, <2>1, <2>2, <3>1 DEF TakesPart
    <2>3. CASE held[r] # slot
      <3>1. Role(r) = "past" /\ Role(r)' = "past"
        BY <1>10, <1>11, <2>1, <2>3 DEF Checking
      <3> QED BY <1>8, <1>13, <2>1, <2>3, <3>1
    <2> QED BY <2>2, <2>3
  <1>19. CASE CheckCount(r)
    <2>1. held'[r] = None /\ entry'[slot] = entry[slot] /\ tries' = tries /\ at[r] = "count"
          /\ at'[r] = IF entry[held[r]].count >= FailureLimit THEN "idle" ELSE "auth"
      BY <1>6, <1>7, <1>19 DEF CheckCount, Goto, AtType
    <2>2. CASE held[r] = slot /\ at'[r] = "auth"
      <3>1. Role(r) = "count" /\ Role(r)' = "past" /\ entry[slot].count < FailureLimit
        BY <1>4, <1>10, <1>11, <2>1, <2>2, LimiterAssumption DEF Checking, Admitted
      <3> QED BY <1>12, <2>1, <3>1 DEF TakesPart
    <2>3. CASE held[r] = slot /\ at'[r] = "idle"
      <3>1. Role(r) = "count" /\ Role(r)' = "none"
        BY <1>10, <1>11, <2>1, <2>3 DEF Checking
      <3> QED BY <1>13, <2>1, <3>1
    <2>4. CASE held[r] # slot
      <3>1. Role(r) = "past" /\ Role(r)' \in {"past", "none"}
        BY <1>10, <1>11, <2>1, <2>4 DEF Checking, Admitted
      <3> QED BY <1>13, <2>1, <3>1
    <2> QED BY <2>1, <2>2, <2>3, <2>4
  <1>20. CASE RecordFind(r)
    <2>1. Role(r) = "past" /\ Role(r)' = "recWindow" /\ entry'[slot] = entry[slot]
          /\ tries' = UpTo(TriesCap, tries + 1)
      BY <1>0, <1>4, <1>6, <1>10, <1>11, <1>20 DEF RecordFind, LoadOrStore, Goto, AtType, Admitted
    <2> QED BY <1>12, <2>1 DEF TakesPart
  <1>21. CASE RecordWindow(r)
    <2>1. held' = held /\ entry' = entry /\ tries' = tries /\ at[r] = "recWindow"
          /\ at'[r] = IF entry[held[r]].open THEN "recAdd" ELSE "recOne"
      BY <1>6, <1>21 DEF RecordWindow, limiter, Goto, AtType
    <2>2. CASE held[r] = slot
      <3>1. Role(r) = "recWindow" /\ Role(r)' = IF entry[slot].open THEN "recAdd" ELSE "recOne"
        BY <1>10, <1>11, <2>1, <2>2
      <3> QED BY <1>12, <2>1, <3>1 DEF TakesPart
    <2>3. CASE held[r] # slot
      <3>1. Role(r) = "none" /\ Role(r)' = "none"
        BY <1>10, <1>11, <2>1, <2>3
      <3> QED BY <1>13, <2>1, <3>1
    <2> QED BY <2>2, <2>3
  <1>22. CASE RecordOne(r)
    <2>1. held' = held /\ entry' = SetCount(r, 1) /\ tries' = tries /\ at[r] = "recOne" /\ at'[r] = "recStamp"
      BY <1>6, <1>22 DEF RecordOne, Goto, AtType
    <2>2. CASE held[r] = slot
      <3>1. Role(r) = "recOne" /\ Role(r)' = "recStamp"
        BY <1>10, <1>11, <2>1, <2>2
      <3> QED BY <1>9, <1>12, <2>1, <2>2, <3>1 DEF TakesPart
    <2>3. CASE held[r] # slot
      <3>1. Role(r) = "none" /\ Role(r)' = "none"
        BY <1>10, <1>11, <2>1, <2>3
      <3> QED BY <1>8, <1>13, <2>1, <2>3, <3>1
    <2> QED BY <2>2, <2>3
  <1>23. CASE RecordStamp(r)
    <2>1. entry'[slot] = Stamped(r)[slot] /\ tries' = tries /\ at[r] = "recStamp" /\ at'[r] = "idle"
      BY <1>6, <1>7, <1>23 DEF RecordStamp, Goto, AtType
    <2>2. CASE held[r] = slot
      <3>1. Role(r) = "recStamp" /\ Role(r)' = "none"
        BY <1>10, <1>11, <2>1, <2>2
      <3> QED BY <1>9, <1>12, <2>1, <2>2, <3>1 DEF TakesPart
    <2>3. CASE held[r] # slot
      <3>1. Role(r) = "none" /\ Role(r)' = "none"
        BY <1>10, <1>11, <2>1, <2>3
      <3> QED BY <1>8, <1>13, <2>1, <2>3, <3>1
    <2> QED BY <2>2, <2>3
  <1>24. CASE RecordAdd(r)
    <2>1. entry'[slot] = SetCount(r, entry[held[r]].count + 1)[slot] /\ tries' = tries
          /\ at[r] = "recAdd" /\ at'[r] = "idle"
      BY <1>6, <1>7, <1>24 DEF RecordAdd, Goto, AtType
    <2>2. CASE held[r] = slot
      <3>1. Role(r) = "recAdd" /\ Role(r)' = "none"
        BY <1>10, <1>11, <2>1, <2>2
      <3>2. entry'[slot] = [entry[slot] EXCEPT !.count = entry[slot].count + 1]
        BY <1>9, <2>1, <2>2
      <3> QED BY <1>12, <2>1, <3>1, <3>2 DEF TakesPart
    <2>3. CASE held[r] # slot
      <3>1. Role(r) = "none" /\ Role(r)' = "none"
        BY <1>10, <1>11, <2>1, <2>3
      <3> QED BY <1>8, <1>13, <2>1, <2>3, <3>1
    <2> QED BY <2>2, <2>3
  <1> QED BY <1>15, <1>16, <1>17, <1>18, <1>19, <1>20, <1>21, <1>22, <1>23, <1>24, LimiterStep(r)
          DEF LimiterStep

\* The other steps of a request only let go of its attempt.
LEMMA OtherKeepsBound ==
  ASSUME at \in AtType, LimiterType, BoundInv, NEW r \in Request, at[r] \notin Working,
         NEW next, next \notin Working, next \in Admitted => at[r] \in Admitted,
         Goto(r, next), UNCHANGED limiter
  PROVE  BoundInv'
  <1>1. slot' = slot /\ held' = held /\ entry' = entry /\ tries' = tries
    BY DEF limiter
  <1>2. OthersKeepRoles(r) /\ at'[r] = next
    BY <1>1, OthersKeep DEF LimiterType
  <1>3. Role(r) = (IF at[r] \in Admitted THEN "past" ELSE "none")
        /\ Role(r)' = (IF next \in Admitted THEN "past" ELSE "none")
    BY <1>2 DEF Role, Checking, Working
  <1>4. CASE slot = None
    BY <1>1, <1>4 DEF BoundInv
  <1>5. CASE slot # None
    BY <1>1, <1>2, <1>3, <1>5, TakesNoPart
  <1> QED BY <1>4, <1>5

LEMMA WindowEndsKeepsBound ==
  ASSUME LimiterType, BoundInv, NEW e \in Entry, WindowEnds(e)
  PROVE  BoundInv'
  <1>1. at' = at /\ slot' = slot /\ held' = held
        /\ entry' = [entry EXCEPT ![e].open = FALSE] /\ tries' = IF e = slot THEN 0 ELSE tries
    BY DEF WindowEnds
  <1>2. \A S : Count(S)' = Count(S)
    BY <1>1 DEF Count, WithRole, Role
  <1>3. CASE slot = e
    <2>1. ~entry'[slot].open /\ tries' = 0 /\ slot' # None
      BY <1>1, <1>3, LimiterAssumption DEF LimiterType
    <2>2. 0 <= Count({"recOne"})' + Count({"recWindow"})' + Count({"recStamp"})'
          /\ 0 <= Count({"recOne"})' + Count({"recWindow"})'
      BY <1>2, Sizes
    <2> QED BY <1>1, <1>3, <2>1, <2>2 DEF BoundInv, ClosedBound
  <1>4. CASE slot # e
    <2>1. (slot # None => entry'[slot] = entry[slot]) /\ tries' = tries
      BY <1>1, <1>4 DEF LimiterType
    <2> QED BY <1>1, <1>2, <2>1 DEF BoundInv
  <1> QED BY <1>3, <1>4

LEMMA BoundInit == Init => BoundInv
  BY DEF Init, LimiterInit, BoundInv

LEMMA BoundNext == Inv /\ ForgivenInv /\ BoundInv /\ [Next]_vars => BoundInv'
  <1> SUFFICES ASSUME Inv, ForgivenInv, BoundInv, [Next]_vars PROVE BoundInv'
    OBVIOUS
  <1>0. at \in AtType /\ LimiterType
    BY DEF Inv
  <1>1. ASSUME NEW r \in Request, LimiterStep(r)
        PROVE  BoundInv'
    BY <1>0, <1>1, LimiterKeepsBound
  <1>2. ASSUME NEW r \in Request, Begin(r) \/ AuthAtOnce(r) \/ AuthJoin(r) \/ AuthTake(r) \/ AuthRead(r)
        PROVE  BoundInv'
    BY <1>0, <1>2, OtherKeepsBound
       DEF Begin, AuthAtOnce, AuthJoin, AuthTake, AuthRead, Working, Counting, Admitted
  <1>3. ASSUME NEW r \in Request, HandleAtOnce(r) \/ HandleJoin(r) \/ HandleScan(r) \/ HandlerTake(r)
        PROVE  BoundInv'
    BY <1>0, <1>3, OtherKeepsBound
       DEF HandleAtOnce, HandleJoin, HandleScan, HandlerTake, AfterTake, Waits, Working, Counting, Admitted
  <1>4. ASSUME NEW r \in Request,
               \/ ReadDone(r) \/ WriteDone(r) \/ RenewReadBack(r)
               \/ Reply(r) \/ ReplyEnd(r) \/ NilSession(r)
        PROVE  BoundInv'
    BY <1>0, <1>4, OtherKeepsBound
       DEF ReadDone, WriteDone, RenewReadBack, Reply, ReplyEnd, NilSession, Working, Counting, Admitted
  <1>5. ASSUME NEW e \in Entry, WindowEnds(e)
        PROVE  BoundInv'
    BY <1>0, <1>5, WindowEndsKeepsBound
  <1>6. ASSUME ScanStep \/ UNCHANGED vars
        PROVE  BoundInv'
    <2>1. UNCHANGED <<at, limiter>>
      BY <1>6 DEF ScanStep, ScanTake, ScanDone, vars
    <2> QED BY <2>1 DEF limiter, BoundInv, Count, WithRole, Role
  <1> QED BY <1>1, <1>2, <1>3, <1>4, <1>5, <1>6 DEF Next, RequestStep

\* However many requests race on the count and the window of one address, what
\* they can get through a window is bounded.
THEOREM WindowsBound == Spec => []WindowBound
  <1>1. Inv /\ BoundInv => WindowBound
    <2> SUFFICES ASSUME Inv, BoundInv PROVE tries <= WindowLimit
      BY DEF WindowBound
    <2>1. CASE slot = None
      <3>1. Cardinality(Request) \in Nat
        BY Sizes
      <3> QED BY <2>1, <3>1, BudgetGrows DEF BoundInv, WindowLimit
    <2>2. CASE slot # None
      <3>1. PICK a \in Nat, o \in Nat, w \in Nat, q \in Nat, p \in Nat, z \in Nat, s \in Nat :
              /\ a = Count({"past"}) /\ o = Count({"recOne"}) /\ w = Count({"recWindow"})
              /\ q = Count({"recStamp"}) /\ p = Count(Adding) /\ z = Count(Zeroing)
              /\ s = Count({"stamp"})
        BY Sizes
      <3>2. PICK t \in Nat, c \in Nat : t = tries /\ c = entry[slot].count
        BY <2>2, BoundNumbers DEF Inv
      <3>3. o <= z /\ w <= p /\ p + q + a + z + s <= Cardinality(Request)
            /\ p + q + a + z <= Cardinality(Request)
        BY <3>1, Sizes
      <3>4. \/ OpenBound(t, c, a, o, p, z)
            \/ ClosedBound(t, c, o, w, q, s)
        BY <2>2, <3>1, <3>2 DEF BoundInv
      <3>5. OpenLeads(t, c, a, o, p, z, q) \/ ClosedLeads(t, c, a, o, p, z, q, w, s)
        BY <3>3, <3>4, OpenSteps, ClosedSteps
      <3> QED BY <3>2, <3>5 DEF OpenLeads, ClosedLeads
    <2> QED BY <2>1, <2>2
  <1>2. Spec => [](Inv /\ ForgivenInv /\ BoundInv)
    BY InvInit, InvNext, ForgivenInit, ForgivenNext, BoundInit, BoundNext, PTL DEF Spec
  <1> QED BY <1>1, <1>2, PTL
=============================================================================

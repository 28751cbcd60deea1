------------------------- MODULE CredentialsProofs -------------------------
(***************************************************************************)
(* Proofs about Credentials for any number of keys and requests, and any   *)
(* lifetimes: the four invariants of the run.                              *)
(***************************************************************************)
EXTENDS Credentials, TLAPS

\* The types of a row and of a request in flight.
Row == [st : {"unminted", "live", "deleting", "revoked", "flushed"},
        expires : Int \cup {Never}, legacy : BOOLEAN]
Flight == [at : {"idle", "evict", "load", "match"}, key : Key \cup {None},
           kind : {"apiKey", "token"}, begin : 0..MaxTime, late : BOOLEAN, found : BOOLEAN]

\* A request that has read the row of k and will be granted.
Holds(r, k) == req[r].at = "match" /\ req[r].key = k /\ req[r].found

\* The history of a row: while it is valid, it was last valid now.
Watched == \A k \in Key :
  /\ validAt[k] <= now
  /\ Valid(k, now) => validAt[k] = now

\* No request is in flight for long, and what it read was valid since it began.
InTime == \A r \in Request : req[r].at # "idle" =>
  /\ req[r].key \in Key
  /\ req[r].begin <= now /\ now <= req[r].begin + MaxHandling
  /\ req[r].at = "match" /\ req[r].found => req[r].begin <= validAt[req[r].key]

\* An entry was stored by such a request.
EntriesFresh == \A k \in Key :
  cache[k] # None => cache[k] <= validAt[k] + MaxHandling + CacheTTL

\* The row of a deletion in progress is no longer read, and entries of it
\* are only those the flush has still to visit.
DeletesFlush ==
  /\ admin.at = "flush" => admin.key \in Key /\ cred[admin.key].st = "deleting"
  /\ \A k \in Key : cred[k].st = "deleting" =>
       /\ admin.at = "flush" /\ admin.key = k
       /\ k \notin raced => (k \in admin.todo \/ cache[k] = None)
  /\ \A k \in Key : cred[k].st \in {"deleting", "flushed"} /\ k \notin raced =>
       \A r \in Request : ~Holds(r, k)

IInv == /\ TypeOK /\ Watched /\ InTime /\ EntriesFresh /\ DeletesFlush
        /\ FlushRemovesKey /\ GrantsAreFresh

\* What a lifetime promises to rows, entries and requests in flight: a renewal
\* may shorten it, but only to a moment that lies ahead.
Promises == \A k \in Key :
  /\ cred[k].st = "live" => IF cred[k].expires = Never THEN due[k] = Never
                            ELSE due[k] # Never /\ cred[k].expires = due[k] + UtcOffset
  /\ due[k] # Never =>
       /\ cache[k] # None => cache[k] <= due[k] + MaxHandling + CacheTTL
       /\ \A r \in Request : Holds(r, k) => req[r].begin <= due[k]

LInv == IInv /\ Promises /\ LifetimeKept

-----------------------------------------------------------------------------
\* Nothing is minted, cached or in flight at the beginning.
LEMMA InitIInv == Init => IInv
<1> SUFFICES ASSUME Init PROVE IInv
  OBVIOUS
<1> USE CredentialAssumption DEF Init
<1>1. TypeOK
  BY DEF TypeOK, NoCred, Quiet, NoAdmin
<1>2. Watched
  BY DEF Watched, Valid, NoCred
<1>3. InTime /\ EntriesFresh
  BY DEF InTime, EntriesFresh, Quiet
<1>4. DeletesFlush /\ FlushRemovesKey
  BY DEF DeletesFlush, FlushRemovesKey, Holds, NoCred, Quiet, NoAdmin
<1>5. GrantsAreFresh
  BY DEF GrantsAreFresh
<1> QED BY <1>1, <1>2, <1>3, <1>4, <1>5 DEF IInv

\* A freshly minted row is nobody's yet.
LEMMA MintKeeps ==
  ASSUME IInv, NEW k \in Key, NEW ttl \in {0, 1, CredentialTTL}, NEW legacy \in BOOLEAN, Mint(k, ttl, legacy)
  PROVE  IInv'
<1> USE CredentialAssumption DEF IInv, Mint
<1>1. TypeOK'
  BY DEF TypeOK, SeenValid, Stamp, Unexpired
<1>2. Watched'
  BY DEF Watched, TypeOK, SeenValid, Valid, Unexpired
<1>3. InTime'
  BY DEF InTime, Watched, TypeOK, SeenValid
<1>4. EntriesFresh'
  BY DEF EntriesFresh, Watched, TypeOK, SeenValid
<1>5. DeletesFlush'
  BY DEF DeletesFlush, TypeOK, Holds
<1>6. FlushRemovesKey'
  BY DEF FlushRemovesKey, DeletesFlush, TypeOK, Holds
<1>7. GrantsAreFresh'
  BY DEF GrantsAreFresh
<1> QED BY <1>1, <1>2, <1>3, <1>4, <1>5, <1>6, <1>7

\* A renewal changes when a row expires and nothing else.
LEMMA RenewKeeps ==
  ASSUME IInv, NEW k \in Key, Renew(k)
  PROVE  IInv'
<1> USE CredentialAssumption DEF IInv, Renew
<1>1. TypeOK'
  BY DEF TypeOK, SeenValid, Stamp, Unexpired
<1>2. Watched'
  BY DEF Watched, TypeOK, SeenValid, Valid, Unexpired
<1>3. InTime'
  BY DEF InTime, Watched, TypeOK, SeenValid
<1>4. EntriesFresh'
  BY DEF EntriesFresh, Watched, TypeOK, SeenValid
<1>5. DeletesFlush'
  BY DEF DeletesFlush, TypeOK, Holds
<1>6. FlushRemovesKey'
  BY DEF FlushRemovesKey, DeletesFlush, TypeOK, Holds
<1>7. GrantsAreFresh'
  BY DEF GrantsAreFresh
<1> QED BY <1>1, <1>2, <1>3, <1>4, <1>5, <1>6, <1>7

\* A revocation takes the row away from later requests only.
LEMMA ManageRevokeKeeps ==
  ASSUME IInv, NEW k \in Key, ManageRevoke(k)
  PROVE  IInv'
<1> USE CredentialAssumption DEF IInv, ManageRevoke
<1>1. TypeOK'
  <2>1. cred \in [Key -> Row]
    BY DEF TypeOK, Row
  <2>2. cred' \in [Key -> Row]
    BY <2>1 DEF Row
  <2> QED BY <2>2 DEF TypeOK, Row
<1>2. Watched'
  BY DEF Watched, TypeOK, Valid, Unexpired
<1>3. InTime'
  BY DEF InTime, TypeOK
<1>4. EntriesFresh'
  BY DEF EntriesFresh, Watched, TypeOK
<1>5. DeletesFlush'
  BY DEF DeletesFlush, TypeOK, Holds
<1>6. FlushRemovesKey'
  BY DEF FlushRemovesKey, DeletesFlush, TypeOK, Holds
<1>7. GrantsAreFresh'
  BY DEF GrantsAreFresh
<1> QED BY <1>1, <1>2, <1>3, <1>4, <1>5, <1>6, <1>7

\* The requests that hold the row at its deletion make it raced.
LEMMA AdminDeleteKeeps ==
  ASSUME IInv, NEW k \in Key, AdminDelete(k)
  PROVE  IInv'
<1> USE CredentialAssumption DEF IInv, AdminDelete
<1>1. TypeOK'
  <2>1. cred \in [Key -> Row]
    BY DEF TypeOK, Row
  <2>2. cred' \in [Key -> Row]
    BY <2>1 DEF Row
  <2> QED BY <2>2 DEF TypeOK, Row
<1>2. Watched'
  BY DEF Watched, TypeOK, Valid, Unexpired
<1>3. InTime'
  BY DEF InTime, TypeOK
<1>4. EntriesFresh'
  BY DEF EntriesFresh, Watched, TypeOK
<1>5. DeletesFlush'
  BY DEF DeletesFlush, TypeOK, Holds, Holding
<1>6. FlushRemovesKey'
  BY DEF FlushRemovesKey, DeletesFlush, TypeOK, Holds
<1>7. GrantsAreFresh'
  BY DEF GrantsAreFresh
<1> QED BY <1>1, <1>2, <1>3, <1>4, <1>5, <1>6, <1>7

\* Each entry the flush visits goes.
LEMMA AdminFlushKeeps ==
  ASSUME IInv, NEW k \in Key, AdminFlush(k)
  PROVE  IInv'
<1> USE CredentialAssumption DEF IInv, AdminFlush
<1>1. TypeOK'
  BY DEF TypeOK
<1>2. Watched'
  BY DEF Watched, TypeOK, Valid, Unexpired
<1>3. InTime'
  BY DEF InTime, TypeOK
<1>4. EntriesFresh'
  BY DEF EntriesFresh, Watched, TypeOK
<1>5. DeletesFlush'
  BY DEF DeletesFlush, TypeOK, Holds
<1>6. FlushRemovesKey'
  BY DEF FlushRemovesKey, DeletesFlush, TypeOK, Holds
<1>7. GrantsAreFresh'
  BY DEF GrantsAreFresh
<1> QED BY <1>1, <1>2, <1>3, <1>4, <1>5, <1>6, <1>7

\* The flush has visited them all when the request is answered.
LEMMA AdminAnswerKeeps ==
  ASSUME IInv, AdminAnswer
  PROVE  IInv'
<1> USE CredentialAssumption DEF IInv, AdminAnswer
<1>1. TypeOK'
  <2>1. cred \in [Key -> Row]
    BY DEF TypeOK, Row
  <2>2. cred' \in [Key -> Row]
    BY <2>1 DEF Row, DeletesFlush
  <2> QED BY <2>2 DEF TypeOK, Row, NoAdmin
<1>2. Watched'
  BY DEF Watched, TypeOK, Valid, Unexpired
<1>3. InTime'
  BY DEF InTime, TypeOK
<1>4. EntriesFresh'
  BY DEF EntriesFresh, Watched, TypeOK
<1>5. DeletesFlush'
  BY DEF DeletesFlush, TypeOK, Holds, NoAdmin
<1>6. FlushRemovesKey'
  BY DEF FlushRemovesKey, DeletesFlush, TypeOK, Holds
<1>7. GrantsAreFresh'
  BY DEF GrantsAreFresh
<1> QED BY <1>1, <1>2, <1>3, <1>4, <1>5, <1>6, <1>7

\* A hit is at most as old as its entry.
LEMMA LookupKeeps ==
  ASSUME IInv, NEW r \in Request, NEW k \in Key, Lookup(r, k)
  PROVE  IInv'
<1> USE CredentialAssumption DEF IInv, Lookup
<1>1. TypeOK'
  <2>1. req \in [Request -> Flight]
    BY DEF TypeOK, Flight
  <2>2. now \in 0..MaxTime /\ Revoked(k) \in BOOLEAN
    BY DEF TypeOK, Revoked
  <2> DEFINE begun(at0) == [at |-> at0, key |-> k, kind |-> "apiKey", begin |-> now,
                            late |-> Revoked(k), found |-> FALSE]
  <2>3. begun("load") \in Flight /\ begun("evict") \in Flight
    BY <2>2 DEF Flight
  <2>4. req' = req \/ req' = [req EXCEPT ![r] = begun("load")]
                   \/ req' = [req EXCEPT ![r] = begun("evict")]
    OBVIOUS
  <2> HIDE DEF begun
  <2>5. req' \in [Request -> Flight]
    BY <2>1, <2>3, <2>4
  <2> QED BY <2>5 DEF TypeOK, Flight
<1>2. Watched'
  BY DEF Watched, TypeOK, Valid, Unexpired
<1>3. InTime'
  <2>1. \A q \in Request : q # r \/ req' = req => req'[q] = req[q]
    BY DEF TypeOK
  <2>2. req' = req \/ (req'[r].key = k /\ req'[r].begin = now /\ req'[r].at # "match")
    BY DEF TypeOK
  <2>3. now' = now /\ validAt' = validAt /\ now \in Int
    BY DEF TypeOK
  <2> QED BY <2>1, <2>2, <2>3, SMTT(30) DEF InTime
<1>4. EntriesFresh'
  BY DEF EntriesFresh, Watched, TypeOK
<1>5. DeletesFlush'
  BY DEF DeletesFlush, TypeOK, Holds
<1>6. FlushRemovesKey'
  BY DEF FlushRemovesKey, DeletesFlush, TypeOK, Holds
<1>7. GrantsAreFresh'
  BY DEF GrantsAreFresh, Granted, Age, EntriesFresh, Watched, TypeOK
<1> QED BY <1>1, <1>2, <1>3, <1>4, <1>5, <1>6, <1>7

\* Evicting removes one entry.
LEMMA EvictKeeps ==
  ASSUME IInv, NEW r \in Request, Evict(r)
  PROVE  IInv'
<1> USE CredentialAssumption DEF IInv, Evict
<1>1. TypeOK'
  <2>1. req \in [Request -> Flight]
    BY DEF TypeOK, Flight
  <2>2. cache' \in [Key -> Int \cup {None}] /\ \A k \in Key : cache'[k] # None => cache'[k] <= now + CacheTTL
    BY DEF TypeOK
  <2>3. req' \in [Request -> Flight]
    BY <2>1 DEF Flight
  <2> QED BY <2>2, <2>3 DEF TypeOK, Flight
<1>2. Watched'
  BY DEF Watched, TypeOK, Valid, Unexpired
<1>3. InTime'
  BY DEF InTime, TypeOK
<1>4. EntriesFresh'
  BY DEF EntriesFresh, Watched, TypeOK
<1>5. DeletesFlush'
  BY DEF DeletesFlush, TypeOK, Holds
<1>6. FlushRemovesKey'
  BY DEF FlushRemovesKey, DeletesFlush, TypeOK, Holds
<1>7. GrantsAreFresh'
  BY DEF GrantsAreFresh
<1> QED BY <1>1, <1>2, <1>3, <1>4, <1>5, <1>6, <1>7

\* A token request begins.
LEMMA BeginTokenKeeps ==
  ASSUME IInv, NEW r \in Request, NEW k \in Key, BeginToken(r, k)
  PROVE  IInv'
<1> USE CredentialAssumption DEF IInv, BeginToken
<1>1. TypeOK'
  BY DEF TypeOK, Revoked
<1>2. Watched'
  BY DEF Watched, TypeOK, Valid, Unexpired
<1>3. InTime'
  BY DEF InTime, TypeOK
<1>4. EntriesFresh'
  BY DEF EntriesFresh, Watched, TypeOK
<1>5. DeletesFlush'
  BY DEF DeletesFlush, TypeOK, Holds
<1>6. FlushRemovesKey'
  BY DEF FlushRemovesKey, DeletesFlush, TypeOK, Holds
<1>7. GrantsAreFresh'
  BY DEF GrantsAreFresh
<1> QED BY <1>1, <1>2, <1>3, <1>4, <1>5, <1>6, <1>7

\* A request that reads a valid row reads it now.
LEMMA LoadKeeps ==
  ASSUME IInv, NEW r \in Request, Load(r)
  PROVE  IInv'
<1> USE CredentialAssumption DEF IInv, Load
<1>1. TypeOK'
  <2> DEFINE k == req[r].key
             found == Valid(k, now) /\ (req[r].kind = "token" => cred[k].legacy)
  <2>1. req \in [Request -> Flight] /\ k \in Key
    BY DEF TypeOK, Flight, InTime
  <2>2. found \in BOOLEAN
    BY <2>1 DEF TypeOK, Valid, Unexpired
  <2>3. req' = [req EXCEPT ![r].at = "match", ![r].found = found]
    OBVIOUS
  <2>4. PICK b \in BOOLEAN : req' = [req EXCEPT ![r].at = "match", ![r].found = b]
    BY <2>2, <2>3
  <2>5. [req[r] EXCEPT !.at = "match"] \in Flight
    BY <2>1 DEF Flight
  <2>6. [[req[r] EXCEPT !.at = "match"] EXCEPT !.found = b] \in Flight
    BY <2>5 DEF Flight
  <2>7. req' \in [Request -> Flight]
    BY <2>1, <2>4, <2>6
  <2> QED BY <2>7 DEF TypeOK, Flight
<1>2. Watched'
  BY DEF Watched, TypeOK, Valid, Unexpired
<1>3. InTime'
  BY DEF InTime, Watched, TypeOK, Valid
<1>4. EntriesFresh'
  BY DEF EntriesFresh, Watched, TypeOK
<1>5. DeletesFlush'
  BY DEF DeletesFlush, TypeOK, Holds, Valid
<1>6. FlushRemovesKey'
  BY DEF FlushRemovesKey, DeletesFlush, TypeOK, Holds
<1>7. GrantsAreFresh'
  BY DEF GrantsAreFresh
<1> QED BY <1>1, <1>2, <1>3, <1>4, <1>5, <1>6, <1>7

\* What a request grants or stores was valid after it began.
LEMMA MatchKeeps ==
  ASSUME IInv, NEW r \in Request, Match(r)
  PROVE  IInv'
<1> USE CredentialAssumption DEF IInv, Match
<1>1. TypeOK'
  <2>1. now + CacheTTL \in Int /\ now' = now /\ 0 \in 0..MaxTime
    BY DEF TypeOK
  <2>2. cache' = cache \/ cache' = [cache EXCEPT ![req[r].key] = now + CacheTTL]
    OBVIOUS
  <2>3. cache' \in [Key -> Int \cup {None}]
    BY <2>1, <2>2 DEF TypeOK
  <2>4. \A k \in Key : cache'[k] # None => cache'[k] <= now + CacheTTL
    BY <2>1, <2>2 DEF TypeOK
  <2>5. req \in [Request -> Flight]
    BY DEF TypeOK, Flight
  <2>6. req' \in [Request -> Flight]
    BY <2>1, <2>5 DEF Flight, Quiet
  <2> QED BY <2>1, <2>3, <2>4, <2>6 DEF TypeOK, Flight
<1>2. Watched'
  BY DEF Watched, TypeOK, Valid, Unexpired
<1>3. InTime'
  BY DEF InTime, Watched, TypeOK, Quiet
<1>4. EntriesFresh'
  BY DEF EntriesFresh, Watched, TypeOK, InTime, Quiet
<1>5. DeletesFlush'
  BY DEF DeletesFlush, TypeOK, Holds, Quiet
<1>6. FlushRemovesKey'
  BY DEF FlushRemovesKey, DeletesFlush, TypeOK, Holds, Quiet
<1>7. GrantsAreFresh'
  BY DEF GrantsAreFresh, Granted, Age, InTime, Watched, TypeOK
<1> QED BY <1>1, <1>2, <1>3, <1>4, <1>5, <1>6, <1>7

\* Time passes for rows and requests alike.
LEMMA TickKeeps ==
  ASSUME IInv, Tick
  PROVE  IInv'
<1> USE CredentialAssumption DEF IInv, Tick
<1>1. TypeOK'
  BY DEF TypeOK, Valid, Unexpired
<1>2. Watched'
  BY DEF Watched, TypeOK, Valid, Unexpired
<1>3. InTime'
  BY DEF InTime, Watched, TypeOK, Valid, Unexpired
<1>4. EntriesFresh'
  BY DEF EntriesFresh, Watched, TypeOK, Valid, Unexpired
<1>5. DeletesFlush'
  BY DEF DeletesFlush, TypeOK, Holds
<1>6. FlushRemovesKey'
  BY DEF FlushRemovesKey, DeletesFlush, TypeOK, Holds
<1>7. GrantsAreFresh'
  BY DEF GrantsAreFresh
<1> QED BY <1>1, <1>2, <1>3, <1>4, <1>5, <1>6, <1>7

\* A restart forgets requests and entries, and commits a deletion.
LEMMA RestartKeeps ==
  ASSUME IInv, Restart
  PROVE  IInv'
<1> USE CredentialAssumption DEF IInv, Restart
<1>1. TypeOK'
  BY DEF TypeOK, Quiet, NoAdmin
<1>2. Watched'
  BY DEF Watched, TypeOK, Valid, Unexpired
<1>3. InTime'
  BY DEF InTime, Watched, TypeOK, Quiet
<1>4. EntriesFresh'
  BY DEF EntriesFresh, Watched, TypeOK
<1>5. DeletesFlush'
  BY DEF DeletesFlush, TypeOK, Holds, Quiet, NoAdmin
<1>6. FlushRemovesKey'
  BY DEF FlushRemovesKey, DeletesFlush, TypeOK, Holds
<1>7. GrantsAreFresh'
  BY DEF GrantsAreFresh
<1> QED BY <1>1, <1>2, <1>3, <1>4, <1>5, <1>6, <1>7

\* A stuttering step.
LEMMA StutterKeeps ==
  ASSUME IInv, UNCHANGED vars
  PROVE  IInv'
<1> USE DEF IInv, vars
<1>1. TypeOK' /\ Watched' /\ InTime'
  BY DEF TypeOK, Watched, InTime, Valid
<1>2. EntriesFresh' /\ DeletesFlush'
  BY DEF EntriesFresh, DeletesFlush, Holds
<1>3. FlushRemovesKey' /\ GrantsAreFresh'
  BY DEF FlushRemovesKey, GrantsAreFresh
<1> QED BY <1>1, <1>2, <1>3

\* Every step of the specification is one of these.
LEMMA NextKeeps ==
  ASSUME IInv, [Next]_vars
  PROVE  IInv'
<1>1. CASE Table
  BY <1>1, MintKeeps, RenewKeeps, ManageRevokeKeeps, AdminDeleteKeeps, AdminFlushKeeps DEF Table
<1>2. CASE Serve
  BY <1>2, LookupKeeps, EvictKeeps, BeginTokenKeeps, LoadKeeps, MatchKeeps DEF Serve
<1> QED BY <1>1, <1>2, AdminAnswerKeeps, TickKeeps, RestartKeeps, StutterKeeps DEF Next

\* The invariant of the proofs holds in every reachable state.
THEOREM SpecIInv == Spec => []IInv
BY InitIInv, NextKeeps, PTL DEF Spec

\* Every variable keeps its type, and no cache entry is ahead of CacheTTL
\* (authenticateAPIKey).
THEOREM TypeCorrect == Spec => []TypeOK
<1>1. IInv => TypeOK
  BY DEF IInv
<1> QED BY <1>1, SpecIInv, PTL

\* How long after its last valid moment a key can be granted, for any races of
\* authenticateAPIKey with revocations, renewals, expiry and other requests.
THEOREM FreshGrants == Spec => []GrantsAreFresh
<1>1. IInv => GrantsAreFresh
  BY DEF IInv
<1> QED BY <1>1, SpecIInv, PTL

\* handleAdminDeleteCredential leaves no entry of the key behind but those of
\* requests that had read the row before.
THEOREM FlushedKeysAreGone == Spec => []FlushRemovesKey
<1>1. IInv => FlushRemovesKey
  BY DEF IInv
<1> QED BY <1>1, SpecIInv, PTL

-----------------------------------------------------------------------------
\* Lifetimes, on a server whose local time is not ahead of UTC.
LEMMA PromisesKept ==
  ASSUME UtcOffset <= 0, LInv, [Next]_vars
  PROVE  Promises' /\ LifetimeKept'
<1> USE CredentialAssumption DEF LInv, IInv
<1>0. grant' = None => LifetimeKept'
  BY DEF LifetimeKept
<1>1. CASE \E k \in Key, ttl \in {0, 1, CredentialTTL}, legacy \in BOOLEAN : Mint(k, ttl, legacy)
  <2>1. Promises'
    BY <1>1 DEF Mint, SeenValid, Stamp, Promises, TypeOK, Holds, InTime
  <2>2. LifetimeKept'
    BY <1>0, <1>1 DEF Mint
  <2> QED BY <2>1, <2>2
<1>2. CASE \E k \in Key : Renew(k)
  <2>1. Promises'
    BY <1>2 DEF Renew, SeenValid, Stamp, Promises, TypeOK, Holds, InTime
  <2>2. LifetimeKept'
    BY <1>0, <1>2 DEF Renew
  <2> QED BY <2>1, <2>2
<1>3. CASE \E k \in Key : ManageRevoke(k)
  <2>1. Promises'
    BY <1>3 DEF ManageRevoke, Promises, TypeOK, Holds
  <2>2. LifetimeKept'
    BY <1>0, <1>3 DEF ManageRevoke
  <2> QED BY <2>1, <2>2
<1>4. CASE \E k \in Key : AdminDelete(k)
  <2>1. Promises'
    BY <1>4 DEF AdminDelete, Promises, TypeOK, Holds
  <2>2. LifetimeKept'
    BY <1>0, <1>4 DEF AdminDelete
  <2> QED BY <2>1, <2>2
<1>5. CASE \E k \in Key : AdminFlush(k)
  <2>1. Promises'
    BY <1>5 DEF AdminFlush, Promises, TypeOK, Holds
  <2>2. LifetimeKept'
    BY <1>0, <1>5 DEF AdminFlush
  <2> QED BY <2>1, <2>2
<1>6. CASE AdminAnswer
  <2>1. Promises'
    BY <1>6 DEF AdminAnswer, Promises, TypeOK, Holds
  <2>2. LifetimeKept'
    BY <1>0, <1>6 DEF AdminAnswer
  <2> QED BY <2>1, <2>2
<1>7. CASE \E r \in Request, k \in Key : Lookup(r, k)
  <2>1. Promises'
    BY <1>7 DEF Lookup, Promises, TypeOK, Holds
  <2>2. LifetimeKept'
    BY <1>7 DEF Lookup, LifetimeKept, Granted, Promises, TypeOK, Holds, InTime
  <2> QED BY <2>1, <2>2
<1>8. CASE \E r \in Request : Evict(r)
  <2>1. Promises'
    BY <1>8 DEF Evict, Promises, TypeOK, Holds
  <2>2. LifetimeKept'
    BY <1>0, <1>8 DEF Evict
  <2> QED BY <2>1, <2>2
<1>9. CASE \E r \in Request, k \in Key : BeginToken(r, k)
  <2>1. Promises'
    BY <1>9 DEF BeginToken, Promises, TypeOK, Holds
  <2>2. LifetimeKept'
    BY <1>0, <1>9 DEF BeginToken
  <2> QED BY <2>1, <2>2
<1>10. CASE \E r \in Request : Load(r)
  <2> PICK r \in Request : Load(r)
    BY <1>10
  <2>1. Promises'
    <3>1. \A q \in Request, k \in Key : Holds(q, k)' => Holds(q, k) \/ (q = r /\ k = req[r].key /\ Valid(k, now))
      <4>1. \A q \in Request : q # r => req'[q] = req[q]
        BY DEF Load, TypeOK
      <4>2. req'[r].key = req[r].key /\ (req'[r].found => Valid(req[r].key, now))
        BY DEF Load, TypeOK
      <4>3. ASSUME NEW q \in Request, NEW k \in Key, Holds(q, k)'
            PROVE  Holds(q, k) \/ (q = r /\ k = req[r].key /\ Valid(k, now))
        <5>1. CASE q # r
          BY <5>1, <4>1, <4>3 DEF Holds
        <5>2. CASE q = r
          BY <5>2, <4>2, <4>3 DEF Holds, Valid
        <5> QED BY <5>1, <5>2
      <4> QED BY <4>3
    <3>2. \A k \in Key : Valid(k, now) /\ due[k] # Never => now <= due[k]
      BY DEF Valid, Unexpired, Promises, TypeOK
    <3>3. req'[r].begin = req[r].begin /\ req[r].begin <= now
      BY DEF Load, TypeOK, InTime
    <3>4. \A q \in Request : req'[q].begin = req[q].begin /\ req[q].begin \in Int
      BY DEF Load, TypeOK
    <3>5. \A k \in Key : due'[k] # Never => \A q \in Request : Holds(q, k)' => req'[q].begin <= due'[k]
      BY <3>1, <3>2, <3>3, <3>4 DEF Load, Promises, TypeOK
    <3> QED BY <3>5 DEF Load, Promises
  <2>2. LifetimeKept'
    BY <1>0 DEF Load
  <2> QED BY <2>1, <2>2
<1>11. CASE \E r \in Request : Match(r)
  <2>1. Promises'
    BY <1>11 DEF Match, Promises, TypeOK, Holds, Quiet, InTime
  <2>2. LifetimeKept'
    BY <1>11 DEF Match, LifetimeKept, Granted, Promises, TypeOK, Holds, InTime
  <2> QED BY <2>1, <2>2
<1>12. CASE Tick
  <2>1. Promises'
    BY <1>12 DEF Tick, Promises, TypeOK, Holds
  <2>2. LifetimeKept'
    BY <1>0, <1>12 DEF Tick
  <2> QED BY <2>1, <2>2
<1>13. CASE Restart
  <2>1. Promises'
    BY <1>13 DEF Restart, Promises, TypeOK, Holds, Quiet
  <2>2. LifetimeKept'
    BY <1>0, <1>13 DEF Restart
  <2> QED BY <2>1, <2>2
<1>14. CASE UNCHANGED vars
  <2>1. Promises'
    BY <1>14 DEF vars, Promises, TypeOK, Holds
  <2>2. LifetimeKept'
    BY <1>14 DEF vars, LifetimeKept, TypeOK
  <2> QED BY <2>1, <2>2
<1> QED BY <1>1, <1>2, <1>3, <1>4, <1>5, <1>6, <1>7, <1>8, <1>9, <1>10, <1>11, <1>12, <1>13, <1>14 DEF Next, Table, Serve

\* No key outlives its lifetime by more than the cache and the handling time,
\* provided that the server's local time is not ahead of UTC (Stamp).
THEOREM LifetimesKept == ASSUME UtcOffset <= 0 PROVE Spec => []LifetimeKept
<1>1. Init => LInv
  <2> SUFFICES ASSUME Init PROVE LInv
    OBVIOUS
  <2>1. Promises /\ LifetimeKept
    BY CredentialAssumption DEF Init, Promises, LifetimeKept, NoCred
  <2> QED BY <2>1, InitIInv DEF LInv
<1>2. LInv /\ [Next]_vars => LInv'
  BY PromisesKept, NextKeeps DEF LInv
<1>3. LInv => LifetimeKept
  BY DEF LInv
<1> QED BY <1>1, <1>2, <1>3, PTL DEF Spec
=============================================================================

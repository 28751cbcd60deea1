---------------------------- MODULE Credentials ----------------------------
(***************************************************************************)
(* Client credentials: the rows minted, renewed and revoked through the    *)
(* admin API (internal/api/admin.go) and the management UI                 *)
(* (internal/manage/handlers.go), and the requests authenticated against   *)
(* them (internal/api/auth.go) with the API-key cache in between.  A       *)
(* request looks up the cache, reads the table and stores what it found in *)
(* separate steps; a revocation can fall between any two.                  *)
(*                                                                         *)
(* Time is in units of which MaxHandling bounds how long a request is in   *)
(* flight.  A key belongs to one row and is never minted twice.            *)
(***************************************************************************)
EXTENDS Integers, FiniteSets

CONSTANTS
  Key,            \* API keys (32 random characters each)
  Request,        \* requests being authenticated at one time
  CredentialTTL,  \* cfg.CredentialTTL
  CacheTTL,       \* apiKeyCacheTTL
  UtcOffset,      \* local time minus UTC on the server
  MaxHandling,    \* bound: time units a request is in flight
  MaxTime,        \* bound: the clock stops here
  Never, None

ASSUME CredentialAssumption ==
  /\ CredentialTTL \in Nat /\ CacheTTL \in Nat /\ UtcOffset \in Int
  /\ MaxHandling \in Nat /\ MaxTime \in Nat
  /\ Never \notin Int /\ None \notin Int

VARIABLES
  now,       \* UTC clock
  cred,      \* the credential table, and what became of keys not in it
  due,       \* when the promised lifetime of a key ends (history)
  cache,     \* apiKeyCache: expiry of the entry of a key, or None
  req,       \* requests in flight
  admin,     \* the admin API's delete in progress
  raced,     \* keys in the hands of a request when their row was deleted
  validAt,   \* when a key was last valid in the table (history)
  grant      \* what the last step granted, or None

vars == <<now, cred, due, cache, req, admin, raced, validAt, grant>>

NoCred == [st |-> "unminted", expires |-> Never, legacy |-> FALSE]
Quiet  == [at |-> "idle", key |-> None, kind |-> "apiKey", begin |-> 0,
           late |-> FALSE, found |-> FALSE]
NoAdmin == [at |-> "idle", key |-> None, todo |-> {}]

\* expires_at IS NULL OR expires_at > strftime('now'), which is UTC.
Unexpired(c, t) == c.expires = Never \/ c.expires > t
Valid(k, t) == cred[k].st = "live" /\ Unexpired(cred[k], t)
Holding(k) == {r \in Request : req[r].at = "match" /\ req[r].key = k /\ req[r].found}

Init ==
  /\ now = 0 /\ cred = [k \in Key |-> NoCred] /\ due = [k \in Key |-> Never]
  /\ cache = [k \in Key |-> None] /\ req = [r \in Request |-> Quiet]
  /\ admin = NoAdmin /\ raced = {} /\ validAt = [k \in Key |-> 0] /\ grant = None

-----------------------------------------------------------------------------
(* The table.  Both front ends run the same statements.                    *)

\* The expiry written for a lifetime: time.Now() formatted in local time.
Stamp(ttl) == now + ttl + UtcOffset

\* The history of k after its row was written.
SeenValid(k) == [validAt EXCEPT ![k] = IF cred'[k].st = "live" /\ Unexpired(cred'[k], now) THEN now ELSE @]

\* Mint with the lifetime asked for; "0" (and a negative one) never expires.
Mint(k, ttl, legacy) ==
  /\ cred[k].st = "unminted"
  /\ cred' = [cred EXCEPT ![k] =
       [st |-> "live", expires |-> IF ttl > 0 THEN Stamp(ttl) ELSE Never, legacy |-> legacy]]
  /\ due' = [due EXCEPT ![k] = IF ttl > 0 THEN now + ttl ELSE Never]
  /\ validAt' = SeenValid(k)
  /\ grant' = None
  /\ UNCHANGED <<now, cache, req, admin, raced>>

\* Mutant of Renew: the lifetime is added to the old expiry.
RenewExtends(k) ==
  /\ cred[k].st = "live"
  /\ cred' = [cred EXCEPT ![k].expires = IF @ = Never THEN Stamp(CredentialTTL)
                                         ELSE @ + CredentialTTL]
  /\ due' = [due EXCEPT ![k] = now + CredentialTTL]
  /\ validAt' = SeenValid(k)
  /\ grant' = None
  /\ UNCHANGED <<now, cache, req, admin, raced>>

\* Renew: expires_at = now + CredentialTTL, also for a key that never expired.
Renew(k) ==
  /\ cred[k].st = "live"
  /\ cred' = [cred EXCEPT ![k].expires = Stamp(CredentialTTL)]
  /\ due' = [due EXCEPT ![k] = now + CredentialTTL]
  /\ validAt' = SeenValid(k)
  /\ grant' = None
  /\ UNCHANGED <<now, cache, req, admin, raced>>

\* handleRevokeCredential of the management UI: the row goes, nothing else.
ManageRevoke(k) ==
  /\ cred[k].st = "live"
  /\ cred' = [cred EXCEPT ![k].st = "revoked"]
  /\ grant' = None
  /\ UNCHANGED <<now, due, cache, req, admin, raced, validAt>>

\* Mutant of AdminDelete: the cache is not flushed.
AdminDeleteNoFlush(k) ==
  /\ admin.at = "idle" /\ cred[k].st = "live"
  /\ cred' = [cred EXCEPT ![k].st = "deleting"]
  /\ admin' = [at |-> "flush", key |-> k, todo |-> {}]
  /\ raced' = IF Holding(k) # {} THEN raced \cup {k} ELSE raced
  /\ grant' = None
  /\ UNCHANGED <<now, due, cache, req, validAt>>

\* handleAdminDeleteCredential: the row goes, then the cache is flushed entry
\* by entry, then the request is answered.
AdminDelete(k) ==
  /\ admin.at = "idle" /\ cred[k].st = "live"
  /\ cred' = [cred EXCEPT ![k].st = "deleting"]
  /\ admin' = [at |-> "flush", key |-> k, todo |-> Key]
  /\ raced' = IF Holding(k) # {} THEN raced \cup {k} ELSE raced
  /\ grant' = None
  /\ UNCHANGED <<now, due, cache, req, validAt>>

AdminFlush(k) ==
  /\ admin.at = "flush" /\ k \in admin.todo
  /\ cache' = [cache EXCEPT ![k] = None]
  /\ admin' = [admin EXCEPT !.todo = @ \ {k}]
  /\ grant' = None
  /\ UNCHANGED <<now, cred, due, req, raced, validAt>>

AdminAnswer ==
  /\ admin.at = "flush" /\ admin.todo = {}
  /\ cred' = [cred EXCEPT ![admin.key].st = "flushed"]
  /\ admin' = NoAdmin
  /\ grant' = None
  /\ UNCHANGED <<now, due, cache, req, raced, validAt>>

-----------------------------------------------------------------------------
(* A request: authenticateAPIKey, or authenticateToken / authenticateLegacy. *)

Revoked(k) == cred[k].st \in {"revoked", "flushed"}
Age(k) == now - validAt[k]
Granted(r, k, kind, late) ==
  [key |-> k, kind |-> kind, late |-> late, age |-> Age(k),
   overdue |-> IF due[k] = Never THEN 0 ELSE now - due[k]]

\* Mutant of Lookup: an entry is served without looking at its expiry.
LookupAnyEntry(r, k) ==
  /\ req[r].at = "idle"
  /\ IF cache[k] # None
     THEN grant' = Granted(r, k, "apiKey", Revoked(k)) /\ UNCHANGED req
     ELSE /\ grant' = None
          /\ req' = [req EXCEPT ![r] = [at |-> "load", key |-> k, kind |-> "apiKey",
                       begin |-> now, late |-> Revoked(k), found |-> FALSE]]
  /\ UNCHANGED <<now, cred, due, cache, admin, raced, validAt>>

\* A fresh entry answers at once; a stale one has to be deleted first.
Lookup(r, k) ==
  /\ req[r].at = "idle"
  /\ IF cache[k] # None /\ now < cache[k]
     THEN grant' = Granted(r, k, "apiKey", Revoked(k)) /\ UNCHANGED req
     ELSE /\ grant' = None
          /\ req' = [req EXCEPT ![r] =
               [at |-> IF cache[k] = None THEN "load" ELSE "evict", key |-> k,
                kind |-> "apiKey", begin |-> now, late |-> Revoked(k), found |-> FALSE]]
  /\ UNCHANGED <<now, cred, due, cache, admin, raced, validAt>>

\* The delete may meet an entry another request has stored since.
Evict(r) ==
  /\ req[r].at = "evict"
  /\ cache' = [cache EXCEPT ![req[r].key] = None]
  /\ req' = [req EXCEPT ![r].at = "load"]
  /\ grant' = None
  /\ UNCHANGED <<now, cred, due, admin, raced, validAt>>

\* Token and password requests go to the table at once.
BeginToken(r, k) ==
  /\ req[r].at = "idle"
  /\ req' = [req EXCEPT ![r] = [at |-> "load", key |-> k, kind |-> "token",
                                begin |-> now, late |-> Revoked(k), found |-> FALSE]]
  /\ grant' = None
  /\ UNCHANGED <<now, cred, due, cache, admin, raced, validAt>>

\* loadAllCredentials or loadLegacyCredentials: the rows valid now.
Load(r) ==
  /\ req[r].at = "load"
  /\ LET k == req[r].key IN
     req' = [req EXCEPT ![r].at = "match",
               ![r].found = Valid(k, now) /\ (req[r].kind = "token" => cred[k].legacy)]
  /\ grant' = None
  /\ UNCHANGED <<now, cred, due, cache, admin, raced, validAt>>

\* Mutant of Match: the entry lives as long as a freshly minted credential.
MatchLongCache(r) ==
  /\ req[r].at = "match"
  /\ LET k == req[r].key IN
     /\ grant' = IF req[r].found THEN Granted(r, k, req[r].kind, req[r].late) ELSE None
     /\ cache' = IF req[r].found /\ req[r].kind = "apiKey"
                 THEN [cache EXCEPT ![k] = now + CacheTTL + CredentialTTL] ELSE cache
  /\ req' = [req EXCEPT ![r] = Quiet]
  /\ UNCHANGED <<now, cred, due, admin, raced, validAt>>

\* The comparison with the loaded rows; an API key that matches is cached.
Match(r) ==
  /\ req[r].at = "match"
  /\ LET k == req[r].key IN
     /\ grant' = IF req[r].found THEN Granted(r, k, req[r].kind, req[r].late) ELSE None
     /\ cache' = IF req[r].found /\ req[r].kind = "apiKey"
                 THEN [cache EXCEPT ![k] = now + CacheTTL] ELSE cache
  /\ req' = [req EXCEPT ![r] = Quiet]
  /\ UNCHANGED <<now, cred, due, admin, raced, validAt>>

-----------------------------------------------------------------------------
\* Time passes while no request exceeds MaxHandling.
Tick ==
  /\ now < MaxTime
  /\ \A r \in Request : req[r].at # "idle" => now - req[r].begin < MaxHandling
  /\ now' = now + 1
  /\ validAt' = [k \in Key |-> IF Valid(k, now + 1) THEN now + 1 ELSE validAt[k]]
  /\ grant' = None
  /\ UNCHANGED <<cred, due, cache, req, admin, raced>>

\* The process restarts: cache and requests are gone, the table stays; a delete
\* that was not yet answered is only committed.
Restart ==
  /\ cache' = [k \in Key |-> None] /\ req' = [r \in Request |-> Quiet]
  /\ admin' = NoAdmin /\ grant' = None
  /\ cred' = [k \in Key |-> IF cred[k].st = "deleting" THEN [cred[k] EXCEPT !.st = "flushed"]
                            ELSE cred[k]]
  /\ UNCHANGED <<now, due, raced, validAt>>

Table == \E k \in Key :
  \/ \E ttl \in {0, 1, CredentialTTL}, legacy \in BOOLEAN : Mint(k, ttl, legacy)
  \/ Renew(k) \/ ManageRevoke(k) \/ AdminDelete(k) \/ AdminFlush(k)
Serve == \E r \in Request :
  \/ \E k \in Key : Lookup(r, k) \/ BeginToken(r, k)
  \/ Evict(r) \/ Load(r) \/ Match(r)
Next == Table \/ AdminAnswer \/ Serve \/ Tick \/ Restart

Spec == Init /\ [][Next]_vars

-----------------------------------------------------------------------------
(* Properties.                                                             *)

TypeOK ==
  /\ now \in 0..MaxTime
  /\ cred \in [Key -> [st : {"unminted", "live", "deleting", "revoked", "flushed"},
                       expires : Int \cup {Never}, legacy : BOOLEAN]]
  /\ due \in [Key -> Int \cup {Never}] /\ cache \in [Key -> Int \cup {None}]
  /\ \A k \in Key : cache[k] # None => cache[k] <= now + CacheTTL
  /\ req \in [Request -> [at : {"idle", "evict", "load", "match"}, key : Key \cup {None},
                          kind : {"apiKey", "token"}, begin : 0..MaxTime,
                          late : BOOLEAN, found : BOOLEAN]]
  /\ admin \in [at : {"idle", "flush"}, key : Key \cup {None}, todo : SUBSET Key]
  /\ raced \subseteq Key /\ validAt \in [Key -> 0..MaxTime]

\* A key is accepted only within CacheTTL plus the handling time of a moment at
\* which the table still held it unexpired, however revocations, expiry,
\* renewals, cache hits and evictions interleave; a token, which is not cached,
\* within the handling time.
GrantsAreFresh ==
  grant # None =>
    grant.age <= MaxHandling + (IF grant.kind = "apiKey" THEN CacheTTL ELSE 0)

\* An answered admin delete leaves no cache entry of the key behind, unless a
\* request had read the row before it was deleted and stored the entry after
\* the flush (TestAuthAPIKeyCacheInvalidatedOnDelete, for every interleaving).
FlushRemovesKey ==
  \A k \in Key : cred[k].st = "flushed" /\ k \notin raced => cache[k] = None

\* No key outlives the lifetime it was minted or last renewed with by more than
\* the cache and handling time, given a server that runs on UTC.
LifetimeKept ==
  grant # None => grant.overdue <= MaxHandling + CacheTTL

\* README.md:110 "instant revocation".  Violated: a request that begins after
\* the revocation was answered is still granted from the cache, which the
\* management UI does not flush.
RevocationIsInstant == grant # None => ~grant.late
=============================================================================

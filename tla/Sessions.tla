------------------------------ MODULE Sessions ------------------------------
(***************************************************************************)
(* Logging in to the management UI (internal/manage): the session store    *)
(* and its reaper, the OIDC states that wait for their callback and theirs *)
(* and the requests in flight, one critical section of a mutex per step.   *)
(* Both maps are in memory: a restart empties them, cookies survive it.    *)
(*                                                                         *)
(* Session ids and states are random and never repeat: each is used once.  *)
(* The user name in a session is left out; the identity provider, its code *)
(* exchange and the browsers are the environment.                          *)
(***************************************************************************)
EXTENDS Naturals, FiniteSets

CONSTANTS
  Req,          \* requests in flight
  Sid,          \* session ids
  State,        \* OIDC states
  SessionTTL,   \* 24 h
  PendingTTL,   \* 10 min
  ReapEvery,    \* 5 min, for both reapers
  MaxTime,      \* bound on the clock, which starts at 1
  NoSid, NoState

ASSUME SessionsAssumption ==
  /\ SessionTTL \in Nat /\ PendingTTL \in Nat /\ ReapEvery \in Nat \ {0} /\ MaxTime \in Nat \ {0}
  /\ NoSid \notin Sid /\ NoState \notin State

VARIABLES
  now,
  authn,        \* Authenticator: "secret", "oidc", "nil" (typed) or "none" (UI off)
  sessions,     \* SessionStore.sessions: ExpiresAt, 0 for no entry
  pending,      \* OIDCAuthenticator.pending: createdAt, 0 for no entry
  reapAt,       \* next tick of each reaper
  req,          \* requests in flight
  issued,       \* ids handed out so far, in cookies that browsers may still send
  minted,       \* states handed out so far
  origin,       \* history: the state a session was created for
  ended,        \* history: ids whose logout was answered
  panicked      \* history: nil pointers that handlers have dereferenced

mapVars     == <<sessions, pending>>
historyVars == <<issued, minted, origin, ended, panicked>>
vars == <<now, authn, mapVars, reapAt, req, historyVars>>

Idle == [at |-> "idle", kind |-> "none", sid |-> NoSid, state |-> NoState, late |-> FALSE]

\* main: the OIDC authenticator is assigned although its constructor failed, and
\* a nil *OIDCAuthenticator in an interface is not nil.
Authenticators ==
  {IF mode = "oidc" /\ ~discovered THEN "nil" ELSE mode :
     mode \in {"secret", "oidc", "none"}, discovered \in BOOLEAN}

Init ==
  /\ now = 1 /\ authn \in Authenticators
  /\ sessions = [s \in Sid |-> 0] /\ pending = [st \in State |-> 0]
  /\ reapAt = [sessions |-> now + ReapEvery, pending |-> now + ReapEvery]
  /\ req = [r \in Req |-> Idle]
  /\ issued = {} /\ minted = {} /\ origin = [s \in Sid |-> NoState]
  /\ ended = {} /\ panicked = {}

Set(r, fields) == req' = [req EXCEPT ![r] = fields]
Done(r) == Set(r, Idle)

-----------------------------------------------------------------------------
(* Login.                                                                  *)

\* SessionStore.Create, under the lock; the cookie carries the id.
Create(s, st) ==
  /\ s \notin issued
  /\ issued' = issued \cup {s}
  /\ sessions' = [sessions EXCEPT ![s] = now + SessionTTL]
  /\ origin' = [origin EXCEPT ![s] = st]

\* handleLoginSubmit with the secret file: right name and password.
PasswordLogin ==
  /\ authn = "secret"
  /\ \E s \in Sid : Create(s, NoState)
  /\ UNCHANGED <<now, authn, pending, reapAt, req, minted, ended, panicked>>

\* OIDCAuthenticator.LoginHandler: a new state waits for its callback.
LoginRedirect ==
  /\ authn = "oidc"
  /\ \E st \in State \ minted :
       /\ minted' = minted \cup {st}
       /\ pending' = [pending EXCEPT ![st] = now]
  /\ UNCHANGED <<now, authn, sessions, reapAt, req, issued, origin,
                 ended, panicked>>

\* Mutant of Claim: the state is looked up and stays until its reaper comes.
ClaimKeeps(r, st) ==
  /\ authn = "oidc" /\ req[r].at = "idle" /\ pending[st] # 0
  /\ Set(r, [Idle EXCEPT !.at = "exchange", !.state = st])
  /\ UNCHANGED <<now, authn, mapVars, reapAt, historyVars>>

\* Mutant of Claim: the test of ok is missing.
ClaimUnknown(r, st) ==
  /\ authn = "oidc" /\ req[r].at = "idle"
  /\ pending' = [pending EXCEPT ![st] = 0]
  /\ Set(r, [Idle EXCEPT !.at = "exchange", !.state = st])
  /\ UNCHANGED <<now, authn, sessions, reapAt, historyVars>>

\* CallbackHandler: the state is looked up and deleted under one lock.  With an
\* unknown state it answers 401 and changes nothing.
Claim(r, st) ==
  /\ authn = "oidc" /\ req[r].at = "idle" /\ pending[st] # 0
  /\ pending' = [pending EXCEPT ![st] = 0]
  /\ Set(r, [Idle EXCEPT !.at = "exchange", !.state = st])
  /\ UNCHANGED <<now, authn, sessions, reapAt, historyVars>>

\* The code is exchanged and the ID token verified, then the session created.
ExchangeOK(r) ==
  /\ req[r].at = "exchange"
  /\ \E s \in Sid : Create(s, req[r].state)
  /\ Done(r)
  /\ UNCHANGED <<now, authn, pending, reapAt, minted, ended, panicked>>

\* The exchange or the token is refused: 401, and the state stays used.
ExchangeFails(r) ==
  /\ req[r].at = "exchange"
  /\ Done(r)
  /\ UNCHANGED <<now, authn, mapVars, reapAt, historyVars>>

\* Login or callback on the nil authenticator: net/http recovers the panic.
NilAuthenticator ==
  /\ authn = "nil"
  /\ panicked' = panicked \cup {"authenticator"}
  /\ UNCHANGED <<now, authn, mapVars, reapAt, req, issued, minted, origin, ended>>

-----------------------------------------------------------------------------
(* Requests that need a session.  SessionStore.Get reads the map under the *)
(* lock; a session found is valid to its ExpiresAt inclusive.              *)

Get(s) == sessions[s] # 0 /\ now <= sessions[s]

\* A browser sends a cookie it was given, maybe in a previous process.
Request(r, kind, s) ==
  /\ authn # "none" /\ req[r].at = "idle" /\ s \in issued
  /\ Set(r, [Idle EXCEPT !.at = "gate", !.kind = kind, !.sid = s, !.late = s \in ended])
  /\ UNCHANGED <<now, authn, mapVars, reapAt, historyVars>>

\* requireSession: on to the handler, or a redirect to the login page.
RequireSession(r) ==
  /\ req[r].at = "gate"
  /\ IF Get(req[r].sid) THEN Set(r, [req[r] EXCEPT !.at = "handler"]) ELSE Done(r)
  /\ UNCHANGED <<now, authn, mapVars, reapAt, historyVars>>

\* handleDashboard, handleMintCredential, handleRenewCredential and
\* handleRevokeCredential get the session again and use its user name.
Handle(r) ==
  /\ req[r].at = "handler" /\ req[r].kind = "use"
  /\ panicked' = IF Get(req[r].sid) THEN panicked ELSE panicked \cup {"session"}
  /\ Done(r)
  /\ UNCHANGED <<now, authn, mapVars, reapAt, issued, minted, origin, ended>>

\* handleLogout gets the session again; there is nothing to delete without one.
LogoutGet(r) ==
  /\ req[r].at = "handler" /\ req[r].kind = "logout"
  /\ Set(r, [req[r] EXCEPT !.at = IF Get(req[r].sid) THEN "delete" ELSE "answer"])
  /\ UNCHANGED <<now, authn, mapVars, reapAt, historyVars>>

\* Mutant of LogoutDelete: only the cookie is cleared.
LogoutCookieOnly(r) ==
  /\ req[r].at = "delete"
  /\ Set(r, [req[r] EXCEPT !.at = "answer"])
  /\ UNCHANGED <<now, authn, mapVars, reapAt, historyVars>>

LogoutDelete(r) ==
  /\ req[r].at = "delete"
  /\ sessions' = [sessions EXCEPT ![req[r].sid] = 0]
  /\ Set(r, [req[r] EXCEPT !.at = "answer"])
  /\ UNCHANGED <<now, authn, pending, reapAt, historyVars>>

\* The cookie is cleared and the browser sent to the login page.
LogoutAnswer(r) ==
  /\ req[r].at = "answer"
  /\ ended' = ended \cup {req[r].sid}
  /\ Done(r)
  /\ UNCHANGED <<now, authn, mapVars, reapAt, issued, minted, origin, panicked>>

-----------------------------------------------------------------------------
(* The reapers, the clock, and a restart.                                  *)

\* Mutant of Reap: ExpiresAt is taken for the time of creation.
ReapLate ==
  /\ now = reapAt.sessions
  /\ sessions' = [s \in Sid |-> IF now > sessions[s] + SessionTTL THEN 0 ELSE sessions[s]]
  /\ reapAt' = [reapAt EXCEPT !.sessions = @ + ReapEvery]
  /\ UNCHANGED <<now, authn, pending, req, historyVars>>

Reap ==
  /\ now = reapAt.sessions
  /\ sessions' = [s \in Sid |-> IF now > sessions[s] THEN 0 ELSE sessions[s]]
  /\ reapAt' = [reapAt EXCEPT !.sessions = @ + ReapEvery]
  /\ UNCHANGED <<now, authn, pending, req, historyVars>>

\* The cutoff is now - PendingTTL; what was created before it goes.
ReapPending ==
  /\ now = reapAt.pending
  /\ pending' = [st \in State |-> IF pending[st] + PendingTTL < now THEN 0 ELSE pending[st]]
  /\ reapAt' = [reapAt EXCEPT !.pending = @ + ReapEvery]
  /\ UNCHANGED <<now, authn, sessions, req, historyVars>>

\* A tick of a reaper is served before the clock moves on.
Tick ==
  /\ now < MaxTime /\ now < reapAt.sessions /\ now < reapAt.pending
  /\ now' = now + 1
  /\ UNCHANGED <<authn, mapVars, reapAt, req, historyVars>>

\* The process ends, also in the middle of requests, and starts again.
Restart ==
  /\ sessions' = [s \in Sid |-> 0] /\ pending' = [st \in State |-> 0]
  /\ req' = [r \in Req |-> Idle]
  /\ reapAt' = [sessions |-> now + ReapEvery, pending |-> now + ReapEvery]
  /\ authn' \in Authenticators
  /\ UNCHANGED <<now, historyVars>>

-----------------------------------------------------------------------------
Login == PasswordLogin \/ LoginRedirect \/ NilAuthenticator
Serve(r) ==
  \/ \E st \in State : Claim(r, st)
  \/ \E s \in Sid : Request(r, "use", s) \/ Request(r, "logout", s)
  \/ ExchangeOK(r) \/ ExchangeFails(r) \/ RequireSession(r) \/ Handle(r)
  \/ LogoutGet(r) \/ LogoutDelete(r) \/ LogoutAnswer(r)
Next == Login \/ (\E r \in Req : Serve(r)) \/ Reap \/ ReapPending \/ Tick \/ Restart

Spec == Init /\ [][Next]_vars

-----------------------------------------------------------------------------
(* Properties.                                                             *)

\* A request carries only ids and states that were handed out.
Carried == [at : {"idle", "exchange", "gate", "handler", "delete", "answer"},
            kind : {"none", "use", "logout"}, sid : issued \cup {NoSid},
            state : minted \cup {NoState}, late : BOOLEAN]

\* Types, also of what requests carry.
TypeOK ==
  /\ now \in 1..MaxTime /\ authn \in {"secret", "oidc", "nil", "none"}
  /\ sessions \in [Sid -> 0..MaxTime + SessionTTL] /\ pending \in [State -> 0..MaxTime]
  /\ issued \subseteq Sid /\ minted \subseteq State
  /\ reapAt \in [sessions : Nat, pending : Nat]
  /\ req \in [Req -> Carried]
  /\ origin \in [Sid -> State \cup {NoState}]
  /\ ended \subseteq issued /\ panicked \subseteq {"authenticator", "session"}

\* One login at the identity provider gives at most one session, however
\* callbacks with the same state race each other and the reaper.
StateUsedOnce ==
  \A s, t \in issued : origin[s] = origin[t] /\ origin[s] # NoState => s = t

\* Once a logout was answered no request that starts later is let through, also
\* when other requests of the session are in flight, or a second logout is.
LogoutFinal ==
  \A r \in Req : req[r].at \in {"handler", "delete", "answer"} => ~req[r].late

\* Neither map keeps what is dead for longer than one round of its reaper, so a
\* state can be used for at most PendingTTL + ReapEvery: only the reaper ends it.
MapsAreReaped ==
  /\ \A s \in Sid : sessions[s] # 0 => now <= sessions[s] + ReapEvery
  /\ \A st \in State : pending[st] # 0 => now <= pending[st] + PendingTTL + ReapEvery

\* handlers.go:110 "requireSession wraps a handler to enforce an authenticated
\* session".  Violated: the handler gets the session a second time and ignores
\* that it is gone, so an expiry or a logout in between is a nil dereference.
SessionAtHandler == "session" \notin panicked
=============================================================================

--------------------------- MODULE SessionsProofs ---------------------------
(***************************************************************************)
(* Proofs about Sessions for any number of requests, sessions and states,  *)
(* and any lifetimes.                                                      *)
(***************************************************************************)
EXTENDS Sessions, TLAPS

\* A session that no Get will ever find again.
Dead(s) == sessions[s] = 0 \/ now > sessions[s]

\* A state is waiting, or with one callback, or behind one session: a callback
\* that holds a state knows that nothing else does.
StatesMove ==
  /\ \A st \in State : pending[st] # 0 => st \in minted
  /\ \A s \in issued : origin[s] # NoState => origin[s] \in minted /\ pending[origin[s]] = 0
  /\ \A r \in Req : req[r].at = "exchange" =>
       /\ req[r].state \in minted /\ pending[req[r].state] = 0
       /\ \A s \in issued : origin[s] # req[r].state
       /\ \A q \in Req : req[q].at = "exchange" /\ req[q].state = req[r].state => q = r

\* What a request in flight may rely on.
Sound(x) ==
  /\ x.late => x.sid \in ended
  /\ x.at \in {"gate", "handler", "delete", "answer"} => x.sid \in issued
  /\ x.at = "answer" => Dead(x.sid)
  /\ x.at \in {"handler", "delete", "answer"} => ~x.late

\* The session of an answered logout, or of one about to be answered, is dead.
LogoutsBite ==
  /\ \A s \in ended : s \in issued /\ Dead(s)
  /\ \A r \in Req : Sound(req[r])

\* What the last round of a reaper left, and what came since.
ReapersKeepPace ==
  /\ now <= reapAt.sessions /\ reapAt.sessions <= now + ReapEvery
  /\ now <= reapAt.pending /\ reapAt.pending <= now + ReapEvery
  /\ \A s \in Sid : sessions[s] # 0 => reapAt.sessions <= sessions[s] + ReapEvery
  /\ \A st \in State : pending[st] # 0 => reapAt.pending <= pending[st] + PendingTTL + ReapEvery

IInv == /\ TypeOK /\ StatesMove /\ StateUsedOnce
        /\ LogoutsBite /\ ReapersKeepPace

\* The initial state satisfies it.
LEMMA InitIInv == Init => IInv
<1> SUFFICES ASSUME Init PROVE IInv
  OBVIOUS
<1> USE SessionsAssumption DEF Init
<1>1. \A r \in Req : req[r] = Idle /\ Idle.at = "idle" /\ Idle.late = FALSE
  BY DEF Idle
<1>2. TypeOK
  BY DEF TypeOK, Carried, Idle, Authenticators
<1>3. StatesMove /\ StateUsedOnce
  BY <1>1 DEF StatesMove, StateUsedOnce
<1>4. LogoutsBite
  BY <1>1 DEF LogoutsBite, Sound
<1>5. ReapersKeepPace
  BY DEF ReapersKeepPace
<1> QED BY <1>2, <1>3, <1>4, <1>5 DEF IInv

\* Handing out one more id or state keeps every request well-formed.
LEMMA TypeStep == IInv /\ [Next]_vars => TypeOK'
<1> SUFFICES ASSUME IInv, [Next]_vars PROVE TypeOK'
  OBVIOUS
<1>0. TypeOK
  BY DEF IInv
<1> USE SessionsAssumption DEF mapVars, historyVars
<1>a. Idle \in Carried /\ req \in [Req -> Carried] /\ \A r \in Req : req[r] \in Carried
  BY <1>0 DEF TypeOK, Carried, Idle
<1>b. ASSUME NEW r \in Req, NEW at \in {"handler", "delete", "answer"}
      PROVE  [req[r] EXCEPT !.at = at] \in Carried
  BY <1>a DEF Carried
<1>d. \A st \in minted : [Idle EXCEPT !.at = "exchange", !.state = st] \in Carried
  BY <1>a DEF Carried
<1>e. ASSUME NEW s \in issued, NEW kind \in {"use", "logout"}, NEW late \in BOOLEAN
      PROVE  [Idle EXCEPT !.at = "gate", !.kind = kind, !.sid = s, !.late = late] \in Carried
  BY <1>a DEF Carried
<1>c. ASSUME NEW r \in Req, NEW x \in Carried, Set(r, x) PROVE req' \in [Req -> Carried]
  BY <1>a, <1>c DEF Set
<1>1. CASE UNCHANGED vars
  BY <1>0, <1>1 DEF vars, TypeOK, Carried
<1>2. ASSUME NEW s \in Sid, NEW st \in State \cup {NoState}, Create(s, st)
      PROVE  /\ issued' \subseteq Sid /\ origin' \in [Sid -> State \cup {NoState}]
             /\ sessions' \in [Sid -> 0..MaxTime + SessionTTL] /\ issued \subseteq issued'
  BY <1>0, <1>2 DEF TypeOK, Create
<1>3. CASE PasswordLogin
  BY <1>0, <1>2, <1>3 DEF PasswordLogin, TypeOK, Carried
<1>4. CASE LoginRedirect
  <2>1. PICK st \in State \ minted :
          minted' = minted \cup {st} /\ pending' = [pending EXCEPT ![st] = now]
    BY <1>4 DEF LoginRedirect
  <2>2. Carried \subseteq Carried'
    BY <1>4, <2>1 DEF LoginRedirect, Carried
  <2>3. req' \in [Req -> Carried']
    BY <1>a, <1>4, <2>2 DEF LoginRedirect
  <2>4. pending' \in [State -> 0..MaxTime]
    BY <1>0, <2>1 DEF TypeOK
  <2> QED BY <1>0, <1>4, <2>1, <2>3, <2>4 DEF LoginRedirect, TypeOK
<1>11. CASE NilAuthenticator
  BY <1>0, <1>11 DEF NilAuthenticator, TypeOK, Carried
<1>5. ASSUME NEW r \in Req, NEW st \in State, Claim(r, st) PROVE TypeOK'
  <2>1. st \in minted
    BY <1>5 DEF Claim, IInv, StatesMove
  <2>2. req' \in [Req -> Carried]
    BY <1>c, <1>d, <1>5, <2>1 DEF Claim
  <2> QED BY <1>0, <1>5, <2>2 DEF Claim, TypeOK, Carried
<1>6. ASSUME NEW r \in Req, ExchangeOK(r) PROVE TypeOK'
  <2>1. req' \in [Req -> Carried]
    BY <1>a, <1>c, <1>6 DEF ExchangeOK, Done
  <2>2. req[r].state \in State \cup {NoState}
    BY <1>0, <1>a DEF TypeOK, Carried
  <2>3. req' \in [Req -> Carried']
    BY <1>6, <2>1 DEF ExchangeOK, Create, Carried
  <2> QED BY <1>0, <1>2, <1>6, <2>2, <2>3 DEF ExchangeOK, TypeOK
<1>7. ASSUME NEW r \in Req, NEW s \in Sid, Request(r, "use", s) \/ Request(r, "logout", s)
      PROVE  TypeOK'
  <2>1. (s \in ended) \in BOOLEAN /\ s \in issued
    BY <1>7 DEF Request
  <2>2. ASSUME NEW kind \in {"use", "logout"}
        PROVE  [Idle EXCEPT !.at = "gate", !.kind = kind, !.sid = s, !.late = s \in ended]
                 \in Carried
    BY <1>e, <2>1, Zenon
  <2>3. req' \in [Req -> Carried]
    <3>1. CASE Request(r, "use", s)
      BY <1>c, <2>2, <3>1, Zenon DEF Request
    <3>2. CASE Request(r, "logout", s)
      BY <1>c, <2>2, <3>2, Zenon DEF Request
    <3> QED BY <1>7, <3>1, <3>2
  <2> QED BY <1>0, <1>7, <2>3 DEF Request, TypeOK, Carried
<1>8. ASSUME NEW r \in Req,
             \/ ExchangeFails(r) \/ RequireSession(r) \/ Handle(r)
             \/ LogoutGet(r) \/ LogoutDelete(r) \/ LogoutAnswer(r)
      PROVE  TypeOK'
  <2>1. req' \in [Req -> Carried] /\ UNCHANGED <<now, authn, reapAt, issued, minted, origin>>
    BY <1>a, <1>b, <1>c, <1>8 DEF ExchangeFails, RequireSession, Handle, LogoutGet,
       LogoutDelete, LogoutAnswer, Done
  <2>2. sessions' \in [Sid -> 0..MaxTime + SessionTTL] /\ pending' = pending
    BY <1>0, <1>8 DEF ExchangeFails, RequireSession, Handle, LogoutGet, LogoutDelete,
       LogoutAnswer, TypeOK
  <2>3. ended' \subseteq issued /\ panicked' \subseteq {"authenticator", "session"}
    BY <1>0, <1>8 DEF ExchangeFails, RequireSession, Handle, LogoutGet, LogoutDelete,
       LogoutAnswer, TypeOK, IInv, LogoutsBite, Sound
  <2> QED BY <1>0, <2>1, <2>2, <2>3 DEF TypeOK, Carried
<1>9. CASE Reap \/ ReapPending \/ Tick
  BY <1>0, <1>9 DEF Reap, ReapPending, Tick, TypeOK, Carried
<1>10. CASE Restart
  <2>1. authn' \in {"secret", "oidc", "nil", "none"}
    BY <1>10 DEF Restart, Authenticators
  <2>2. req' \in [Req -> Carried']
    BY <1>a, <1>10 DEF Restart, Carried
  <2>3. reapAt' \in [sessions : Nat, pending : Nat] /\ UNCHANGED <<now, historyVars>>
    BY <1>0, <1>10 DEF Restart, TypeOK
  <2>4. sessions' \in [Sid -> 0..MaxTime + SessionTTL] /\ pending' \in [State -> 0..MaxTime]
    BY <1>10 DEF Restart
  <2> QED BY <1>0, <2>1, <2>2, <2>3, <2>4 DEF TypeOK
<1> QED
  <2>1. CASE Login
    BY <1>3, <1>4, <1>11, <2>1 DEF Login
  <2>2. ASSUME NEW r \in Req, Serve(r) PROVE TypeOK'
    BY <1>5, <1>6, <1>7, <1>8, <2>2 DEF Serve
  <2> QED BY <1>1, <1>9, <1>10, <2>1, <2>2 DEF Next

\* A reaper that has run leaves nothing dead; later entries are younger.
LEMMA ReapersStep == IInv /\ [Next]_vars => ReapersKeepPace'
<1> SUFFICES ASSUME IInv, [Next]_vars PROVE ReapersKeepPace'
  OBVIOUS
<1> USE SessionsAssumption DEF mapVars, historyVars
<1>1. /\ now \in Nat /\ now # 0 /\ reapAt \in [sessions : Nat, pending : Nat]
      /\ sessions \in [Sid -> Nat] /\ pending \in [State -> Nat]
  BY DEF IInv, TypeOK
<1>2. ReapersKeepPace
  BY DEF IInv
<1>3. ASSUME NEW s \in Sid, NEW st, Create(s, st), UNCHANGED <<now, pending, reapAt>>
      PROVE  ReapersKeepPace'
  <2>1. \A t \in Sid : sessions'[t] = IF t = s THEN now + SessionTTL ELSE sessions[t]
    BY <1>1, <1>3 DEF Create
  <2> QED BY <1>1, <1>2, <1>3, <2>1 DEF ReapersKeepPace
<1>4. CASE Login
  <2>1. CASE PasswordLogin
    BY <1>3, <2>1 DEF PasswordLogin
  <2>2. CASE LoginRedirect
    <3>1. PICK st \in State : pending' = [pending EXCEPT ![st] = now]
      BY <2>2 DEF LoginRedirect
    <3>2. \A t \in State : pending'[t] = IF t = st THEN now ELSE pending[t]
      BY <1>1, <3>1
    <3> QED BY <1>1, <1>2, <2>2, <3>2 DEF LoginRedirect, ReapersKeepPace
  <2>3. CASE NilAuthenticator
    BY <1>2, <2>3 DEF NilAuthenticator, ReapersKeepPace
  <2> QED BY <1>4, <2>1, <2>2, <2>3 DEF Login
<1>5. ASSUME NEW r \in Req, Serve(r) PROVE ReapersKeepPace'
  <2>1. CASE ExchangeOK(r)
    BY <1>3, <2>1 DEF ExchangeOK
  <2>2. CASE ~ExchangeOK(r)
    <3>1. /\ UNCHANGED <<now, reapAt>>
          /\ \A s \in Sid : sessions'[s] = sessions[s] \/ sessions'[s] = 0
          /\ \A st \in State : pending'[st] = pending[st] \/ pending'[st] = 0
      BY <1>1, <1>5, <2>2 DEF Serve, Claim, Request, ExchangeFails, RequireSession, Handle,
         LogoutGet, LogoutDelete, LogoutAnswer
    <3> QED BY <1>1, <1>2, <3>1 DEF ReapersKeepPace
  <2> QED BY <2>1, <2>2
<1>6. CASE Reap
  <2>1. \A s \in Sid : sessions'[s] = IF now > sessions[s] THEN 0 ELSE sessions[s]
    BY <1>1, <1>6 DEF Reap
  <2>2. /\ now = reapAt.sessions /\ reapAt'.sessions = now + ReapEvery
        /\ reapAt'.pending = reapAt.pending /\ UNCHANGED <<now, pending>>
    BY <1>1, <1>6 DEF Reap
  <2> QED BY <1>1, <1>2, <2>1, <2>2 DEF ReapersKeepPace
<1>7. CASE ReapPending
  <2>1. \A st \in State : pending'[st] = IF pending[st] + PendingTTL < now THEN 0 ELSE pending[st]
    BY <1>1, <1>7 DEF ReapPending
  <2>2. /\ now = reapAt.pending /\ reapAt'.pending = now + ReapEvery
        /\ reapAt'.sessions = reapAt.sessions /\ UNCHANGED <<now, sessions>>
    BY <1>1, <1>7 DEF ReapPending
  <2> QED BY <1>1, <1>2, <2>1, <2>2 DEF ReapersKeepPace
<1>8. CASE Tick
  BY <1>1, <1>2, <1>8 DEF Tick, ReapersKeepPace
<1>9. CASE Restart
  BY <1>1, <1>9 DEF Restart, ReapersKeepPace
<1>10. CASE UNCHANGED vars
  BY <1>2, <1>10 DEF vars, ReapersKeepPace
<1> QED BY <1>4, <1>5, <1>6, <1>7, <1>8, <1>9, <1>10 DEF Next

\* A dead session stays dead: ids are not issued twice, time does not go back.
LEMMA DeadStaysDead ==
  ASSUME IInv, [Next]_vars, NEW s \in issued, Dead(s)
  PROVE  Dead(s)' /\ s \in issued'
<1> USE SessionsAssumption DEF mapVars, historyVars
<1>1. now \in Nat /\ now # 0 /\ sessions \in [Sid -> Nat] /\ s \in Sid
  BY DEF IInv, TypeOK
<1>2. ASSUME NEW t \in Sid, NEW st, Create(t, st), now' = now PROVE Dead(s)' /\ s \in issued'
  <2>1. t # s /\ sessions' = [sessions EXCEPT ![t] = now + SessionTTL] /\ s \in issued'
    BY <1>2 DEF Create
  <2> QED BY <1>1, <1>2, <2>1 DEF Dead
<1>3. ASSUME UNCHANGED issued, now' \in Nat, now <= now',
             sessions'[s] = sessions[s] \/ sessions'[s] = 0
      PROVE  Dead(s)' /\ s \in issued'
  BY <1>1, <1>3 DEF Dead
<1>4. CASE Login
  BY <1>1, <1>2, <1>3, <1>4 DEF Login, PasswordLogin, LoginRedirect, NilAuthenticator
<1>5. ASSUME NEW r \in Req, Serve(r) PROVE Dead(s)' /\ s \in issued'
  <2>1. CASE ExchangeOK(r)
    BY <1>2, <2>1 DEF ExchangeOK
  <2>2. CASE LogoutDelete(r)
    BY <1>1, <1>3, <2>2 DEF LogoutDelete
  <2>3. CASE ~ExchangeOK(r) /\ ~LogoutDelete(r)
    <3>1. UNCHANGED <<issued, now, sessions>>
      BY <1>5, <2>3 DEF Serve, Claim, Request, ExchangeFails, RequireSession, Handle,
         LogoutGet, LogoutAnswer
    <3> QED BY <1>1, <1>3, <3>1
  <2> QED BY <2>1, <2>2, <2>3
<1>6. CASE Reap \/ ReapPending \/ Tick \/ Restart \/ UNCHANGED vars
  BY <1>1, <1>3, <1>6 DEF vars, Reap, ReapPending, Tick, Restart
<1> QED BY <1>4, <1>5, <1>6 DEF Next

\* Answered logouts and late requests: a late request is stopped at the gate.
LEMMA LogoutsStep == IInv /\ [Next]_vars => LogoutsBite'
<1> SUFFICES ASSUME IInv, [Next]_vars PROVE LogoutsBite'
  OBVIOUS
<1> USE DEF mapVars, historyVars
<1>1. /\ req \in [Req -> Carried] /\ ended \subseteq issued
      /\ \A s \in ended : s \in issued /\ Dead(s)
      /\ \A r \in Req : Sound(req[r])
  BY DEF IInv, TypeOK, LogoutsBite
<1>2. \A s \in issued : s \in issued' /\ (Dead(s) => Dead(s)')
  <2>1. \A s \in issued : s \in issued'
    BY DEF vars, Next, Login, Serve, PasswordLogin, Create, ExchangeOK, LoginRedirect,
       NilAuthenticator, Claim, Request, ExchangeFails, RequireSession, Handle, LogoutGet,
       LogoutDelete, LogoutAnswer, Reap, ReapPending, Tick, Restart
  <2> QED BY <2>1, DeadStaysDead
<1>3. Sound(Idle)'
  BY DEF Sound, Idle
<1>4. ASSUME NEW x, Sound(x), ended \subseteq ended' PROVE Sound(x)'
  BY <1>2, <1>4 DEF Sound
<1>5. ASSUME UNCHANGED ended, \A q \in Req : req'[q] = req[q] \/ req'[q] = Idle
      PROVE  LogoutsBite'
  <2>1. ASSUME NEW q \in Req PROVE Sound(req[q])'
    <3>1. CASE req'[q] = req[q]
      BY <1>1, <1>4, <1>5, <3>1 DEF Sound
    <3>2. CASE req'[q] = Idle
      BY <3>2 DEF Sound, Idle
    <3> QED BY <1>5, <3>1, <3>2
  <2> QED BY <1>1, <1>2, <1>5, <2>1 DEF LogoutsBite
<1>6. ASSUME UNCHANGED ended, NEW r \in Req, NEW x, Set(r, x), Sound(x)' PROVE LogoutsBite'
  <2>1. ASSUME NEW q \in Req PROVE Sound(req[q])'
    <3>1. CASE q = r
      BY <1>1, <1>6, <3>1 DEF Set, Sound
    <3>2. CASE q # r
      BY <1>1, <1>4, <1>6, <3>2 DEF Set, Sound
    <3> QED BY <3>1, <3>2
  <2> QED BY <1>1, <1>2, <1>6, <2>1 DEF LogoutsBite
<1>7. CASE Login \/ Reap \/ ReapPending \/ Tick \/ Restart \/ UNCHANGED vars
  BY <1>1, <1>5, <1>7 DEF vars, Login, PasswordLogin, LoginRedirect, NilAuthenticator, Create,
     Reap, ReapPending, Tick, Restart
<1>8. ASSUME NEW r \in Req, Serve(r) PROVE LogoutsBite'
  <2>0. Sound(req[r]) /\ req[r] \in Carried
    BY <1>1
  <2>1. ASSUME NEW st \in State, Claim(r, st) PROVE LogoutsBite'
    <3>1. Sound([Idle EXCEPT !.at = "exchange", !.state = st])'
      BY DEF Sound, Idle
    <3> QED BY <1>6, <2>1, <3>1 DEF Claim
  <2>2. ASSUME NEW s \in Sid, NEW kind \in {"use", "logout"}, Request(r, kind, s) PROVE LogoutsBite'
    <3>0. PICK x : x = [Idle EXCEPT !.at = "gate", !.kind = kind, !.sid = s, !.late = s \in ended]
      OBVIOUS
    <3>1. s \in issued /\ UNCHANGED <<ended, issued>> /\ Set(r, x)
      BY <2>2, <3>0, Zenon DEF Request
    <3>2. x.sid = s /\ x.at = "gate" /\ (x.late => s \in ended)
      BY <3>0, Zenon DEF Idle
    <3>3. Sound(x)'
      BY <3>1, <3>2 DEF Sound
    <3> QED BY <1>6, <3>1, <3>3, Zenon
  <2>3. CASE ExchangeOK(r) \/ ExchangeFails(r) \/ Handle(r)
    BY <1>1, <1>5, <2>3 DEF ExchangeOK, ExchangeFails, Handle, Create, Done, Set
  <2>4. CASE RequireSession(r)
    <3>1. CASE Get(req[r].sid)
      <4>0. PICK x : x = [req[r] EXCEPT !.at = "handler"]
        OBVIOUS
      <4>1. x.at = "handler" /\ x.sid = req[r].sid /\ x.late = req[r].late /\ Set(r, x)
        BY <2>0, <2>4, <3>1, <4>0 DEF RequireSession, Carried
      <4>2. req[r].sid \in issued /\ ~Dead(req[r].sid) /\ UNCHANGED <<ended, issued>>
        BY <2>0, <2>4, <3>1 DEF RequireSession, Sound, Get, Dead, IInv, TypeOK
      <4>3. ~req[r].late
        BY <1>1, <2>0, <4>2 DEF Sound
      <4>4. Sound(x)'
        BY <4>1, <4>2, <4>3 DEF Sound
      <4> QED BY <1>6, <4>1, <4>2, <4>4
    <3>2. CASE ~Get(req[r].sid)
      BY <1>1, <1>5, <2>4, <3>2 DEF RequireSession, Done, Set
    <3> QED BY <3>1, <3>2
  <2>5. CASE LogoutGet(r)
    <3>0. PICK x : x = [req[r] EXCEPT !.at = IF Get(req[r].sid) THEN "delete" ELSE "answer"]
      OBVIOUS
    <3>1. /\ x.at \in {"delete", "answer"} /\ x.sid = req[r].sid /\ x.late = req[r].late
          /\ (x.at = "answer" => ~Get(req[r].sid)) /\ Set(r, x)
      BY <2>0, <2>5, <3>0 DEF LogoutGet, Carried
    <3>2. req[r].sid \in issued /\ ~req[r].late /\ UNCHANGED <<ended, issued, now, sessions>>
      BY <2>0, <2>5 DEF LogoutGet, Sound
    <3>3. Get(req[r].sid) \/ Dead(req[r].sid)
      BY <3>2 DEF Get, Dead, IInv, TypeOK
    <3>4. Sound(x)'
      BY <3>1, <3>2, <3>3 DEF Sound, Dead
    <3> QED BY <1>6, <3>1, <3>2, <3>4
  <2>6. CASE LogoutDelete(r)
    <3>1. req[r].sid \in issued /\ req[r].sid \in Sid /\ sessions'[req[r].sid] = 0
      BY <2>0, <2>6 DEF LogoutDelete, Sound, IInv, TypeOK
    <3>2. PICK x : x = [req[r] EXCEPT !.at = "answer"]
      OBVIOUS
    <3>3. x.at = "answer" /\ x.sid = req[r].sid /\ x.late = req[r].late /\ Set(r, x)
      BY <2>0, <2>6, <3>2 DEF LogoutDelete, Carried
    <3>4. ~req[r].late /\ UNCHANGED <<ended, issued>>
      BY <2>0, <2>6 DEF LogoutDelete, Sound
    <3>5. Sound(x)'
      BY <3>1, <3>3, <3>4 DEF Sound, Dead
    <3> QED BY <1>6, <3>3, <3>4, <3>5
  <2>7. CASE LogoutAnswer(r)
    <3>1. req[r].sid \in issued /\ Dead(req[r].sid) /\ ended' = ended \cup {req[r].sid}
      BY <2>0, <2>7 DEF LogoutAnswer, Sound
    <3>2. ASSUME NEW q \in Req PROVE Sound(req[q])'
      <4>1. CASE q = r
        BY <1>1, <2>7, <4>1 DEF LogoutAnswer, Done, Set, Sound, Idle
      <4>2. CASE q # r
        <5>1. req'[q] = req[q] /\ Sound(req[q])
          BY <1>1, <2>7, <4>2 DEF LogoutAnswer, Done, Set
        <5> QED BY <1>4, <3>1, <5>1 DEF Sound
      <4> QED BY <4>1, <4>2
    <3> QED BY <1>1, <1>2, <3>1, <3>2 DEF LogoutsBite
  <2> QED BY <1>8, <2>1, <2>2, <2>3, <2>4, <2>5, <2>6, <2>7 DEF Serve
<1> QED BY <1>7, <1>8 DEF Next

\* A state leaves the map with one callback and reaches one session with it.
LEMMA StatesStep == IInv /\ [Next]_vars => StatesMove' /\ StateUsedOnce'
<1> SUFFICES ASSUME IInv, [Next]_vars PROVE StatesMove' /\ StateUsedOnce'
  OBVIOUS
<1> USE SessionsAssumption DEF mapVars, historyVars
<1>1. /\ req \in [Req -> Carried] /\ pending \in [State -> Nat] /\ now \in Nat /\ now # 0
      /\ issued \subseteq Sid /\ minted \subseteq State /\ origin \in [Sid -> State \cup {NoState}]
  BY DEF IInv, TypeOK
<1>2. StatesMove /\ StateUsedOnce
  BY DEF IInv
<1>3. ASSUME UNCHANGED <<issued, minted, origin>>,
             \A st \in State : pending'[st] = pending[st] \/ pending'[st] = 0,
             \A q \in Req : req'[q].at = "exchange" => req'[q] = req[q]
      PROVE  StatesMove' /\ StateUsedOnce'
  BY <1>1, <1>2, <1>3 DEF StatesMove, StateUsedOnce
<1>4. CASE PasswordLogin
  <2>1. PICK s \in Sid : Create(s, NoState)
    BY <1>4 DEF PasswordLogin
  <2>2. /\ issued' = issued \cup {s}
        /\ \A t \in Sid : origin'[t] = IF t = s THEN NoState ELSE origin[t]
        /\ UNCHANGED <<pending, req, minted>>
    BY <1>1, <1>4, <2>1 DEF PasswordLogin, Create
  <2>3. StateUsedOnce'
    BY <1>1, <1>2, <2>2 DEF StateUsedOnce
  <2>4. \A q \in Req : req[q].at = "exchange" => req[q].state # NoState
    BY <1>1, <1>2 DEF StatesMove
  <2>5. StatesMove'
    BY <1>1, <1>2, <2>2, <2>4 DEF StatesMove
  <2> QED BY <2>3, <2>5
<1>5. CASE LoginRedirect
  <2>1. PICK st \in State \ minted :
          minted' = minted \cup {st} /\ pending' = [pending EXCEPT ![st] = now]
    BY <1>5 DEF LoginRedirect
  <2>2. \A t \in State : pending'[t] = IF t = st THEN now ELSE pending[t]
    BY <1>1, <2>1
  <2>3. UNCHANGED <<req, issued, origin>>
    BY <1>5 DEF LoginRedirect
  <2>4. StateUsedOnce'
    BY <1>2, <2>3 DEF StateUsedOnce
  <2>5. StatesMove'
    BY <1>1, <1>2, <2>1, <2>2, <2>3 DEF StatesMove
  <2> QED BY <2>4, <2>5
<1>6. CASE NilAuthenticator \/ Reap \/ ReapPending \/ Tick \/ Restart \/ UNCHANGED vars
  BY <1>1, <1>3, <1>6 DEF vars, NilAuthenticator, Reap, ReapPending, Tick, Restart, Idle
<1>7. ASSUME NEW r \in Req, NEW st \in State, Claim(r, st) PROVE StatesMove' /\ StateUsedOnce'
  <2>1. /\ pending[st] # 0 /\ pending'[st] = 0 /\ st \in minted
        /\ \A t \in State : t # st => pending'[t] = pending[t]
    BY <1>1, <1>2, <1>7 DEF Claim, StatesMove
  <2>2. req'[r].at = "exchange" /\ req'[r].state = st /\ \A q \in Req : q # r => req'[q] = req[q]
    BY <1>1, <1>7 DEF Claim, Set, Idle
  <2>3. UNCHANGED <<issued, minted, origin>>
    BY <1>7 DEF Claim
  <2>4. \A q \in Req : q # r /\ req[q].at = "exchange" => req[q].state # st
    BY <1>2, <2>1 DEF StatesMove
  <2>5. \A s \in issued : origin[s] # st
    BY <1>1, <1>2, <2>1 DEF StatesMove
  <2>6. StateUsedOnce'
    BY <1>2, <2>3 DEF StateUsedOnce
  <2>7. StatesMove'
    BY <1>1, <1>2, <2>1, <2>2, <2>3, <2>4, <2>5 DEF StatesMove
  <2> QED BY <2>6, <2>7
<1>8. ASSUME NEW r \in Req, ExchangeOK(r) PROVE StatesMove' /\ StateUsedOnce'
  <2>1. PICK s \in Sid : Create(s, req[r].state)
    BY <1>8 DEF ExchangeOK
  <2>2. /\ issued' = issued \cup {s} /\ s \notin issued
        /\ \A t \in Sid : origin'[t] = IF t = s THEN req[r].state ELSE origin[t]
        /\ UNCHANGED <<pending, minted>>
    BY <1>1, <1>8, <2>1 DEF ExchangeOK, Create
  <2>3. /\ req[r].state \in minted /\ pending[req[r].state] = 0
        /\ \A t \in issued : origin[t] # req[r].state
        /\ \A q \in Req : req[q].at = "exchange" /\ req[q].state = req[r].state => q = r
    BY <1>2, <1>8 DEF ExchangeOK, StatesMove
  <2>4. req'[r].at = "idle" /\ \A q \in Req : q # r => req'[q] = req[q]
    BY <1>1, <1>8 DEF ExchangeOK, Done, Set, Idle
  <2>5. StateUsedOnce'
    BY <1>1, <1>2, <2>2, <2>3 DEF StateUsedOnce
  <2>6. StatesMove'
    BY <1>1, <1>2, <2>2, <2>3, <2>4 DEF StatesMove
  <2> QED BY <2>5, <2>6
<1>9. ASSUME NEW r \in Req, Serve(r), ~ExchangeOK(r), \A st \in State : ~Claim(r, st)
      PROVE  StatesMove' /\ StateUsedOnce'
  <2>1. UNCHANGED <<issued, minted, origin, pending>>
    BY <1>9 DEF Serve, Request, ExchangeFails, RequireSession, Handle, LogoutGet,
       LogoutDelete, LogoutAnswer
  <2>2. \A q \in Req : q # r => req'[q] = req[q]
    BY <1>1, <1>9 DEF Serve, Request, ExchangeFails, RequireSession, Handle, LogoutGet,
       LogoutDelete, LogoutAnswer, Done, Set
  <2>3. req'[r].at # "exchange"
    <3>1. ASSUME NEW s \in Sid, Request(r, "use", s) \/ Request(r, "logout", s)
          PROVE  req'[r].at = "gate"
      <4>1. ASSUME NEW kind, Request(r, kind, s) PROVE req'[r].at = "gate"
        <5>1. PICK x : x = [Idle EXCEPT !.at = "gate", !.kind = kind, !.sid = s, !.late = s \in ended]
          OBVIOUS
        <5>2. req' = [req EXCEPT ![r] = x]
          BY <4>1, <5>1, Zenon DEF Request, Set
        <5>3. x.at = "gate"
          BY <5>1, Zenon DEF Idle
        <5> QED BY <1>1, <5>2, <5>3
      <4> QED BY <3>1, <4>1
    <3>2. ASSUME NEW at \in {"handler", "delete", "answer"}, Set(r, [req[r] EXCEPT !.at = at])
          PROVE  req'[r].at # "exchange"
      BY <1>1, <3>2 DEF Set, Carried
    <3>3. CASE Done(r)
      BY <1>1, <3>3 DEF Done, Set, Idle
    <3>4. CASE ExchangeFails(r) \/ Handle(r) \/ LogoutAnswer(r)
      BY <3>3, <3>4 DEF ExchangeFails, Handle, LogoutAnswer
    <3>5. CASE RequireSession(r) \/ LogoutDelete(r)
      BY <3>2, <3>3, <3>5 DEF RequireSession, LogoutDelete
    <3>6. CASE LogoutGet(r)
      BY <3>2, <3>6 DEF LogoutGet
    <3> QED BY <1>9, <3>1, <3>4, <3>5, <3>6 DEF Serve
  <2> QED BY <1>3, <2>1, <2>2, <2>3
<1> QED BY <1>4, <1>5, <1>6, <1>7, <1>8, <1>9 DEF Next, Login

\* Every step preserves the invariant.
LEMMA StepIInv == IInv /\ [Next]_vars => IInv'
  BY TypeStep, StatesStep, LogoutsStep, ReapersStep DEF IInv

\* The invariant holds in every reachable state.
LEMMA SpecIInv == Spec => []IInv
  BY InitIInv, StepIInv, PTL DEF Spec

\* Requests carry only ids and states that the program handed out.
THEOREM TypeCorrect == Spec => []TypeOK
<1>1. IInv => TypeOK
  BY DEF IInv
<1> QED BY SpecIInv, <1>1, PTL

\* One state, so one login at the identity provider, gives at most one session:
\* the lookup and the deletion of CallbackHandler share one critical section.
THEOREM StatesUsedOnce == Spec => []StateUsedOnce
<1>1. IInv => StateUsedOnce
  BY DEF IInv
<1> QED BY SpecIInv, <1>1, PTL

\* No request that starts after a logout was answered passes requireSession.
THEOREM LogoutIsFinal == Spec => []LogoutFinal
<1>1. IInv => LogoutFinal
  BY DEF IInv, LogoutsBite, Sound, LogoutFinal
<1> QED BY SpecIInv, <1>1, PTL

\* No dead session outlives ReapEvery and no state PendingTTL + ReapEvery.
THEOREM MapsReaped == Spec => []MapsAreReaped
<1>1. IInv => MapsAreReaped
  <2> SUFFICES ASSUME IInv PROVE MapsAreReaped
    OBVIOUS
  <2> QED BY SessionsAssumption DEF IInv, TypeOK, ReapersKeepPace, MapsAreReaped
<1> QED BY SpecIInv, <1>1, PTL
=============================================================================

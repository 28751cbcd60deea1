------------------------------ MODULE Requests ------------------------------
(***************************************************************************)
(* The life of a request, from the rate limiter through the credentials to *)
(* its handler, and what it waits for: the one write and the few read      *)
(* connections of internal/db.  A pool hands its connections to waiters in *)
(* the order they came (Go channels), without a deadline.  The scan takes  *)
(* the write connection like a request and keeps it.  A handler that puts  *)
(* its connection back by defer keeps it until its client has the answer,  *)
(* and one that panics before a put() that is not deferred loses it.       *)
(***************************************************************************)
EXTENDS RateLimiter, Sequences

CONSTANTS
  ReadConn,   \* readPoolSize of them
  WriteConn,
  Scan        \* the scan goroutine that won the compare-and-swap

ASSUME PoolAssumption ==
  /\ ReadConn # {} /\ WriteConn \notin ReadConn /\ None \notin ReadConn \cup {WriteConn}
  /\ Scan \notin Request

VARIABLES
  conn,   \* the connection a request or the scan holds, or None
  free,   \* connections in the pools
  queue,  \* who waits for a connection of each pool
  lost,   \* connections no put() will ever be called for
  scan    \* what Run does

pools == <<conn, free, queue, lost>>
vars == <<at, limiter, pools, scan>>

PoolName == {"read", "write"}
Pool(p) == IF p = "read" THEN ReadConn ELSE {WriteConn}
Taker == Request \cup {Scan}

\* main starts a first scan and then serves.
Init ==
  /\ at = [r \in Request |-> "idle"] /\ LimiterInit
  /\ conn = [t \in Taker |-> None] /\ free = ReadConn \cup {WriteConn} /\ lost = {}
  /\ queue = [p \in PoolName |-> IF p = "write" THEN <<Scan>> ELSE <<>>]
  /\ scan = "waiting"

-----------------------------------------------------------------------------
(* ReadConn, WriteConn and put.                                            *)

\* Mutant of Join: the last one that came is the first to be served.
JoinFront(t, p) == queue' = [queue EXCEPT ![p] = <<t>> \o @]

Join(t, p) == queue' = [queue EXCEPT ![p] = Append(@, t)]

Take(t, p) ==
  /\ queue[p] # <<>> /\ Head(queue[p]) = t
  /\ \E c \in free \cap Pool(p) :
       conn' = [conn EXCEPT ![t] = c] /\ free' = free \ {c}
  /\ queue' = [queue EXCEPT ![p] = Tail(@)] /\ UNCHANGED lost

Put(t) == conn' = [conn EXCEPT ![t] = None] /\ free' = free \cup {conn[t]}

-----------------------------------------------------------------------------
(* authMiddleware.                                                         *)

\* A request to the Subsonic port meets the limiter, one to the admin port or
\* the management UI goes to its handler.
Begin(r) ==
  /\ at[r] = "idle" /\ (Goto(r, "find") \/ Goto(r, "handler"))
  /\ UNCHANGED <<limiter, pools, scan>>

\* A parameter is missing, or a password does not decode, or the API key is in
\* the cache: no connection is needed.
AuthAtOnce(r) ==
  /\ at[r] = "auth" /\ (Goto(r, "idle") \/ Goto(r, "recFind") \/ Goto(r, "clear"))
  /\ UNCHANGED <<limiter, pools, scan>>

AuthJoin(r) ==
  /\ at[r] = "auth" /\ Goto(r, "authWait") /\ Join(r, "read")
  /\ UNCHANGED <<limiter, conn, free, lost, scan>>

AuthTake(r) ==
  /\ at[r] = "authWait" /\ Take(r, "read") /\ Goto(r, "authRead")
  /\ UNCHANGED <<limiter, scan>>

\* The connection goes back before the rows are compared with the request; an
\* error of the database counts as a failed attempt.
AuthRead(r) ==
  /\ at[r] = "authRead" /\ Put(r) /\ (Goto(r, "clear") \/ Goto(r, "recFind"))
  /\ UNCHANGED <<limiter, queue, lost, scan>>

-----------------------------------------------------------------------------
(* The handlers, by the connections they take.                             *)

Waits == {"readWait", "writeWait"}
PoolOf(wait) == IF wait = "writeWait" THEN "write" ELSE "read"
AfterTake(wait) == IF wait = "writeWait" THEN "writing" ELSE "reading"

\* ping, a scan status, a bad parameter.
HandleAtOnce(r) ==
  /\ at[r] = "handler" /\ Goto(r, "idle")
  /\ UNCHANGED <<limiter, pools, scan>>

HandleJoin(r) ==
  /\ at[r] = "handler"
  /\ \E w \in Waits : Goto(r, w) /\ Join(r, PoolOf(w))
  /\ UNCHANGED <<limiter, conn, free, lost, scan>>

\* startScan is answered at once, and its goroutine returns if a scan runs.
HandleScan(r) ==
  /\ at[r] = "handler" /\ Goto(r, "idle")
  /\ scan = "none" /\ scan' = "waiting" /\ Join(Scan, "write")
  /\ UNCHANGED <<limiter, conn, free, lost>>

HandlerTake(r) ==
  /\ at[r] \in Waits /\ Take(r, PoolOf(at[r])) /\ Goto(r, AfterTake(at[r]))
  /\ UNCHANGED <<limiter, scan>>

\* Mutant of ReadDone: an error path calls put() although it is deferred too.
ReadDoneTwice(r) ==
  /\ at[r] = "reading" /\ Put(r) /\ (UNCHANGED at \/ Goto(r, "idle"))
  /\ UNCHANGED <<limiter, queue, lost, scan>>

\* A query is done, and its answer fits what net/http buffers or is written
\* after put().
ReadDone(r) ==
  /\ at[r] = "reading" /\ Put(r) /\ Goto(r, "idle")
  /\ UNCHANGED <<limiter, queue, lost, scan>>

\* Mutant of WriteDone: the error path returns before put().
WriteDoneLeaks(r) ==
  /\ at[r] = "writing" /\ Goto(r, "idle") /\ conn' = [conn EXCEPT ![r] = None]
  /\ UNCHANGED <<limiter, free, queue, lost, scan>>

WriteDone(r) ==
  /\ at[r] = "writing" /\ Put(r) /\ Goto(r, "idle")
  /\ UNCHANGED <<limiter, queue, lost, scan>>

\* A file or an encoded answer goes out under `defer put()`: songs, lists and
\* listings from a read connection, a new playlist from the write connection.
Reply(r) ==
  /\ \/ at[r] = "reading" /\ Goto(r, "readReply")
     \/ at[r] = "writing" /\ Goto(r, "writeReply")
  /\ UNCHANGED <<limiter, pools, scan>>

\* The client has all of it, or is gone.
ReplyEnd(r) ==
  /\ at[r] \in {"readReply", "writeReply"} /\ Put(r) /\ Goto(r, "idle")
  /\ UNCHANGED <<limiter, queue, lost, scan>>

\* A handler of the management UI whose session ended after requireSession
\* evaluates sess.Username between WriteConn and put(): net/http recovers the
\* panic and nobody puts the connection back.
NilSession(r) ==
  /\ at[r] = "writing" /\ Goto(r, "idle")
  /\ conn' = [conn EXCEPT ![r] = None] /\ lost' = lost \cup {conn[r]}
  /\ UNCHANGED <<limiter, free, queue, scan>>

\* Mutant of RenewReadBack: put is deferred to the end of the handler.
RenewReadBackHolding(r) ==
  /\ at[r] = "writing" /\ Goto(r, "readWait") /\ Join(r, "read")
  /\ UNCHANGED <<limiter, conn, free, lost, scan>>

\* Both renewals put the write connection back, then read the row.
RenewReadBack(r) ==
  /\ at[r] = "writing" /\ Put(r) /\ Goto(r, "readWait") /\ Join(r, "read")
  /\ UNCHANGED <<limiter, lost, scan>>

-----------------------------------------------------------------------------
(* Run, of which module ScanPipeline has the inside.                       *)

ScanTake ==
  /\ scan = "waiting" /\ Take(Scan, "write") /\ scan' = "running"
  /\ UNCHANGED <<at, limiter>>

ScanDone ==
  /\ scan = "running" /\ Put(Scan) /\ scan' = "none"
  /\ UNCHANGED <<at, limiter, queue, lost>>

-----------------------------------------------------------------------------
RequestStep(r) ==
  \/ LimiterStep(r) /\ UNCHANGED <<pools, scan>>
  \/ AuthAtOnce(r) \/ AuthJoin(r) \/ AuthTake(r) \/ AuthRead(r)
  \/ HandleAtOnce(r) \/ HandleJoin(r) \/ HandleScan(r) \/ HandlerTake(r)
  \/ ReadDone(r) \/ WriteDone(r) \/ RenewReadBack(r) \/ Reply(r) \/ NilSession(r)
ScanStep == ScanTake \/ ScanDone

Next ==
  \/ \E r \in Request : Begin(r) \/ RequestStep(r) \/ ReplyEnd(r)
  \/ \E e \in Entry : WindowEnds(e) /\ UNCHANGED <<pools, scan>>
  \/ ScanStep

\* Goroutines are scheduled and scans are finite.  Clients need not read what
\* they asked for, whatever it is: the servers have no WriteTimeout.
Fairness == (\A r \in Request : WF_vars(RequestStep(r))) /\ WF_vars(ScanStep)
Spec == Init /\ [][Next]_vars /\ Fairness

-----------------------------------------------------------------------------
(* Properties.                                                             *)

Checks == {"find", "window", "zero", "stamp", "count"}
Records == {"recFind", "recWindow", "recOne", "recStamp", "recAdd"}
ReadHolds == {"authRead", "reading", "readReply"}
WriteHolds == {"writing", "writeReply"}

TypeOK ==
  /\ at \in [Request -> {"idle", "auth", "authWait", "clear", "handler"}
                    \cup Checks \cup Records \cup Waits \cup ReadHolds \cup WriteHolds]
  /\ slot \in Entry \cup {None} /\ held \in [Request -> Entry \cup {None}]
  /\ entry \in [Entry -> [count : Nat, open : BOOLEAN]]
  /\ failed \in 0..FailureLimit /\ tries \in 0..TriesCap
  /\ conn \in [Taker -> ReadConn \cup {WriteConn, None}]
  /\ free \subseteq ReadConn \cup {WriteConn} /\ lost \subseteq ReadConn \cup {WriteConn}
  /\ queue \in [PoolName -> Seq(Taker)]
  /\ scan \in {"none", "waiting", "running"}

\* Each connection is in its pool, in one hand, or lost, and the panic of the
\* management UI at the write connection is the only way to lose one: no other
\* path through the middleware, a handler or the scan loses a connection or hands
\* it out twice, and an answered request holds none.
ConnectionsAccountedFor ==
  /\ lost \subseteq {WriteConn} /\ lost \cap free = {}
  /\ \A c \in ReadConn \cup {WriteConn} :
       c \in free \cup lost \/ \E t \in Taker : conn[t] = c
  /\ \A t, u \in Taker :
       conn[t] # None => conn[t] \notin free \cup lost /\ (conn[u] = conn[t] => u = t)
  /\ \A r \in Request : at[r] = "idle" => conn[r] = None

\* Nobody waits for a connection with another one in hand, so that no requests
\* and scans can wait for each other, however many there are.
NeverWaitHolding ==
  \A p \in PoolName : \A i \in DOMAIN queue[p] : conn[queue[p][i]] = None

\* Every client that is sent an answer takes it or goes away.
ClientsRead == \A r \in Request : []<>(at[r] \notin {"readReply", "writeReply"})

\* If clients read, every request is answered, whatever the scan and the other
\* requests do, save those that wait for the write connection after a panic has
\* lost it: they wait for ever.
EveryRequestAnswered ==
  ClientsRead =>
    \A r \in Request :
      (at[r] # "idle") ~> (at[r] = "idle" \/ (at[r] = "writeWait" /\ WriteConn \in lost))
=============================================================================

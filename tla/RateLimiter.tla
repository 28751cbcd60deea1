---------------------------- MODULE RateLimiter ----------------------------
(***************************************************************************)
(* The failure counter of one client address (checkRateLimit,              *)
(* recordAuthFailure and clearAuthFailure of internal/api/auth.go).  The   *)
(* map is a sync.Map and the two fields of an entry are atomics: each      *)
(* access is a step of its own, and a request may hold an entry that has   *)
(* left the map.  Entries of different addresses share nothing.  The       *)
(* requests themselves are those of module Requests.                       *)
(***************************************************************************)
EXTENDS Integers, FiniteSets

CONSTANTS
  Request,       \* requests in flight at one time
  Entry,         \* *failureEntry values in memory at one time
  FailureLimit,  \* authFailureLimit
  None

ASSUME LimiterAssumption ==
  /\ IsFiniteSet(Request) /\ FailureLimit \in Nat \ {0} /\ None \notin Entry

VARIABLES
  at,      \* where each request is in its code
  slot,    \* s.authFailures: the entry of the address, or None
  entry,   \* count, and whether resetAt lies ahead
  held,    \* the entry a request works on, or None
  failed,  \* failures recorded since the last success, up to FailureLimit (history)
  tries    \* failures recorded in the window of slot, up to TriesCap (history)

limiter == <<slot, entry, held, failed, tries>>

\* The zero value: a count of 0 and a resetAt long past.
NewEntry == [count |-> 0, open |-> FALSE]

\* Most failures that m requests can get through one window: each of them may zero
\* the count once and leave a whole limit to go, and beside it one failure of each
\* of the others that are already past the check.
Budget(m) == m * FailureLimit + (m * (m - 1)) \div 2
WindowLimit == Budget(Cardinality(Request))
TriesCap == WindowLimit + 1
UpTo(cap, n) == IF n < cap THEN n ELSE cap

LimiterInit ==
  /\ slot = None /\ entry = [e \in Entry |-> NewEntry] /\ held = [r \in Request |-> None]
  /\ failed = 0 /\ tries = 0

Goto(r, next) == at' = [at EXCEPT ![r] = next]

\* Entries nobody can reach any more are collected.
Collected(en, s, h) ==
  [e \in Entry |-> IF e = s \/ \E r \in Request : h[r] = e THEN en[e] ELSE NewEntry]
Reachable == {slot} \cup {held[r] : r \in Request}

\* s.authFailures.LoadOrStore(ip, &failureEntry{})
LoadOrStore(r) ==
  /\ \/ slot # None /\ UNCHANGED slot
     \/ slot = None /\ Entry \ Reachable # {} /\ slot' = CHOOSE e \in Entry : e \notin Reachable
  /\ held' = [held EXCEPT ![r] = slot']
  /\ UNCHANGED entry

\* The request is through with its entry.
Release(r, en) ==
  /\ held' = [held EXCEPT ![r] = None]
  /\ entry' = Collected(en, slot, held')
  /\ UNCHANGED slot

SetCount(r, n) == [entry EXCEPT ![held[r]].count = n]
Stamped(r) == [entry EXCEPT ![held[r]].open = TRUE]

-----------------------------------------------------------------------------
(* checkRateLimit.                                                         *)

CheckFind(r) ==
  /\ at[r] = "find" /\ LoadOrStore(r) /\ Goto(r, "window")
  /\ UNCHANGED <<failed, tries>>

\* resetAt is loaded and compared with the time.
CheckWindow(r) ==
  /\ at[r] = "window" /\ Goto(r, IF entry[held[r]].open THEN "count" ELSE "zero")
  /\ UNCHANGED limiter

CheckZero(r) ==
  /\ at[r] = "zero" /\ entry' = SetCount(r, 0) /\ Goto(r, "stamp")
  /\ UNCHANGED <<slot, held, failed, tries>>

CheckStamp(r) ==
  /\ at[r] = "stamp" /\ entry' = Stamped(r) /\ Goto(r, "count")
  /\ UNCHANGED <<slot, held, failed, tries>>

\* Refused with "too many failed attempts", or on to the credentials.
CheckCount(r) ==
  /\ at[r] = "count" /\ Release(r, entry)
  /\ Goto(r, IF entry[held[r]].count >= FailureLimit THEN "idle" ELSE "auth")
  /\ UNCHANGED <<failed, tries>>

-----------------------------------------------------------------------------
(* recordAuthFailure, after which the request is answered.                 *)

RecordFind(r) ==
  /\ at[r] = "recFind" /\ LoadOrStore(r) /\ Goto(r, "recWindow")
  /\ failed' = UpTo(FailureLimit, failed + 1)
  /\ tries' = UpTo(TriesCap, tries + 1)

\* Mutant of RecordWindow: the window is not compared with the time.
RecordWindowIgnored(r) ==
  /\ at[r] = "recWindow" /\ Goto(r, "recOne")
  /\ UNCHANGED limiter

RecordWindow(r) ==
  /\ at[r] = "recWindow" /\ Goto(r, IF entry[held[r]].open THEN "recAdd" ELSE "recOne")
  /\ UNCHANGED limiter

RecordOne(r) ==
  /\ at[r] = "recOne" /\ entry' = SetCount(r, 1) /\ Goto(r, "recStamp")
  /\ UNCHANGED <<slot, held, failed, tries>>

RecordStamp(r) ==
  /\ at[r] = "recStamp" /\ Release(r, Stamped(r)) /\ Goto(r, "idle")
  /\ UNCHANGED <<failed, tries>>

RecordAdd(r) ==
  /\ at[r] = "recAdd" /\ Release(r, SetCount(r, entry[held[r]].count + 1)) /\ Goto(r, "idle")
  /\ UNCHANGED <<failed, tries>>

-----------------------------------------------------------------------------
\* Mutant of ClearAuthFailure: the entry stays in the map.
ClearNothing(r) ==
  /\ at[r] = "clear" /\ Goto(r, "handler")
  /\ failed' = 0 /\ tries' = 0
  /\ UNCHANGED <<slot, entry, held>>

\* clearAuthFailure: the entry leaves the map, also for requests that hold it.
ClearAuthFailure(r) ==
  /\ at[r] = "clear" /\ Goto(r, "handler")
  /\ slot' = None /\ entry' = Collected(entry, None, held)
  /\ failed' = 0 /\ tries' = 0
  /\ UNCHANGED held

\* Five minutes have passed since resetAt was stored.
WindowEnds(e) ==
  /\ entry[e].open
  /\ entry' = [entry EXCEPT ![e].open = FALSE]
  /\ tries' = IF e = slot THEN 0 ELSE tries
  /\ UNCHANGED <<at, slot, held, failed>>

LimiterStep(r) ==
  \/ CheckFind(r) \/ CheckWindow(r) \/ CheckZero(r) \/ CheckStamp(r) \/ CheckCount(r)
  \/ RecordFind(r) \/ RecordWindow(r) \/ RecordOne(r) \/ RecordStamp(r) \/ RecordAdd(r)
  \/ ClearAuthFailure(r)

-----------------------------------------------------------------------------
(* Properties.                                                             *)

\* A success forgives all failures before it: the count in the map never
\* exceeds what was recorded since (TestAuthRateLimitClearsOnSuccess), although
\* a request that found the entry before the deletion still counts on it.
SuccessForgives ==
  slot # None => UpTo(FailureLimit, entry[slot].count) <= failed

\* README.md:110 "Rate limited at 10 failures per 5 minutes per IP", as far as it
\* goes: requests check the count long before they add to it, and each of those
\* that saw the old window end may zero it once more, after the others have used it.
WindowBound == tries <= WindowLimit
=============================================================================

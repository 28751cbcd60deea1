----------------------------- MODULE TrackLedger -----------------------------
(***************************************************************************)
(* What the scan pipeline of Scanner.Run promises about the files of one   *)
(* run, without its goroutines and channels: each file is settled exactly  *)
(* once, in a final way, and the run does not reach the sweep while a file *)
(* it queued is still unsettled or was dropped after a writer error.       *)
(***************************************************************************)
CONSTANT File

VARIABLES
  status,   \* what has become of each file
  verdict   \* "open" until the run goes on to the sweep or returns an error

ledger == <<status, verdict>>

Settled == {"unseen", "unchanged", "unreadable", "stored", "uncommitted"}
Status == {"pending", "queued", "dropped"} \cup Settled

Init == status = [f \in File |-> "pending"] /\ verdict = "open"

\* The files of S, all in state `from', go to state `to' together.
Move(S, from, to) ==
  /\ verdict = "open" /\ S # {}
  /\ \A f \in S : status[f] = from
  /\ status' = [f \in File |-> IF f \in S THEN to ELSE status[f]]
  /\ UNCHANGED verdict

Visit  == \E f \in File : \E to \in {"unseen", "unchanged", "queued"} :
            Move({f}, "pending", to)
Reject == \E f \in File : Move({f}, "queued", "unreadable")
\* A batch settles together; files after a writer error are dropped.
Batch  == \E S \in SUBSET File : \E to \in {"stored", "uncommitted", "dropped"} :
            Move(S, "queued", to)

Close ==
  /\ verdict = "open"
  /\ \A f \in File : status[f] \in Settled \cup {"dropped"}
  /\ verdict' = IF \E f \in File : status[f] = "dropped" THEN "failed" ELSE "sweep"
  /\ UNCHANGED status

Next == Visit \/ Reject \/ Batch \/ Close
Safety == Init /\ [][Next]_ledger
Spec == Safety /\ WF_ledger(Next)
=============================================================================

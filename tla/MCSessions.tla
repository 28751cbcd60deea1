----------------------------- MODULE MCSessions -----------------------------
EXTENDS Sessions, TLC

\* Requests, ids and states only occur in equalities.
Symmetry == Permutations(Req) \cup Permutations(Sid) \cup Permutations(State)
=============================================================================

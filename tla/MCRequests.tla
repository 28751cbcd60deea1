----------------------------- MODULE MCRequests -----------------------------
(* Two requests, one read connection: enough for a client to keep everybody *)
(* waiting, for a scan and two requests at the write connection, and for    *)
(* two checks that see the same window end.                                 *)
EXTENDS Requests
=============================================================================

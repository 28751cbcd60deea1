--------------------------- MODULE MCCredentials ---------------------------
(* One key, two requests racing each other and the admin: the interesting   *)
(* races are all about one key, whose row and entry no other key touches.   *)
EXTENDS Credentials, TLC
Symmetry == Permutations(Request)
=============================================================================

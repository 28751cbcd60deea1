---------------------------- MODULE MCPlaylists ----------------------------
(* Two users, one list, three songs: enough for a gap in the middle of a    *)
(* list, for a foreign caller and for a request naming a dead song.  No     *)
(* action reads the history variable, so states that differ only in it are  *)
(* one state; the action properties are evaluated on every step all the     *)
(* same.                                                                    *)
EXTENDS Playlists
View == <<owner, rows, live>>
=============================================================================

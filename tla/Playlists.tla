----------------------------- MODULE Playlists -----------------------------
(***************************************************************************)
(* Playlists (internal/api/playlists.go) and the scanner that deletes      *)
(* songs under them.  Every handler is one transaction on the one write    *)
(* connection, so two of them never overlap and a failing statement rolls  *)
(* all of its work back; what can go wrong lies in sequences of requests   *)
(* by several users and of sweeps.  Name, comment and public flag, which   *)
(* only the owner's requests change, are left out.                         *)
(***************************************************************************)
EXTENDS Integers, FiniteSets, SequencesExt

CONSTANTS
  Playlist, User, Song,
  MaxPlaylistSongs,  \* createPlaylist refuses more (10,000)
  MaxPosition,       \* bound: positions that may come into use
  NoOwner

\* The bound on positions leaves room for every list createPlaylist takes.
ASSUME PlaylistAssumption ==
  /\ MaxPlaylistSongs \in Nat /\ MaxPosition \in Nat
  /\ MaxPlaylistSongs <= MaxPosition + 1
  /\ NoOwner \notin User
  /\ IsFiniteSet(Song)

VARIABLES
  owner,  \* user_id of each playlist row, or NoOwner if there is none
  rows,   \* playlist_song of each playlist: its positions and their songs
  live,   \* ids in the song table
  served  \* the request served last (history)

vars == <<owner, rows, live, served>>

NoRows == << >>
Nothing == [op |-> "none"]
Init ==
  /\ owner = [p \in Playlist |-> NoOwner] /\ rows = [p \in Playlist |-> NoRows]
  /\ live = {} /\ served = Nothing

-----------------------------------------------------------------------------
\* The k-th position in ascending order.
Nth(D, k) == CHOOSE i \in D : Cardinality({j \in D : j < i}) = k - 1

\* The values of a function on integers, by ascending argument.
InOrder(t) == [k \in 1..Cardinality(DOMAIN t) |-> t[Nth(DOMAIN t, k)]]

\* What getPlaylist returns: the songs ORDER BY position.
Listed(t) == InOrder(t)

\* Mutant of CanInsert: the connection does not enforce foreign keys.
CanInsertUnchecked(t, exists, at, add) == \A i \in DOMAIN add : at + i - 1 \notin DOMAIN t

\* The INSERTs at positions at, at + 1, ...: each needs a row in playlist (exists),
\* a live song (foreign keys) and a free position (primary key).
CanInsert(t, exists, at, add) ==
  \A i \in DOMAIN add : exists /\ add[i] \in live /\ at + i - 1 \notin DOMAIN t
Inserted(t, at, add) ==
  [i \in DOMAIN t \cup at..(at + Len(add) - 1) |->
     IF i \in DOMAIN t THEN t[i] ELSE add[i - at + 1]]

\* resequencePlaylist: contiguous positions from 0, in the order they had.
Resequenced(t) == LET s == Listed(t) IN [i \in 0..(Len(s) - 1) |-> s[i + 1]]

-----------------------------------------------------------------------------
(* The handlers.  Songs a request names may be unknown or long gone.       *)

\* createPlaylist without playlistId: a new row owned by the caller.
CreateNew(u, p, add) ==
  /\ owner[p] = NoOwner /\ Len(add) <= MaxPlaylistSongs
  /\ IF CanInsert(NoRows, TRUE, 0, add)
     THEN /\ owner' = [owner EXCEPT ![p] = u]
          /\ rows' = [rows EXCEPT ![p] = Inserted(NoRows, 0, add)]
     ELSE UNCHANGED <<owner, rows>>
  /\ served' = Nothing
  /\ UNCHANGED live

\* Mutant of Replace: a failing INSERT returns without ROLLBACK and the DELETE
\* before it is committed.
ReplaceKeepsDelete(p, add) ==
  /\ Len(add) <= MaxPlaylistSongs
  /\ rows' = [rows EXCEPT ![p] =
       IF CanInsert(NoRows, owner[p] # NoOwner, 0, add) THEN Inserted(NoRows, 0, add)
       ELSE NoRows]
  /\ served' = [op |-> "replace", list |-> p, add |-> add]
  /\ UNCHANGED <<owner, live>>

\* createPlaylist with playlistId: the songs are replaced, whoever asks.
Replace(p, add) ==
  /\ Len(add) <= MaxPlaylistSongs
  /\ rows' = [rows EXCEPT ![p] =
       IF CanInsert(NoRows, owner[p] # NoOwner, 0, add) THEN Inserted(NoRows, 0, add)
       ELSE @]
  /\ served' = [op |-> "replace", list |-> p, add |-> add]
  /\ UNCHANGED <<owner, live>>

\* Mutant of AppendAt: the number of songs, without the gaps a sweep left.
AppendAtCount(t) == Cardinality(DOMAIN t)

\* COALESCE(MAX(position), -1) + 1
AppendAt(t) == Max({-1} \cup DOMAIN t) + 1

\* The rows left by songIndexToRemove: the position, not the index, is compared.
\* given: the parameter was there, even if no value of it was a number.
Removed(t, given, index) ==
  IF given THEN Resequenced(Restrict(t, DOMAIN t \ index)) ELSE t

\* updatePlaylist, whoever asks: removals, then additions at the end.
Update(p, given, index, add) ==
  /\ index # {} => given
  /\ LET left == Removed(rows[p], given, index)
         at   == AppendAt(left)
     IN /\ at + Len(add) - 1 <= MaxPosition
        /\ rows' = [rows EXCEPT ![p] =
             IF CanInsert(left, owner[p] # NoOwner, at, add) THEN Inserted(left, at, add)
             ELSE @]
  /\ served' = [op |-> "update", list |-> p, given |-> given, index |-> index, add |-> add]
  /\ UNCHANGED <<owner, live>>

\* deletePlaylist: the songs go whoever asks, the row only for its owner.
DeletePlaylist(u, p) ==
  /\ rows' = [rows EXCEPT ![p] = NoRows]
  /\ owner' = [owner EXCEPT ![p] = IF @ = u THEN NoOwner ELSE @]
  /\ served' = Nothing
  /\ UNCHANGED live

-----------------------------------------------------------------------------
(* The scanner.                                                            *)

\* upsertSong of a new path.
NewSong(s) ==
  /\ s \notin live
  /\ live' = live \cup {s} /\ served' = Nothing /\ UNCHANGED <<owner, rows>>

\* One deleteSongs transaction: the rows of the songs, then the songs.  The
\* positions of the others stay as they are.
SweepSongs(gone) ==
  /\ gone # {} /\ gone \subseteq live
  /\ live' = live \ gone
  /\ rows' = [p \in Playlist |->
       Restrict(rows[p], {i \in DOMAIN rows[p] : rows[p][i] \notin gone})]
  /\ served' = Nothing
  /\ UNCHANGED owner

-----------------------------------------------------------------------------
CONSTANT MaxRequestSongs  \* bound: songs named by one request
Adds == BoundedSeq(Song, MaxRequestSongs)

Next ==
  \/ \E p \in Playlist, add \in Adds :
       \/ \E u \in User : CreateNew(u, p, add)
       \/ Replace(p, add)
       \/ \E given \in BOOLEAN, index \in SUBSET (0..MaxPosition) : Update(p, given, index, add)
  \/ \E u \in User, p \in Playlist : DeletePlaylist(u, p)
  \/ \E s \in Song : NewSong(s)
  \/ \E gone \in SUBSET Song : SweepSongs(gone)

Spec == Init /\ [][Next]_vars

-----------------------------------------------------------------------------
(* Properties.                                                             *)

\* The shape of the tables; playlist_song refers to rows that exist.
TypeOK ==
  /\ owner \in [Playlist -> User \cup {NoOwner}] /\ live \subseteq Song
  /\ \A p \in Playlist :
       /\ DOMAIN rows[p] \subseteq 0..MaxPosition
       /\ Range(rows[p]) \subseteq live
       /\ owner[p] = NoOwner => rows[p] = NoRows

Kept(s, K) == InOrder(Restrict(s, K))

\* An update either leaves the list alone or takes out at most as many songs as
\* it names indices, keeps the order of the others and ends with exactly the
\* songs it adds; when the list exists and the songs are live it is never
\* refused, whatever gaps earlier sweeps left in the positions.
UpdateEdits ==
  [][served'.op = "update" =>
       LET p == served'.list
           before == Listed(rows[p])  after == Listed(rows'[p])
       IN \/ /\ \E K \in SUBSET (DOMAIN before) :
                  /\ Cardinality(K) >= Len(before) - Cardinality(served'.index)
                  /\ after = Kept(before, K) \o served'.add
             /\ served'.given => DOMAIN rows'[p] = 0..(Len(after) - 1)
          \/ /\ rows'[p] = rows[p]
             /\ owner[p] = NoOwner \/ ~(Range(served'.add) \subseteq live)]_vars

\* Replacing the songs of a playlist leaves the old list or the whole new one,
\* never a part, although the DELETE comes long before the last INSERT.
ReplaceAllOrNothing ==
  [][served'.op = "replace" =>
       LET p == served'.list
       IN Listed(rows'[p]) = served'.add \/ rows'[p] = rows[p]]_vars

\* playlists.go:359 "Remove songs by index": the songs a client sees at the
\* indices it sends are the ones that go.  Violated: after a sweep the positions
\* have gaps, and positions are what the DELETE compares with the indices.
RemovesByIndex ==
  [][served'.op = "update" /\ served'.given /\ served'.add = << >> =>
       LET p == served'.list
           before == Listed(rows[p])
       IN Listed(rows'[p]) =
            Kept(before, {i \in DOMAIN before : i - 1 \notin served'.index})]_vars
=============================================================================

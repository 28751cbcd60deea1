------------------------------ MODULE Library ------------------------------
(***************************************************************************)
(* The music library: the files under MUSIC_DIR, the tables Scanner.Run    *)
(* derives from them, and the user data that refers to songs.  A scan is a *)
(* series of commits on the one write connection, which it holds from its  *)
(* first statement to its last, so API writers wait for it, while files    *)
(* change, statements fail and the process dies at any point between two   *)
(* commits.  The goroutines of the scan are in ScanPipeline; here they are *)
(* the interleaved per-file steps Visit, Open, ReadTags and InsertBatch.   *)
(*                                                                         *)
(* Content of a file is its version, a number unique to each write: it     *)
(* stands for (mtime, size) and for the tags read with it.                 *)
(***************************************************************************)
EXTENDS Integers, FiniteSets, Functions, FiniteSetsExt

CONSTANTS
  Path,         \* supported audio files that may exist under the music dir
  Album, Artist,
  AlbumOf,      \* album named by the tags of a version
  ArtistOf,     \* artist of an album: the pair (artist, name) is unique
  MaxVersion,   \* bound: writes to the disk
  MaxId,        \* bound: song rows ever created
  MaxScans,     \* bound: scans started
  ChunkSize,    \* songs per deleteSongs transaction (500)
  NoSong

ASSUME LibraryAssumption ==
  /\ MaxVersion \in Nat /\ MaxId \in Nat /\ MaxScans \in Nat /\ ChunkSize \in Nat \ {0}
  /\ AlbumOf \in [1..MaxVersion -> Album] /\ ArtistOf \in [Album -> Artist]
  /\ IsFiniteSet(Path)
  /\ NoSong \notin [id : Nat, rowid : Nat, stat : Nat, tags : Nat]

VARIABLES
  disk, clock,      \* version of each file (0: no file), last version written
  song,             \* Path -> row or NoSong (path is UNIQUE)
  lastId,           \* ids are random and never reused: a counter
  albums, artists,  \* rows of the album and artist tables
  songCount,        \* album.song_count
  fts,              \* song_fts: indexed text by rowid
  plays, stars,     \* song ids in play_history and in star (item_type song)
  scan,             \* step of the scan; "idle" none runs, "down" no process
  job,              \* what the running scan did with each file
  known, seen,      \* knownFiles (0: unknown) and seenPaths of the running scan
  scans,            \* scans started
  outcome,          \* how the last scan ended; "none" while one runs
  touched,          \* paths a scan promises nothing about: file changed, walk
                    \* or read failed, or COMMIT lost since the scan started
  ftsLost           \* the COMMIT of the last rebuildFTS failed silently

diskVars  == <<disk, clock>>
songVars  == <<song, lastId, albums, artists>>
userVars  == <<plays, stars>>
scanVars  == <<scan, job, known, seen, scans, outcome>>
vars == <<diskVars, songVars, songCount, fts, userVars, scanVars, touched, ftsLost>>

Version == 1..MaxVersion
Idle == [at |-> "none", stat |-> 0, tags |-> 0]
Present == {p \in Path : song[p] # NoSong}
Live == {song[p].id : p \in Present}
SongsOf(a) == {p \in Present : AlbumOf[song[p].tags] = a}
Indexed == {[rowid |-> song[p].rowid, tags |-> song[p].tags] : p \in Present}

Init ==
  /\ disk = [p \in Path |-> 0] /\ clock = 0
  /\ song = [p \in Path |-> NoSong] /\ lastId = 0
  /\ albums = {} /\ artists = {} /\ songCount = [a \in Album |-> 0] /\ fts = {}
  /\ plays = {} /\ stars = {}
  /\ scan = "idle" /\ job = [p \in Path |-> Idle] /\ known = [p \in Path |-> 0]
  /\ seen = {} /\ scans = 0 /\ outcome = "none" /\ touched = {} /\ ftsLost = FALSE

-----------------------------------------------------------------------------
(* The music directory, written by others at any time.                     *)

WriteFile(p) ==
  /\ clock < MaxVersion
  /\ clock' = clock + 1 /\ disk' = [disk EXCEPT ![p] = clock + 1]
  /\ touched' = touched \cup {p}
  /\ UNCHANGED <<songVars, songCount, fts, userVars, scanVars, ftsLost>>

RemoveFile(p) ==
  /\ disk[p] # 0
  /\ disk' = [disk EXCEPT ![p] = 0]
  /\ touched' = touched \cup {p}
  /\ UNCHANGED <<clock, songVars, songCount, fts, userVars, scanVars, ftsLost>>

-----------------------------------------------------------------------------
(* API writers: they need the write connection, so no scan is running.  A  *)
(* client may still hold the id of a song that was deleted.                *)

\* handleScrobble: play_history.song_id is a foreign key, else ROLLBACK.
Scrobble(id) ==
  /\ scan = "idle" /\ id \in Live
  /\ plays' = plays \cup {id}
  /\ UNCHANGED <<diskVars, songVars, songCount, fts, stars, scanVars, touched, ftsLost>>

\* starInsert: no foreign key, so any id is accepted.
Star(id) ==
  /\ scan = "idle"
  /\ stars' = stars \cup {id}
  /\ UNCHANGED <<diskVars, songVars, songCount, fts, plays, scanVars, touched, ftsLost>>

Unstar(id) ==
  /\ scan = "idle"
  /\ stars' = stars \ {id}
  /\ UNCHANGED <<diskVars, songVars, songCount, fts, plays, scanVars, touched, ftsLost>>

-----------------------------------------------------------------------------
(* Scanner.Run: the pipeline.                                              *)

\* The CAS on scanning succeeds, the write connection is taken, knownFiles is
\* loaded.  A second Run while one is active returns an error and does nothing.
StartScan ==
  /\ scan = "idle" /\ scans < MaxScans
  /\ scan' = "walk" /\ scans' = scans + 1 /\ outcome' = "none"
  /\ known' = [p \in Path |-> IF song[p] = NoSong THEN 0 ELSE song[p].stat]
  /\ seen' = {} /\ job' = [p \in Path |-> [Idle EXCEPT !.at = "ahead"]]
  /\ touched' = {} /\ ftsLost' = FALSE
  /\ UNCHANGED <<diskVars, songVars, songCount, fts, userVars>>

\* The file is not listed, or the walk or d.Info() fails: logged and skipped
\* before seenPaths.
VisitMiss(p) ==
  /\ scan = "walk" /\ job[p].at = "ahead"
  /\ job' = [job EXCEPT ![p] = Idle]
  /\ touched' = IF disk[p] = 0 THEN touched ELSE touched \cup {p}
  /\ UNCHANGED <<diskVars, songVars, songCount, fts, userVars, scan, known,
                 seen, scans, outcome, ftsLost>>

\* Mutant of Visit: seenPaths is set on the skip path only.
VisitMarksUnchanged(p) ==
  /\ scan = "walk" /\ job[p].at = "ahead" /\ disk[p] # 0
  /\ seen' = IF known[p] = disk[p] THEN seen \cup {p} ELSE seen
  /\ job' = [job EXCEPT ![p] = IF known[p] = disk[p] THEN Idle
                               ELSE [Idle EXCEPT !.at = "queued"]]
  /\ UNCHANGED <<diskVars, songVars, songCount, fts, userVars, scan, known,
                 scans, outcome, touched, ftsLost>>

\* Size and mtime as in the row: skipped; otherwise queued for a worker.
Visit(p) ==
  /\ scan = "walk" /\ job[p].at = "ahead" /\ disk[p] # 0
  /\ seen' = seen \cup {p}
  /\ job' = [job EXCEPT ![p] = IF known[p] = disk[p] THEN Idle
                               ELSE [Idle EXCEPT !.at = "queued"]]
  /\ UNCHANGED <<diskVars, songVars, songCount, fts, userVars, scan, known,
                 scans, outcome, touched, ftsLost>>

\* readTrack, first half: open the file and take size and mtime from f.Stat().
Open(p) ==
  /\ scan = "walk" /\ job[p].at = "queued" /\ disk[p] # 0
  /\ job' = [job EXCEPT ![p] = [at |-> "opened", stat |-> disk[p], tags |-> 0]]
  /\ UNCHANGED <<diskVars, songVars, songCount, fts, userVars, scan, known,
                 seen, scans, outcome, touched, ftsLost>>

\* Mutant of ReadTags: f.Stat() is called after the tags were read, so a write
\* between the two leaves old tags under the new mtime.
ReadTagsThenStat(p) ==
  /\ scan = "walk" /\ job[p].at = "opened" /\ disk[p] # 0
  /\ job' = [job EXCEPT ![p] = [at |-> "read", stat |-> disk[p], tags |-> @.stat]]
  /\ UNCHANGED <<diskVars, songVars, songCount, fts, userVars, scan, known,
                 seen, scans, outcome, touched, ftsLost>>

\* readTrack, second half: tags and duration, from what is read now: the file as
\* rewritten in place, or the opened inode if it was replaced or unlinked.
ReadTags(p) ==
  /\ scan = "walk" /\ job[p].at = "opened"
  /\ \E t \in {job[p].stat, disk[p]} \ {0} :
       job' = [job EXCEPT ![p].at = "read", ![p].tags = t]
  /\ UNCHANGED <<diskVars, songVars, songCount, fts, userVars, scan, known,
                 seen, scans, outcome, touched, ftsLost>>

\* Open or Stat fails, or a tag reader panics: the worker warns and goes on.
ReadTrackError(p) ==
  /\ scan = "walk" /\ job[p].at \in {"queued", "opened"}
  /\ job' = [job EXCEPT ![p] = Idle]
  /\ touched' = touched \cup {p}
  /\ UNCHANGED <<diskVars, songVars, songCount, fts, userVars, scan, known,
                 seen, scans, outcome, ftsLost>>

Results == {p \in Path : job[p].at = "read"}
TopRowid == Max({0} \cup {song[p].rowid : p \in Present})

\* Mutant of Upsert: INSERT OR REPLACE gives a known path a new id.
UpsertReplace(p, k) ==
  [id |-> lastId + k, rowid |-> TopRowid + k, stat |-> job[p].stat, tags |-> job[p].tags]

\* upsertSong: ON CONFLICT(path) keeps id and rowid; a new row gets a new id
\* and the rowid after the largest one in use.
Upsert(p, k) ==
  IF song[p] # NoSong
  THEN [song[p] EXCEPT !.stat = job[p].stat, !.tags = job[p].tags]
  ELSE [id |-> lastId + k, rowid |-> TopRowid + k,
        stat |-> job[p].stat, tags |-> job[p].tags]

\* insertBatch of the results at hand: artists, albums and songs are upserted
\* in one transaction, in the order the results came in.
InsertBatch ==
  /\ scan = "walk" /\ Results # {}
  /\ LET new == Results \ Present
         named == {AlbumOf[job[p].tags] : p \in Results}
     IN /\ lastId + Cardinality(new) <= MaxId
        /\ \E order \in Bijection(Results, 1..Cardinality(Results)) :
             /\ \A p \in new : order[p] <= Cardinality(new)
             /\ song' = [p \in Path |->
                           IF p \in Results THEN Upsert(p, order[p]) ELSE song[p]]
        /\ lastId' = lastId + Cardinality(new)
        /\ albums' = albums \cup named
        /\ artists' = artists \cup {ArtistOf[a] : a \in named}
  /\ job' = [p \in Path |-> IF p \in Results THEN Idle ELSE job[p]]
  /\ UNCHANGED <<diskVars, songCount, fts, userVars, scan, known, seen, scans,
                 outcome, touched, ftsLost>>

\* The COMMIT of insertBatch fails: rolled back, but nil is returned.
InsertBatchLost ==
  /\ scan = "walk" /\ Results # {}
  /\ touched' = touched \cup Results
  /\ job' = [p \in Path |-> IF p \in Results THEN Idle ELSE job[p]]
  /\ UNCHANGED <<diskVars, songVars, songCount, fts, userVars, scan, known,
                 seen, scans, outcome, ftsLost>>

\* Every channel is drained and the writer is done: on to the sweep.
PipelineDone ==
  /\ scan = "walk" /\ \A p \in Path : job[p] = Idle
  /\ scan' = "sweep"
  /\ UNCHANGED <<diskVars, songVars, songCount, fts, userVars, job, known, seen,
                 scans, outcome, touched, ftsLost>>

-----------------------------------------------------------------------------
(* Scanner.Run: the maintenance steps, each its own commit.                *)

Finish(how) == scan' = "idle" /\ outcome' = how
Goto(step)  == scan' = step /\ UNCHANGED outcome
Gone == {p \in Path : known[p] # 0 /\ p \notin seen}

\* Mutant of SweepChunk: play_history is cleared for every path that was not
\* re-inserted, not only for the songs of the chunk.
SweepChunkAllPlays(S) ==
  LET ids == {song[p].id : p \in S} IN
  /\ song' = [p \in Path |-> IF p \in S THEN NoSong ELSE song[p]]
  /\ plays' = {} /\ stars' = stars \ ids

\* Mutant of SweepChunk: the dependent rows are left behind.
SweepChunkSongsOnly(S) ==
  /\ song' = [p \in Path |-> IF p \in S THEN NoSong ELSE song[p]]
  /\ UNCHANGED userVars

\* The statements of one deleteSongs transaction: the user data of the chunk's
\* songs, then the songs.
SweepChunk(S) ==
  LET ids == {song[p].id : p \in S} IN
  /\ song' = [p \in Path |-> IF p \in S THEN NoSong ELSE song[p]]
  /\ plays' = plays \ ids /\ stars' = stars \ ids

\* deleteSongs, one chunk after the other.
DeleteSongs ==
  /\ scan = "sweep" /\ Gone \cap Present # {}
  /\ \E S \in SUBSET (Gone \cap Present) :
       /\ S # {} /\ Cardinality(S) <= ChunkSize
       /\ SweepChunk(S)
  /\ UNCHANGED <<diskVars, lastId, albums, artists, songCount, fts, scanVars,
                 touched, ftsLost>>

SweepDone ==
  /\ scan = "sweep" /\ Gone \cap Present = {} /\ Goto("stats")
  /\ UNCHANGED <<diskVars, songVars, songCount, fts, userVars, job, known, seen,
                 scans, touched, ftsLost>>

\* Mutant of UpdateAlbumStats: only albums whose count was never set.
StatsOfNewAlbums ==
  /\ scan = "stats" /\ Goto("albums")
  /\ songCount' = [a \in Album |-> IF songCount[a] = 0 THEN Cardinality(SongsOf(a))
                                   ELSE songCount[a]]
  /\ UNCHANGED <<diskVars, songVars, fts, userVars, job, known, seen, scans,
                 touched, ftsLost>>

\* updateAlbumStats: only albums that have songs are in the aggregate.
UpdateAlbumStats ==
  /\ scan = "stats" /\ Goto("albums")
  /\ songCount' = [a \in Album |-> IF SongsOf(a) # {} THEN Cardinality(SongsOf(a))
                                   ELSE songCount[a]]
  /\ UNCHANGED <<diskVars, songVars, fts, userVars, job, known, seen, scans,
                 touched, ftsLost>>

\* deleteOrphans is two statements, each committed on its own.
DeleteOrphanAlbums ==
  /\ scan = "albums" /\ Goto("artists")
  /\ albums' = {a \in albums : SongsOf(a) # {}}
  /\ songCount' = [a \in Album |-> IF a \in albums' THEN songCount[a] ELSE 0]
  /\ UNCHANGED <<diskVars, song, lastId, artists, fts, userVars, job, known,
                 seen, scans, touched, ftsLost>>

DeleteOrphanArtists ==
  /\ scan = "artists" /\ Goto("fts")
  /\ artists' = artists \cap {ArtistOf[a] : a \in albums}
  /\ UNCHANGED <<diskVars, song, lastId, albums, songCount, fts, userVars, job,
                 known, seen, scans, touched, ftsLost>>

\* rebuildFTS drops, recreates and refills the index in one transaction; then
\* PRAGMA optimize, and Run returns nil.
RebuildFTS ==
  /\ scan = "fts" /\ Finish("ok")
  /\ fts' = Indexed
  /\ UNCHANGED <<diskVars, songVars, songCount, userVars, job, known, seen,
                 scans, touched, ftsLost>>

\* The refilling INSERT fails, but its error is returned without being stored
\* in the err that endFn reads: the DROP and the CREATE are committed.
RebuildFTSInsertFails ==
  /\ scan = "fts" /\ Finish("error")
  /\ fts' = {}
  /\ UNCHANGED <<diskVars, songVars, songCount, userVars, job, known, seen,
                 scans, touched, ftsLost>>

\* The COMMIT fails: the old index stays and Run returns nil all the same.
RebuildFTSLost ==
  /\ scan = "fts" /\ Finish("ok")
  /\ ftsLost' = TRUE
  /\ UNCHANGED <<diskVars, songVars, songCount, fts, userVars, job, known, seen,
                 scans, touched>>

\* A statement of the running step fails (loading, the writer, the sweep, the
\* aggregates, the orphans, BEGIN, DROP or CREATE): Run returns the error with
\* the earlier commits in place.  PRAGMA optimize can fail after the rebuild.
ScanError ==
  /\ scan \notin {"idle", "down"} /\ Finish("error")
  /\ job' = [p \in Path |-> Idle]
  /\ UNCHANGED <<diskVars, songVars, songCount, fts, userVars, known, seen,
                 scans, touched, ftsLost>>

\* The process dies: what was not committed is lost, the tables stay.  main
\* starts the next process with a scan.
Crash ==
  /\ scan # "down" /\ scan' = "down" /\ outcome' = "none"
  /\ job' = [p \in Path |-> Idle] /\ known' = [p \in Path |-> 0] /\ seen' = {}
  /\ UNCHANGED <<diskVars, songVars, songCount, fts, userVars, scans, touched, ftsLost>>

Restart ==
  /\ scan = "down" /\ scan' = "idle"
  /\ UNCHANGED <<diskVars, songVars, songCount, fts, userVars, job, known, seen,
                 scans, outcome, touched, ftsLost>>

-----------------------------------------------------------------------------
Disk == \E p \in Path : WriteFile(p) \/ RemoveFile(p)
Api  == \E id \in 1..lastId : Scrobble(id) \/ Star(id) \/ Unstar(id)
Pipeline ==
  \/ StartScan \/ InsertBatch \/ InsertBatchLost \/ PipelineDone
  \/ \E p \in Path : VisitMiss(p) \/ Visit(p) \/ Open(p) \/ ReadTags(p) \/ ReadTrackError(p)
Maintain ==
  \/ DeleteSongs \/ SweepDone \/ UpdateAlbumStats \/ DeleteOrphanAlbums
  \/ DeleteOrphanArtists \/ RebuildFTS \/ RebuildFTSInsertFails \/ RebuildFTSLost
Next == Disk \/ Api \/ Pipeline \/ Maintain \/ ScanError \/ Crash \/ Restart

Spec == Init /\ [][Next]_vars

-----------------------------------------------------------------------------
(* Properties.                                                             *)

Row == [id : 1..lastId, rowid : 1..lastId, stat : Version, tags : Version]

TypeOK ==
  /\ disk \in [Path -> 0..MaxVersion] /\ clock \in 0..MaxVersion
  /\ song \in [Path -> Row \cup {NoSong}] /\ lastId \in 0..MaxId
  /\ albums \subseteq Album /\ artists \subseteq Artist
  /\ songCount \in [Album -> Nat]
  /\ fts \subseteq [rowid : 1..MaxId, tags : Version]
  /\ plays \subseteq 1..lastId /\ stars \subseteq 1..lastId
  /\ scan \in {"idle", "down", "walk", "sweep", "stats", "albums", "artists", "fts"}
  /\ job \in [Path -> [at : {"none", "ahead", "queued", "opened", "read"},
                       stat : 0..MaxVersion, tags : 0..MaxVersion]]
  /\ known \in [Path -> 0..MaxVersion] /\ seen \subseteq Path
  /\ scans \in 0..MaxScans /\ outcome \in {"none", "ok", "error"}
  /\ touched \subseteq Path /\ ftsLost \in BOOLEAN

\* The foreign keys hold at every commit, also when a scan stops half way:
\* plays of songs, songs of albums and artists, albums of artists.  A delete
\* that broke one would be refused by SQLite and fail every later scan.
ReferencesOK ==
  /\ plays \subseteq Live
  /\ \A p \in Present : AlbumOf[song[p].tags] \in albums
  /\ \A a \in albums : ArtistOf[a] \in artists

\* Skipping a file whose size and mtime match its row is sound: the row then
\* holds the tags of that very version, whatever was written to the file while
\* a scan was reading it.
SkipIsSound ==
  \A p \in Present : song[p].stat = disk[p] => song[p].tags = disk[p]

Completed == scan = "idle" /\ outcome = "ok"

\* After a scan that returned nil the song table mirrors the disk, for every
\* path that did not change, fail to read or lose its COMMIT meanwhile,
\* whatever crashes and errors the scans before it met.
CompletedScanMirrors ==
  Completed => \A p \in Path \ touched :
    IF disk[p] = 0 THEN song[p] = NoSong
    ELSE song[p] # NoSong /\ song[p].stat = disk[p] /\ song[p].tags = disk[p]

\* ... and the derived tables agree with the song table: counts, no album or
\* artist without songs, and one index entry per song under its rowid.
CompletedScanTidy ==
  Completed =>
    /\ albums = {AlbumOf[song[p].tags] : p \in Present}
    /\ artists = {ArtistOf[a] : a \in albums}
    /\ \A a \in albums : songCount[a] = Cardinality(SongsOf(a))
    /\ ~ftsLost => fts = Indexed

\* A rescan never gives a song another id while its row exists, so plays, stars
\* and playlists keep pointing at the same file.
IdStable ==
  [][\A p \in Present \cap Present' : song'[p].id = song[p].id]_vars

\* User data goes only with its song, or because the user removed the star.
UserDataGoesWithSong ==
  [][/\ plays \ plays' \subseteq Live \ Live'
     /\ scan # "idle" => stars \ stars' \subseteq Live \ Live']_vars

\* scanner.go:229 "Mark-and-sweep: delete songs whose files no longer exist on
\* disk" (also scanner.go:539).  Violated: a walk or stat error keeps a file out
\* of seenPaths, and the sweep takes that for its absence.
SweepOnlyGone ==
  [][\A p \in Present \ Present' : disk[p] = 0]_vars

\* scanner.go:627 "Wrap in a transaction so concurrent reads see either the old
\* or new table, never a missing one".  Violated: a failing INSERT commits the
\* empty table.
IndexOldOrNew ==
  [][fts' # fts => fts' = Indexed']_vars
=============================================================================

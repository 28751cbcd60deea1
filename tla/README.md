# A TLA+ verification of preamp

preamp is a Subsonic music server in Go: it scans a directory of audio files
into SQLite, serves the library over the Subsonic API, and mints client
credentials through an admin API and a management UI. This directory holds TLA+
models of its stateful parts, TLC configurations that check them on small
instances, and TLAPS proofs that hold for every instance.

Paths below are relative to the repository; `scanner.go` is
`internal/scanner/scanner.go`, `auth.go`, `admin.go`, `playlists.go`, ... are in
`internal/api/`, `handlers.go` and `session.go` in `internal/manage/`.

## 1. The system

| Component | State | Operations | What is hard about it |
|---|---|---|---|
| Scan pipeline (`scanner.go` `Run`) | two bounded channels, 32 workers, one writer, `knownFiles`, `seenPaths`, `count` | walk, parse, batch insert | goroutines that block each other, close discipline, errors of one stage while others run |
| Library tables (`scanner.go`, `internal/db/schema.go`) | artist, album, song, song_fts | batches, sweep, aggregates, orphans, index rebuild, each a commit of its own | crash or error between two commits, files that change while they are read, errors that are swallowed |
| User data (`scrobble.go`, `annotation.go`, `rating.go`) | play_history, star, rating | scrobble, star, unstar, setRating | rows that refer to songs the scanner deletes, some with and some without a foreign key |
| Playlists (`playlists.go`) | playlist, playlist_song with positions | create or replace, update, delete, get | positions against indices, gaps left by the sweep, partial ownership checks |
| Credentials (`admin.go`, `handlers.go`, `auth.go`) | credential table, API-key cache | mint, renew, revoke, authenticate | cache against table, local time against UTC, revocation racing requests in flight |
| Rate limiter (`auth.go`) | failure count and reset time per address | check, record, clear | read-modify-write over two atomics and a map, entries that leave the map while a request holds them |
| Sessions and login (`session.go`, `auth_oidc.go`, `auth_secret.go`) | session map, pending OIDC states, reapers | login, callback, logout, requireSession | reaper between two look-ups of one request, single use of a state |
| Connections and streaming (`internal/db/db.go`, `media.go`) | one write and four read connections, waiters in the order they came | take, put | held for whole scans and until a client has its answer, no deadline, taken by authentication too, lost by a panic |
| Slicing (`slice.go`) | none | byte ranges and rewritten headers for MP3, FLAC, WAV | boundary arithmetic |
| Tag and duration parsers (`id3.go`, `duration.go`) | position in a tag | bytes to tags, lyrics and seconds | sizes read from the file become slice bounds; two parsers of one length |
| Scan endpoints and UI poll (`scan.go`, `admin.go`, `ui/src/hooks/use-scan.ts`) | `scanning`, `count` | start, status | the answer precedes the start |
| Play-history export (`admin.go`) | cursor of the collector | page after a rowid | rowids that are used again |
| Cover art (`media.go`, `resolveAlbumArt`) | album.cover_art, resized files | assign, resize, serve | cache that is never invalidated |
| Queries (`search.go`, `browse.go`, `lists.go`, ...) | none | SQL reads | several snapshots in one answer |
| Startup and shutdown (`cmd/preamp/main.go`) | processes' goroutines | start servers and first scan, shut down | scan not awaited, interface holding a nil pointer |

How they interact. All writers share one write connection (a pool of one, `db.go`),
so handlers and the scanner exclude each other: a scan takes the connection when
it starts and gives it back when `Run` returns. Readers run on snapshots of their
own, on one of four connections that authentication, queries and streams share. The
length a scan stores is the one the slicer is later asked to divide. The scanner's sweep deletes rows of play_history, star and playlist_song
that the API wrote. The admin API (in the API server) flushes the API-key cache;
the management UI has no access to it. The process starts with a scan.

What makes each component correct: the pipeline neither deadlocks nor panics and
settles every file once; the tables keep their references at every commit and
mirror the disk after a completed scan; user data goes only with its song; the
list a user edits keeps its order and its songs; a credential is accepted only
while, or shortly after, the table holds it; a success forgives the failures before it;
every connection is accounted for and nobody waits for one with another in hand; no tag makes a
walk leave its bytes. `PROJECT.json` lists the hazards at
their lines with the properties that cover them.

## 2. Modules

| Module | Models |
|---|---|
| `ScanPipeline` | the goroutines of `Run`, from the start of the walk to the sweep or the returned error |
| `TrackLedger` | abstract specification: what the pipeline promises about the files of one run |
| `ScanPipelineProofs` | inductive invariant of `ScanPipeline` and its theorems |
| `PipelineLedgerProofs` | where every file is, the exact counter, `ScanPipeline` implements the safety part of `TrackLedger` |
| `Library` | scans as series of commits, the disk, plays and stars, crash and restart |
| `LibraryProofs` | inductive invariant of `Library` and its theorems |
| `Credentials` | both front ends, the cache, requests in flight, the clock |
| `CredentialsProofs` | inductive invariants of `Credentials` and its theorems |
| `Playlists` | the playlist handlers and the sweep under them |
| `PlaylistsProofs` | what `ORDER BY position` lists, the invariant of `Playlists` and its theorems |
| `RateLimiter` | the failure counter of one address, access by access |
| `Requests` | extends `RateLimiter`: requests from the limiter through authentication to their handlers, both connection pools, answers, the panic and the scan |
| `RequestsProofs` | invariants of `Requests` and `RateLimiter` and their theorems |
| `Sessions` | session store, OIDC states, both reapers, requests in flight, restart |
| `SessionsProofs` | inductive invariant of `Sessions` and its theorems |
| `Slices` | byte ranges and headers of sliced MP3, FLAC and WAV files |
| `TagWalk` | the scan's and getLyrics' walk through an ID3v2 tag |
| `MediaFile` | extends `Slices` and `TagWalk`: a file walked, measured and stored by the scan, then played |
| `MediaFileProofs` | the invariant of the player, the bounds of both walks, and their theorems |
| `MC*` | instances for TLC; `*.cfg` give the constants |

**ScanPipeline.** `jobs`, `results` are the channels, `wpc`/`held` a worker's step
and file, `writer`/`batch`/`writerErr` the DB writer, `run` the goroutine of
`Run`. `sending` is the file the walk callback is about to put on `jobs`, where it
blocks. Each action is one channel operation with the code up to the next one.
Every error path is an action: walk or stat errors (`VisitError`), `readTrack`
failing or panicking (`ReadTrackError`), a failing statement (`InsertBatchError`,
after which a full batch drains `results` and the last one just ends), and a
failing COMMIT (`InsertBatchCommitFails`), whose error is lost because
`defer endFn(&err)` assigns a variable that is not the function's result.
`walkErr` is always nil, because the callback always returns nil.

**Library.** A file's content is a version, unique to each write, standing for its
mtime and size and for the tags read with it; a write that keeps mtime and size
is outside the model, as it is outside the code's promise. `readTrack` takes the
stat and then the tags (`Open`, `ReadTags`), and the file may be rewritten in
between or replaced (the opened inode is then read). The maintenance of `Run` is
one action per commit. `ScanError` ends a scan at any commit with an error,
`Crash` at any step without one. `resolveAlbumArt` is not in the model yet.
API writers are enabled only when no scan runs, since they wait for the write
connection. `touched` and `ftsLost` record what a scan promises nothing about: paths
whose file changed while it ran, that could not be listed or read, or whose
COMMIT was lost.

**Credentials.** A request is `Lookup`, `Evict`, `Load`, `Match`: the four places where
`authenticateAPIKey` touches shared state; tokens and passwords skip the cache.
`AdminDelete` deletes the row, then `AdminFlush` visits the cache entries in any
order (`sync.Map.Range`), then `AdminAnswer` replies. `ManageRevoke` only deletes.
Keys are compared exactly; bcrypt, AES-GCM and MD5 are external. `due`, `validAt`,
`raced` and `grant` are history.

**Playlists.** `rows[p]` maps positions to songs, as the primary key of
playlist_song does. A handler is one transaction on the only write connection,
so it is one action, but `CanInsert` decides, statement by statement, whether an
INSERT would break a key, in which case nothing of the request remains.

`Nth` and `InOrder` are `ORDER BY position`: the songs by the rank of their positions.

**RateLimiter.** `checkRateLimit`, `recordAuthFailure` and `clearAuthFailure` take no lock:
the map is a `sync.Map`, `count` and `resetAt` are atomics. Every access is a step of its
own, named after what it reads or writes (`CheckWindow`, `CheckZero`, `CheckStamp`,
`CheckCount`, `RecordAdd`, ...). `held[r]` is the `*failureEntry` a request works on, which may
have left the map (`slot`) meanwhile; an entry nobody can reach is collected and used
again. `resetAt` is only ever compared with the time, so an entry is `open` until
`WindowEnds`. Addresses share nothing, so one is modelled. `failed` and `tries` are history.

**Requests.** `at[r]` is where a request is: in the limiter, in its credentials, in a handler.
Handlers are told apart by the connections they take: none, a reader, the writer, the writer and then a
reader (both renewals). Most keep theirs by `defer put()` until the client has the answer (`Reply`,
`ReplyEnd`: a file, a listing, a playlist, and the new playlist of `createPlaylist`, which is written with the
write connection in hand); the others put it back first (`ReadDone`, `WriteDone`). `NilSession` is the
management UI's panic between `WriteConn` and a `put()` that is not deferred: the connection is in `lost` from
then on. `Join` puts a taker into the queue of a pool, `Take` serves its
head, `Put` returns the connection: pools are Go channels, and receivers are served in
the order they came. The scan is one more taker of the writer, admitted by the
compare-and-swap. Requests to the admin port and the management UI do not pass the limiter.

**Sessions.** A request is a record that moves from one critical section to the
next: `Claim` takes the state out of `pending`, `ExchangeOK` creates the session;
`RequireSession` and `Handle` (or `LogoutGet`, `LogoutDelete`, `LogoutAnswer`) are the
look-ups of one request, between which a reaper, a logout, the clock or a restart
may act. Cookies survive a restart, the maps do not. `Authenticators` are the values
`main` can end up with, the typed nil of a failed discovery among them. Requests
with an unknown state or cookie change nothing and are left out, and so are the names
of users. A tick of a reaper is served before the clock moves on: a tick that
waits for the lock would make the bounds of `MapsAreReaped` longer by that wait.

**Slices.** Pure operators, one per function of `slice.go`, driven by a player that asks
for one track after the other. A file is a record of what the parsers find in it:
first frame, rate and tables for MP3, seek points for FLAC (with the true frames
beside them, which only the property reads), chunk headers for WAV. float64 rounds the
sum `startTime + duration` and every product with a rate before `int64` truncates it. Where the exact value is not
a whole number this makes no difference (a tick is coarse against 53 bits); where it is one, the result may
be one less. So each cut of each request comes out early or not (`Early`, `Truncated`), and
the same boundary may be two: on a WAV file of 48 kHz the range 0.2 + 0.09 ends at sample 13920 and one from 0.29
begins at 13919. `TocLookup` rounds a fraction of the table in the same way: one that comes out early
is at an earlier byte only where the table rises there (`Rises`). The end of the file depends on its length alone
(`dataSize / (rate * align) * rate` loses a sample for about 7% of all lengths): `lost` says whether the file is
one of them. The length of an MP3 without a count of frames is rounded twice and may come out behind a start that is
exactly there (`Mp3Ended`). Three things the model shows that no comment
contradicts: `tocLookup` does not interpolate the last of its 100 intervals, so a track
that ends there is cut short; a WAV file cut short on the disk gets a
Content-Length its body cannot fill; and no pad byte is written behind a "fmt " chunk of an odd
size, so a reader of that reply misses "data". No encoder writes such a chunk, and
`WavReplyParses` excepts it.

**TagWalk.** What a tag says is arbitrary: a frame at any position may be of any kind and
declare any size, so the model covers every sequence of bytes. `StartWalk` reads what the
file has and the caps allow (`buf`), after which `pos` moves frame by frame, and `rest` inside
a SYLT frame line by line. `cut` is the slice of `buf` taken last, the
expression that panics in Go when it is wrong. Sizes are at most 2^32, so nothing overflows
the 64-bit `int` of the platforms the project builds for.

**MediaFile.** `ReadTrack` stores the length in whole seconds: from the Xing header or the bitrate
for MP3, from STREAMINFO for FLAC, from ffprobe for what has no length of its own. ffprobe is
external: it is modelled as absent (0) or agreeing with the headers up to rounding.
Then a player asks for ranges, as in `Slices`. The tag is walked before it is chosen which file
it is in, since neither parser looks at the other's bytes.

Operators named in a comment as "Mutant of X" are wrong variants of X. They are
not part of the behaviour; replacing X by one shows that a property notices.

## 3. What the runs check

| Run | Instance | States | Shows |
|---|---|---|---|
| `pipeline` | 4 files, 2 workers, channels of 1, batches of 2, fair | 32,077 | no deadlock, no send on a closed channel, quiescence when `Run` leaves, no file lost or doubled, exact count, termination, refinement of `TrackLedger` |
| `library` | 2 files (symmetric), 3 writes, 3 song ids, 2 scans, chunks of 1 | 473,000 | references at every commit, sound skipping, mirror and tidy tables after a completed scan, stable ids, user data |
| `sweep_only_gone` | as `library` | violation | a file that could not be stat'ed is swept |
| `index_old_or_new` | as `library` | violation | a failing refill commits an empty index |
| `credentials` | 1 key, 2 requests, TTL 2, cache 2, 6 time units | 246,500 | bounded staleness of grants, flush, lifetimes |
| `revocation_instant` | as `credentials` | violation | a key revoked in the management UI is granted from the cache |
| `playlists` | 2 users, 1 list, 3 songs, positions 0..3, requests of up to 3 songs | 1,092 | edits keep order and songs, all or nothing, sweeps |
| `playlist_index` | as `playlists` | violation | an index removes another song than the one shown |
| `sessions` | 2 requests, 2 sessions, 2 states, lifetimes and period 2, 6 time units | 865,400 | a state is used once, a logout is final, the maps are reaped |
| `session_at_handler` | as `sessions` | violation | a session gone between two look-ups of one request |
| `slices` | tags of 4 sizes with frames of 9; files of three kinds, with and without a Xing total, tables of 4 entries of 0..7, 4 FLAC frames, 8 chunk orders, "fmt " of 14 to 18 bytes, 9 ticks | 114,265 | walks stay in their bytes; the stored length is the one the slicer goes by; ranges join to the sample, cover and end where they should; replies add up |
| `requests` | 2 requests, 1 reader and 1 writer, limit 2, 2 entries, fair | 273,533 | every connection is accounted for, no circular wait, every request is answered if clients read and no panic has lost what it waits for, what the limiter bounds in spite of its races |

Why the bounds are enough. *pipeline*: with one slot per channel every goroutine
blocks in some behaviour; four files give a full batch that fails while two more
are on their way, and a last partial batch; two workers give out-of-order results.
A writer that stopped receiving after an error would leave workers blocked on
`results` when `Run` returns, which `QuiescentAtEnd` notices with four files; to jam the
walker itself, a fault `Terminates` would notice, takes seven.
*library*: two scans give a row from an earlier scan, a failed or crashed scan and
a completed one after it; three versions let a file be created, changed and
changed again while it is read; the versions alternate between albums of two
artists, so edits move songs and orphan albums. With three scans (3.2 million
states, under two minutes) the same properties hold. *credentials*: the races are
about one key, as no step touches the entry of another one except the flush,
which only removes; six time units cover an entry stored at expiry and used until
its own. *playlists*: a gap at the front, in the middle and at the end of a list of
three, an addition after a gap, and requests naming dead songs. *sessions*: two callbacks
with one state, two logouts of one session, and a request passing the gate while
another ends its session; six time units let an entry live, expire, be reaped and its
browser log in again. *slices*: every ascending table of four entries, seek points for
every subset of four frames with and without a placeholder, "fmt " and "data" in both
orders, of odd and even sizes and of one too small to be accepted, files with and without their last
bytes, all of them as their formats have them (`FilesAssumption`); the arithmetic has no
case that depends on more entries; tags that end before, at and behind the read caps and
frames that end before, at and behind the tag; every cut is
taken early and not, wherever it is a whole number. *requests*: one reader lets a slow client keep everybody
waiting, the authentication of the other request included; one panic at the writer keeps the scan and the other request waiting; at the writer two requests and a scan
wait in every order; two checks that both see a window end are what inflates the limiter's
bound, and a limit of two tells it from a lost update. The code's own values (10 failures, 4 readers, a
list of 10,000 songs, batches of 1,000, sweeps of 500) differ from these in size only. The history
variable `served` of `Playlists` is left out of the fingerprint (VIEW): no action reads it.

Fairness. `pipeline` states weak fairness of the walker, of each
worker, of the closer and of the writer. A goroutine that can run stays runnable
until it runs, and the Go scheduler runs every runnable goroutine, so weak
fairness is what it gives; file reads and SQLite statements return. `requests` states it for the
step of each request (one goroutine each) and for the scan, whose end is `Terminates`. A waiter
whose turn it is stays first in its queue, so weak fairness is enough there too. It states none for
`ReplyEnd`: the servers set no WriteTimeout (`main.go:98-113`), so a client that does not read keeps its request, and the
connection with it, for ever. `EveryRequestAnswered` therefore assumes `ClientsRead`, for every kind of answer, and
excepts a request that waits for the write connection after `NilSession` has lost it: nothing can
serve that one any more. All requests and the scan may end up waiting like that, so `requests` says
`CHECK_DEADLOCK FALSE`. Requests need not come (`Begin`), and
nothing depends on a window ending. `library`, `pipeline`, `slices` may stop (all scans done, run ended,
album over), hence `CHECK_DEADLOCK FALSE` there too, and nowhere else.

`WindowBound` is weaker than the documented "10 failures per 5 minutes per IP" (`README.md:110`):
a request checks the count long before it adds to it, and every check that saw the old
window end may zero the new one's count once more, after which the whole limit is open again. So n
requests in flight can fail up to n * limit + n(n-1)/2 times in one window: each may zero the count
once and so opens a whole limit, and with each limit that fills, those already past the check
fail on top. With two requests, as in the run, TLC reaches this many failures; `WindowsBound`
proves for any number that it is never exceeded.

`LifetimeKept` is checked with `UtcOffset = 0`, a server on UTC. `expires_at` is
formatted from local time (`admin.go:136,176`, `handlers.go:228,261`) and compared
with UTC (`auth.go:279,314`): with `UtcOffset = 1` TLC finds the property violated.

## 4. What is proved

A theorem holds for every value of the constants that satisfies the assumption named in
the module (`PipelineAssumption`, `LibraryAssumption`, `CredentialAssumption`, `PlaylistAssumption`,
`SessionsAssumption`, `LimiterAssumption`, `PoolAssumption`, `SlicesAssumption`, `FilesAssumption`,
`WalkAssumption`): finite sets of files, workers, requests and songs, capacities, chunk sizes, lifetimes and limits in range, and
a "none" value that is no file, row, session, state, connection or entry. `FilesAssumption` says that a file
is as its format has it, where the slicer takes that for granted: a Xing table that ascends, seek points that
are frames, FLAC frames that hold the samples STREAMINFO counts, rates that are not 0. What a file
may get wrong and the code looks at (sizes of chunks, a missing table, a Xing header without a count, a data chunk
that is longer than the file) is not assumed. The proofs have one
shape: an inductive invariant (`IInv`, `PInv`, `PoolInv`, ...), one lemma per
action or group of actions, a temporal step, and the theorems from the invariant.

*`ScanPipelineProofs`.* `TypeCorrect` (with it the bounds of both channels and of the
batch), `SendsOnOpenChannels` (no send on a closed channel),
`QuiescentWhenRunLeaves` (no goroutine or file is left when `Run` goes on or
returns) and `SweepStartsComplete` (the sweep sees every file settled), for any
number of files, workers and slots. None of these is inductive. `IInv` adds what
each goroutine may conclude from its own position: a worker exits only when `jobs`
is closed and empty, `results` is closed only when every worker has exited, the
writer flushes only when `results` is closed and empty (`Positions`); a batch is
non-empty only while the writer receives or flushes, and an error is set
only where it drains or is done (`WriterState`); and every file sent is on its way or
settled unless the writer failed (`Conserved`), which is what makes the empty
channels at the end mean that nothing was lost.

*`PipelineLedgerProofs`* (on top of it). `NoDuplicates`, `CountIsExact` and `PipelineKeepsLedger`: `Spec`
implements `Ledger!Safety`, the abstract specification without its fairness. `PInv` adds
`Places` (a file in flight is in one channel, one worker's hands or the batch, once), `SettledOnce`
(a settled file is settled in one way and no longer in flight), `Counted` (the counter is skips plus stores
and the batch, unless the writer failed) and `ErrorsLose` (an error goes with a lost file). Under the refinement mapping a step of the walk,
a worker or the writer is one ledger step or none; a batch commit is the one that settles
many files at once, which is why the ledger has it.

*`LibraryProofs`.* The invariants `TypeOK` (`TypeCorrect`), `ReferencesOK`
(`ReferencesHold`) and `SkipIsSound` (`SkipNeverLosesTags`), and the action
properties `IdStable` (`ScanKeepsIds`) and `UserDataGoesWithSong` (`UserDataKept`),
for any number of files, albums, versions, scans and any chunk size.
`IInv` strengthens them by three parts. `Clocked`: no stat in a job or a row is
ahead of the last write, so a new version equals none of them. `JobsSound`: a worker
whose stat still matches the disk has read that version's tags, because `readTrack`
takes the stat first; this is the step at which `SkipIsSound` would fail with the
order reversed. `IdsUnique`: no two rows share an id, without which deleting the
plays of one song could take those of another (`UserDataKept`). The insert of a
batch rests on `InsertedRows`, which says what the transaction leaves in each row,
and on the existence of a largest rowid in a finite table (`MaxInSet`, from the
well-foundedness of strict inclusion on finite sets).
`ScansMirrorTheDisk` (`CompletedScanMirrors`) and `ScansTidyUp` (`CompletedScanTidy`) need two more
invariants. `Progress` says of each path not in `touched` how far the scan has taken it: during the walk it
is unseen with its old row, or a job, or settled with a row that matches the disk (`InWalk`);
during the sweep only rows without a file differ (`InSweep`); after it nothing does
(`Mirrored`). `Derived` says what each maintenance commit leaves, and that no later step of the same
scan undoes it.

*`CredentialsProofs`.* All four invariants of the run, for any number of keys and requests, any cache
size and lifetimes: `TypeCorrect`, `FreshGrants`, `FlushedKeysAreGone`, `LifetimesKept`. `Watched`
and `InTime`: a row that is valid was last valid now, and what a request in flight read was valid since it
began, which is no longer ago than a request may take. `EntriesFresh`: so an entry it stores ends within that
time and a TTL of the key's last valid moment. `DeletesFlush`: while a deletion
runs, the key is out of the table, and each entry visited is gone unless a request that raced it
put it back. `LifetimesKept` assumes `UtcOffset <= 0`, a server whose clock is not ahead of UTC, and adds
`Promises`: what a row or an entry says of its end is what was minted.

*`PlaylistsProofs`.* `TypeCorrect` (playlist_song names live songs and existing lists at every commit),
`ReplaceKeepsAllOrNothing` and `UpdatesEdit`. The invariant is little more than `TypeOK`; the work is in what a
list shows. `NthEnumerates`: ranks number a finite set of integers without gap; `InOrderIs`: any ascending
enumeration of the positions gives what `ORDER BY` returns, so lists are compared by exhibiting one.
`ListedRestrict`, `ListedResequenced`, `ListedInserted` then say what deleting, renumbering and
appending do to the list, `AppendAtIsBehind` that `MAX(position) + 1` is free behind any gaps.

*`RequestsProofs`.* `TypeCorrect`, `ConnectionsAreAccountedFor`, `WaitersHoldNothing`, `SuccessesForgive` and `WindowsBound`, for any number of
requests, readers and entries. `PoolInv`: where a taker is determines whether it holds a connection and
of which pool (`ConnFits`), and whether it waits and for which (`QueueFits`); nobody is twice in a
queue (`QueuedOnce`) and every connection is free, lost or in one hand (`Exclusive`); only a request that
has the write connection can lose it, so no reader ever is. `ForgivenInv` is about the
entry in the map: its count plus the requests that have recorded a failure and not yet added it
(counted as a set of pending requests) is at most `failed`, and an entry nobody can reach
is as good as new, which is what a collected and reused entry needs.
`BoundInv` gives each request a role towards the window of the entry in the map: about to zero
its count, about to add to it, past the check (admitted, or still being checked against an entry that has left
the map), or none. In an open window the failures so far and those past the check fit the budget of the requests
that no longer have to zero the count (`OpenBound`); between two windows every failure has its
request still at work (`ClosedBound`). A step moves one request from one role to another, and
`Budget` is what makes each of these moves fit. Writing the proof corrected the bound: n * limit + n - 1, as it
was stated before, is exceeded with three requests.

*`MediaFileProofs`.* All properties of the run `slices`, for any files that are as their formats have them, any
durations and any sizes of tables: `SlicesTyped`, `LaterIsBehind`, `TracksJoin`, `RangeCovered`, `LastTrackWhole`,
`RepliesParse`, `StoredLengthFits`, `WalksStayInBounds`. They rest on `PlayerInv`: the last reply is what the
arithmetic makes of the place the player has come to, with each cut early or not (`Served`). `TracksJoin`
(`JoinsToTheSample`) compares it with the next one: both cut at the same boundary, so they differ by what `early` can do
there. Under it:
- Rounding: `Truncation` and `TruncatedMonotone` say that an early cut loses at most one and never
  overtakes a cut at a later time, and that it loses nothing at a boundary that is not whole; `Mp3ByteNear`
  carries this through the table.
- MP3: `TocPoint` puts the byte of a time between two entries of the table, hence `TocLookupMonotone` and
  `Mp3ByteMonotone`, through the interval that is not interpolated and the end.
- FLAC: `SeekPointFrames` says which frames a range keeps when only some of them have seek points.
- WAV: `ChunkAt` is a recursive function, and that it is one has to be shown first (`HeadersExist`, by a least
  counterexample, since an induction theorem cannot be instantiated); then `ChunkSteps` and `ChunkOrder` say where headers are,
  `ChunksFit` that the chunks found lie in the file, and `WrittenHeader` what a walk finds in a reply. `WavSamples`
  bounds whole samples by bytes.
- The stored length: `Mp3Stored`, `FlacStored` and `WavStored` compare both parsers, by `WholeSeconds`.
- `WalkInv` adds types to `WalkInBounds` and that an idle walk has no buffer; `AfterStringRange` bounds where
  the rest of a frame begins behind a terminated or unterminated string.

Products and quotients of unknowns are named before they are compared; the lemmas at the beginning of the module
are all the arithmetic it takes.

*`SessionsProofs`.* All four invariants of the run, for any number of requests, sessions
and states: `TypeCorrect`, `StatesUsedOnce`, `LogoutIsFinal`, `MapsReaped`. `IInv` adds three
parts. `StatesMove`: a state that was handed out is in the map, or with one callback, or
behind one session, which holds because looking up and deleting share a critical
section. `LogoutsBite`: the session of an answered logout is dead, and so is that of
one about to be answered, also when the second look-up of that logout found nothing;
`DeadStaysDead` says that no step revives a session. `ReapersKeepPace`: what a round of a
reaper left, and what came since, is younger than the next round requires.

## 5. Only model-checked, and why

`Terminates`, `EveryRequestAnswered` and the fairness of `TrackLedger`, which make `ImplementsLedger`
more than `PipelineKeepsLedger`: liveness under fairness is out of the prover's reach. Every
invariant and every action property of a passing run is stated by a theorem. What the theorems leave to the runs is
that their hypotheses are met and that what they speak of happens: each passing run fires every action.
`LifetimeKept` is proved for `UtcOffset <= 0` only, since it fails otherwise.

## 6. Findings

The five violation runs above; their rows in `PROJECT.json` quote the comment or
document and the lines of code. In short: a transient stat error counts as a
deletion; the index rebuild is not all or nothing; revocation in the management
UI is not instant; playlist removal takes indices for positions; handlers dereference
a session that ended after `requireSession` had found it. The last one does more than fail a request: when the
handler mints, renews or revokes a credential (`handlers.go:231-241`, `263-272`, `293-302`), the panic loses the write
connection, and with it every later write and scan of the process.

## 7. Plan

Done: `ScanPipeline`, `TrackLedger`, `Library`, `Credentials`, `Playlists`, `Sessions`, `Slices`; then `RateLimiter`,
`Requests`, `TagWalk` and `MediaFile`; the proofs of section 4.

Left, the most important first:

1. `resolveAlbumArt` as a commit of `Library` (album.cover_art against the pictures on the disk), with
   the two proofs about completed scans extended to it.
2. `PlayHistory`: the collector's cursor against rowids that a sweep frees, on a cut-down `Library` of its
   own; the product with the present one is too large for a run.

## 8. Not modelled, and why

- Search, browse and list queries, response encoding: read-only, their meaning is the SQL text. What search
  reads, the index, is in `Library`.
- Play-history export: see section 7. Nothing the code says is contradicted meanwhile: the collector is
  only told to pass the last rowid it saw.
- Ratings, album and artist stars: one statement per request on rows the scanner does not touch; a property would
  restate the statement. Song stars are in `Library`.
- Cover art cache: a file name that never changes and is never deleted, written through a rename.
- A COMMIT that fails in a playlist handler: with one writer in WAL mode it fails on a full disk or an I/O
  error, after which SQLite has rolled back by itself. (The scanner's failing COMMIT is modelled,
  because there the error is lost.)
- Credential encryption and hashing: library calls without state. Names and lists of credentials.
- Texts of tags (decoding, genres, numbers), bitrates, the bytes of audio frames: data no property tells apart.
- The order of a shutdown: what it waits for is decided inside net/http and the pool library; a process that ends at any
  point is `Crash` in `Library` and `Restart` in `Credentials` and `Sessions`.
- Environment parsing, the SPA, the Helm chart and CI: no state of the server.

`PROJECT.json` gives the status of each component.

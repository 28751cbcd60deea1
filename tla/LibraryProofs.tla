---------------------------- MODULE LibraryProofs ----------------------------
(***************************************************************************)
(* Proofs about Library for every set of paths, albums and artists and     *)
(* every bound on versions, ids, scans and chunks.                         *)
(***************************************************************************)
EXTENDS Library, FiniteSetTheorems, WellFoundedInduction, TLAPS

-----------------------------------------------------------------------------
(* A finite set of integers has a largest element: among the sets of the   *)
(* elements above a given one, a minimal one is empty.                     *)

\* The largest element exists and bounds the others.
LEMMA MaxInSet ==
  ASSUME NEW S \in SUBSET Int, IsFiniteSet(S), S # {}
  PROVE  Max(S) \in S /\ \A x \in S : x <= Max(S)
<1> DEFINE Above(x) == {y \in S : y > x}
           T == {Above(x) : x \in S}
<1>1. IsWellFoundedOn(StrictSubsetOrdering(S), FiniteSubsetsOf(S))
  BY FS_StrictSubsetOrderingWellFounded
<1>2. T \subseteq FiniteSubsetsOf(S) /\ T # {}
  <2>1. \A x \in S : Above(x) \in SUBSET S
    OBVIOUS
  <2>2. \A x \in S : IsFiniteSet(Above(x))
    BY <2>1, FS_Subset
  <2> QED BY <2>1, <2>2 DEF FiniteSubsetsOf
<1>3. \E t \in T : \A u \in T : ~(<<u, t>> \in StrictSubsetOrdering(S))
  <2> HIDE DEF T
  <2> QED BY <1>1, <1>2, WFMin
<1>4. PICK m \in S : \A x \in S : ~(<<Above(x), Above(m)>> \in StrictSubsetOrdering(S))
  BY <1>3
<1>5. ASSUME NEW x \in S, x > m PROVE FALSE
  <2>1. Above(x) \subseteq Above(m)
    <3> SUFFICES ASSUME NEW y \in S, y > x PROVE y > m
      OBVIOUS
    <3> x \in Int /\ y \in Int /\ m \in Int
      OBVIOUS
    <3> QED BY <1>5
  <2>2. x \in Above(m) /\ x \notin Above(x)
    BY <1>5
  <2>3. Above(x) \subseteq S /\ Above(m) \subseteq S
    OBVIOUS
  <2> QED BY <1>4, <2>1, <2>2, <2>3 DEF StrictSubsetOrdering
<1>6. \A x \in S : x <= m
  BY <1>5
<1> QED BY <1>6 DEF Max

-----------------------------------------------------------------------------
(* The inductive invariant.                                                *)

\* No two rows share an id: what goes with one song is not another's.
IdsUnique == \A p, q \in Present : song[p].id = song[q].id => p = q

\* No version is ahead of the clock, so the next write is told from all of them.
Clocked ==
  \A p \in Path : /\ disk[p] <= clock /\ job[p].stat <= clock
                  /\ p \in Present => song[p].stat <= clock

\* The worker's half of SkipIsSound: what it read goes with what it stat'ed.
JobsSound ==
  \A p \in Path :
    /\ job[p].at \in {"opened", "read"} => job[p].stat # 0
    /\ job[p].at = "read" => /\ job[p].tags # 0
                             /\ job[p].stat = disk[p] => job[p].tags = disk[p]

IInv == TypeOK /\ ReferencesOK /\ IdsUnique /\ Clocked /\ JobsSound /\ SkipIsSound

\* The empty library satisfies it.
LEMMA InitIInv == Init => IInv
<1> SUFFICES ASSUME Init PROVE IInv
  OBVIOUS
<1> USE DEF Init
<1>1. Present = {} /\ Live = {}
  BY DEF Present, Live
<1>2. \A p \in Path : disk[p] = 0 /\ job[p] = Idle /\ Idle.stat = 0 /\ Idle.at = "none"
  BY DEF Idle
<1>3. TypeOK
  <2>1. /\ job \in [Path -> [at : {"none", "ahead", "queued", "opened", "read"},
                            stat : 0..MaxVersion, tags : 0..MaxVersion]]
        /\ disk \in [Path -> 0..MaxVersion] /\ known \in [Path -> 0..MaxVersion]
    BY LibraryAssumption DEF Idle
  <2>2. clock \in 0..MaxVersion /\ lastId \in 0..MaxId /\ scans \in 0..MaxScans
    BY LibraryAssumption
  <2> QED BY <2>1, <2>2 DEF TypeOK
<1>4. ReferencesOK /\ IdsUnique /\ SkipIsSound
  BY <1>1 DEF ReferencesOK, IdsUnique, SkipIsSound
<1>5. Clocked /\ JobsSound
  BY <1>1, <1>2 DEF Clocked, JobsSound
<1> QED BY <1>3, <1>4, <1>5 DEF IInv

-----------------------------------------------------------------------------
(* The files and the API.                                                  *)

\* A new version is ahead of every stat the scan or a row holds.
LEMMA DiskIInv == IInv /\ Disk => IInv'
<1> SUFFICES ASSUME IInv, NEW p \in Path, WriteFile(p) \/ RemoveFile(p) PROVE IInv'
  BY DEF Disk
<1>1. /\ UNCHANGED <<song, lastId, albums, artists, songCount, fts, plays, stars, scan,
                     job, known, seen, scans, outcome, ftsLost>>
      /\ touched' = touched \cup {p}
  BY DEF WriteFile, RemoveFile, diskVars, songVars, userVars, scanVars
<1>2. /\ clock' \in 0..MaxVersion /\ clock' >= clock /\ clock \in Nat
      /\ disk' \in [Path -> 0..MaxVersion]
      /\ \A q \in Path : \/ disk'[q] = disk[q] \/ disk'[q] = 0
                         \/ (disk'[q] = clock' /\ clock' > clock)
  BY LibraryAssumption DEF WriteFile, RemoveFile, IInv, TypeOK
<1>3. TypeOK'
  BY <1>1, <1>2 DEF IInv, TypeOK, Row
<1>4. ReferencesOK' /\ IdsUnique' /\ Present' = Present
  BY <1>1 DEF IInv, ReferencesOK, IdsUnique, Present, Live
<1>5. ASSUME NEW q \in Path
      PROVE  /\ disk'[q] <= clock' /\ job'[q].stat <= clock'
             /\ q \in Present' => song'[q].stat <= clock'
             /\ job'[q].at = "read" /\ job'[q].stat = disk'[q] => job'[q].tags = disk'[q]
             /\ q \in Present' /\ song'[q].stat = disk'[q] => song'[q].tags = disk'[q]
  <2>1. /\ job[q].stat \in Nat /\ disk[q] \in Nat
        /\ q \in Present => song[q].stat \in Nat /\ song[q].stat # 0
    <3>1. job[q].stat \in 0..MaxVersion /\ disk[q] \in 0..MaxVersion
      BY DEF IInv, TypeOK
    <3>2. q \in Present => song[q].stat \in 1..MaxVersion
      BY DEF IInv, TypeOK, Present, Row, Version
    <3> QED BY <3>1, <3>2
  <2>2. /\ disk[q] <= clock /\ job[q].stat <= clock
        /\ q \in Present => song[q].stat <= clock
        /\ job[q].at = "read" => job[q].stat # 0
    BY DEF IInv, Clocked, JobsSound
  <2>3. \/ disk'[q] = disk[q] \/ disk'[q] = 0 \/ (disk'[q] = clock' /\ clock' > clock)
    BY <1>2
  <2>4. /\ job[q].at = "read" /\ job[q].stat = disk[q] => job[q].tags = disk[q]
        /\ q \in Present /\ song[q].stat = disk[q] => song[q].tags = disk[q]
    BY DEF IInv, JobsSound, SkipIsSound
  <2>5. job'[q] = job[q] /\ song'[q] = song[q] /\ clock' \in Nat /\ clock' >= clock
    BY <1>1, <1>2
  <2>6. disk'[q] <= clock' /\ job'[q].stat <= clock' /\ (q \in Present' => song'[q].stat <= clock')
    BY <1>2, <1>4, <2>1, <2>2, <2>3, <2>5
  <2>7. job'[q].at = "read" /\ job'[q].stat = disk'[q] => job'[q].tags = disk'[q]
    BY <1>2, <2>1, <2>2, <2>3, <2>4, <2>5
  <2>8. q \in Present' /\ song'[q].stat = disk'[q] => song'[q].tags = disk'[q]
    BY <1>2, <1>4, <2>1, <2>2, <2>3, <2>4, <2>5
  <2> QED BY <2>6, <2>7, <2>8
<1>6. Clocked' /\ SkipIsSound'
  BY <1>4, <1>5 DEF Clocked, SkipIsSound, Present
<1>7. JobsSound'
  BY <1>1, <1>5 DEF IInv, JobsSound
<1> QED BY <1>3, <1>4, <1>6, <1>7 DEF IInv

\* Scrobbles refer to live songs, stars to ids that were given out.
LEMMA ApiIInv == IInv /\ Api => IInv'
<1> SUFFICES ASSUME IInv, NEW id \in 1..lastId, Scrobble(id) \/ Star(id) \/ Unstar(id)
             PROVE  IInv'
  BY DEF Api
<1>1. /\ UNCHANGED <<disk, clock, song, lastId, albums, artists, songCount, fts, scan, job,
                     known, seen, scans, outcome, touched, ftsLost>>
      /\ plays' \subseteq plays \cup (Live \cap {id}) /\ stars' \subseteq stars \cup {id}
  BY DEF Scrobble, Star, Unstar, diskVars, songVars, userVars, scanVars
<1>2. TypeOK'
  BY <1>1 DEF IInv, TypeOK, Row
<1>3. ReferencesOK' /\ IdsUnique'
  BY <1>1 DEF IInv, ReferencesOK, IdsUnique, Present, Live
<1>4. Clocked' /\ JobsSound' /\ SkipIsSound'
  BY <1>1 DEF IInv, Clocked, JobsSound, SkipIsSound, Present
<1> QED BY <1>2, <1>3, <1>4 DEF IInv

-----------------------------------------------------------------------------
(* The pipeline up to the insert, and the steps that write no table that   *)
(* the invariant relates to another.                                       *)

Job == [at : {"none", "ahead", "queued", "opened", "read"},
        stat : 0..MaxVersion, tags : 0..MaxVersion]

\* What one step may make of the job of p.
JobStep(p) ==
  \/ job'[p] = job[p]
  \/ job'[p].at \in {"none", "ahead", "queued"} /\ job'[p].stat = 0
  \/ job'[p].at = "opened" /\ job'[p].stat = disk[p] /\ disk[p] # 0
  \/ /\ job[p].at = "opened" /\ job'[p].at = "read" /\ job'[p].stat = job[p].stat
     /\ job'[p].tags \in {job[p].stat, disk[p]} \ {0}

\* Steps that leave the tables alone and move each job as JobStep allows.
LEMMA FrameIInv ==
  ASSUME IInv, UNCHANGED <<disk, clock, song, lastId, albums, artists, plays>>,
         job' \in [Path -> Job], \A p \in Path : JobStep(p)
  PROVE  ReferencesOK' /\ IdsUnique' /\ Clocked' /\ JobsSound' /\ SkipIsSound'
<1>1. ReferencesOK' /\ IdsUnique' /\ SkipIsSound' /\ Present' = Present
  BY DEF IInv, ReferencesOK, IdsUnique, SkipIsSound, Present, Live
<1>2. ASSUME NEW p \in Path
      PROVE  /\ job'[p].stat <= clock
             /\ job'[p].at \in {"opened", "read"} => job'[p].stat # 0
             /\ job'[p].at = "read" => /\ job'[p].tags # 0
                                       /\ job'[p].stat = disk[p] => job'[p].tags = disk[p]
  <2>1. /\ disk[p] <= clock /\ job[p].stat <= clock /\ clock \in Nat
        /\ job[p].at \in {"opened", "read"} => job[p].stat # 0
        /\ job[p].at = "read" => /\ job[p].tags # 0
                                 /\ job[p].stat = disk[p] => job[p].tags = disk[p]
    BY DEF IInv, Clocked, JobsSound, TypeOK
  <2>2. JobStep(p)
    OBVIOUS
  <2> QED BY <2>1, <2>2 DEF JobStep
<1>3. Clocked'
  BY <1>1, <1>2 DEF IInv, Clocked
<1>4. JobsSound'
  <2>1. disk' = disk
    OBVIOUS
  <2>2. ASSUME NEW p \in Path
        PROVE  /\ job'[p].at \in {"opened", "read"} => job'[p].stat # 0
               /\ job'[p].at = "read" => /\ job'[p].tags # 0
                                         /\ job'[p].stat = disk'[p] => job'[p].tags = disk'[p]
    BY <1>2, <2>1
  <2> QED BY <2>2 DEF JobsSound
<1> QED BY <1>1, <1>3, <1>4

\* The walk, the workers and a batch that is lost.
LEMMA WalkIInv ==
  ASSUME IInv,
         \/ StartScan \/ InsertBatchLost \/ PipelineDone
         \/ \E p \in Path : VisitMiss(p) \/ Visit(p) \/ Open(p) \/ ReadTags(p) \/ ReadTrackError(p)
  PROVE  IInv'
<1>1. UNCHANGED <<disk, clock, song, lastId, albums, artists, songCount, fts, plays, stars>>
  BY DEF StartScan, InsertBatchLost, PipelineDone, VisitMiss, Visit, Open, ReadTags,
     ReadTrackError, diskVars, songVars, userVars
<1>2. /\ job \in [Path -> Job] /\ disk \in [Path -> 0..MaxVersion] /\ seen \subseteq Path
      /\ touched \subseteq Path /\ known \in [Path -> 0..MaxVersion] /\ scans \in 0..MaxScans
      /\ scan \in {"idle", "down", "walk", "sweep", "stats", "albums", "artists", "fts"}
      /\ outcome \in {"none", "ok", "error"} /\ ftsLost \in BOOLEAN
  BY DEF IInv, TypeOK, Job
<1>i. /\ Idle \in Job /\ [Idle EXCEPT !.at = "ahead"] = [at |-> "ahead", stat |-> 0, tags |-> 0]
      /\ [Idle EXCEPT !.at = "queued"] = [at |-> "queued", stat |-> 0, tags |-> 0]
      /\ [at |-> "ahead", stat |-> 0, tags |-> 0] \in Job
      /\ [at |-> "queued", stat |-> 0, tags |-> 0] \in Job
  BY LibraryAssumption DEF Job, Idle
<1>3. \A q \in Path : job[q] \in Job /\ disk[q] \in 0..MaxVersion
  BY <1>2
<1> DEFINE Good ==
      /\ job' \in [Path -> Job] /\ \A q \in Path : JobStep(q)
      /\ scan' \in {"idle", "down", "walk", "sweep", "stats", "albums", "artists", "fts"}
      /\ outcome' \in {"none", "ok", "error"} /\ ftsLost' \in BOOLEAN
      /\ scans' \in 0..MaxScans
      /\ known' \in [Path -> 0..MaxVersion] /\ seen' \subseteq Path /\ touched' \subseteq Path
<1>4. Good
  <2>1. CASE StartScan
    <3>1. \A q \in Path : song[q] # NoSong => song[q].stat \in 0..MaxVersion
      BY DEF IInv, TypeOK, Row, Version
    <3>2. scans' \in 0..MaxScans
      BY <1>2, <2>1, LibraryAssumption DEF StartScan
    <3>3. known' \in [Path -> 0..MaxVersion]
      BY <2>1, <3>1, LibraryAssumption DEF StartScan
    <3> QED BY <1>2, <1>i, <2>1, <3>2, <3>3 DEF StartScan, JobStep, Idle
  <2>2. CASE InsertBatchLost
    BY <1>2, <1>i, <2>2 DEF InsertBatchLost, JobStep, Idle, Results
  <2>3. CASE PipelineDone
    BY <1>2, <2>3 DEF PipelineDone, JobStep
  <2>4. ASSUME NEW p \in Path, VisitMiss(p) PROVE Good
    BY <1>2, <1>i, <2>4 DEF VisitMiss, JobStep, Idle
  <2>5. ASSUME NEW p \in Path, Visit(p) PROVE Good
    BY <1>2, <1>i, <2>5 DEF Visit, JobStep, Idle
  <2>6. ASSUME NEW p \in Path, Open(p) PROVE Good
    <3>1. [at |-> "opened", stat |-> disk[p], tags |-> 0] \in Job
      BY <1>3, LibraryAssumption DEF Job
    <3>2. /\ job'[p] = [at |-> "opened", stat |-> disk[p], tags |-> 0]
          /\ \A q \in Path \ {p} : job'[q] = job[q]
          /\ job' \in [Path -> Job]
      BY <1>2, <2>6, <3>1 DEF Open
    <3> QED BY <1>2, <2>6, <3>2 DEF Open, JobStep
  <2>7. ASSUME NEW p \in Path, ReadTags(p) PROVE Good
    <3>1. PICK t \in {job[p].stat, disk[p]} \ {0} :
            job' = [job EXCEPT ![p].at = "read", ![p].tags = t]
      BY <2>7 DEF ReadTags
    <3>2. t \in 0..MaxVersion
      BY <1>3 DEF Job
    <3>3. job'[p] = [job[p] EXCEPT !.at = "read", !.tags = t]
      BY <1>2, <3>1
    <3>4. job'[p] \in Job /\ job'[p].at = "read" /\ job'[p].stat = job[p].stat /\ job'[p].tags = t
      BY <1>3, <3>2, <3>3 DEF Job
    <3>5. \A q \in Path \ {p} : job'[q] = job[q]
      BY <1>2, <3>1
    <3>6. job' \in [Path -> Job]
      BY <1>2, <1>3, <3>1, <3>4, <3>5
    <3> QED BY <1>2, <2>7, <3>4, <3>5, <3>6 DEF ReadTags, JobStep
  <2>8. ASSUME NEW p \in Path, ReadTrackError(p) PROVE Good
    BY <1>2, <1>i, <2>8 DEF ReadTrackError, JobStep, Idle
  <2> QED BY <2>1, <2>2, <2>3, <2>4, <2>5, <2>6, <2>7, <2>8
<1>5. TypeOK'
  BY <1>1, <1>4 DEF IInv, TypeOK, Row, Job
<1> QED BY <1>1, <1>4, <1>5, FrameIInv DEF IInv

-----------------------------------------------------------------------------
(* The insert of a batch.                                                  *)

\* The largest rowid in use is below the number of rows ever created.
LEMMA RowidsInUse ==
  ASSUME TypeOK
  PROVE  TopRowid \in 0..lastId
<1> DEFINE S == {0} \cup {song[p].rowid : p \in Present}
<1>1. lastId \in Nat /\ \A p \in Present : song[p].rowid \in 1..lastId
  BY DEF TypeOK, Present, Row
<1>2. S \in SUBSET Int /\ S # {} /\ S \in SUBSET (0..lastId)
  BY <1>1
<1>3. IsFiniteSet(0..lastId)
  BY <1>1, FS_Interval
<1>4. IsFiniteSet(S)
  BY <1>2, <1>3, FS_Subset
<1>5. Max(S) \in S
  <2> HIDE DEF S
  <2> QED BY <1>2, <1>4, MaxInSet
<1> QED BY <1>2, <1>5 DEF TopRowid

\* What the transaction leaves in each row; the batch settles together.
LEMMA InsertedRows ==
  ASSUME IInv, InsertBatch
  PROVE  /\ song' \in [Path -> Row' \cup {NoSong}] /\ lastId' \in lastId..MaxId
         /\ Present' = Present \cup Results
         /\ \A p \in Path \ Results : song'[p] = song[p]
         /\ \A p \in Present : song'[p].id = song[p].id
         /\ \A p \in Results : song'[p].stat = job[p].stat /\ song'[p].tags = job[p].tags
         /\ \A p \in Results \ Present : song'[p].id > lastId
         /\ \A p, q \in Results \ Present : song'[p].id = song'[q].id => p = q
<1> DEFINE new == Results \ Present
           n == Cardinality(new)
<1>1. Results \subseteq Path /\ IsFiniteSet(Results) /\ IsFiniteSet(new)
  BY FS_Subset, LibraryAssumption DEF Results
<1>2. n \in Nat /\ Cardinality(Results) \in Nat
  BY <1>1, FS_CardinalityType
<1>3. PICK order \in Bijection(Results, 1..Cardinality(Results)) :
        /\ \A p \in new : order[p] <= n
        /\ song' = [p \in Path |-> IF p \in Results THEN Upsert(p, order[p]) ELSE song[p]]
  BY DEF InsertBatch
<1>4. /\ \A p \in Results : order[p] \in 1..Cardinality(Results)
      /\ \A p, q \in Results : order[p] = order[q] => p = q
  BY <1>3 DEF Bijection, Injection, IsInjective
<1>5. lastId' = lastId + n /\ lastId + n <= MaxId /\ lastId \in Nat /\ MaxId \in Nat
  BY LibraryAssumption DEF InsertBatch, IInv, TypeOK
<1>6. TopRowid \in 0..lastId
  BY RowidsInUse DEF IInv
<1>7. \A p \in Results : job[p].stat \in Version /\ job[p].tags \in Version
  BY LibraryAssumption DEF IInv, TypeOK, JobsSound, Results, Version
<1>8. \A p \in Present : song[p] \in Row
  BY DEF IInv, TypeOK, Present
<1>9. ASSUME NEW p \in new
      PROVE  /\ song'[p] = [id |-> lastId + order[p], rowid |-> TopRowid + order[p],
                            stat |-> job[p].stat, tags |-> job[p].tags]
             /\ song'[p] \in Row' /\ song'[p].id > lastId
             /\ song'[p].stat = job[p].stat /\ song'[p].tags = job[p].tags
             /\ song'[p].id = lastId + order[p]
  <2>1. song'[p] = [id |-> lastId + order[p], rowid |-> TopRowid + order[p],
                    stat |-> job[p].stat, tags |-> job[p].tags]
    BY <1>1, <1>3 DEF Upsert, Present
  <2>2. p \in Results /\ order[p] <= n
    BY <1>3
  <2>4. order[p] \in Int /\ order[p] >= 1
    BY <1>2, <1>4, <2>2
  <2>3. lastId + order[p] \in 1..lastId' /\ TopRowid + order[p] \in 1..lastId'
        /\ lastId + order[p] > lastId
    <3> HIDE DEF n, new
    <3> QED BY <1>2, <1>5, <1>6, <2>2, <2>4
  <2> QED BY <1>7, <2>1, <2>2, <2>3 DEF Row
<1>10. ASSUME NEW p \in Results \cap Present
       PROVE  /\ song'[p] = [song[p] EXCEPT !.stat = job[p].stat, !.tags = job[p].tags]
              /\ song'[p] \in Row' /\ song'[p].id = song[p].id
              /\ song'[p].stat = job[p].stat /\ song'[p].tags = job[p].tags
  <2>1. song'[p] = [song[p] EXCEPT !.stat = job[p].stat, !.tags = job[p].tags]
    BY <1>1, <1>3 DEF Upsert, Present
  <2>2. song[p].id \in 1..lastId' /\ song[p].rowid \in 1..lastId'
    BY <1>2, <1>5, <1>8 DEF Row
  <2> QED BY <1>7, <1>8, <2>1, <2>2 DEF Row
<1>11. ASSUME NEW p \in Path \ Results
       PROVE  song'[p] = song[p] /\ song'[p] \in Row' \cup {NoSong}
  <2>1. song'[p] = song[p]
    BY <1>3
  <2>2. song[p] # NoSong => song[p].id \in 1..lastId' /\ song[p].rowid \in 1..lastId'
    BY <1>2, <1>5, <1>8 DEF Row, Present
  <2> QED BY <1>8, <2>1, <2>2 DEF Row, Present
<1>12. song' \in [Path -> Row' \cup {NoSong}]
  BY <1>1, <1>3, <1>9, <1>10, <1>11
<1>13. NoSong \notin Row'
  BY <1>2, <1>5, LibraryAssumption DEF Row, Version
<1>14. Present' = Present \cup Results
  BY <1>1, <1>9, <1>10, <1>11, <1>13 DEF Present
<1>15. \A p, q \in new : song'[p].id = song'[q].id => p = q
  <2> SUFFICES ASSUME NEW p \in new, NEW q \in new, song'[p].id = song'[q].id PROVE p = q
    OBVIOUS
  <2>1. song'[p].id = lastId + order[p] /\ song'[q].id = lastId + order[q]
    BY <1>9
  <2>2. p \in Results /\ q \in Results
    OBVIOUS
  <2>5. \A r \in Results : order[r] \in Int
    BY <1>2, <1>4
  <2>3. order[p] \in Int /\ order[q] \in Int
    BY <2>5, <2>2
  <2>4. order[p] = order[q]
    <3>1. \A a, b, c \in Int : a + b = a + c => b = c
      OBVIOUS
    <3>2. lastId + order[p] = lastId + order[q]
      BY <2>1, Zenon
    <3>3. lastId \in Int
      BY <1>5
    <3> HIDE DEF n, new
    <3> QED BY <2>3, <3>1, <3>2, <3>3
  <2> QED BY <1>4, <2>2, <2>4
<1>16. \A p \in Present : song'[p].id = song[p].id
  BY <1>10, <1>11 DEF Present
<1>17. \A p \in Results : song'[p].stat = job[p].stat /\ song'[p].tags = job[p].tags
  <2> SUFFICES ASSUME NEW p \in Results
               PROVE  song'[p].stat = job[p].stat /\ song'[p].tags = job[p].tags
    OBVIOUS
  <2>1. CASE p \in Present
    <3>1. p \in Results \cap Present
      BY <2>1
    <3> QED BY <1>10, <3>1
  <2>2. CASE p \notin Present
    BY <1>9, <2>2
  <2> QED BY <2>1, <2>2
<1>18. lastId' \in lastId..MaxId
  BY <1>2, <1>5
<1> QED BY <1>9, <1>11, <1>12, <1>14, <1>15, <1>16, <1>17, <1>18

\* The insert of a batch: new ids are new, old rows keep theirs.
LEMMA InsertIInv == IInv /\ InsertBatch => IInv'
<1> SUFFICES ASSUME IInv, InsertBatch PROVE IInv'
  OBVIOUS
<1>1. /\ song' \in [Path -> Row' \cup {NoSong}] /\ lastId' \in lastId..MaxId
      /\ Present' = Present \cup Results
      /\ \A p \in Path \ Results : song'[p] = song[p]
      /\ \A p \in Present : song'[p].id = song[p].id
      /\ \A p \in Results : song'[p].stat = job[p].stat /\ song'[p].tags = job[p].tags
      /\ \A p \in Results \ Present : song'[p].id > lastId
      /\ \A p, q \in Results \ Present : song'[p].id = song'[q].id => p = q
  BY InsertedRows
<1> DEFINE named == {AlbumOf[job[p].tags] : p \in Results}
<1>2. /\ UNCHANGED <<disk, clock, songCount, fts, plays, stars, scan, known, seen, scans,
                     outcome, touched, ftsLost>>
      /\ albums' = albums \cup named
      /\ artists' = artists \cup {ArtistOf[a] : a \in named}
      /\ job' = [p \in Path |-> IF p \in Results THEN Idle ELSE job[p]]
  BY DEF InsertBatch, diskVars, userVars
<1>3. Results \subseteq Path /\ Present \subseteq Path
  BY DEF Results, Present
<1>4. \A p \in Results : job[p].tags \in Version
  BY LibraryAssumption DEF IInv, TypeOK, JobsSound, Results, Version
<1>5. named \subseteq Album
  BY <1>4, LibraryAssumption DEF Version
<1>6. /\ job \in [Path -> Job] /\ Idle \in Job /\ Idle.at = "none" /\ Idle.stat = 0
      /\ job' \in [Path -> Job]
      /\ \A p \in Path : job'[p] = job[p] \/ job'[p] = Idle
  <2>1. job \in [Path -> Job] /\ Idle \in Job /\ Idle.at = "none" /\ Idle.stat = 0
    BY LibraryAssumption DEF IInv, TypeOK, Job, Idle
  <2> QED BY <1>2, <2>1
<1>7. TypeOK'
  <2>1. plays' \subseteq 1..lastId' /\ stars' \subseteq 1..lastId' /\ lastId' \in 0..MaxId
    BY <1>1, <1>2 DEF IInv, TypeOK
  <2>2. albums' \subseteq Album /\ artists' \subseteq Artist
    BY <1>2, <1>5, LibraryAssumption DEF IInv, TypeOK
  <2> QED BY <1>1, <1>2, <1>6, <2>1, <2>2 DEF IInv, TypeOK, Job
<1>8. ReferencesOK'
  <2>1. plays' \subseteq Live'
    <3>1. Live \subseteq Live'
      BY <1>1 DEF Live
    <3> QED BY <1>2, <3>1 DEF IInv, ReferencesOK
  <2>2. ASSUME NEW p \in Present' PROVE AlbumOf[song'[p].tags] \in albums'
    <3>1. CASE p \in Results
      BY <1>1, <1>2, <3>1
    <3>2. CASE p \in Present \ Results
      BY <1>1, <1>2, <1>3, <3>2 DEF IInv, ReferencesOK
    <3> QED BY <1>1, <3>1, <3>2
  <2>3. \A a \in albums' : ArtistOf[a] \in artists'
    BY <1>2 DEF IInv, ReferencesOK
  <2> QED BY <2>1, <2>2, <2>3 DEF ReferencesOK
<1>9. IdsUnique'
  <2> SUFFICES ASSUME NEW p \in Present', NEW q \in Present', song'[p].id = song'[q].id
               PROVE  p = q
    BY DEF IdsUnique
  <2>1. \A r \in Present : song'[r].id = song[r].id /\ song[r].id \in 1..lastId
    BY <1>1 DEF IInv, TypeOK, Present, Row
  <2>2. lastId \in Nat
    BY DEF IInv, TypeOK
  <2>3. CASE p \in Present /\ q \in Present
    BY <2>1, <2>3 DEF IInv, IdsUnique
  <2>4. CASE p \notin Present /\ q \notin Present
    BY <1>1, <2>4
  <2>5. ASSUME NEW r \in Present, NEW s \in Results \ Present PROVE song'[r].id # song'[s].id
    <3>1. song'[r].id <= lastId /\ song'[r].id \in Int
      BY <2>1, <2>2
    <3>2. song'[s].id > lastId
      BY <1>1
    <3> QED BY <2>2, <3>1, <3>2
  <2> QED BY <1>1, <2>3, <2>4, <2>5
<1>10. Clocked'
  <2>1. \A p \in Present' : song'[p].stat <= clock
    BY <1>1, <1>3 DEF IInv, Clocked
  <2>2. \A p \in Path : job'[p].stat <= clock
    BY <1>6 DEF IInv, Clocked, TypeOK
  <2> QED BY <1>2, <2>1, <2>2 DEF IInv, Clocked
<1>11. JobsSound'
  BY <1>2, <1>6 DEF IInv, JobsSound
<1>12. SkipIsSound'
  <2> SUFFICES ASSUME NEW p \in Present', song'[p].stat = disk[p] PROVE song'[p].tags = disk[p]
    BY <1>2 DEF SkipIsSound
  <2>1. CASE p \in Results
    BY <1>1, <1>3, <2>1 DEF IInv, JobsSound, Results
  <2>2. CASE p \in Present \ Results
    BY <1>1, <1>3, <2>2 DEF IInv, SkipIsSound
  <2> QED BY <1>1, <2>1, <2>2
<1> QED BY <1>7, <1>8, <1>9, <1>10, <1>11, <1>12 DEF IInv

-----------------------------------------------------------------------------
(* The maintenance steps.                                                  *)

\* The effect of one deleteSongs transaction.
LEMMA DeletedRows ==
  ASSUME IInv, DeleteSongs
  PROVE  \E S \in SUBSET Present :
           /\ song' = [p \in Path |-> IF p \in S THEN NoSong ELSE song[p]]
           /\ Present' = Present \ S
           /\ plays' = plays \ {song[p].id : p \in S}
           /\ stars' = stars \ {song[p].id : p \in S}
<1>1. PICK S \in SUBSET (Gone \cap Present) : SweepChunk(S)
  BY DEF DeleteSongs
<1>2. Present' = Present \ S
  BY <1>1 DEF SweepChunk, Present
<1> QED BY <1>1, <1>2 DEF SweepChunk

\* A deleteSongs transaction takes the plays of its songs along.
LEMMA DeleteIInv == IInv /\ DeleteSongs => IInv'
<1> SUFFICES ASSUME IInv, DeleteSongs PROVE IInv'
  OBVIOUS
<1>1. PICK S \in SUBSET Present :
        /\ song' = [p \in Path |-> IF p \in S THEN NoSong ELSE song[p]]
        /\ Present' = Present \ S
        /\ plays' = plays \ {song[p].id : p \in S}
        /\ stars' = stars \ {song[p].id : p \in S}
  BY DeletedRows
<1>2. UNCHANGED <<disk, clock, lastId, albums, artists, songCount, fts, scan, job, known,
                  seen, scans, outcome, touched, ftsLost>>
  BY DEF DeleteSongs, diskVars, scanVars
<1>3. \A p \in Present' : song'[p] = song[p] /\ p \in Present /\ p \in Path
  BY <1>1 DEF Present
<1>4. TypeOK'
  <2>1. song \in [Path -> Row \cup {NoSong}] /\ Row' = Row
    BY <1>2 DEF IInv, TypeOK, Row
  <2>2. song' \in [Path -> Row' \cup {NoSong}]
    BY <1>1, <2>1
  <2> QED BY <1>1, <1>2, <2>2 DEF IInv, TypeOK
<1>5. ReferencesOK'
  <2>1. ASSUME NEW id \in plays' PROVE id \in Live'
    <3>1. PICK p \in Present : song[p].id = id /\ p \notin S
      BY <1>1 DEF IInv, ReferencesOK, Live
    <3> QED BY <1>1, <1>3, <3>1 DEF Live
  <2> QED BY <1>2, <1>3, <2>1 DEF IInv, ReferencesOK
<1>6. IdsUnique' /\ SkipIsSound'
  BY <1>2, <1>3 DEF IInv, IdsUnique, SkipIsSound
<1>7. Clocked' /\ JobsSound'
  BY <1>2, <1>3 DEF IInv, Clocked, JobsSound
<1> QED BY <1>4, <1>5, <1>6, <1>7 DEF IInv

\* The aggregates and the index: what they write no other part relates.
LEMMA DerivedIInv ==
  ASSUME IInv,
         \/ SweepDone \/ UpdateAlbumStats
         \/ RebuildFTS \/ RebuildFTSInsertFails \/ RebuildFTSLost
  PROVE  IInv'
<1>1. UNCHANGED <<disk, clock, song, lastId, albums, artists, plays, stars, job, known, seen,
                  scans, touched>>
  BY DEF SweepDone, UpdateAlbumStats, RebuildFTS, RebuildFTSInsertFails, RebuildFTSLost,
     diskVars, songVars, userVars
<1>2. job' \in [Path -> Job] /\ \A p \in Path : JobStep(p)
  BY <1>1 DEF IInv, TypeOK, Job, JobStep
<1>3. songCount' \in [Album -> Nat]
  <2>1. songCount \in [Album -> Nat]
    BY DEF IInv, TypeOK
  <2>2. \A a \in Album : Cardinality(SongsOf(a)) \in Nat
    <3>1. \A a \in Album : SongsOf(a) \subseteq Path
      BY DEF SongsOf, Present
    <3> QED BY <3>1, LibraryAssumption, FS_Subset, FS_CardinalityType
  <2>3. \/ songCount' = songCount
        \/ songCount' = [a \in Album |-> IF SongsOf(a) # {} THEN Cardinality(SongsOf(a))
                                         ELSE songCount[a]]
    BY DEF SweepDone, UpdateAlbumStats, RebuildFTS, RebuildFTSInsertFails, RebuildFTSLost
  <2> QED BY <2>1, <2>2, <2>3
<1>4. fts' \subseteq [rowid : 1..MaxId, tags : Version]
  <2>1. Indexed \subseteq [rowid : 1..MaxId, tags : Version]
    <3>1. \A p \in Present : song[p].rowid \in 1..lastId /\ song[p].tags \in Version
      BY DEF IInv, TypeOK, Present, Row
    <3>2. lastId \in 0..MaxId /\ MaxId \in Nat
      BY LibraryAssumption DEF IInv, TypeOK
    <3>3. \A p \in Present : song[p].rowid \in 1..MaxId
      BY <3>1, <3>2
    <3> QED BY <3>1, <3>3 DEF Indexed
  <2>2. fts' = fts \/ fts' = {} \/ fts' = Indexed
    BY DEF SweepDone, UpdateAlbumStats, RebuildFTS, RebuildFTSInsertFails, RebuildFTSLost
  <2> QED BY <2>1, <2>2 DEF IInv, TypeOK
<1>5. /\ scan' \in {"idle", "stats", "albums"} /\ outcome' \in {"none", "ok", "error"}
      /\ ftsLost' \in BOOLEAN
  BY DEF IInv, TypeOK, SweepDone, UpdateAlbumStats, RebuildFTS, RebuildFTSInsertFails,
     RebuildFTSLost, Goto, Finish
<1>6. TypeOK'
  BY <1>1, <1>3, <1>4, <1>5 DEF IInv, TypeOK, Row
<1> QED BY <1>1, <1>2, <1>6, FrameIInv DEF IInv

\* An album goes only without songs, an artist only without albums.
LEMMA OrphansIInv ==
  ASSUME IInv, DeleteOrphanAlbums \/ DeleteOrphanArtists
  PROVE  IInv'
<1>1. UNCHANGED <<disk, clock, song, lastId, fts, plays, stars, job, known, seen, scans,
                  outcome, touched, ftsLost>>
  BY DEF DeleteOrphanAlbums, DeleteOrphanArtists, diskVars, userVars, Goto
<1>2. /\ albums' \subseteq albums /\ artists' \subseteq artists /\ scan' \in {"artists", "fts"}
      /\ \A a \in albums : SongsOf(a) # {} => a \in albums'
      /\ \A a \in albums' : ArtistOf[a] \in artists => ArtistOf[a] \in artists'
  BY DEF DeleteOrphanAlbums, DeleteOrphanArtists, Goto
<1>3. songCount' \in [Album -> Nat]
  BY DEF IInv, TypeOK, DeleteOrphanAlbums, DeleteOrphanArtists
<1>4. TypeOK'
  BY <1>1, <1>2, <1>3 DEF IInv, TypeOK, Row
<1>5. ReferencesOK'
  <2>1. Present' = Present /\ Live' = Live
    BY <1>1 DEF Present, Live
  <2>2. \A p \in Present : SongsOf(AlbumOf[song[p].tags]) # {}
    BY DEF SongsOf
  <2> QED BY <1>1, <1>2, <2>1, <2>2 DEF IInv, ReferencesOK
<1>6. IdsUnique' /\ SkipIsSound' /\ Clocked' /\ JobsSound'
  BY <1>1 DEF IInv, IdsUnique, SkipIsSound, Clocked, JobsSound, Present
<1> QED BY <1>4, <1>5, <1>6 DEF IInv

\* Failure, death and restart leave every table as it is.
LEMMA StopIInv ==
  ASSUME IInv, ScanError \/ Crash \/ Restart
  PROVE  IInv'
<1>1. UNCHANGED <<disk, clock, song, lastId, albums, artists, songCount, fts, plays, stars,
                  scans, touched, ftsLost>>
  BY DEF ScanError, Crash, Restart, diskVars, songVars, userVars
<1>2. job \in [Path -> Job] /\ Idle \in Job /\ Idle.at = "none" /\ Idle.stat = 0
  BY LibraryAssumption DEF IInv, TypeOK, Job, Idle
<1>3. job' \in [Path -> Job] /\ \A p \in Path : JobStep(p)
  BY <1>2 DEF ScanError, Crash, Restart, JobStep
<1>4. /\ known' \in [Path -> 0..MaxVersion] /\ seen' \subseteq Path
      /\ scan' \in {"idle", "down"} /\ outcome' \in {"none", "ok", "error"}
  BY LibraryAssumption DEF IInv, TypeOK, ScanError, Crash, Restart, Finish
<1>5. TypeOK'
  BY <1>1, <1>3, <1>4 DEF IInv, TypeOK, Row, Job
<1> QED BY <1>1, <1>3, <1>5, FrameIInv DEF IInv

-----------------------------------------------------------------------------
(* The theorems.                                                           *)

\* Every step of the system keeps the invariant.
LEMMA StepIInv == IInv /\ [Next]_vars => IInv'
<1> SUFFICES ASSUME IInv, [Next]_vars PROVE IInv'
  OBVIOUS
<1>1. CASE UNCHANGED vars
  <2>1. UNCHANGED <<disk, clock, song, lastId, albums, artists, songCount, fts, plays, stars,
                    scan, job, known, seen, scans, outcome, touched, ftsLost>>
    BY <1>1 DEF vars, diskVars, songVars, userVars, scanVars
  <2>2. job' \in [Path -> Job] /\ \A p \in Path : JobStep(p)
    BY <2>1 DEF IInv, TypeOK, Job, JobStep
  <2>3. TypeOK'
    BY <2>1 DEF IInv, TypeOK, Row
  <2> QED BY <2>1, <2>2, <2>3, FrameIInv DEF IInv
<1>2. CASE Disk \/ Api
  BY <1>2, DiskIInv, ApiIInv
<1>3. CASE Pipeline
  BY <1>3, WalkIInv, InsertIInv, Zenon DEF Pipeline
<1>4. CASE Maintain
  BY <1>4, DeleteIInv, DerivedIInv, OrphansIInv DEF Maintain
<1>5. CASE ScanError \/ Crash \/ Restart
  BY <1>5, StopIInv
<1> QED BY <1>1, <1>2, <1>3, <1>4, <1>5 DEF Next

\* The invariant holds in every reachable state.
LEMMA SpecIInv == Spec => []IInv
BY InitIInv, StepIInv, PTL DEF Spec

\* Every table, index and piece of scan state stays well-formed: in particular
\* no row holds an id or a rowid that was never given out.
THEOREM TypeCorrect == Spec => []TypeOK
<1>1. IInv => TypeOK
  BY DEF IInv
<1> QED BY <1>1, SpecIInv, PTL

\* The foreign keys of play_history, song and album hold at every commit, so no
\* delete of the sweep or of deleteOrphans is ever refused.
THEOREM ReferencesHold == Spec => []ReferencesOK
<1>1. IInv => ReferencesOK
  BY DEF IInv
<1> QED BY <1>1, SpecIInv, PTL

\* The size and mtime test of the walk never skips a file whose row holds the
\* tags of another version, however writes, reads and crashes interleave.
THEOREM SkipNeverLosesTags == Spec => []SkipIsSound
<1>1. IInv => SkipIsSound
  BY DEF IInv
<1> QED BY <1>1, SpecIInv, PTL

\* Only the upsert and the sweep write songs, only they and the API user data.
LEMMA SongWriters ==
  ASSUME [Next]_vars
  PROVE  \/ UNCHANGED <<song, plays, stars>>
         \/ InsertBatch \/ DeleteSongs
         \/ scan = "idle" /\ UNCHANGED song /\ plays \subseteq plays'
<1>1. CASE UNCHANGED vars
  BY <1>1 DEF vars, songVars, userVars
<1>2. CASE Disk
  BY <1>2 DEF Disk, WriteFile, RemoveFile, songVars, userVars
<1>3. CASE Api
  BY <1>3 DEF Api, Scrobble, Star, Unstar, songVars
<1>4. CASE Pipeline
  BY <1>4 DEF Pipeline, StartScan, InsertBatchLost, PipelineDone, VisitMiss, Visit, Open,
     ReadTags, ReadTrackError, songVars, userVars
<1>5. CASE Maintain
  BY <1>5 DEF Maintain, SweepDone, UpdateAlbumStats, DeleteOrphanAlbums, DeleteOrphanArtists,
     RebuildFTS, RebuildFTSInsertFails, RebuildFTSLost, songVars, userVars
<1>6. CASE ScanError \/ Crash \/ Restart
  BY <1>6 DEF ScanError, Crash, Restart, songVars, userVars
<1> QED BY <1>1, <1>2, <1>3, <1>4, <1>5, <1>6 DEF Next

\* ON CONFLICT(path) DO UPDATE: a rescan keeps the id of every row that stays.
THEOREM ScanKeepsIds == Spec => IdStable
<1>1. IInv /\ [Next]_vars => [\A p \in Present \cap Present' : song'[p].id = song[p].id]_vars
  <2> SUFFICES ASSUME IInv, [Next]_vars, NEW p \in Present \cap Present'
               PROVE  song'[p].id = song[p].id
    OBVIOUS
  <2>1. CASE InsertBatch
    BY <2>1, InsertedRows
  <2>2. CASE DeleteSongs
    <3>1. PICK S \in SUBSET Present :
            /\ song' = [q \in Path |-> IF q \in S THEN NoSong ELSE song[q]]
            /\ Present' = Present \ S
      BY <2>2, DeletedRows
    <3> QED BY <3>1 DEF Present
  <2>3. CASE UNCHANGED song
    BY <2>3
  <2> QED BY <2>1, <2>2, <2>3, SongWriters
<1> QED BY <1>1, SpecIInv, PTL DEF Spec, IdStable

\* A play or a star goes only with the song it is of, or by the user's unstar:
\* the sweep's deletes reach no song that stays.
THEOREM UserDataKept == Spec => UserDataGoesWithSong
<1> DEFINE Step == /\ plays \ plays' \subseteq Live \ Live'
                   /\ scan # "idle" => stars \ stars' \subseteq Live \ Live'
<1>1. IInv /\ [Next]_vars => [Step]_vars
  <2> SUFFICES ASSUME IInv, [Next]_vars PROVE Step
    OBVIOUS
  <2>1. CASE InsertBatch
    BY <2>1 DEF InsertBatch, userVars
  <2>2. CASE DeleteSongs
    <3>1. PICK S \in SUBSET Present :
            /\ song' = [p \in Path |-> IF p \in S THEN NoSong ELSE song[p]]
            /\ Present' = Present \ S
            /\ plays' = plays \ {song[p].id : p \in S}
            /\ stars' = stars \ {song[p].id : p \in S}
      BY <2>2, DeletedRows
    <3>2. \A q \in Present' : song'[q] = song[q] /\ q \in Present \ S
      BY <3>1 DEF Present
    <3>3. \A p \in S : song[p].id \in Live \ Live'
      BY <3>2 DEF IInv, IdsUnique, Live
    <3> QED BY <3>1, <3>3
  <2>3. CASE UNCHANGED <<song, plays, stars>>
    BY <2>3
  <2>4. CASE scan = "idle" /\ UNCHANGED song /\ plays \subseteq plays'
    BY <2>4
  <2> QED BY <2>1, <2>2, <2>3, <2>4, SongWriters
<1> QED BY <1>1, SpecIInv, PTL DEF Spec, UserDataGoesWithSong

-----------------------------------------------------------------------------
(* What a scan that returned nil has established: the song table mirrors   *)
(* the disk, and the tables derived from it agree with it.                 *)

\* The row of p is that of the file as it is now.
Matches(p) == song[p] # NoSong /\ song[p].stat = disk[p]

\* What the pipeline knows of a path that did not change or fail since the scan
\* started: a file that is there is marked as seen when it is visited, and has its
\* row once its job is done; one that is not has no job and is not marked.
InWalk(p) ==
  IF disk[p] = 0
  THEN /\ p \notin seen /\ job[p].at \in {"none", "ahead"}
       /\ song[p] # NoSong => known[p] # 0
  ELSE /\ job[p].at = "ahead" => known[p] = IF song[p] = NoSong THEN 0 ELSE song[p].stat
       /\ job[p].at # "ahead" => p \in seen
       /\ job[p].at \in {"opened", "read"} => job[p].stat = disk[p]
       /\ job[p].at = "none" => Matches(p)

\* The sweep deletes rows of known paths that were not seen.
InSweep(p) ==
  IF disk[p] = 0 THEN p \notin seen /\ (song[p] # NoSong => known[p] # 0)
  ELSE p \in seen /\ Matches(p)

Mirrored(p) == IF disk[p] = 0 THEN song[p] = NoSong ELSE Matches(p)

\* A scan is at one of these steps, or was completed and none was started since.
Reached(steps) == scan \in steps \/ Completed

Progress ==
  /\ scan = "walk"  => \A p \in Path \ touched : InWalk(p)
  /\ scan = "sweep" => \A p \in Path \ touched : InSweep(p)
  /\ Reached({"stats", "albums", "artists", "fts"}) =>
       \A p \in Path \ touched : Mirrored(p)
  /\ scan = "down" => outcome = "none"

\* What each maintenance commit leaves for the ones after it.
Derived ==
  /\ Reached({"albums", "artists", "fts"}) =>
       \A a \in Album : SongsOf(a) # {} => songCount[a] = Cardinality(SongsOf(a))
  /\ Reached({"artists", "fts"}) => albums = {AlbumOf[song[p].tags] : p \in Present}
  /\ Reached({"fts"}) => artists = {ArtistOf[a] : a \in albums}
  /\ Completed => (~ftsLost => fts = Indexed)

-----------------------------------------------------------------------------
(* Progress.                                                               *)

LEMMA InitScan == Init => Progress /\ Derived
BY DEF Init, Progress, Derived, Reached, Completed

\* Steps of others: what the scan relies on, about paths not touched, stays.
LEMMA OthersProgress ==
  ASSUME Progress, UNCHANGED <<scan, outcome, song, known, job, seen>>,
         touched \subseteq touched', \A p \in Path \ touched' : disk'[p] = disk[p]
  PROVE  Progress'
BY DEF Progress, InWalk, InSweep, Mirrored, Matches, Reached, Completed

LEMMA DiskProgress ==
  ASSUME IInv, Progress, Disk \/ Api
  PROVE  Progress'
<1>1. CASE Disk
  <2>1. PICK p \in Path : WriteFile(p) \/ RemoveFile(p)
    BY <1>1 DEF Disk
  <2>2. \A q \in Path \ touched' : disk'[q] = disk[q]
    BY <2>1 DEF WriteFile, RemoveFile, IInv, TypeOK
  <2> QED BY <2>1, <2>2, OthersProgress DEF WriteFile, RemoveFile, songVars, scanVars
<1>2. CASE Api
  BY <1>2, OthersProgress DEF Api, Scrobble, Star, Unstar, diskVars, songVars, scanVars
<1> QED BY <1>1, <1>2

\* One job of the pipeline moves.
LEMMA JobProgress ==
  ASSUME IInv, Progress, NEW p \in Path, scan = "walk",
         UNCHANGED <<scan, outcome, song, known, disk>>, touched \subseteq touched',
         \A q \in Path : q # p => job'[q] = job[q] /\ (q \in seen' <=> q \in seen),
         p \notin touched' => InWalk(p)'
  PROVE  Progress'
<1>1. ASSUME NEW q \in Path \ touched' PROVE InWalk(q)'
  <2>1. CASE q = p
    BY <1>1, <2>1
  <2>2. CASE q # p
    <3>1. InWalk(q)
      BY <1>1 DEF Progress
    <3>2. q \in seen' <=> q \in seen
      BY <2>2
    <3>3. job'[q] = job[q]
      BY <2>2
    <3> QED BY <3>1, <3>2, <3>3 DEF InWalk, Matches
  <2> QED BY <2>1, <2>2
<1> QED BY <1>1 DEF Progress, Reached, Completed

LEMMA StartProgress == ASSUME IInv, StartScan PROVE Progress'
<1>1. ASSUME NEW p \in Path PROVE InWalk(p)'
  <2>1. /\ job'[p].at = "ahead" /\ p \notin seen' /\ song'[p] = song[p]
        /\ known'[p] = IF song[p] = NoSong THEN 0 ELSE song[p].stat
    BY DEF StartScan, Idle, songVars
  <2>2. song[p] # NoSong => song[p].stat # 0
    BY DEF IInv, TypeOK, Row, Version
  <2> QED BY <2>1, <2>2 DEF InWalk
<1> QED BY <1>1 DEF StartScan, Progress, Reached, Completed

LEMMA WalkProgress ==
  ASSUME IInv, Progress, NEW p \in Path,
         VisitMiss(p) \/ Visit(p) \/ Open(p) \/ ReadTags(p) \/ ReadTrackError(p)
  PROVE  Progress'
<1> USE DEF diskVars, songVars, userVars, scanVars
<1>1. job \in [Path -> Job] /\ touched \subseteq Path
  BY DEF IInv, TypeOK, Job
<1>2. p \notin touched => InWalk(p)
  BY DEF Progress, VisitMiss, Visit, Open, ReadTags, ReadTrackError
<1>3. CASE VisitMiss(p)
  <2>1. /\ UNCHANGED <<scan, outcome, song, known, disk, seen>> /\ scan = "walk"
        /\ job' = [job EXCEPT ![p] = Idle] /\ job[p].at = "ahead"
        /\ touched' = IF disk[p] = 0 THEN touched ELSE touched \cup {p}
    BY <1>3 DEF VisitMiss
  <2>2. p \notin touched' => InWalk(p)'
    BY <1>1, <1>2, <2>1 DEF InWalk, Idle
  <2> QED BY <1>1, <2>1, <2>2, JobProgress
<1>4. CASE Visit(p)
  <2>1. /\ UNCHANGED <<scan, outcome, song, known, disk, touched>> /\ scan = "walk"
        /\ job[p].at = "ahead" /\ disk[p] # 0 /\ seen' = seen \cup {p}
        /\ job' = [job EXCEPT ![p] = IF known[p] = disk[p] THEN Idle
                                     ELSE [Idle EXCEPT !.at = "queued"]]
    BY <1>4 DEF Visit
  <2>2. job'[p].at = IF known[p] = disk[p] THEN "none" ELSE "queued"
    BY <1>1, <2>1 DEF Idle
  <2>3. p \notin touched' => InWalk(p)'
    BY <1>2, <2>1, <2>2 DEF InWalk, Matches
  <2> QED BY <1>1, <2>1, <2>3, JobProgress
<1>5. CASE Open(p)
  <2>1. /\ UNCHANGED <<scan, outcome, song, known, disk, touched, seen>> /\ scan = "walk"
        /\ job[p].at = "queued" /\ disk[p] # 0
        /\ job' = [job EXCEPT ![p] = [at |-> "opened", stat |-> disk[p], tags |-> 0]]
    BY <1>5 DEF Open
  <2>2. p \notin touched' => InWalk(p)'
    BY <1>1, <1>2, <2>1 DEF InWalk
  <2> QED BY <1>1, <2>1, <2>2, JobProgress
<1>6. CASE ReadTags(p)
  <2>1. /\ UNCHANGED <<scan, outcome, song, known, disk, touched, seen>> /\ scan = "walk"
        /\ job[p].at = "opened"
    BY <1>6 DEF ReadTags
  <2>2. PICK t \in {job[p].stat, disk[p]} \ {0} :
          job' = [job EXCEPT ![p].at = "read", ![p].tags = t]
    BY <1>6 DEF ReadTags
  <2>3. /\ job'[p].at = "read" /\ job'[p].stat = job[p].stat
        /\ \A q \in Path : q # p => job'[q] = job[q]
    BY <1>1, <2>2 DEF Job
  <2>4. p \notin touched' => InWalk(p)'
    BY <1>2, <2>1, <2>3 DEF InWalk
  <2> QED BY <2>1, <2>3, <2>4, JobProgress
<1>7. CASE ReadTrackError(p)
  <2>1. /\ UNCHANGED <<scan, outcome, song, known, disk, seen>> /\ scan = "walk"
        /\ job' = [job EXCEPT ![p] = Idle] /\ touched' = touched \cup {p}
    BY <1>7 DEF ReadTrackError
  <2> QED BY <1>1, <2>1, JobProgress
<1> QED BY <1>3, <1>4, <1>5, <1>6, <1>7

\* A batch that is committed leaves the rows its jobs describe; one that is
\* lost touches its paths.
LEMMA BatchProgress ==
  ASSUME IInv, Progress, InsertBatch \/ InsertBatchLost
  PROVE  Progress'
<1> USE DEF diskVars, songVars, userVars, scanVars
<1>1. /\ UNCHANGED <<scan, outcome, known, disk, seen>> /\ scan = "walk"
      /\ \A p \in Path : job'[p] = IF p \in Results THEN Idle ELSE job[p]
      /\ touched \subseteq touched'
  BY DEF InsertBatch, InsertBatchLost
<1>2. ASSUME NEW p \in Path \ Results PROVE song'[p] = song[p] /\ job'[p] = job[p]
  BY <1>1, <1>2, InsertedRows DEF InsertBatchLost
<1>3. ASSUME NEW p \in Results \ touched'
      PROVE  song'[p] # NoSong /\ song'[p].stat = job[p].stat /\ job'[p].at = "none"
  <2>1. InsertBatch
    BY <1>3 DEF InsertBatchLost
  <2>2. p \in Present' /\ song'[p].stat = job[p].stat
    BY <2>1, <1>3, InsertedRows
  <2> QED BY <1>1, <2>2 DEF Present, Idle, Results
<1>4. ASSUME NEW p \in Path \ touched' PROVE InWalk(p)'
  <2>1. InWalk(p)
    BY <1>1, <1>4 DEF Progress
  <2>2. CASE p \in Results
    BY <1>1, <1>3, <1>4, <2>1, <2>2 DEF InWalk, Matches, Results
  <2>3. CASE p \notin Results
    BY <1>1, <1>2, <2>1, <2>3 DEF InWalk, Matches
  <2> QED BY <2>2, <2>3
<1> QED BY <1>1, <1>4 DEF Progress, Reached, Completed

LEMMA SweepProgress ==
  ASSUME IInv, Progress, PipelineDone \/ DeleteSongs \/ SweepDone
  PROVE  Progress'
<1> USE DEF diskVars, songVars, userVars, scanVars
<1>1. CASE PipelineDone
  <2>1. /\ UNCHANGED <<disk, song, known, seen, touched>> /\ scan = "walk" /\ scan' = "sweep"
        /\ \A p \in Path : job[p].at = "none"
    BY <1>1 DEF PipelineDone, Idle
  <2>2. \A p \in Path \ touched : InSweep(p)
    BY <2>1 DEF Progress, InWalk, InSweep, Matches
  <2> QED BY <2>1, <2>2 DEF Progress, InSweep, Matches, Reached, Completed
<1>2. CASE DeleteSongs
  <2>1. /\ UNCHANGED <<disk, known, seen, touched, scan>> /\ scan = "sweep"
    BY <1>2 DEF DeleteSongs
  <2>2. PICK S \in SUBSET (Gone \cap Present) :
          song' = [p \in Path |-> IF p \in S THEN NoSong ELSE song[p]]
    BY <1>2 DEF DeleteSongs, SweepChunk
  <2>3. ASSUME NEW p \in Path \ touched PROVE InSweep(p)'
    <3>1. InSweep(p)
      BY <2>1 DEF Progress
    <3>2. p \in seen => song'[p] = song[p]
      BY <2>2 DEF Gone
    <3>3. song'[p] # NoSong => song'[p] = song[p]
      BY <2>2
    <3> QED BY <2>1, <3>1, <3>2, <3>3 DEF InSweep, Matches
  <2> QED BY <2>1, <2>3 DEF Progress, Reached, Completed
<1>3. CASE SweepDone
  <2>1. /\ UNCHANGED <<disk, song, touched>> /\ scan = "sweep" /\ scan' = "stats"
        /\ Gone \cap Present = {}
    BY <1>3 DEF SweepDone, Goto
  <2>2. \A p \in Path \ touched : Mirrored(p)
    BY <2>1 DEF Progress, InSweep, Mirrored, Matches, Gone, Present
  <2> QED BY <2>1, <2>2 DEF Progress, Mirrored, Matches, Reached, Completed
<1> QED BY <1>1, <1>2, <1>3

LEMMA MaintainProgress ==
  ASSUME Progress,
         \/ UpdateAlbumStats \/ DeleteOrphanAlbums \/ DeleteOrphanArtists
         \/ RebuildFTS \/ RebuildFTSInsertFails \/ RebuildFTSLost
  PROVE  Progress'
<1>1. /\ UNCHANGED <<disk, song, touched>> /\ scan \in {"stats", "albums", "artists", "fts"}
      /\ scan' \in {"albums", "artists", "fts", "idle"}
  BY DEF UpdateAlbumStats, DeleteOrphanAlbums, DeleteOrphanArtists, RebuildFTS,
     RebuildFTSInsertFails, RebuildFTSLost, Goto, Finish, diskVars, songVars
<1> QED BY <1>1 DEF Progress, Mirrored, Matches, Reached, Completed

LEMMA StopProgress ==
  ASSUME Progress, ScanError \/ Crash \/ Restart
  PROVE  Progress'
BY DEF ScanError, Crash, Restart, Finish, Progress, Reached, Completed

-----------------------------------------------------------------------------
(* Derived.                                                                *)

\* Until the counts are taken again nothing is claimed.
LEMMA NothingDerived ==
  ASSUME scan' \in {"walk", "sweep", "stats", "down"} \/ (scan' = "idle" /\ outcome' # "ok")
  PROVE  Derived'
BY DEF Derived, Reached, Completed

LEMMA DerivedStays ==
  ASSUME Derived,
         UNCHANGED <<song, songCount, albums, artists, fts, scan, outcome, ftsLost>>
  PROVE  Derived'
BY DEF Derived, Reached, Completed, SongsOf, Present, Indexed

LEMMA MaintainDerived ==
  ASSUME IInv, Derived,
         \/ UpdateAlbumStats \/ DeleteOrphanAlbums \/ DeleteOrphanArtists
         \/ RebuildFTS \/ RebuildFTSLost
  PROVE  Derived'
<1> USE DEF diskVars, songVars, userVars
<1>1. UNCHANGED song
  BY DEF UpdateAlbumStats, DeleteOrphanAlbums, DeleteOrphanArtists, RebuildFTS,
     RebuildFTSLost
<1>2. Present' = Present /\ \A a \in Album : SongsOf(a)' = SongsOf(a)
  BY <1>1 DEF Present, SongsOf
<1>3. \A a \in Album : SongsOf(a) # {} => a \in albums
  BY DEF IInv, ReferencesOK, SongsOf
<1>4. CASE UpdateAlbumStats
  <2>1. scan' = "albums"
    BY <1>4 DEF UpdateAlbumStats, Goto
  <2>2. \A a \in Album : SongsOf(a) # {} => songCount'[a] = Cardinality(SongsOf(a))
    BY <1>4 DEF UpdateAlbumStats
  <2> QED BY <1>2, <2>1, <2>2 DEF Derived, Reached, Completed
<1>5. CASE DeleteOrphanAlbums
  <2>1. scan = "albums" /\ scan' = "artists"
    BY <1>5 DEF DeleteOrphanAlbums, Goto
  <2>2. /\ albums' = {a \in albums : SongsOf(a) # {}}
        /\ \A a \in Album : a \in albums' => songCount'[a] = songCount[a]
    BY <1>5 DEF DeleteOrphanAlbums
  <2>3. \A a \in Album : SongsOf(a) # {} => songCount'[a] = Cardinality(SongsOf(a))
    BY <1>3, <2>1, <2>2 DEF Derived, Reached
  <2>4. albums' = {AlbumOf[song[p].tags] : p \in Present}
    BY <1>3, <2>2 DEF SongsOf, IInv, TypeOK, ReferencesOK
  <2> QED BY <1>1, <1>2, <2>1, <2>3, <2>4 DEF Derived, Reached, Completed
<1>6. CASE DeleteOrphanArtists
  <2>1. /\ scan = "artists" /\ scan' = "fts" /\ UNCHANGED <<albums, songCount>>
        /\ artists' = artists \cap {ArtistOf[a] : a \in albums}
    BY <1>6 DEF DeleteOrphanArtists, Goto
  <2>2. artists' = {ArtistOf[a] : a \in albums}
    BY <2>1 DEF IInv, ReferencesOK
  <2> QED BY <1>1, <1>2, <2>1, <2>2 DEF Derived, Reached, Completed
<1>7. CASE RebuildFTS \/ RebuildFTSLost
  <2>1. /\ scan = "fts" /\ scan' = "idle" /\ UNCHANGED <<albums, artists, songCount>>
        /\ fts' = Indexed \/ ftsLost'
    BY <1>7 DEF RebuildFTS, RebuildFTSLost, Finish
  <2>2. Indexed' = Indexed
    BY <1>1, <1>2 DEF Indexed
  <2> QED BY <1>1, <1>2, <2>1, <2>2 DEF Derived, Reached, Completed
<1> QED BY <1>4, <1>5, <1>6, <1>7

-----------------------------------------------------------------------------
(* The theorems.                                                           *)

\* Every step of the system keeps both.
LEMMA SpecScan == Spec => [](Progress /\ Derived)
<1>1. IInv /\ (Progress /\ Derived) /\ [Next]_vars => (Progress /\ Derived)'
  <2> SUFFICES ASSUME IInv, Progress, Derived, [Next]_vars PROVE Progress' /\ Derived'
    OBVIOUS
  <2> USE DEF diskVars, songVars, userVars, scanVars
  <2>1. CASE UNCHANGED vars
    BY <2>1, OthersProgress, DerivedStays DEF vars
  <2>2. CASE Disk \/ Api
    <3>1. UNCHANGED <<song, songCount, albums, artists, fts, scan, outcome, ftsLost>>
      BY <2>2 DEF Disk, WriteFile, RemoveFile, Api, Scrobble, Star, Unstar
    <3> QED BY <2>2, <3>1, DiskProgress, DerivedStays
  <2>3. CASE Pipeline
    <3>1. scan' \in {"walk", "sweep"}
      BY <2>3 DEF Pipeline, StartScan, InsertBatch, InsertBatchLost, PipelineDone,
         VisitMiss, Visit, Open, ReadTags, ReadTrackError
    <3>2. Progress'
      BY <2>3, StartProgress, WalkProgress, BatchProgress, SweepProgress DEF Pipeline
    <3> QED BY <3>1, <3>2, NothingDerived
  <2>4. CASE DeleteSongs \/ SweepDone \/ RebuildFTSInsertFails
    <3>1. scan' \in {"sweep", "stats"} \/ (scan' = "idle" /\ outcome' # "ok")
      BY <2>4 DEF DeleteSongs, SweepDone, RebuildFTSInsertFails, Goto, Finish
    <3> QED BY <2>4, <3>1, SweepProgress, MaintainProgress, NothingDerived
  <2>5. CASE \/ UpdateAlbumStats \/ DeleteOrphanAlbums \/ DeleteOrphanArtists
             \/ RebuildFTS \/ RebuildFTSLost
    BY <2>5, MaintainProgress, MaintainDerived
  <2>6. CASE ScanError \/ Crash \/ Restart
    <3>1. scan' = "down" \/ (scan' = "idle" /\ outcome' # "ok")
      BY <2>6 DEF ScanError, Crash, Restart, Finish, Progress
    <3> QED BY <2>6, <3>1, StopProgress, NothingDerived
  <2> QED BY <2>1, <2>2, <2>3, <2>4, <2>5, <2>6 DEF Next, Maintain
<1> QED BY <1>1, InitScan, SpecIInv, PTL DEF Spec

\* After a scan that returned nil the song table has exactly the files, with the
\* tags they have now, except for those that changed, failed or were lost.
THEOREM ScansMirrorTheDisk == Spec => []CompletedScanMirrors
<1>1. ASSUME IInv, Progress, Completed, NEW p \in Path \ touched
      PROVE  IF disk[p] = 0 THEN song[p] = NoSong
             ELSE song[p] # NoSong /\ song[p].stat = disk[p] /\ song[p].tags = disk[p]
  <2>1. Mirrored(p)
    BY <1>1 DEF Progress, Reached
  <2>2. song[p] # NoSong /\ song[p].stat = disk[p] => song[p].tags = disk[p]
    BY <1>1 DEF IInv, SkipIsSound, Present
  <2> QED BY <2>1, <2>2 DEF Mirrored, Matches
<1>2. IInv /\ Progress => CompletedScanMirrors
  BY <1>1 DEF CompletedScanMirrors
<1> QED BY <1>2, SpecIInv, SpecScan, PTL

\* ... and the albums, artists, counts and the index are those of its rows.
THEOREM ScansTidyUp == Spec => []CompletedScanTidy
<1>1. ASSUME IInv, Derived, Completed
      PROVE  \A a \in albums : songCount[a] = Cardinality(SongsOf(a))
  <2>1. /\ albums = {AlbumOf[song[p].tags] : p \in Present} /\ albums \subseteq Album
        /\ \A a \in Album : SongsOf(a) # {} => songCount[a] = Cardinality(SongsOf(a))
    BY <1>1 DEF Derived, Reached, IInv, TypeOK
  <2>2. \A a \in albums : SongsOf(a) # {}
    BY <2>1 DEF SongsOf
  <2> QED BY <2>1, <2>2
<1>2. IInv /\ Derived => CompletedScanTidy
  BY <1>1 DEF CompletedScanTidy, Derived, Reached
<1> QED BY <1>2, SpecIInv, SpecScan, PTL
=============================================================================

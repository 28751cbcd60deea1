---------------------------- MODULE ScanPipeline ----------------------------
(***************************************************************************)
(* The concurrent half of Scanner.Run (internal/scanner/scanner.go): the   *)
(* walker, the pool of parse workers, the goroutine that closes results    *)
(* and the single DB writer, joined by two bounded channels.  The run ends *)
(* in "sweep", where Run goes on to the maintenance steps of Library, or   *)
(* in "failed", where it returns the writer's error.                       *)
(*                                                                         *)
(* A file stands for the whole trackInfo read from it.  A batch commits or *)
(* rolls back as one step: the writer has the only write connection.       *)
(***************************************************************************)
EXTENDS Naturals, FiniteSets, SequencesExt

CONSTANTS
  File,        \* supported audio files a complete walk would visit
  Worker,      \* parse workers (scanWorkers = 32)
  JobsCap,     \* capacity of the jobs channel (100)
  ResultsCap,  \* capacity of the results channel (500)
  BatchSize,   \* results per insertBatch (batchSize = 1000)
  NoFile       \* what an idle worker holds, a walker that is not sending

ASSUME PipelineAssumption ==
  /\ IsFiniteSet(File) /\ NoFile \notin File
  /\ Worker # {} /\ IsFiniteSet(Worker)
  /\ JobsCap \in Nat \ {0} /\ ResultsCap \in Nat \ {0} /\ BatchSize \in Nat \ {0}

VARIABLES
  run,            \* where the goroutine of Run stands
  ahead,          \* files the walk has still to visit
  sending,        \* the file the walker is to send on jobs
  unseen,         \* files lost to a walk or stat error: never in seenPaths
  unchanged,      \* files whose mtime and size match the database
  jobs, jobsClosed,
  wpc, held,      \* per worker: its step and the file it works on
  unreadable,     \* files readTrack failed on
  results, resultsClosed,
  writer, batch, writerErr,
  stored,         \* files whose row was committed by this run
  uncommitted,    \* files of a batch whose COMMIT failed without an error
  count           \* s.count, the progress getScanStatus shows

mainVars   == <<run, ahead, sending, unseen, unchanged, jobsClosed>>
workerVars == <<wpc, held, unreadable>>
writerVars == <<writer, batch, writerErr, stored, uncommitted>>
vars == <<mainVars, jobs, workerVars, results, resultsClosed, writerVars, count>>

Init ==
  /\ run = "walk" /\ ahead = File /\ sending = NoFile
  /\ unseen = {} /\ unchanged = {} /\ unreadable = {}
  /\ jobs = <<>> /\ jobsClosed = FALSE
  /\ wpc = [w \in Worker |-> "recv"] /\ held = [w \in Worker |-> NoFile]
  /\ results = <<>> /\ resultsClosed = FALSE
  /\ writer = "recv" /\ batch = <<>> /\ writerErr = FALSE
  /\ stored = {} /\ uncommitted = {} /\ count = 0

-----------------------------------------------------------------------------
(* The walker: the callback of filepath.WalkDir, once per file.            *)

\* WalkDir calls back for the next file.
Callback(f) ==
  /\ run = "walk" /\ sending = NoFile /\ f \in ahead
  /\ ahead' = ahead \ {f}

\* A walk error or a failing d.Info(): the callback logs and returns nil.
VisitError(f) ==
  /\ Callback(f) /\ unseen' = unseen \cup {f}
  /\ UNCHANGED <<run, sending, unchanged, jobs, jobsClosed, workerVars, results,
                 resultsClosed, writerVars, count>>

\* Mutant of VisitUnchanged: the skip path forgets s.count.Add(1).
VisitUnchangedUncounted(f) ==
  /\ Callback(f) /\ unchanged' = unchanged \cup {f}
  /\ UNCHANGED <<run, sending, unseen, jobs, jobsClosed, workerVars, results,
                 resultsClosed, writerVars, count>>

\* Size and mtime are those of the row: counted, not queued.
VisitUnchanged(f) ==
  /\ Callback(f) /\ unchanged' = unchanged \cup {f}
  /\ count' = count + 1
  /\ UNCHANGED <<run, sending, unseen, jobs, jobsClosed, workerVars, results,
                 resultsClosed, writerVars>>

\* A new or changed file: seen, and to be sent.
VisitChanged(f) ==
  /\ Callback(f) /\ sending' = f
  /\ UNCHANGED <<run, unseen, unchanged, jobs, jobsClosed, workerVars, results,
                 resultsClosed, writerVars, count>>

\* jobs <- trackJob, which blocks the walk while jobs is full.
SendJob ==
  /\ sending # NoFile /\ Len(jobs) < JobsCap
  /\ jobs' = Append(jobs, sending) /\ sending' = NoFile
  /\ UNCHANGED <<run, ahead, unseen, unchanged, jobsClosed, workerVars, results,
                 resultsClosed, writerVars, count>>

CloseJobs ==
  /\ run = "walk" /\ ahead = {} /\ sending = NoFile
  /\ run' = "join" /\ jobsClosed' = TRUE
  /\ UNCHANGED <<ahead, sending, unseen, unchanged, jobs, workerVars, results,
                 resultsClosed, writerVars, count>>

\* writerWg.Wait() returns; walkErr is always nil, writerErr decides.
Join ==
  /\ run = "join" /\ writer = "done"
  /\ run' = IF writerErr THEN "failed" ELSE "sweep"
  /\ UNCHANGED <<ahead, sending, unseen, unchanged, jobs, jobsClosed, workerVars,
                 results, resultsClosed, writerVars, count>>

-----------------------------------------------------------------------------
(* A parse worker: for job := range jobs { readTrack; results <- info }.   *)

TakeJob(w) ==
  /\ wpc[w] = "recv" /\ jobs # <<>>
  /\ jobs' = Tail(jobs)
  /\ held' = [held EXCEPT ![w] = Head(jobs)]
  /\ wpc' = [wpc EXCEPT ![w] = "parse"]
  /\ UNCHANGED <<mainVars, unreadable, results, resultsClosed, writerVars, count>>

ReadTrackOK(w) ==
  /\ wpc[w] = "parse"
  /\ wpc' = [wpc EXCEPT ![w] = "send"]
  /\ UNCHANGED <<mainVars, jobs, held, unreadable, results, resultsClosed,
                 writerVars, count>>

\* Mutant of ReadTrackError: return instead of continue.
ReadTrackErrorReturns(w) ==
  /\ wpc[w] = "parse"
  /\ unreadable' = unreadable \cup {held[w]}
  /\ held' = [held EXCEPT ![w] = NoFile]
  /\ wpc' = [wpc EXCEPT ![w] = "exit"]
  /\ UNCHANGED <<mainVars, jobs, results, resultsClosed, writerVars, count>>

\* An open or stat error, or a panic in the tag reader: warn and continue.
ReadTrackError(w) ==
  /\ wpc[w] = "parse"
  /\ unreadable' = unreadable \cup {held[w]}
  /\ held' = [held EXCEPT ![w] = NoFile]
  /\ wpc' = [wpc EXCEPT ![w] = "recv"]
  /\ UNCHANGED <<mainVars, jobs, results, resultsClosed, writerVars, count>>

SendResult(w) ==
  /\ wpc[w] = "send" /\ Len(results) < ResultsCap
  /\ results' = Append(results, held[w])
  /\ held' = [held EXCEPT ![w] = NoFile]
  /\ wpc' = [wpc EXCEPT ![w] = "recv"]
  /\ UNCHANGED <<mainVars, jobs, unreadable, resultsClosed, writerVars, count>>

\* jobs is closed and drained: the range loop ends, parseWg.Done().
WorkerExit(w) ==
  /\ wpc[w] = "recv" /\ jobs = <<>> /\ jobsClosed
  /\ wpc' = [wpc EXCEPT ![w] = "exit"]
  /\ UNCHANGED <<mainVars, jobs, held, unreadable, results, resultsClosed,
                 writerVars, count>>

\* Mutant of CloseResults: the first worker that ends closes the channel.
CloseResultsFirst ==
  /\ ~resultsClosed /\ \E w \in Worker : wpc[w] = "exit"
  /\ resultsClosed' = TRUE
  /\ UNCHANGED <<mainVars, jobs, workerVars, results, writerVars, count>>

\* parseWg.Wait() returns: close(results).
CloseResults ==
  /\ ~resultsClosed /\ \A w \in Worker : wpc[w] = "exit"
  /\ resultsClosed' = TRUE
  /\ UNCHANGED <<mainVars, jobs, workerVars, results, writerVars, count>>

-----------------------------------------------------------------------------
(* The DB writer.                                                          *)

\* Mutant of Receive: > for >=, an off-by-one in the batch limit.
ReceiveLate ==
  /\ writer = "recv" /\ results # <<>>
  /\ results' = Tail(results)
  /\ batch' = Append(batch, Head(results))
  /\ count' = count + 1
  /\ writer' = IF Len(batch') > BatchSize THEN "insert" ELSE "recv"
  /\ UNCHANGED <<mainVars, jobs, workerVars, resultsClosed, writerErr,
                 stored, uncommitted>>

Receive ==
  /\ writer = "recv" /\ results # <<>>
  /\ results' = Tail(results)
  /\ batch' = Append(batch, Head(results))
  /\ count' = count + 1
  /\ writer' = IF Len(batch') >= BatchSize THEN "insert" ELSE "recv"
  /\ UNCHANGED <<mainVars, jobs, workerVars, resultsClosed, writerErr,
                 stored, uncommitted>>

\* Mutant of EndOfResults: the last, partial batch is not flushed.
EndWithoutFlush ==
  /\ writer = "recv" /\ results = <<>> /\ resultsClosed
  /\ writer' = "done"
  /\ UNCHANGED <<mainVars, jobs, workerVars, results, resultsClosed, batch,
                 writerErr, stored, uncommitted, count>>

\* results is closed and drained: flush what is left of the batch.
EndOfResults ==
  /\ writer = "recv" /\ results = <<>> /\ resultsClosed
  /\ writer' = IF batch # <<>> THEN "flush" ELSE "done"
  /\ UNCHANGED <<mainVars, jobs, workerVars, results, resultsClosed, batch,
                 writerErr, stored, uncommitted, count>>

AfterInsert == IF writer = "insert" THEN "recv" ELSE "done"

\* Mutant of InsertBatchCommit: batch = batch[:0] is missing.
InsertKeepsBatch ==
  /\ writer \in {"insert", "flush"}
  /\ stored' = stored \cup ToSet(batch)
  /\ writer' = AfterInsert
  /\ UNCHANGED <<mainVars, jobs, workerVars, results, resultsClosed, batch,
                 writerErr, uncommitted, count>>

InsertBatchCommit ==
  /\ writer \in {"insert", "flush"}
  /\ stored' = stored \cup ToSet(batch)
  /\ batch' = <<>> /\ writer' = AfterInsert
  /\ UNCHANGED <<mainVars, jobs, workerVars, results, resultsClosed,
                 writerErr, uncommitted, count>>

\* Mutant of InsertBatchError: the writer returns without draining results.
InsertErrorNoDrain ==
  /\ writer \in {"insert", "flush"}
  /\ writerErr' = TRUE /\ batch' = <<>>
  /\ writer' = "done"
  /\ UNCHANGED <<mainVars, jobs, workerVars, results, resultsClosed,
                 stored, uncommitted, count>>

\* Mutant of InsertBatchError: the error is logged but not kept in writerErr.
InsertErrorForgotten ==
  /\ writer \in {"insert", "flush"}
  /\ batch' = <<>>
  /\ writer' = IF writer = "insert" THEN "drain" ELSE "done"
  /\ UNCHANGED <<mainVars, jobs, workerVars, results, resultsClosed, writerErr,
                 stored, uncommitted, count>>

\* A statement fails: ROLLBACK and an error; a full batch then drains.
InsertBatchError ==
  /\ writer \in {"insert", "flush"}
  /\ writerErr' = TRUE /\ batch' = <<>>
  /\ writer' = IF writer = "insert" THEN "drain" ELSE "done"
  /\ UNCHANGED <<mainVars, jobs, workerVars, results, resultsClosed,
                 stored, uncommitted, count>>

\* The deferred endFn meets a failing COMMIT: it rolls back and stores the
\* error in a local the unnamed result does not read, so nil is returned.
InsertBatchCommitFails ==
  /\ writer \in {"insert", "flush"}
  /\ uncommitted' = uncommitted \cup ToSet(batch)
  /\ batch' = <<>> /\ writer' = AfterInsert
  /\ UNCHANGED <<mainVars, jobs, workerVars, results, resultsClosed,
                 writerErr, stored, count>>

\* for range results {} after an error, so that workers never block.
Drain ==
  /\ writer = "drain" /\ results # <<>>
  /\ results' = Tail(results)
  /\ UNCHANGED <<mainVars, jobs, workerVars, resultsClosed, writerVars, count>>

DrainEnd ==
  /\ writer = "drain" /\ results = <<>> /\ resultsClosed
  /\ writer' = "done"
  /\ UNCHANGED <<mainVars, jobs, workerVars, results, resultsClosed, batch,
                 writerErr, stored, uncommitted, count>>

-----------------------------------------------------------------------------
Walk == (\E f \in File : VisitError(f) \/ VisitUnchanged(f) \/ VisitChanged(f))
        \/ SendJob \/ CloseJobs \/ Join
Work(w) == TakeJob(w) \/ ReadTrackOK(w) \/ ReadTrackError(w) \/ SendResult(w)
           \/ WorkerExit(w)
Write == Receive \/ EndOfResults \/ InsertBatchCommit \/ InsertBatchError
         \/ InsertBatchCommitFails \/ Drain \/ DrainEnd

Next == Walk \/ (\E w \in Worker : Work(w)) \/ CloseResults \/ Write

\* The Go scheduler runs every goroutine that can run.
Fairness == /\ WF_vars(Walk) /\ WF_vars(CloseResults) /\ WF_vars(Write)
            /\ \A w \in Worker : WF_vars(Work(w))

Spec == Init /\ [][Next]_vars
FairSpec == Spec /\ Fairness
-----------------------------------------------------------------------------
(* Properties.                                                             *)

\* Types, and the bounds the channels and the batch keep.
TypeOK ==
  /\ run \in {"walk", "join", "sweep", "failed"}
  /\ ahead \subseteq File /\ unseen \subseteq File /\ unchanged \subseteq File
  /\ unreadable \subseteq File /\ stored \subseteq File /\ uncommitted \subseteq File
  /\ jobs \in Seq(File) /\ results \in Seq(File) /\ batch \in Seq(File)
  /\ jobsClosed \in BOOLEAN /\ resultsClosed \in BOOLEAN /\ writerErr \in BOOLEAN
  /\ wpc \in [Worker -> {"recv", "parse", "send", "exit"}]
  /\ held \in [Worker -> File \cup {NoFile}] /\ sending \in File \cup {NoFile}
  /\ writer \in {"recv", "insert", "flush", "drain", "done"}
  /\ count \in Nat
  /\ Len(jobs) <= JobsCap /\ Len(results) <= ResultsCap /\ Len(batch) <= BatchSize

\* Files between the walker and a commit, in whatever goroutine or channel.
Held     == ({held[w] : w \in Worker} \cup {sending}) \ {NoFile}
InFlight == ToSet(jobs) \cup Held \cup ToSet(results) \cup ToSet(batch)
Sent     == File \ (ahead \cup unseen \cup unchanged)

\* No goroutine sends on a closed channel (a panic in Go): the walker sends on
\* jobs only before close(jobs), and results is closed only after the last
\* worker is past its last send.
NoSendOnClosed ==
  /\ sending # NoFile => ~jobsClosed
  /\ resultsClosed => \A w \in Worker : wpc[w] \notin {"parse", "send"}

\* Run leaves the pipeline (and, by its deferred put(), gives the write
\* connection back) only when no goroutine of the scan can touch it again and
\* nothing is left in a channel or a batch.
QuiescentAtEnd ==
  run \in {"sweep", "failed"} =>
    /\ writer = "done" /\ resultsClosed /\ \A w \in Worker : wpc[w] = "exit"
    /\ InFlight = {}

\* The mark-and-sweep starts only when every file the walker queued was stored,
\* was found unreadable, or belongs to a batch whose COMMIT failed silently; a
\* writer error never reaches the sweep.
SweepKnowsAll ==
  run = "sweep" => /\ Sent = stored \cup unreadable \cup uncommitted
                   /\ ~writerErr

\* No file is in two places at once: a job is taken by one worker, a result is
\* received once, and what was settled is not in flight.
NoDuplicate ==
  LET line == jobs \o results \o batch IN
  /\ IsInjective(line)
  /\ \A w, v \in Worker : held[w] = held[v] /\ w # v => held[w] = NoFile
  /\ \A w \in Worker : held[w] = sending => sending = NoFile
  /\ ToSet(line) \cap Held = {}
  /\ InFlight \cap (ahead \cup unseen \cup unchanged \cup unreadable
                   \cup stored \cup uncommitted) = {}

\* The progress getScanStatus reports: at the sweep it is exactly the files
\* skipped as unchanged plus the results the writer took, so it never counts a
\* file twice or an unreadable one (TestFullScan compares it with the files).
CountExact ==
  run = "sweep" => count = Cardinality(unchanged \cup stored \cup uncommitted)

\* Run returns or goes on to the sweep, whatever fails: bounded channels, a
\* blocked walker and blocked workers are always emptied by the writer, which
\* drains results after an error.
Terminates == <>(run \in {"sweep", "failed"})

\* The pipeline implements the ledger of its files.
StatusOf(f) ==
  CASE f \in ahead       -> "pending"
    [] f \in unseen      -> "unseen"
    [] f \in unchanged   -> "unchanged"
    [] f \in unreadable  -> "unreadable"
    [] f \in stored      -> "stored"
    [] f \in uncommitted -> "uncommitted"
    [] f \in InFlight    -> "queued"
    [] OTHER             -> "dropped"
Ledger == INSTANCE TrackLedger WITH
            status  <- [f \in File |-> StatusOf(f)],
            verdict <- IF run \in {"sweep", "failed"} THEN run ELSE "open"
ImplementsLedger == Ledger!Spec
=============================================================================

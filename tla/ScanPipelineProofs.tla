------------------------- MODULE ScanPipelineProofs -------------------------
(***************************************************************************)
(* Proofs about ScanPipeline for every number of files and workers, every  *)
(* channel capacity and every batch size.                                  *)
(***************************************************************************)
EXTENDS ScanPipeline, TLAPS

-----------------------------------------------------------------------------
(* The elements of a channel or batch when one is added or removed.        *)

LEMMA AppendElems ==
  ASSUME NEW S, NEW s \in Seq(S), NEW e \in S
  PROVE  /\ ToSet(Append(s, e)) = ToSet(s) \cup {e}
         /\ Append(s, e) \in Seq(S) /\ Len(Append(s, e)) = Len(s) + 1
<1>1. Append(s, e) \in Seq(S) /\ Len(Append(s, e)) = Len(s) + 1
  OBVIOUS
<1>2. ToSet(Append(s, e)) \subseteq ToSet(s) \cup {e}
  BY DEF ToSet
<1>3. \A x \in ToSet(s) : x \in ToSet(Append(s, e))
  <2>1. SUFFICES ASSUME NEW i \in DOMAIN s PROVE s[i] \in ToSet(Append(s, e))
    BY DEF ToSet
  <2>2. i \in DOMAIN Append(s, e) /\ Append(s, e)[i] = s[i]
    OBVIOUS
  <2> QED BY <2>2 DEF ToSet
<1>4. e \in ToSet(Append(s, e))
  <2>1. /\ Len(s) + 1 \in DOMAIN Append(s, e)
        /\ Append(s, e)[Len(s) + 1] = e
    OBVIOUS
  <2> QED BY <2>1 DEF ToSet
<1> QED BY <1>1, <1>2, <1>3, <1>4

LEMMA HeadTailElems ==
  ASSUME NEW S, NEW s \in Seq(S), s # <<>>
  PROVE  /\ ToSet(s) = {Head(s)} \cup ToSet(Tail(s))
         /\ Head(s) \in S /\ Tail(s) \in Seq(S) /\ Len(Tail(s)) = Len(s) - 1
<1>1. Head(s) \in S /\ Tail(s) \in Seq(S) /\ Len(Tail(s)) = Len(s) - 1
  OBVIOUS
<1>2. Head(s) \in ToSet(s)
  <2>1. 1 \in DOMAIN s /\ Head(s) = s[1]
    OBVIOUS
  <2> QED BY <2>1 DEF ToSet
<1>3. ASSUME NEW i \in DOMAIN Tail(s) PROVE Tail(s)[i] \in ToSet(s)
  <2>1. i + 1 \in DOMAIN s /\ Tail(s)[i] = s[i + 1]
    OBVIOUS
  <2> QED BY <2>1 DEF ToSet
<1>4. ASSUME NEW i \in DOMAIN s PROVE s[i] \in {Head(s)} \cup ToSet(Tail(s))
  <2>1. CASE i = 1
    BY <2>1
  <2>2. CASE i # 1
    <3>1. i - 1 \in DOMAIN Tail(s) /\ Tail(s)[i - 1] = s[i]
      BY <2>2
    <3> QED BY <3>1 DEF ToSet
  <2> QED BY <2>1, <2>2
<1> QED BY <1>1, <1>2, <1>3, <1>4 DEF ToSet

LEMMA ElemsIn == \A S : \A s \in Seq(S) : ToSet(s) \subseteq S
BY DEF ToSet

LEMMA EmptyElems == ToSet(<<>>) = {} /\ \A S : <<>> \in Seq(S) /\ Len(<<>>) = 0
BY DEF ToSet

-----------------------------------------------------------------------------
(* The inductive invariant.                                                *)

\* What each goroutine knows of the others from its own position.
Positions ==
  /\ run = "walk" <=> ~jobsClosed
  /\ run # "walk" => ahead = {} /\ sending = NoFile
  /\ run \in {"sweep", "failed"} => writer = "done"
  /\ \A w \in Worker : held[w] = NoFile <=> wpc[w] \in {"recv", "exit"}
  /\ \A w \in Worker : wpc[w] = "exit" => jobsClosed /\ jobs = <<>>
  /\ resultsClosed => \A w \in Worker : wpc[w] = "exit"
  /\ writer \in {"flush", "done"} => resultsClosed /\ results = <<>>

\* The batch and the writer's error follow the writer's position.
WriterState ==
  /\ writer = "recv" => Len(batch) < BatchSize
  /\ writer \in {"drain", "done"} => batch = <<>>
  /\ writer = "drain" => writerErr
  /\ writerErr => writer \in {"drain", "done"}
  /\ run = "sweep" => ~writerErr

Kept == stored \cup unreadable \cup uncommitted \cup InFlight

\* No file is lost on its way, unless the writer met an error; and nothing is
\* on its way that the walker did not send.
Conserved ==
  /\ ~writerErr => Sent \subseteq Kept
  /\ Kept \cap (ahead \cup unseen \cup unchanged) = {}
  /\ ahead \cap (unseen \cup unchanged) = {}

IInv == TypeOK /\ Positions /\ WriterState /\ Conserved

\* The empty pipeline satisfies it.
LEMMA InitIInv == Init => IInv
<1> SUFFICES ASSUME Init PROVE IInv
  OBVIOUS
<1> USE DEF Init
<1>1. TypeOK
  <2>1. /\ jobs \in Seq(File) /\ results \in Seq(File) /\ batch \in Seq(File)
        /\ Len(jobs) = 0 /\ Len(results) = 0 /\ Len(batch) = 0
    BY EmptyElems
  <2>2. /\ wpc \in [Worker -> {"recv", "parse", "send", "exit"}]
        /\ held \in [Worker -> File \cup {NoFile}]
    OBVIOUS
  <2>3. /\ Len(jobs) <= JobsCap /\ Len(results) <= ResultsCap
        /\ Len(batch) <= BatchSize
    BY <2>1, PipelineAssumption
  <2> QED BY <2>1, <2>2, <2>3 DEF TypeOK
<1>2. Positions /\ WriterState
  <2>1. Len(batch) < BatchSize
    BY EmptyElems, PipelineAssumption
  <2>2. \A w \in Worker : wpc[w] = "recv" /\ held[w] = NoFile
    OBVIOUS
  <2>3. Positions
    BY <2>2 DEF Positions
  <2>4. WriterState
    BY <2>1 DEF WriterState
  <2> QED BY <2>3, <2>4
<1>3. Kept = {}
  BY EmptyElems DEF Kept, InFlight, Held
<1>4. Conserved
  BY <1>3 DEF Conserved, Sent
<1> QED BY <1>1, <1>2, <1>4 DEF IInv

\* The steps of the walker.
LEMMA WalkIInv == IInv /\ Walk => IInv'
<1> SUFFICES ASSUME IInv, Walk PROVE IInv'
  OBVIOUS
<1> USE PipelineAssumption DEF IInv, Callback, mainVars, workerVars, writerVars
<1>1. ASSUME NEW f \in File, VisitError(f) \/ VisitUnchanged(f) PROVE IInv'
  <2>1. TypeOK'
    BY <1>1 DEF TypeOK, VisitError, VisitUnchanged
  <2>2. Positions' /\ WriterState'
    BY <1>1 DEF Positions, WriterState, VisitError, VisitUnchanged
  <2>3. /\ Kept' = Kept /\ Sent' = Sent
        /\ ahead' = ahead \ {f} /\ f \in ahead
        /\ (unseen \cup unchanged)' = (unseen \cup unchanged) \cup {f}
    BY <1>1 DEF VisitError, VisitUnchanged, Kept, InFlight, Held, Sent
  <2>4. Conserved'
    BY <1>1, <2>3 DEF Conserved, VisitError, VisitUnchanged
  <2> QED BY <2>1, <2>2, <2>4
<1>2. ASSUME NEW f \in File, VisitChanged(f) PROVE IInv'
  <2>1. f \in ahead /\ run = "walk" /\ sending = NoFile /\ sending' = f /\ f # NoFile
    BY <1>2 DEF VisitChanged
  <2>2. TypeOK'
    BY <1>2 DEF TypeOK, VisitChanged
  <2>3. Positions' /\ WriterState'
    BY <1>2, <2>1 DEF Positions, WriterState, VisitChanged
  <2>4. Held' = Held \cup {f}
    BY <1>2, <2>1 DEF VisitChanged, Held
  <2>5. Kept' = Kept \cup {f} /\ Sent' \subseteq Sent \cup {f}
    BY <1>2, <2>4 DEF VisitChanged, Kept, InFlight, Sent
  <2>6. Conserved'
    BY <1>2, <2>1, <2>5 DEF Conserved, VisitChanged
  <2> QED BY <2>2, <2>3, <2>6
<1>3. CASE SendJob
  <2>1. /\ jobs \in Seq(File) /\ sending \in File /\ sending' = NoFile
        /\ jobs' = Append(jobs, sending) /\ run = "walk" /\ ~jobsClosed
    BY <1>3 DEF TypeOK, SendJob, Positions
  <2>2. /\ ToSet(jobs') = ToSet(jobs) \cup {sending}
        /\ jobs' \in Seq(File) /\ Len(jobs') = Len(jobs) + 1
    BY <2>1, AppendElems
  <2>3. TypeOK'
    BY <1>3, <2>1, <2>2 DEF TypeOK, SendJob
  <2>4. Positions' /\ WriterState'
    BY <1>3, <2>1 DEF Positions, WriterState, SendJob
  <2>5. Held' \subseteq Held /\ Held \subseteq Held' \cup {sending} /\ sending \in Held
    BY <1>3, <2>1 DEF SendJob, Held
  <2>6. Kept' = Kept /\ Sent' = Sent
    BY <1>3, <2>2, <2>5 DEF SendJob, Kept, InFlight, Sent
  <2>7. Conserved'
    BY <1>3, <2>6 DEF Conserved, SendJob
  <2> QED BY <2>3, <2>4, <2>7
<1>4. ASSUME CloseJobs \/ Join PROVE IInv'
  <2>1. TypeOK'
    BY <1>4 DEF TypeOK, CloseJobs, Join
  <2>2. Positions' /\ WriterState'
    BY <1>4 DEF Positions, WriterState, CloseJobs, Join
  <2>3. Kept' = Kept /\ Sent' = Sent
    BY <1>4 DEF CloseJobs, Join, Kept, InFlight, Held, Sent
  <2>4. Conserved'
    BY <1>4, <2>3 DEF Conserved, CloseJobs, Join
  <2> QED BY <2>1, <2>2, <2>4
<1> QED BY <1>1, <1>2, <1>3, <1>4 DEF Walk

\* The steps of a parse worker, and the goroutine that closes results.
LEMMA WorkIInv == ASSUME NEW w \in Worker, IInv, Work(w) PROVE IInv'
<1> USE PipelineAssumption DEF IInv, mainVars, workerVars, writerVars
<1>1. CASE TakeJob(w)
  <2>1. /\ jobs \in Seq(File) /\ jobs # <<>> /\ held[w] = NoFile
        /\ held' = [held EXCEPT ![w] = Head(jobs)]
        /\ held \in [Worker -> File \cup {NoFile}] /\ sending' = sending
    BY <1>1 DEF TypeOK, TakeJob, Positions
  <2>2. /\ ToSet(jobs) = {Head(jobs)} \cup ToSet(jobs')
        /\ Head(jobs) \in File /\ jobs' \in Seq(File) /\ Len(jobs') = Len(jobs) - 1
    BY <1>1, <2>1, HeadTailElems DEF TakeJob
  <2>3. TypeOK'
    BY <1>1, <2>2 DEF TypeOK, TakeJob
  <2>4. Positions' /\ WriterState'
    BY <1>1, <2>1, <2>2 DEF Positions, WriterState, TakeJob, TypeOK
  <2>5. Held' = Held \cup {Head(jobs)}
    BY <2>1, <2>2 DEF Held
  <2>6. Kept' = Kept /\ Sent' = Sent
    BY <1>1, <2>2, <2>5 DEF TakeJob, Kept, InFlight, Sent
  <2>7. Conserved'
    BY <1>1, <2>6 DEF Conserved, TakeJob
  <2> QED BY <2>3, <2>4, <2>7
<1>2. CASE ReadTrackOK(w) \/ WorkerExit(w)
  <2>1. TypeOK'
    BY <1>2 DEF TypeOK, ReadTrackOK, WorkerExit
  <2>2. ASSUME ReadTrackOK(w) PROVE Positions' /\ WriterState'
    BY <2>2 DEF Positions, WriterState, ReadTrackOK, TypeOK
  <2>3. ASSUME WorkerExit(w) PROVE Positions' /\ WriterState'
    BY <2>3 DEF Positions, WriterState, WorkerExit, TypeOK
  <2>4. Kept' = Kept /\ Sent' = Sent
    BY <1>2 DEF ReadTrackOK, WorkerExit, Kept, InFlight, Held, Sent
  <2>5. Conserved'
    BY <1>2, <2>4 DEF Conserved, ReadTrackOK, WorkerExit
  <2> QED BY <1>2, <2>1, <2>2, <2>3, <2>5
<1>3. CASE ReadTrackError(w)
  <2>1. /\ held[w] \in File /\ held' = [held EXCEPT ![w] = NoFile]
        /\ held \in [Worker -> File \cup {NoFile}] /\ sending' = sending
    BY <1>3 DEF TypeOK, ReadTrackError, Positions
  <2>2. TypeOK'
    BY <1>3, <2>1 DEF TypeOK, ReadTrackError
  <2>3. Positions' /\ WriterState'
    BY <1>3 DEF Positions, WriterState, ReadTrackError, TypeOK
  <2>4. Held' \subseteq Held /\ Held \subseteq Held' \cup {held[w]} /\ held[w] \in Held
    BY <2>1 DEF Held
  <2>5. Kept' = Kept /\ Sent' = Sent
    BY <1>3, <2>4 DEF ReadTrackError, Kept, InFlight, Sent
  <2>6. Conserved'
    BY <1>3, <2>5 DEF Conserved, ReadTrackError
  <2> QED BY <2>2, <2>3, <2>6
<1>4. CASE SendResult(w)
  <2>1. /\ held[w] \in File /\ held' = [held EXCEPT ![w] = NoFile]
        /\ held \in [Worker -> File \cup {NoFile}] /\ sending' = sending
        /\ results \in Seq(File) /\ results' = Append(results, held[w])
        /\ ~resultsClosed
    BY <1>4 DEF TypeOK, SendResult, Positions
  <2>2. /\ ToSet(results') = ToSet(results) \cup {held[w]}
        /\ results' \in Seq(File) /\ Len(results') = Len(results) + 1
    BY <2>1, AppendElems
  <2>3. TypeOK'
    BY <1>4, <2>1, <2>2 DEF TypeOK, SendResult
  <2>4. Positions' /\ WriterState'
    BY <1>4, <2>1 DEF Positions, WriterState, SendResult, TypeOK
  <2>5. Held' \subseteq Held /\ Held \subseteq Held' \cup {held[w]} /\ held[w] \in Held
    BY <2>1 DEF Held
  <2>6. Kept' = Kept /\ Sent' = Sent
    BY <1>4, <2>2, <2>5 DEF SendResult, Kept, InFlight, Sent
  <2>7. Conserved'
    BY <1>4, <2>6 DEF Conserved, SendResult
  <2> QED BY <2>3, <2>4, <2>7
<1> QED BY <1>1, <1>2, <1>3, <1>4 DEF Work

LEMMA CloseResultsIInv == IInv /\ CloseResults => IInv'
<1> SUFFICES ASSUME IInv, CloseResults PROVE IInv'
  OBVIOUS
<1> USE PipelineAssumption DEF IInv, CloseResults, mainVars, workerVars, writerVars
<1>1. TypeOK'
  BY DEF TypeOK
<1>2. Positions' /\ WriterState'
  BY DEF Positions, WriterState
<1>3. Conserved'
  BY DEF Conserved, Kept, InFlight, Held, Sent
<1> QED BY <1>1, <1>2, <1>3

\* The steps of the writer.
LEMMA WriteIInv == IInv /\ Write => IInv'
<1> SUFFICES ASSUME IInv, Write PROVE IInv'
  OBVIOUS
<1> USE PipelineAssumption DEF IInv, mainVars, workerVars, writerVars
<1>1. CASE Receive
  <2>1. /\ results \in Seq(File) /\ batch \in Seq(File) /\ results # <<>>
        /\ results' = Tail(results) /\ batch' = Append(batch, Head(results))
        /\ Len(batch) < BatchSize /\ ~writerErr
    BY <1>1 DEF TypeOK, Receive, WriterState
  <2>2. /\ ToSet(results) = {Head(results)} \cup ToSet(results')
        /\ Head(results) \in File /\ results' \in Seq(File)
        /\ Len(results') = Len(results) - 1
    BY <2>1, HeadTailElems
  <2>3. /\ ToSet(batch') = ToSet(batch) \cup {Head(results)}
        /\ batch' \in Seq(File) /\ Len(batch') = Len(batch) + 1
    BY <2>1, <2>2, AppendElems
  <2>4. TypeOK'
    BY <1>1, <2>1, <2>2, <2>3 DEF TypeOK, Receive
  <2>5. Positions' /\ WriterState'
    BY <1>1, <2>1, <2>3 DEF Positions, WriterState, Receive, TypeOK
  <2>6. Kept' = Kept /\ Sent' = Sent
    BY <1>1, <2>2, <2>3 DEF Receive, Kept, InFlight, Held, Sent
  <2>7. Conserved'
    BY <1>1, <2>6 DEF Conserved, Receive
  <2> QED BY <2>4, <2>5, <2>7
<1>2. CASE EndOfResults \/ DrainEnd
  <2>1. TypeOK'
    BY <1>2 DEF TypeOK, EndOfResults, DrainEnd
  <2>2. Positions' /\ WriterState'
    BY <1>2 DEF Positions, WriterState, EndOfResults, DrainEnd
  <2>3. Kept' = Kept /\ Sent' = Sent
    BY <1>2 DEF EndOfResults, DrainEnd, Kept, InFlight, Held, Sent
  <2>4. Conserved'
    BY <1>2, <2>3 DEF Conserved, EndOfResults, DrainEnd
  <2> QED BY <2>1, <2>2, <2>4
<1>3. CASE InsertBatchCommit \/ InsertBatchCommitFails
  <2>1. /\ batch' = <<>> /\ ToSet(batch') = {}
        /\ batch' \in Seq(File) /\ Len(batch') = 0 /\ ToSet(batch) \subseteq File
    <3>1. batch \in Seq(File) /\ batch' = <<>>
      BY <1>3 DEF TypeOK, InsertBatchCommit, InsertBatchCommitFails
    <3> QED BY <3>1, EmptyElems, ElemsIn
  <2>2. TypeOK'
    BY <1>3, <2>1 DEF TypeOK, InsertBatchCommit, InsertBatchCommitFails, AfterInsert
  <2>3. Positions' /\ WriterState'
    BY <1>3, <2>1 DEF Positions, WriterState, InsertBatchCommit,
                      InsertBatchCommitFails, AfterInsert
  <2>4. Kept' = Kept /\ Sent' = Sent
    BY <1>3, <2>1 DEF InsertBatchCommit, InsertBatchCommitFails, Kept, InFlight,
                      Held, Sent
  <2>5. Conserved'
    BY <1>3, <2>4 DEF Conserved, InsertBatchCommit, InsertBatchCommitFails
  <2> QED BY <2>2, <2>3, <2>5
<1>4. CASE InsertBatchError
  <2>1. /\ batch' = <<>> /\ ToSet(batch') = {}
        /\ batch' \in Seq(File) /\ Len(batch') = 0
    BY <1>4, EmptyElems DEF InsertBatchError
  <2>2. TypeOK'
    BY <1>4, <2>1 DEF TypeOK, InsertBatchError
  <2>3. Positions' /\ WriterState'
    BY <1>4, <2>1 DEF Positions, WriterState, InsertBatchError
  <2>4. Kept' \subseteq Kept /\ Sent' = Sent
    BY <1>4, <2>1 DEF InsertBatchError, Kept, InFlight, Held, Sent
  <2>5. Conserved'
    BY <1>4, <2>4 DEF Conserved, InsertBatchError
  <2> QED BY <2>2, <2>3, <2>5
<1>5. CASE Drain
  <2>1. /\ results \in Seq(File) /\ results # <<>> /\ results' = Tail(results)
        /\ writerErr
    BY <1>5 DEF TypeOK, Drain, WriterState
  <2>2. /\ ToSet(results') \subseteq ToSet(results)
        /\ results' \in Seq(File) /\ Len(results') = Len(results) - 1
    BY <2>1, HeadTailElems
  <2>3. TypeOK'
    BY <1>5, <2>1, <2>2 DEF TypeOK, Drain
  <2>4. Positions' /\ WriterState'
    BY <1>5, <2>1 DEF Positions, WriterState, Drain
  <2>5. Kept' \subseteq Kept /\ Sent' = Sent
    BY <1>5, <2>2 DEF Drain, Kept, InFlight, Held, Sent
  <2>6. Conserved'
    BY <1>5, <2>1, <2>5 DEF Conserved, Drain
  <2> QED BY <2>3, <2>4, <2>6
<1> QED BY <1>1, <1>2, <1>3, <1>4, <1>5 DEF Write

LEMMA SpecIInv == Spec => []IInv
<1>1. IInv /\ UNCHANGED vars => IInv'
  BY DEF IInv, vars, mainVars, workerVars, writerVars, TypeOK, Positions,
         WriterState, Conserved, Kept, InFlight, Held, Sent
<1>2. IInv /\ [Next]_vars => IInv'
  BY <1>1, WalkIInv, WorkIInv, CloseResultsIInv, WriteIInv DEF Next
<1> QED BY InitIInv, <1>2, PTL DEF Spec

-----------------------------------------------------------------------------
(* The properties.                                                         *)

\* Every variable keeps its type; channels and batch keep their bounds.
THEOREM TypeCorrect == Spec => []TypeOK
<1>1. IInv => TypeOK
  BY DEF IInv
<1> QED BY <1>1, SpecIInv, PTL

\* No goroutine of Run ever sends on a channel that was closed.
THEOREM SendsOnOpenChannels == Spec => []NoSendOnClosed
<1>1. IInv => NoSendOnClosed
  BY DEF IInv, Positions, NoSendOnClosed
<1> QED BY <1>1, SpecIInv, PTL

\* When Run leaves the pipeline the writer is done, so results is closed and
\* empty, so every worker has left, so jobs is empty and nothing is held.
LEMMA Quiescence == IInv => QuiescentAtEnd
<1> SUFFICES ASSUME IInv, run \in {"sweep", "failed"}
             PROVE  /\ writer = "done" /\ resultsClosed
                    /\ \A w \in Worker : wpc[w] = "exit"
                    /\ InFlight = {}
  BY DEF QuiescentAtEnd
<1>1. /\ writer = "done" /\ resultsClosed /\ results = <<>> /\ batch = <<>>
      /\ \A w \in Worker : wpc[w] = "exit"
  BY DEF IInv, Positions, WriterState
<1>2. jobs = <<>> /\ sending = NoFile /\ \A w \in Worker : held[w] = NoFile
  BY <1>1, PipelineAssumption DEF IInv, Positions
<1>3. InFlight = {}
  BY <1>1, <1>2, EmptyElems DEF InFlight, Held
<1> QED BY <1>1, <1>3

\* Run leaves the pipeline only when every goroutine of the scan has ended, so
\* the write connection it gives back is no longer used by the scan.
THEOREM QuiescentWhenRunLeaves == Spec => []QuiescentAtEnd
BY Quiescence, SpecIInv, PTL

\* The sweep starts only when every file that was queued has been stored, found
\* unreadable, or was part of a batch whose COMMIT failed.
THEOREM SweepStartsComplete == Spec => []SweepKnowsAll
<1>1. IInv => SweepKnowsAll
  <2> SUFFICES ASSUME IInv, run = "sweep"
               PROVE  Sent = stored \cup unreadable \cup uncommitted /\ ~writerErr
    BY DEF SweepKnowsAll
  <2>1. ~writerErr /\ InFlight = {}
    BY Quiescence DEF IInv, WriterState, QuiescentAtEnd
  <2>2. Kept = stored \cup unreadable \cup uncommitted /\ Kept \subseteq File
    BY <2>1 DEF Kept, IInv, TypeOK
  <2> QED BY <2>1, <2>2 DEF IInv, Conserved, Sent
<1> QED BY <1>1, SpecIInv, PTL
=============================================================================

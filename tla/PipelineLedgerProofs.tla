------------------------ MODULE PipelineLedgerProofs ------------------------
(***************************************************************************)
(* The files of a scan, one by one: no file is in two places, the progress *)
(* counter is exact, and every step of the pipeline is a step of           *)
(* TrackLedger or leaves the ledger alone.                                 *)
(***************************************************************************)
EXTENDS ScanPipelineProofs, FiniteSetTheorems

-----------------------------------------------------------------------------
(* Sequences without repetition.                                           *)

LEMMA AppendNew ==
  ASSUME NEW S, NEW s \in Seq(S), NEW e \in S, IsInjective(s), e \notin ToSet(s)
  PROVE  IsInjective(Append(s, e))
<1>1. /\ DOMAIN Append(s, e) = 1..(Len(s) + 1) /\ DOMAIN s = 1..Len(s)
      /\ Append(s, e)[Len(s) + 1] = e
      /\ \A i \in 1..Len(s) : Append(s, e)[i] = s[i]
  OBVIOUS
<1>2. \A i \in 1..Len(s) : s[i] # e
  BY <1>1 DEF ToSet
<1> QED BY <1>1, <1>2 DEF IsInjective

LEMMA TailInjective ==
  ASSUME NEW S, NEW s \in Seq(S), s # <<>>, IsInjective(s)
  PROVE  IsInjective(Tail(s)) /\ Head(s) \notin ToSet(Tail(s))
<1> DEFINE t == Tail(s)
<1>1. /\ DOMAIN s = 1..Len(s) /\ DOMAIN t = 1..(Len(s) - 1) /\ Head(s) = s[1]
      /\ Len(s) \in Nat \ {0} /\ \A i \in DOMAIN t : t[i] = s[i + 1]
  OBVIOUS
<1>2. \A i, j \in DOMAIN t : t[i] = t[j] => i = j
  BY <1>1 DEF IsInjective
<1>3. \A i \in DOMAIN t : t[i] # Head(s)
  BY <1>1 DEF IsInjective
<1> QED BY <1>2, <1>3 DEF IsInjective, ToSet

LEMMA ConcatInjective ==
  ASSUME NEW S, NEW s \in Seq(S), NEW t \in Seq(S), IsInjective(s), IsInjective(t),
         ToSet(s) \cap ToSet(t) = {}
  PROVE  /\ IsInjective(s \o t) /\ s \o t \in Seq(S)
         /\ ToSet(s \o t) = ToSet(s) \cup ToSet(t)
<1> DEFINE u == s \o t
<1>1. /\ DOMAIN s = 1..Len(s) /\ DOMAIN t = 1..Len(t) /\ DOMAIN u = 1..(Len(s) + Len(t))
      /\ Len(s) \in Nat /\ Len(t) \in Nat
      /\ \A i \in DOMAIN s : u[i] = s[i]
      /\ \A i \in DOMAIN u : i > Len(s) => i - Len(s) \in DOMAIN t /\ u[i] = t[i - Len(s)]
      /\ u \in Seq(S)
  OBVIOUS
<1>2. \A i \in DOMAIN s, j \in DOMAIN t : s[i] # t[j]
  BY DEF ToSet
<1>3. ASSUME NEW i \in DOMAIN u, NEW j \in DOMAIN u, u[i] = u[j] PROVE i = j
  <2>1. CASE i <= Len(s) /\ j <= Len(s)
    <3>1. i \in DOMAIN s /\ j \in DOMAIN s /\ s[i] = s[j]
      BY <1>1, <1>3, <2>1
    <3> QED BY <3>1 DEF IsInjective
  <2>2. CASE i > Len(s) /\ j > Len(s)
    <3>1. /\ i - Len(s) \in DOMAIN t /\ j - Len(s) \in DOMAIN t
          /\ t[i - Len(s)] = t[j - Len(s)]
      BY <1>1, <1>3, <2>2
    <3>2. i - Len(s) = j - Len(s)
      BY <3>1 DEF IsInjective
    <3> QED BY <1>1, <3>2
  <2>3. CASE i <= Len(s) /\ j > Len(s)
    <3>1. i \in DOMAIN s /\ j - Len(s) \in DOMAIN t /\ s[i] = t[j - Len(s)]
      BY <1>1, <1>3, <2>3
    <3> QED BY <1>2, <3>1
  <2>4. CASE i > Len(s) /\ j <= Len(s)
    <3>1. j \in DOMAIN s /\ i - Len(s) \in DOMAIN t /\ s[j] = t[i - Len(s)]
      BY <1>1, <1>3, <2>4
    <3> QED BY <1>2, <3>1
  <2> QED BY <1>1, <2>1, <2>2, <2>3, <2>4
<1>4. \A x \in ToSet(u) : x \in ToSet(s) \cup ToSet(t)
  <2>1. SUFFICES ASSUME NEW i \in DOMAIN u PROVE u[i] \in ToSet(s) \cup ToSet(t)
    BY DEF ToSet
  <2>2. CASE i <= Len(s)
    BY <1>1, <2>2 DEF ToSet
  <2>3. CASE i > Len(s)
    BY <1>1, <2>3 DEF ToSet
  <2> QED BY <1>1, <2>2, <2>3
<1>5. \A x \in ToSet(s) \cup ToSet(t) : x \in ToSet(u)
  <2>1. ASSUME NEW i \in DOMAIN s PROVE s[i] \in ToSet(u)
    <3>1. i \in DOMAIN u
      BY <1>1
    <3> QED BY <1>1, <3>1 DEF ToSet
  <2>2. ASSUME NEW i \in DOMAIN t PROVE t[i] \in ToSet(u)
    <3>1. i + Len(s) \in DOMAIN u /\ u[i + Len(s)] = t[i]
      BY <1>1
    <3> QED BY <3>1 DEF ToSet
  <2> QED BY <2>1, <2>2 DEF ToSet
<1> QED BY <1>1, <1>3, <1>4, <1>5 DEF IsInjective

LEMMA ThreeInjective ==
  ASSUME NEW S, NEW s \in Seq(S), NEW t \in Seq(S), NEW u \in Seq(S),
         IsInjective(s), IsInjective(t), IsInjective(u),
         ToSet(s) \cap ToSet(t) = {}, ToSet(s) \cap ToSet(u) = {},
         ToSet(t) \cap ToSet(u) = {}
  PROVE  /\ IsInjective(s \o t \o u)
         /\ ToSet(s \o t \o u) = ToSet(s) \cup ToSet(t) \cup ToSet(u)
<1> DEFINE v == s \o t
<1>1. IsInjective(v) /\ v \in Seq(S) /\ ToSet(v) = ToSet(s) \cup ToSet(t)
  BY ConcatInjective
<1> HIDE DEF v
<1>2. IsInjective(v \o u) /\ ToSet(v \o u) = ToSet(v) \cup ToSet(u)
  BY <1>1, ConcatInjective
<1> QED BY <1>1, <1>2 DEF v

LEMMA SomeElems ==
  ASSUME NEW S, NEW s \in Seq(S), s # <<>>
  PROVE  ToSet(s) # {} /\ ToSet(s) \subseteq S
<1>1. ToSet(s) = {Head(s)} \cup ToSet(Tail(s))
  BY HeadTailElems
<1> QED BY <1>1, ElemsIn

LEMMA EmptyInjective == IsInjective(<<>>)
BY DEF IsInjective

-----------------------------------------------------------------------------
(* The inductive invariant, on top of IInv of ScanPipelineProofs.          *)

Apart(S, T) == S \cap T = {}

\* Each file is in one channel, one goroutine or the batch, once.
Places ==
  /\ IsInjective(jobs) /\ IsInjective(results) /\ IsInjective(batch)
  /\ Apart(ToSet(jobs), ToSet(results)) /\ Apart(ToSet(jobs), ToSet(batch))
  /\ Apart(ToSet(results), ToSet(batch))
  /\ Apart(Held, ToSet(jobs) \cup ToSet(results) \cup ToSet(batch))
  /\ \A w, v \in Worker : held[w] = held[v] /\ w # v => held[w] = NoFile
  /\ \A w \in Worker : held[w] = sending => sending = NoFile

\* What was settled is settled in one way, and no longer in flight.
SettledOnce ==
  /\ Apart(InFlight, unreadable \cup stored \cup uncommitted)
  /\ Apart(unseen, unchanged) /\ Apart(unreadable, stored)
  /\ Apart(unreadable, uncommitted) /\ Apart(stored, uncommitted)

Taken == unchanged \cup stored \cup uncommitted \cup ToSet(batch)
Counted == ~writerErr => count = Cardinality(Taken)

\* What an error has cost is lost for good.
Lost == File \ (ahead \cup unseen \cup unchanged \cup Kept)
ErrorsLose ==
  /\ writerErr => Lost # {}
  /\ writer \in {"insert", "flush"} => batch # <<>>

PInv == IInv /\ Places /\ SettledOnce /\ Counted /\ ErrorsLose

LEMMA InitPInv == Init => PInv
<1> SUFFICES ASSUME Init PROVE PInv
  OBVIOUS
<1>1. IInv
  BY InitIInv
<1>2. ToSet(jobs) = {} /\ ToSet(results) = {} /\ ToSet(batch) = {} /\ Held = {}
  BY EmptyElems DEF Init, Held
<1>3. Places
  BY <1>2, EmptyInjective DEF Init, Places, Apart
<1>4. SettledOnce
  BY DEF Init, SettledOnce, Apart
<1>5. Counted
  BY <1>2, FS_EmptySet DEF Init, Counted, Taken
<1>6. ErrorsLose
  BY DEF Init, ErrorsLose
<1> QED BY <1>1, <1>3, <1>4, <1>5, <1>6 DEF PInv

-----------------------------------------------------------------------------
(* A worker takes a file and gives it away.                                *)

LEMMA HoldsOneMore ==
  ASSUME IInv, Places, NEW w \in Worker, held[w] = NoFile, NEW f \in File,
         f \notin Held, held' = [held EXCEPT ![w] = f], sending' = sending
  PROVE  /\ Held' = Held \cup {f}
         /\ \A u, v \in Worker : held'[u] = held'[v] /\ u # v => held'[u] = NoFile
         /\ \A v \in Worker : held'[v] = sending' => sending' = NoFile
<1>1. held \in [Worker -> File \cup {NoFile}] /\ f # NoFile
  BY PipelineAssumption DEF IInv, TypeOK
<1>2. \A v \in Worker : held[v] # f
  BY <1>1 DEF Held
<1>3. sending # f
  BY <1>1 DEF Held
<1>4. Held' = Held \cup {f}
  BY <1>1 DEF Held
<1> QED BY <1>1, <1>2, <1>3, <1>4 DEF Places

LEMMA HoldsOneLess ==
  ASSUME IInv, Places, NEW w \in Worker, held[w] # NoFile,
         held' = [held EXCEPT ![w] = NoFile], sending' = sending
  PROVE  /\ Held' = Held \ {held[w]} /\ held[w] \in Held /\ held[w] \in File
         /\ \A u, v \in Worker : held'[u] = held'[v] /\ u # v => held'[u] = NoFile
         /\ \A v \in Worker : held'[v] = sending' => sending' = NoFile
<1>1. held \in [Worker -> File \cup {NoFile}]
  BY DEF IInv, TypeOK
<1>2. \A v \in Worker : v # w => held[v] # held[w]
  BY DEF Places
<1>3. sending # held[w]
  BY DEF Places
<1>4. held[w] \in Held
  BY DEF Held
<1>5. Held' \subseteq Held \ {held[w]}
  BY <1>1, <1>2, <1>3 DEF Held
<1>6. Held \ {held[w]} \subseteq Held'
  BY <1>1 DEF Held
<1> QED BY <1>1, <1>4, <1>5, <1>6 DEF Places

\* Counting: one more file, or the same.
LEMMA CountsOneMore ==
  ASSUME IInv, NEW f, f \notin Taken
  PROVE  Cardinality(Taken \cup {f}) = Cardinality(Taken) + 1
<1>1. batch \in Seq(File) /\ Taken \subseteq File
  BY ElemsIn DEF IInv, TypeOK, Taken
<1>2. IsFiniteSet(Taken)
  BY <1>1, FS_Subset, PipelineAssumption
<1> QED BY <1>2, FS_AddElement

-----------------------------------------------------------------------------
(* Each operation keeps the invariant, and what it does to InFlight.       *)

Still == CloseJobs \/ Join \/ CloseResults \/ EndOfResults \/ DrainEnd
         \/ \E w \in Worker : ReadTrackOK(w) \/ WorkerExit(w)

LEMMA StillPInv ==
  ASSUME PInv, IInv', Still
  PROVE  PInv' /\ InFlight' = InFlight
<1> USE DEF mainVars, workerVars, writerVars
<1>1. /\ UNCHANGED <<ahead, sending, unseen, unchanged, jobs, held, unreadable, results,
                     batch, writerErr, stored, uncommitted, count>>
      /\ writer' \in {"insert", "flush"} => batch # <<>>
  BY DEF Still, CloseJobs, Join, CloseResults, EndOfResults, DrainEnd, ReadTrackOK,
         WorkerExit, PInv, ErrorsLose
<1>2. InFlight' = InFlight /\ Held' = Held
  BY <1>1 DEF InFlight, Held
<1>3. Places' /\ SettledOnce'
  BY <1>1, <1>2 DEF PInv, Places, SettledOnce
<1>4. Counted' /\ ErrorsLose'
  BY <1>1, <1>2 DEF PInv, Counted, Taken, ErrorsLose, Lost, Kept
<1> QED BY <1>2, <1>3, <1>4 DEF PInv

LEMMA SkipPInv ==
  ASSUME PInv, IInv', NEW f \in File, VisitError(f) \/ VisitUnchanged(f)
  PROVE  PInv' /\ InFlight' = InFlight
<1> USE DEF mainVars, workerVars, writerVars
<1>1. /\ UNCHANGED <<sending, jobs, held, unreadable, results, batch, writer, writerErr,
                     stored, uncommitted>>
      /\ f \in ahead /\ ahead' = ahead \ {f}
      /\ (unseen \cup unchanged)' = (unseen \cup unchanged) \cup {f}
  BY DEF VisitError, VisitUnchanged, Callback
<1>2. f \notin unseen \cup unchanged \cup Kept
  BY <1>1 DEF PInv, IInv, Conserved
<1>3. InFlight' = InFlight /\ Held' = Held /\ Kept' = Kept
  BY <1>1 DEF InFlight, Held, Kept
<1>4. Places'
  BY <1>1, <1>3 DEF PInv, Places
<1>5. SettledOnce'
  BY <1>2, <1>3 DEF PInv, SettledOnce, Apart, VisitError, VisitUnchanged, Callback
<1>6. Lost' = Lost
  BY <1>1, <1>3 DEF Lost
<1>7. ErrorsLose'
  BY <1>1, <1>6 DEF PInv, ErrorsLose
<1>8. CASE VisitError(f)
  <2>1. Taken' = Taken /\ count' = count /\ writerErr' = writerErr
    BY <1>8 DEF VisitError, Taken
  <2> QED BY <1>3, <1>4, <1>5, <1>7, <2>1 DEF PInv, Counted
<1>9. CASE VisitUnchanged(f)
  <2>1. Taken' = Taken \cup {f} /\ count' = count + 1 /\ writerErr' = writerErr
    BY <1>9 DEF VisitUnchanged, Taken
  <2>2. f \notin Taken
    BY <1>2 DEF Taken, Kept, InFlight
  <2>3. Counted'
    BY <2>1, <2>2, CountsOneMore DEF PInv, Counted
  <2> QED BY <1>3, <1>4, <1>5, <1>7, <2>3 DEF PInv
<1> QED BY <1>8, <1>9

LEMMA QueuePInv ==
  ASSUME PInv, IInv', NEW f \in File, VisitChanged(f)
  PROVE  PInv' /\ InFlight' = InFlight \cup {f}
<1> USE DEF mainVars, workerVars, writerVars
<1>1. /\ UNCHANGED <<jobs, held, unreadable, results, batch, writer, writerErr, stored,
                     uncommitted, unseen, unchanged, count>>
      /\ f \in ahead /\ ahead' = ahead \ {f} /\ sending = NoFile /\ sending' = f
      /\ f # NoFile
  BY PipelineAssumption DEF VisitChanged, Callback
<1>2. f \notin Kept
  BY <1>1 DEF PInv, IInv, Conserved
<1>3. Held' = Held \cup {f}
  BY <1>1 DEF Held
<1>4. InFlight' = InFlight \cup {f} /\ Kept' = Kept \cup {f}
  BY <1>1, <1>3 DEF InFlight, Kept
<1>5. \A w \in Worker : held[w] # f
  BY <1>1, <1>2 DEF Kept, InFlight, Held
<1>6. Places'
  BY <1>1, <1>2, <1>3, <1>5 DEF PInv, Places, Apart, Kept, InFlight
<1>7. SettledOnce'
  BY <1>1, <1>2, <1>4 DEF PInv, SettledOnce, Apart, Kept
<1>8. Lost' = Lost
  BY <1>1, <1>4 DEF Lost
<1>9. Counted' /\ ErrorsLose'
  BY <1>1, <1>8 DEF PInv, Counted, Taken, ErrorsLose
<1> QED BY <1>4, <1>6, <1>7, <1>9 DEF PInv

LEMMA SendJobPInv ==
  ASSUME PInv, IInv', SendJob
  PROVE  PInv' /\ InFlight' = InFlight
<1> USE DEF mainVars, workerVars, writerVars
<1>1. /\ UNCHANGED <<held, unreadable, results, batch, writer, writerErr, stored,
                     uncommitted, ahead, unseen, unchanged, count>>
      /\ jobs' = Append(jobs, sending) /\ sending # NoFile /\ sending' = NoFile
      /\ sending \in File /\ jobs \in Seq(File)
  BY DEF SendJob, PInv, IInv, TypeOK
<1>2. ToSet(jobs') = ToSet(jobs) \cup {sending}
  BY <1>1, AppendElems
<1>3. /\ sending \in Held /\ \A w \in Worker : held[w] # sending
  BY <1>1 DEF Held, PInv, Places
<1>4. Held' = Held \ {sending}
  <2>1. Held' \subseteq Held \ {sending}
    BY <1>1, <1>3 DEF Held
  <2>2. Held \ {sending} \subseteq Held'
    BY <1>1 DEF Held
  <2> QED BY <2>1, <2>2
<1>5. sending \notin ToSet(jobs) \cup ToSet(results) \cup ToSet(batch)
  BY <1>3 DEF PInv, Places, Apart
<1>6. IsInjective(jobs')
  BY <1>1, <1>5, AppendNew DEF PInv, Places
<1>7. Places'
  BY <1>1, <1>2, <1>4, <1>5, <1>6 DEF PInv, Places, Apart
<1>8. InFlight' = InFlight /\ Kept' = Kept
  BY <1>1, <1>2, <1>3, <1>4 DEF InFlight, Kept
<1>9. SettledOnce' /\ Counted' /\ ErrorsLose'
  BY <1>1, <1>8 DEF PInv, SettledOnce, Counted, Taken, ErrorsLose, Lost
<1> QED BY <1>7, <1>8, <1>9 DEF PInv

LEMMA TakeJobPInv ==
  ASSUME PInv, IInv', NEW w \in Worker, TakeJob(w)
  PROVE  PInv' /\ InFlight' = InFlight
<1> USE DEF mainVars, workerVars, writerVars
<1> DEFINE f == Head(jobs)
<1>1. /\ UNCHANGED <<sending, unreadable, results, batch, writer, writerErr, stored,
                     uncommitted, ahead, unseen, unchanged, count>>
      /\ jobs \in Seq(File) /\ jobs # <<>> /\ jobs' = Tail(jobs)
      /\ held[w] = NoFile /\ held' = [held EXCEPT ![w] = f]
  BY DEF TakeJob, PInv, IInv, TypeOK, Positions
<1>2. ToSet(jobs) = {f} \cup ToSet(jobs') /\ f \in File
  BY <1>1, HeadTailElems
<1>3. IsInjective(jobs') /\ f \notin ToSet(jobs')
  BY <1>1, TailInjective DEF PInv, Places
<1>4. f \notin Held /\ f \notin ToSet(results) \cup ToSet(batch)
  BY <1>2 DEF PInv, Places, Apart
<1> HIDE DEF f
<1>5. /\ Held' = Held \cup {f}
      /\ \A u, v \in Worker : held'[u] = held'[v] /\ u # v => held'[u] = NoFile
      /\ \A v \in Worker : held'[v] = sending' => sending' = NoFile
  BY <1>1, <1>2, <1>4, HoldsOneMore DEF PInv
<1>6. Places'
  BY <1>1, <1>2, <1>3, <1>4, <1>5 DEF PInv, Places, Apart
<1>7. InFlight' = InFlight /\ Kept' = Kept
  BY <1>1, <1>2, <1>5 DEF InFlight, Kept
<1>8. SettledOnce' /\ Counted' /\ ErrorsLose'
  BY <1>1, <1>7 DEF PInv, SettledOnce, Counted, Taken, ErrorsLose, Lost
<1> QED BY <1>6, <1>7, <1>8 DEF PInv

LEMMA RejectPInv ==
  ASSUME PInv, IInv', NEW w \in Worker, ReadTrackError(w)
  PROVE  /\ PInv' /\ InFlight' = InFlight \ {held[w]}
         /\ held[w] \in InFlight /\ held[w] \in File
<1> USE DEF mainVars, workerVars, writerVars
<1> DEFINE f == held[w]
<1>1. /\ UNCHANGED <<sending, jobs, results, batch, writer, writerErr, stored,
                     uncommitted, ahead, unseen, unchanged, count>>
      /\ f # NoFile /\ held' = [held EXCEPT ![w] = NoFile]
      /\ unreadable' = unreadable \cup {f}
  BY DEF ReadTrackError, PInv, IInv, Positions
<1>2. /\ Held' = Held \ {f} /\ f \in Held /\ f \in File
      /\ \A u, v \in Worker : held'[u] = held'[v] /\ u # v => held'[u] = NoFile
      /\ \A v \in Worker : held'[v] = sending' => sending' = NoFile
  BY <1>1, HoldsOneLess DEF PInv
<1> HIDE DEF f
<1>3. f \notin ToSet(jobs) \cup ToSet(results) \cup ToSet(batch)
  BY <1>2 DEF PInv, Places, Apart
<1>4. Places'
  BY <1>1, <1>2 DEF PInv, Places, Apart
<1>5. InFlight' = InFlight \ {f} /\ Kept' = Kept /\ f \in InFlight
  BY <1>1, <1>2, <1>3 DEF InFlight, Kept
<1>6. SettledOnce'
  BY <1>1, <1>5 DEF PInv, SettledOnce, Apart
<1>7. Counted' /\ ErrorsLose'
  BY <1>1, <1>5 DEF PInv, Counted, Taken, ErrorsLose, Lost
<1> QED BY <1>2, <1>4, <1>5, <1>6, <1>7 DEF PInv, f

LEMMA SendResultPInv ==
  ASSUME PInv, IInv', NEW w \in Worker, SendResult(w)
  PROVE  PInv' /\ InFlight' = InFlight
<1> USE DEF mainVars, workerVars, writerVars
<1> DEFINE f == held[w]
<1>1. /\ UNCHANGED <<sending, jobs, unreadable, batch, writer, writerErr, stored,
                     uncommitted, ahead, unseen, unchanged, count>>
      /\ f # NoFile /\ held' = [held EXCEPT ![w] = NoFile]
      /\ results \in Seq(File) /\ results' = Append(results, f)
  BY DEF SendResult, PInv, IInv, TypeOK, Positions
<1>2. /\ Held' = Held \ {f} /\ f \in Held /\ f \in File
      /\ \A u, v \in Worker : held'[u] = held'[v] /\ u # v => held'[u] = NoFile
      /\ \A v \in Worker : held'[v] = sending' => sending' = NoFile
  BY <1>1, HoldsOneLess DEF PInv
<1> HIDE DEF f
<1>3. f \notin ToSet(jobs) \cup ToSet(results) \cup ToSet(batch)
  BY <1>2 DEF PInv, Places, Apart
<1>4. ToSet(results') = ToSet(results) \cup {f}
  BY <1>1, <1>2, AppendElems
<1>5. IsInjective(results')
  BY <1>1, <1>2, <1>3, AppendNew DEF PInv, Places
<1>6. Places'
  BY <1>1, <1>2, <1>3, <1>4, <1>5 DEF PInv, Places, Apart
<1>7. InFlight' = InFlight /\ Kept' = Kept
  BY <1>1, <1>2, <1>4 DEF InFlight, Kept
<1>8. SettledOnce' /\ Counted' /\ ErrorsLose'
  BY <1>1, <1>7 DEF PInv, SettledOnce, Counted, Taken, ErrorsLose, Lost
<1> QED BY <1>6, <1>7, <1>8 DEF PInv

LEMMA ReceivePInv ==
  ASSUME PInv, IInv', Receive
  PROVE  PInv' /\ InFlight' = InFlight
<1> USE DEF mainVars, workerVars, writerVars
<1> DEFINE f == Head(results)
<1>1. /\ UNCHANGED <<sending, held, jobs, unreadable, writerErr, stored, uncommitted,
                     ahead, unseen, unchanged>>
      /\ results \in Seq(File) /\ results # <<>> /\ results' = Tail(results)
      /\ batch \in Seq(File) /\ batch' = Append(batch, f) /\ count' = count + 1
  BY DEF Receive, PInv, IInv, TypeOK
<1>2. ToSet(results) = {f} \cup ToSet(results') /\ f \in File
  BY <1>1, HeadTailElems
<1>3. IsInjective(results') /\ f \notin ToSet(results')
  BY <1>1, TailInjective DEF PInv, Places
<1>4. /\ f \notin ToSet(jobs) \cup ToSet(batch) \cup Held
      /\ f \notin unreadable \cup stored \cup uncommitted \cup unchanged
  BY <1>2 DEF PInv, Places, SettledOnce, Apart, InFlight, IInv, Conserved, Kept
<1> HIDE DEF f
<1>5. /\ ToSet(batch') = ToSet(batch) \cup {f} /\ IsInjective(batch')
      /\ Len(batch') = Len(batch) + 1
  BY <1>1, <1>2, <1>4, AppendElems, AppendNew DEF PInv, Places
<1>6. batch' # <<>>
  BY <1>1, <1>5, EmptyElems
<1>7. Held' = Held
  BY <1>1 DEF Held
<1>8. Places'
  BY <1>1, <1>2, <1>3, <1>4, <1>5, <1>7 DEF PInv, Places, Apart
<1>9. InFlight' = InFlight /\ Kept' = Kept
  BY <1>1, <1>2, <1>5, <1>7 DEF InFlight, Kept
<1>10. SettledOnce' /\ ErrorsLose'
  BY <1>1, <1>6, <1>9 DEF PInv, SettledOnce, ErrorsLose, Lost
<1>11. Taken' = Taken \cup {f} /\ f \notin Taken
  BY <1>1, <1>4, <1>5 DEF Taken
<1>12. Counted'
  BY <1>1, <1>11, CountsOneMore DEF PInv, Counted
<1> QED BY <1>8, <1>9, <1>10, <1>12 DEF PInv

LEMMA CommitPInv ==
  ASSUME PInv, IInv', InsertBatchCommit \/ InsertBatchCommitFails
  PROVE  /\ PInv' /\ InFlight' = InFlight \ ToSet(batch)
         /\ ToSet(batch) \subseteq InFlight /\ ToSet(batch) # {}
<1> USE DEF mainVars, workerVars, writerVars
<1> DEFINE b == ToSet(batch)
<1>1. /\ UNCHANGED <<sending, held, jobs, results, unreadable, writerErr, ahead, unseen,
                     unchanged, count>>
      /\ batch' = <<>> /\ writer \in {"insert", "flush"} /\ writer' \in {"recv", "done"}
      /\ (stored \cup uncommitted)' = (stored \cup uncommitted) \cup b
  BY DEF InsertBatchCommit, InsertBatchCommitFails, AfterInsert
<1>2. batch \in Seq(File) /\ batch # <<>>
  BY <1>1 DEF PInv, ErrorsLose, IInv, TypeOK
<1>3. b # {}
  BY <1>2, SomeElems
<1>4. ToSet(batch') = {} /\ Held' = Held
  BY <1>1, EmptyElems DEF Held
<1>5. Places'
  BY <1>1, <1>4, EmptyInjective DEF PInv, Places, Apart
<1>6. Apart(b, ToSet(jobs) \cup ToSet(results) \cup Held)
  BY DEF PInv, Places, Apart
<1>7. InFlight' = InFlight \ b /\ b \subseteq InFlight /\ Kept' = Kept
  BY <1>1, <1>4, <1>6 DEF InFlight, Kept, Apart
<1>8. SettledOnce'
  BY <1>1, <1>7 DEF PInv, SettledOnce, Apart, InsertBatchCommit, InsertBatchCommitFails
<1>9. Taken' = Taken
  BY <1>1, <1>4 DEF Taken
<1>10. Counted' /\ ErrorsLose'
  BY <1>1, <1>7, <1>9 DEF PInv, Counted, ErrorsLose, Lost
<1> QED BY <1>3, <1>5, <1>7, <1>8, <1>10 DEF PInv

LEMMA RollBackPInv ==
  ASSUME PInv, IInv', InsertBatchError
  PROVE  /\ PInv' /\ InFlight' = InFlight \ ToSet(batch)
         /\ ToSet(batch) \subseteq InFlight /\ ToSet(batch) # {}
<1> USE DEF mainVars, workerVars, writerVars
<1> DEFINE b == ToSet(batch)
<1>1. /\ UNCHANGED <<sending, held, jobs, results, unreadable, stored, uncommitted,
                     ahead, unseen, unchanged, count>>
      /\ batch' = <<>> /\ writer \in {"insert", "flush"} /\ writer' \in {"drain", "done"}
      /\ writerErr'
  BY DEF InsertBatchError
<1>2. batch \in Seq(File) /\ batch # <<>>
  BY <1>1 DEF PInv, ErrorsLose, IInv, TypeOK
<1>3. b # {} /\ b \subseteq File
  BY <1>2, SomeElems
<1>4. ToSet(batch') = {} /\ Held' = Held
  BY <1>1, EmptyElems DEF Held
<1>5. Places'
  BY <1>1, <1>4, EmptyInjective DEF PInv, Places, Apart
<1>6. Apart(b, ToSet(jobs) \cup ToSet(results) \cup Held)
  BY DEF PInv, Places, Apart
<1>7. InFlight' = InFlight \ b /\ b \subseteq InFlight
  BY <1>1, <1>4, <1>6 DEF InFlight, Apart
<1>8. SettledOnce'
  BY <1>1, <1>7 DEF PInv, SettledOnce, Apart
<1>9. b \cap (ahead \cup unseen \cup unchanged \cup Kept)' = {}
  BY <1>1, <1>7 DEF PInv, IInv, Conserved, SettledOnce, Apart, Kept
<1>10. Lost' # {}
  BY <1>3, <1>9 DEF Lost
<1>11. Counted' /\ ErrorsLose'
  BY <1>1, <1>10 DEF Counted, ErrorsLose
<1> QED BY <1>3, <1>5, <1>7, <1>8, <1>11 DEF PInv

LEMMA DrainPInv ==
  ASSUME PInv, IInv', Drain
  PROVE  /\ PInv' /\ InFlight' = InFlight \ {Head(results)}
         /\ Head(results) \in InFlight /\ Head(results) \in File
<1> USE DEF mainVars, workerVars, writerVars
<1> DEFINE f == Head(results)
<1>1. /\ UNCHANGED <<sending, held, jobs, batch, unreadable, writer, writerErr, stored,
                     uncommitted, ahead, unseen, unchanged, count>>
      /\ results \in Seq(File) /\ results # <<>> /\ results' = Tail(results)
      /\ writerErr
  BY DEF Drain, PInv, IInv, TypeOK, WriterState
<1>2. ToSet(results) = {f} \cup ToSet(results') /\ f \in File
  BY <1>1, HeadTailElems
<1>3. IsInjective(results') /\ f \notin ToSet(results')
  BY <1>1, TailInjective DEF PInv, Places
<1>4. f \notin ToSet(jobs) \cup ToSet(batch) \cup Held
  BY <1>2 DEF PInv, Places, Apart
<1> HIDE DEF f
<1>5. Held' = Held
  BY <1>1 DEF Held
<1>6. Places'
  BY <1>1, <1>2, <1>3, <1>5 DEF PInv, Places, Apart
<1>7. InFlight' = InFlight \ {f} /\ f \in InFlight
  BY <1>1, <1>2, <1>3, <1>4, <1>5 DEF InFlight
<1>8. SettledOnce'
  BY <1>1, <1>7 DEF PInv, SettledOnce, Apart
<1>9. Lost \subseteq Lost'
  BY <1>1, <1>7 DEF Lost, Kept
<1>10. Counted' /\ ErrorsLose'
  BY <1>1, <1>9 DEF PInv, Counted, ErrorsLose
<1> QED BY <1>2, <1>6, <1>7, <1>8, <1>10 DEF PInv, f

\* Every step keeps it.
LEMMA SpecPInv == Spec => []PInv
<1>1. ASSUME PInv, [Next]_vars, IInv' PROVE PInv'
  <2>1. CASE UNCHANGED vars
    BY <1>1, <2>1 DEF PInv, IInv, vars, mainVars, workerVars, writerVars, Places, Held,
       SettledOnce, InFlight, Counted, Taken, ErrorsLose, Lost, Kept
  <2>2. CASE Still
    BY <1>1, <2>2, StillPInv
  <2>3. CASE Walk
    BY <1>1, <2>3, StillPInv, SkipPInv, QueuePInv, SendJobPInv DEF Walk, Still
  <2>4. ASSUME NEW w \in Worker, Work(w) PROVE PInv'
    BY <1>1, <2>4, StillPInv, TakeJobPInv, RejectPInv, SendResultPInv DEF Work, Still
  <2>5. CASE Write
    BY <1>1, <2>5, StillPInv, ReceivePInv, CommitPInv, RollBackPInv, DrainPInv
       DEF Write, Still
  <2> QED BY <1>1, <2>1, <2>2, <2>3, <2>4, <2>5 DEF Next, Still
<1>2. PInv /\ [Next]_vars /\ IInv' => PInv'
  BY <1>1
<1> QED BY InitPInv, <1>2, SpecIInv, PTL DEF Spec

-----------------------------------------------------------------------------
(* The properties.                                                         *)

\* A job is taken by one worker and a result received once: no file is in two
\* channels, goroutines or batch entries, or settled while still in flight.
THEOREM NoDuplicates == Spec => []NoDuplicate
<1>1. ASSUME PInv PROVE NoDuplicate
  <2> DEFINE line == jobs \o results \o batch
  <2>1. jobs \in Seq(File) /\ results \in Seq(File) /\ batch \in Seq(File)
    BY <1>1 DEF PInv, IInv, TypeOK
  <2>2. /\ IsInjective(jobs) /\ IsInjective(results) /\ IsInjective(batch)
        /\ ToSet(jobs) \cap ToSet(results) = {} /\ ToSet(jobs) \cap ToSet(batch) = {}
        /\ ToSet(results) \cap ToSet(batch) = {}
    BY <1>1 DEF PInv, Places, Apart
  <2>4. /\ IsInjective(line)
        /\ ToSet(line) = ToSet(jobs) \cup ToSet(results) \cup ToSet(batch)
    BY <2>1, <2>2, ThreeInjective
  <2> HIDE DEF line
  <2>5. ToSet(line) \cap Held = {}
    BY <1>1, <2>4 DEF PInv, Places, Apart
  <2>6. InFlight \cap (ahead \cup unseen \cup unchanged \cup unreadable
                       \cup stored \cup uncommitted) = {}
    BY <1>1 DEF PInv, IInv, Conserved, Kept, SettledOnce, Apart
  <2>7. /\ \A w, v \in Worker : held[w] = held[v] /\ w # v => held[w] = NoFile
        /\ \A w \in Worker : held[w] = sending => sending = NoFile
    BY <1>1 DEF PInv, Places
  <2> QED BY <2>4, <2>5, <2>6, <2>7 DEF NoDuplicate, line
<1> QED BY <1>1, SpecPInv, PTL

\* The progress a client reads is the number of files that were skipped or
\* stored, when the sweep starts.
THEOREM CountIsExact == Spec => []CountExact
<1>1. ASSUME PInv, run = "sweep"
      PROVE  count = Cardinality(unchanged \cup stored \cup uncommitted)
  <2>1. batch = <<>> /\ ~writerErr
    BY <1>1 DEF PInv, IInv, Positions, WriterState
  <2>2. Taken = unchanged \cup stored \cup uncommitted
    BY <2>1, EmptyElems DEF Taken
  <2> QED BY <1>1, <2>1, <2>2 DEF PInv, Counted
<1>2. PInv => CountExact
  BY <1>1 DEF CountExact
<1> QED BY <1>2, SpecPInv, PTL

-----------------------------------------------------------------------------
(* The refinement of TrackLedger.                                          *)

\* The status of a file is the set it is in.
Statuses == \A f \in File :
  /\ f \in ahead       => StatusOf(f) = "pending"
  /\ f \in unseen      => StatusOf(f) = "unseen"
  /\ f \in unchanged   => StatusOf(f) = "unchanged"
  /\ f \in unreadable  => StatusOf(f) = "unreadable"
  /\ f \in stored      => StatusOf(f) = "stored"
  /\ f \in uncommitted => StatusOf(f) = "uncommitted"
  /\ f \in InFlight    => StatusOf(f) = "queued"
  /\ f \in Lost        => StatusOf(f) = "dropped"

LEMMA StatusIs == PInv => Statuses
<1> SUFFICES ASSUME PInv, NEW f \in File
             PROVE
               /\ f \in ahead       => StatusOf(f) = "pending"
               /\ f \in unseen      => StatusOf(f) = "unseen"
               /\ f \in unchanged   => StatusOf(f) = "unchanged"
               /\ f \in unreadable  => StatusOf(f) = "unreadable"
               /\ f \in stored      => StatusOf(f) = "stored"
               /\ f \in uncommitted => StatusOf(f) = "uncommitted"
               /\ f \in InFlight    => StatusOf(f) = "queued"
               /\ f \in Lost        => StatusOf(f) = "dropped"
  BY DEF Statuses
<1>1. /\ Apart(Kept, ahead \cup unseen \cup unchanged)
      /\ Apart(ahead, unseen \cup unchanged) /\ SettledOnce
  BY DEF PInv, IInv, Conserved, Apart
<1> QED BY <1>1 DEF StatusOf, Lost, Kept, SettledOnce, Apart

LEMMA StatusIsNext == PInv' => Statuses'
BY StatusIs, PTL

\* A file that stays in its set keeps its status.
LEMMA StatusStays ==
  ASSUME NEW f \in File,
         f \in ahead' <=> f \in ahead, f \in unseen' <=> f \in unseen,
         f \in unchanged' <=> f \in unchanged, f \in unreadable' <=> f \in unreadable,
         f \in stored' <=> f \in stored, f \in uncommitted' <=> f \in uncommitted,
         f \in InFlight' <=> f \in InFlight
  PROVE  StatusOf(f)' = StatusOf(f)
BY DEF StatusOf

\* While the writer is at work the run has no verdict.
LEMMA OpenWhile ==
  ASSUME PInv, run' = run,
         \/ run = "walk" \/ writer # "done" \/ \E w \in Worker : wpc[w] # "exit"
  PROVE  run \notin {"sweep", "failed"} /\ run' \notin {"sweep", "failed"}
BY DEF PInv, IInv, Positions

LEMMA LedgerMove ==
  ASSUME run' = run, run \notin {"sweep", "failed"}, NEW S \in SUBSET File, S # {},
         NEW from, NEW to,
         \A f \in S : StatusOf(f) = from, \A f \in S : StatusOf(f)' = to,
         \A f \in File \ S : StatusOf(f)' = StatusOf(f)
  PROVE  Ledger!Move(S, from, to)
<1>1. [f \in File |-> StatusOf(f)]' = [f \in File |-> IF f \in S THEN to ELSE StatusOf(f)]
  OBVIOUS
<1> QED BY <1>1 DEF Ledger!Move

\* The run starts with every file pending.
LEMMA InitLedger == Init => Ledger!Init
<1> SUFFICES ASSUME Init PROVE Ledger!Init
  OBVIOUS
<1>1. \A f \in File : StatusOf(f) = "pending"
  BY InitPInv, StatusIs DEF Statuses, Init
<1>2. run = "walk"
  BY DEF Init
<1> QED BY <1>1, <1>2 DEF Ledger!Init

\* What stays where it is, in a channel or on its way to the next, is no step.
LEMMA LedgerStays ==
  ASSUME UNCHANGED <<ahead, unseen, unchanged, unreadable, stored, uncommitted>>,
         InFlight' = InFlight, run \notin {"sweep", "failed"}, run' \notin {"sweep", "failed"}
  PROVE  UNCHANGED Ledger!ledger
<1>1. \A f \in File : StatusOf(f)' = StatusOf(f)
  BY StatusStays
<1>2. [f \in File |-> StatusOf(f)]' = [f \in File |-> StatusOf(f)]
  BY <1>1
<1> QED BY <1>2 DEF Ledger!ledger

\* Once the writer is done nothing of the scan is left anywhere.
LEMMA NothingLeft ==
  ASSUME IInv, run # "walk", writer = "done"
  PROVE  ahead = {} /\ InFlight = {}
<1>1. /\ resultsClosed /\ results = <<>> /\ batch = <<>> /\ ahead = {} /\ sending = NoFile
      /\ \A w \in Worker : wpc[w] = "exit"
  BY DEF IInv, Positions, WriterState
<1>2. jobs = <<>> /\ \A w \in Worker : held[w] = NoFile
  BY <1>1, PipelineAssumption DEF IInv, Positions
<1> QED BY <1>1, <1>2, EmptyElems DEF InFlight, Held

\* Join is the verdict: "failed" exactly if an error has cost a file.
LEMMA JoinCloses ==
  ASSUME PInv, PInv', Join
  PROVE  Ledger!Close
<1> USE DEF mainVars, workerVars, writerVars
<1>1. /\ run = "join" /\ writer = "done"
      /\ run' = IF writerErr THEN "failed" ELSE "sweep"
      /\ UNCHANGED <<ahead, unseen, unchanged, unreadable, stored, uncommitted, sending,
                     held, jobs, results, batch>>
  BY DEF Join
<1>2. ahead = {} /\ InFlight = {}
  BY <1>1, NothingLeft DEF PInv
<1>3. \A f \in File : StatusOf(f)' = StatusOf(f)
  BY <1>1, StatusStays DEF InFlight, Held
<1>4. [f \in File |-> StatusOf(f)]' = [f \in File |-> StatusOf(f)]
  BY <1>3
<1>5. \A f \in File : StatusOf(f) \in Ledger!Settled \cup {"dropped"}
  BY <1>2, StatusIs DEF Statuses, Ledger!Settled, Lost, Kept
<1>6. ASSUME writerErr PROVE \E f \in File : StatusOf(f) = "dropped"
  <2>1. PICK f \in Lost : TRUE
    BY <1>6 DEF PInv, ErrorsLose
  <2> QED BY <2>1, StatusIs DEF Statuses, Lost
<1>7. ASSUME ~writerErr, NEW f \in File PROVE StatusOf(f) # "dropped"
  <2>1. f \notin Lost
    BY <1>7 DEF PInv, IInv, Conserved, Sent, Lost
  <2> QED BY <2>1, StatusIs DEF Statuses, Lost, Kept
<1> QED BY <1>1, <1>4, <1>5, <1>6, <1>7 DEF Ledger!Close

\* A step of the walker settles a file, queues it, or moves none.
LEMMA WalkLedger ==
  ASSUME PInv, PInv', Walk
  PROVE  Ledger!Next \/ UNCHANGED Ledger!ledger
<1> USE DEF mainVars, workerVars, writerVars, Callback
<1>1. ASSUME NEW f \in File, VisitError(f) PROVE Ledger!Next
  <2>1. InFlight' = InFlight
    BY <1>1, SkipPInv DEF PInv
  <2>2. StatusOf(f) = "pending" /\ StatusOf(f)' = "unseen"
    BY <1>1, StatusIs, StatusIsNext DEF Statuses, VisitError
  <2>3. \A g \in File \ {f} : StatusOf(g)' = StatusOf(g)
    BY <1>1, <2>1, StatusStays DEF VisitError
  <2>4. run' = run /\ run \notin {"sweep", "failed"}
    BY <1>1 DEF VisitError
  <2>5. Ledger!Move({f}, "pending", "unseen")
    BY <2>2, <2>3, <2>4, LedgerMove
  <2> QED BY <2>5 DEF Ledger!Next, Ledger!Visit
<1>2. ASSUME NEW f \in File, VisitUnchanged(f) PROVE Ledger!Next
  <2>1. InFlight' = InFlight
    BY <1>2, SkipPInv DEF PInv
  <2>2. StatusOf(f) = "pending" /\ StatusOf(f)' = "unchanged"
    BY <1>2, StatusIs, StatusIsNext DEF Statuses, VisitUnchanged
  <2>3. \A g \in File \ {f} : StatusOf(g)' = StatusOf(g)
    BY <1>2, <2>1, StatusStays DEF VisitUnchanged
  <2>4. run' = run /\ run \notin {"sweep", "failed"}
    BY <1>2 DEF VisitUnchanged
  <2>5. Ledger!Move({f}, "pending", "unchanged")
    BY <2>2, <2>3, <2>4, LedgerMove
  <2> QED BY <2>5 DEF Ledger!Next, Ledger!Visit
<1>3. ASSUME NEW f \in File, VisitChanged(f) PROVE Ledger!Next
  <2>1. InFlight' = InFlight \cup {f}
    BY <1>3, QueuePInv DEF PInv
  <2>2. StatusOf(f) = "pending" /\ StatusOf(f)' = "queued"
    BY <1>3, <2>1, StatusIs, StatusIsNext DEF Statuses, VisitChanged
  <2>3. \A g \in File \ {f} : StatusOf(g)' = StatusOf(g)
    BY <1>3, <2>1, StatusStays DEF VisitChanged
  <2>4. run' = run /\ run \notin {"sweep", "failed"}
    BY <1>3 DEF VisitChanged
  <2>5. Ledger!Move({f}, "pending", "queued")
    BY <2>2, <2>3, <2>4, LedgerMove
  <2> QED BY <2>5 DEF Ledger!Next, Ledger!Visit
<1>4. CASE SendJob
  <2>1. InFlight' = InFlight
    BY <1>4, SendJobPInv DEF PInv
  <2>2. run' = run /\ run \notin {"sweep", "failed"}
    BY <1>4 DEF SendJob, PInv, IInv, Positions
  <2> QED BY <1>4, <2>1, <2>2, LedgerStays DEF SendJob
<1>5. CASE CloseJobs
  <2>1. InFlight' = InFlight
    BY <1>5, StillPInv DEF PInv, Still
  <2> QED BY <1>5, <2>1, LedgerStays DEF CloseJobs
<1>6. CASE Join
  BY <1>6, JoinCloses DEF Ledger!Next
<1> QED BY <1>1, <1>2, <1>3, <1>4, <1>5, <1>6 DEF Walk

\* A worker rejects the file it holds, or moves none.
LEMMA WorkLedger ==
  ASSUME PInv, PInv', NEW w \in Worker, Work(w)
  PROVE  Ledger!Next \/ UNCHANGED Ledger!ledger
<1> USE DEF mainVars, workerVars, writerVars
<1>1. run' = run /\ run \notin {"sweep", "failed"}
  <2>1. run' = run /\ wpc[w] # "exit"
    BY DEF Work, TakeJob, ReadTrackOK, ReadTrackError, SendResult, WorkerExit
  <2> QED BY <2>1, OpenWhile
<1>2. CASE ReadTrackError(w)
  <2>0. PICK f \in File : f = held[w]
    BY <1>2, RejectPInv DEF PInv
  <2>1. InFlight' = InFlight \ {f} /\ f \in InFlight
    BY <1>2, <2>0, RejectPInv DEF PInv
  <2>2. /\ unreadable' = unreadable \cup {f}
        /\ UNCHANGED <<ahead, unseen, unchanged, stored, uncommitted>>
    BY <1>2, <2>0 DEF ReadTrackError
  <2>3. StatusOf(f) = "queued" /\ StatusOf(f)' = "unreadable"
    <3>1. f \in unreadable'
      BY <2>2
    <3>2. Statuses /\ Statuses'
      BY StatusIs, StatusIsNext
    <3>3. StatusOf(f)' = "unreadable"
      BY <2>1, <3>1, <3>2 DEF Statuses
    <3> QED BY <2>1, <3>2, <3>3 DEF Statuses
  <2>4. \A g \in File \ {f} : StatusOf(g)' = StatusOf(g)
    BY <2>1, <2>2, StatusStays
  <2>5. Ledger!Move({f}, "queued", "unreadable")
    BY <1>1, <2>1, <2>3, <2>4, LedgerMove
  <2> QED BY <2>1, <2>5 DEF Ledger!Next, Ledger!Reject
<1>3. CASE TakeJob(w) \/ ReadTrackOK(w) \/ SendResult(w) \/ WorkerExit(w)
  <2>1. UNCHANGED <<ahead, unseen, unchanged, unreadable, stored, uncommitted>>
    BY <1>3 DEF TakeJob, ReadTrackOK, SendResult, WorkerExit
  <2>2. InFlight' = InFlight
    BY <1>3, TakeJobPInv, SendResultPInv, StillPInv DEF PInv, Still
  <2> QED BY <1>1, <2>1, <2>2, LedgerStays
<1> QED BY <1>2, <1>3 DEF Work

\* The writer settles its batch, drops files after an error, or moves none.
LEMMA WriteLedger ==
  ASSUME PInv, PInv', Write
  PROVE  Ledger!Next \/ UNCHANGED Ledger!ledger
<1> USE DEF mainVars, workerVars, writerVars
<1> DEFINE b == ToSet(batch)
<1>1. run' = run /\ run \notin {"sweep", "failed"}
  <2>1. run' = run /\ writer # "done"
    BY DEF Write, Receive, EndOfResults, InsertBatchCommit, InsertBatchError,
           InsertBatchCommitFails, Drain, DrainEnd
  <2> QED BY <2>1, OpenWhile
<1>2. b \subseteq File
  BY ElemsIn DEF PInv, IInv, TypeOK
<1>3. Statuses /\ Statuses'
  BY StatusIs, StatusIsNext
<1>4. CASE InsertBatchCommit
  <2>1. InFlight' = InFlight \ b /\ b \subseteq InFlight /\ b # {}
    BY <1>4, CommitPInv DEF PInv
  <2>2. /\ stored' = stored \cup b
        /\ UNCHANGED <<ahead, unseen, unchanged, unreadable, uncommitted>>
    BY <1>4 DEF InsertBatchCommit
  <2> HIDE DEF b
  <2>3. \A g \in b : StatusOf(g) = "queued" /\ StatusOf(g)' = "stored"
    BY <1>2, <1>3, <2>1, <2>2 DEF Statuses
  <2>4. \A g \in File \ b : StatusOf(g)' = StatusOf(g)
    BY <2>1, <2>2, StatusStays
  <2>5. Ledger!Move(b, "queued", "stored")
    BY <1>1, <1>2, <2>1, <2>3, <2>4, LedgerMove
  <2> QED BY <1>2, <2>5 DEF Ledger!Next, Ledger!Batch
<1>5. CASE InsertBatchCommitFails
  <2>1. InFlight' = InFlight \ b /\ b \subseteq InFlight /\ b # {}
    BY <1>5, CommitPInv DEF PInv
  <2>2. /\ uncommitted' = uncommitted \cup b
        /\ UNCHANGED <<ahead, unseen, unchanged, unreadable, stored>>
    BY <1>5 DEF InsertBatchCommitFails
  <2> HIDE DEF b
  <2>3. \A g \in b : StatusOf(g) = "queued" /\ StatusOf(g)' = "uncommitted"
    BY <1>2, <1>3, <2>1, <2>2 DEF Statuses
  <2>4. \A g \in File \ b : StatusOf(g)' = StatusOf(g)
    BY <2>1, <2>2, StatusStays
  <2>5. Ledger!Move(b, "queued", "uncommitted")
    BY <1>1, <1>2, <2>1, <2>3, <2>4, LedgerMove
  <2> QED BY <1>2, <2>5 DEF Ledger!Next, Ledger!Batch
<1>6. CASE InsertBatchError
  <2>1. InFlight' = InFlight \ b /\ b \subseteq InFlight /\ b # {}
    BY <1>6, RollBackPInv DEF PInv
  <2>2. UNCHANGED <<ahead, unseen, unchanged, unreadable, stored, uncommitted>>
    BY <1>6 DEF InsertBatchError
  <2> HIDE DEF b
  <2>3. b \subseteq Lost'
    BY <1>2, <2>1, <2>2 DEF Lost, Kept, PInv, IInv, Conserved, SettledOnce, Apart
  <2>4. \A g \in b : StatusOf(g) = "queued" /\ StatusOf(g)' = "dropped"
    BY <1>2, <1>3, <2>1, <2>3 DEF Statuses
  <2>5. \A g \in File \ b : StatusOf(g)' = StatusOf(g)
    BY <2>1, <2>2, StatusStays
  <2>6. Ledger!Move(b, "queued", "dropped")
    BY <1>1, <1>2, <2>1, <2>4, <2>5, LedgerMove
  <2> QED BY <1>2, <2>6 DEF Ledger!Next, Ledger!Batch
<1>7. CASE Drain
  <2>0. PICK f \in File : f = Head(results)
    BY <1>7, DrainPInv DEF PInv
  <2>1. InFlight' = InFlight \ {f} /\ f \in InFlight
    BY <1>7, <2>0, DrainPInv DEF PInv
  <2>2. UNCHANGED <<ahead, unseen, unchanged, unreadable, stored, uncommitted>>
    BY <1>7 DEF Drain
  <2>3. f \in Lost'
    BY <2>1, <2>2 DEF Lost, Kept, PInv, IInv, Conserved, SettledOnce, Apart
  <2>4. StatusOf(f) = "queued" /\ StatusOf(f)' = "dropped"
    BY <1>3, <2>1, <2>3 DEF Statuses
  <2>5. \A g \in File \ {f} : StatusOf(g)' = StatusOf(g)
    BY <2>1, <2>2, StatusStays
  <2>6. Ledger!Move({f}, "queued", "dropped")
    BY <1>1, <2>1, <2>4, <2>5, LedgerMove
  <2> QED BY <2>1, <2>6 DEF Ledger!Next, Ledger!Batch
<1>8. CASE Receive \/ EndOfResults \/ DrainEnd
  <2>1. UNCHANGED <<ahead, unseen, unchanged, unreadable, stored, uncommitted>>
    BY <1>8 DEF Receive, EndOfResults, DrainEnd
  <2>2. InFlight' = InFlight
    BY <1>8, ReceivePInv, StillPInv DEF PInv, Still
  <2> QED BY <1>1, <2>1, <2>2, LedgerStays
<1> QED BY <1>4, <1>5, <1>6, <1>7, <1>8 DEF Write

\* Every step of the goroutines of Run settles files as TrackLedger allows:
\* once, finally, a batch together, and with a verdict that tells whether a
\* file was dropped.
THEOREM PipelineKeepsLedger == Spec => Ledger!Safety
<1>1. ASSUME PInv, PInv', [Next]_vars PROVE [Ledger!Next]_(Ledger!ledger)
  <2>1. CASE UNCHANGED vars
    <3>1. /\ UNCHANGED <<ahead, unseen, unchanged, unreadable, stored, uncommitted, run>>
          /\ InFlight' = InFlight
      BY <2>1 DEF vars, mainVars, workerVars, writerVars, InFlight, Held
    <3>2. \A f \in File : StatusOf(f)' = StatusOf(f)
      BY <3>1, StatusStays
    <3>3. [f \in File |-> StatusOf(f)]' = [f \in File |-> StatusOf(f)]
      BY <3>2
    <3> QED BY <3>1, <3>3 DEF Ledger!ledger
  <2>2. CASE CloseResults
    <3>1. UNCHANGED <<ahead, unseen, unchanged, unreadable, stored, uncommitted, run>>
      BY <2>2 DEF CloseResults, mainVars, workerVars, writerVars
    <3>2. InFlight' = InFlight
      BY <1>1, <2>2, StillPInv DEF PInv, Still
    <3>3. run \notin {"sweep", "failed"}
      BY <1>1, <2>2 DEF CloseResults, PInv, IInv, Positions
    <3> QED BY <3>1, <3>2, <3>3, LedgerStays
  <2>3. CASE Walk
    BY <1>1, <2>3, WalkLedger
  <2>4. ASSUME NEW w \in Worker, Work(w) PROVE [Ledger!Next]_(Ledger!ledger)
    BY <1>1, <2>4, WorkLedger
  <2>5. CASE Write
    BY <1>1, <2>5, WriteLedger
  <2> QED BY <1>1, <2>1, <2>2, <2>3, <2>4, <2>5 DEF Next
<1>2. PInv /\ PInv' /\ [Next]_vars => [Ledger!Next]_(Ledger!ledger)
  BY <1>1
<1> QED BY <1>2, InitLedger, SpecPInv, PTL DEF Spec, Ledger!Safety
=============================================================================

---------------------------- MODULE OutcomeProofs ----------------------------
(***************************************************************************)
(* The outcome of a scan, for any numbers of requests and workers, any      *)
(* profile and any faults.  A cancellation that was answered 200 holds      *)
(* unless its Redis key is lost; no accepted scan is forgotten: until it is *)
(* settled its job is queued, in a worker's hands, or recorded as lost; the *)
(* committed rows are whole; and, with one worker and no fault, only a      *)
(* broken session fails a scan, which then keeps nothing of its stages.     *)
(***************************************************************************)
EXTENDS ScanServiceProofs, FiniteSetTheorems

\* Where a worker still has to read the key before it decides the result.
Deciding == { "read", "begin", "loop", "run", "final" }

\* The scan's result is not decided: its job is on its way to a worker, or in
\* the hands of one that will read the cancellation key again.
Undecided(i) ==
    \/ Queued(i)
    \/ \E w \in Workers : Job(w) = i /\ worker[w].pc \in Deciding
    \/ \E r \in Requests : BeingEnqueued(r) /\ req[r].scan = i

HasSetKey(r) ==
    /\ req[r].kind = "cancel"
    /\ req[r].pc \in {"publish", "update"} \/ req[r].code = 200

Stopped == { "CANCELLED", "FAILED" }

\* Cancellations are for scans that exist.
CancelledExist ==
    \A r \in Requests :
        req[r].kind = "cancel" /\ (req[r].pc = "setex" \/ HasSetKey(r)) =>
            req[r].scan \in ScanIds

\* A key that was set stands until the scan it is for has been decided.
KeyStands ==
    \A r \in Requests :
        HasSetKey(r) /\ req[r].scan \notin lostKeys /\ Undecided(req[r].scan) =>
            req[r].scan \in cancelKeys

\* The result about to be committed agrees with an acknowledged cancellation.
DraftObeys ==
    \A r \in Requests, w \in Workers :
        CancelAcknowledged(r) /\ req[r].scan \notin lostKeys
        /\ Job(w) = req[r].scan /\ worker[w].pc = "commit" => draft.status \in Stopped

CancelInv == CancelledExist /\ KeyStands /\ DraftObeys /\ CancelWins

Known == TypeOK /\ TypeOK' /\ LockIsPipeline /\ JobInv /\ CancelInv

-----------------------------------------------------------------------------
(* What the steps do to the requests, to undecided scans and to the keys *)

LEMMA RequestFacts ==
    ASSUME TypeOK, NEW r \in Requests, RequestArrives(r) \/ RequestStep(r)
    PROVE  /\ \A q \in Requests \ {r} : req'[q] = req[q]
           /\ worker' = worker /\ draft' = draft /\ lostKeys' = lostKeys
           /\ HasSetKey(r)' => /\ req'[r].scan = req[r].scan
                               /\ req[r].kind = "cancel"
                               /\ HasSetKey(r) \/ (SetCancelled(r) /\ redisUp)
           /\ CancelAcknowledged(r)' => CancelAcknowledged(r) \/ CancelScanUpdate(r)
           /\ req'[r].kind = "cancel" /\ req'[r].pc = "setex" => CancelScan(r)
<1> USE DEF dbVars, redisVars, history
<1>1. \A q \in Requests \ {r} : req'[q] = req[q]
  BY DEF RequestArrives, RequestStep, CreateScan, CreateScanRejected, CancelScan,
         CancelScanRejected, CreateScanInsert, CreateScanInsertFails, EnqueueScan,
         SetCancelled, PublishCancel, CancelScanUpdate, CancelScanLocked,
         SetReq, Answer, GotoReq, TypeOK
<1>2. worker' = worker /\ draft' = draft /\ lostKeys' = lostKeys
  BY DEF RequestArrives, RequestStep, CreateScan, CreateScanRejected, CancelScan,
         CancelScanRejected, CreateScanInsert, CreateScanInsertFails, EnqueueScan,
         SetCancelled, PublishCancel, CancelScanUpdate, CancelScanLocked
<1>3. CASE RequestArrives(r)
  BY <1>1, <1>2, <1>3 DEF RequestArrives, CreateScan, CreateScanRejected, CancelScan,
         CancelScanRejected, SetReq, TypeOK, HasSetKey, CancelAcknowledged
<1>4. CASE RequestStep(r)
  BY <1>1, <1>2, <1>4 DEF RequestStep, CreateScanInsert, CreateScanInsertFails,
         EnqueueScan, SetCancelled, PublishCancel, CancelScanUpdate, CancelScanLocked,
         SetReq, Answer, GotoReq, TypeOK, RequestState, HasSetKey, CancelAcknowledged
<1> QED  BY <1>3, <1>4

\* Only an INSERT makes a scan undecided, and that scan is new.
LEMMA RequestUndecided ==
    ASSUME TypeOK, NEW r \in Requests, RequestArrives(r) \/ RequestStep(r), NEW i,
           Undecided(i)'
    PROVE  Undecided(i) \/ (CreateScanInsert(r) /\ i = req[r].scan)
<1> USE DEF dbVars, redisVars
<1>1. \A q \in Requests : BeingEnqueued(q)' =>
          \/ BeingEnqueued(q) /\ req'[q].scan = req[q].scan
          \/ q = r /\ CreateScanInsert(r) /\ req'[q].scan = req[r].scan
  <2>1. CASE RequestArrives(r)
    BY <2>1 DEF RequestArrives, CreateScan, CreateScanRejected, CancelScan,
         CancelScanRejected, SetReq, TypeOK, BeingEnqueued
  <2>2. CASE RequestStep(r)
    BY <2>2 DEF RequestStep, CreateScanInsert, CreateScanInsertFails,
         EnqueueScan, SetCancelled, PublishCancel, CancelScanUpdate, CancelScanLocked,
         SetReq, Answer, GotoReq, TypeOK, RequestState, BeingEnqueued
  <2> QED  BY <2>1, <2>2
<1>2. Queued(i)' => Undecided(i)
  <2>1. CASE EnqueueScan(r) /\ redisUp
    <3>1. req[r].scan \in Nat /\ BeingEnqueued(r)
      BY <2>1 DEF EnqueueScan, BeingEnqueued, TypeOK, RequestState
    <3>2. queue' = Append(queue, req[r].scan)
      BY <2>1 DEF EnqueueScan
    <3>3. \A n \in DOMAIN queue' : \/ n \in DOMAIN queue /\ queue'[n] = queue[n]
                                   \/ queue'[n] = req[r].scan
      BY <3>1, <3>2, AppendProperties, LenProperties DEF TypeOK
    <3> QED  BY <3>1, <3>3 DEF Queued, Undecided
  <2>2. CASE ~ (EnqueueScan(r) /\ redisUp)
    <3>1. queue' = queue
      BY <2>2 DEF RequestArrives, RequestStep, CreateScan, CreateScanRejected, CancelScan,
         CancelScanRejected, CreateScanInsert, CreateScanInsertFails, EnqueueScan,
         SetCancelled, PublishCancel, CancelScanUpdate, CancelScanLocked
    <3> QED  BY <3>1 DEF Queued, Undecided
  <2> QED  BY <2>1, <2>2
<1>3. worker' = worker
  BY RequestFacts
<1> QED  BY <1>1, <1>2, <1>3 DEF Undecided, Job

LEMMA WorkerFacts ==
    ASSUME TypeOK, NEW w \in Workers, WorkerStep(w) \/ ContainerStep(w)
    PROVE  /\ req' = req /\ lostKeys' = lostKeys
           /\ \A v \in Workers \ {w} : worker'[v] = worker[v]
<1>1. req' = req /\ lostKeys' = lostKeys
  BY DEF WorkerStep, WorkerStart, DequeueScan, WorkerStops, ProcessScan,
         PipelineBegin, PipelineBeginLocked, CommitScan, ClearCancelled, MarkFailed,
         MarkFailedLocked, PipelineStep, StageSkipped, StageBegins, StageEnds,
         StageCancelled, PipelineFinalize, PipelineError, InPipeline, ContainerStep,
         SessionBreaks, HandleSignal, WorkerCrash, OperatorStarts, history
<1>2. \A v \in Workers \ {w} : worker'[v] = worker[v]
  <2>1. CASE PipelineStep(w)
    BY <2>1 DEF PipelineStep, StageSkipped, StageBegins, StageEnds, StageCancelled,
         PipelineFinalize, PipelineError, NextStage, SetWorker, TypeOK
  <2>2. CASE ~ PipelineStep(w)
    BY <2>2 DEF WorkerStep, WorkerStart, DequeueScan, WorkerStops, ProcessScan,
         PipelineBegin, PipelineBeginLocked, CommitScan, ClearCancelled, MarkFailed,
         MarkFailedLocked, ContainerStep, SessionBreaks, HandleSignal,
         WorkerCrash, OperatorStarts, SetWorker, TypeOK
  <2> QED  BY <2>1, <2>2
<1> QED  BY <1>1, <1>2

\* A signal or a start leaves a worker its place, or changes why it does not run.
LEMMA SignalFacts ==
    ASSUME TypeOK, NEW w \in Workers, HandleSignal(w) \/ OperatorStarts(w)
    PROVE  /\ scans' = scans /\ draft' = draft
           /\ faults' = faults \/ Fault("sigterm")
           /\ worker'[w].job = worker[w].job /\ worker'[w].seq = worker[w].seq
           /\ Job(w)' = Job(w) /\ Cur(w)' = Cur(w)
           /\ \/ worker'[w].pc = worker[w].pc
              \/ worker[w].pc \in {"down", "stopped"} /\ worker'[w].pc \in {"down", "stopped"}
<1>1. /\ scans' = scans /\ draft' = draft
      /\ faults' = faults \/ Fault("sigterm")
  BY DEF HandleSignal, OperatorStarts, dbVars, history
<1>2. CASE worker' = [worker EXCEPT ![w].running = FALSE]
  BY <1>1, <1>2 DEF Job, Cur, TypeOK, WorkerState
<1>3. CASE worker[w].pc = "down" /\ worker' = [worker EXCEPT ![w].pc = "stopped"]
  BY <1>1, <1>3 DEF Job, Cur, TypeOK, WorkerState
<1>4. CASE worker[w].pc = "stopped" /\ worker' = [worker EXCEPT ![w].pc = "down"]
  BY <1>1, <1>4 DEF Job, Cur, TypeOK, WorkerState
<1> QED  BY <1>2, <1>3, <1>4 DEF HandleSignal, OperatorStarts

\* A worker moves towards the decision, never back.
LEMMA WorkerDeciding ==
    ASSUME TypeOK, NEW w \in Workers, WorkerStep(w) \/ ContainerStep(w),
           ~ DequeueScan(w), worker'[w].pc \in Deciding
    PROVE  worker[w].pc \in Deciding /\ Job(w)' = Job(w)
<1>1. CASE PipelineStep(w)
  <2>1. worker[w].pc \in Deciding
    BY <1>1 DEF PipelineStep, StageSkipped, StageBegins, StageEnds, StageCancelled,
         PipelineFinalize, PipelineError, InPipeline, Deciding
  <2>2. \E pc, seq : SetWorker(w, pc, Job(w), seq)
    BY <1>1 DEF PipelineStep, StageSkipped, StageBegins, StageEnds, StageCancelled,
           PipelineFinalize, PipelineError, NextStage
  <2>3. Job(w)' = Job(w)
    BY <2>2 DEF SetWorker, Job, TypeOK, WorkerState
  <2> QED  BY <2>1, <2>3
<1>2. CASE ~ PipelineStep(w) /\ ~ HandleSignal(w) /\ ~ OperatorStarts(w)
  BY <1>2 DEF WorkerStep, WorkerStart, WorkerStops, ProcessScan, PipelineBegin,
         PipelineBeginLocked, CommitScan, ClearCancelled, MarkFailed,
         MarkFailedLocked, ContainerStep, SessionBreaks, WorkerCrash, IdleWorker,
         SetWorker, Deciding, Job, TypeOK, WorkerState
<1>3. CASE HandleSignal(w) \/ OperatorStarts(w)
  BY <1>3, SignalFacts DEF Deciding
<1> QED  BY <1>1, <1>2, <1>3

LEMMA WorkerUndecided ==
    ASSUME TypeOK, NEW w \in Workers, WorkerStep(w) \/ ContainerStep(w), NEW i,
           Undecided(i)'
    PROVE  Undecided(i)
<1> USE DEF dbVars, redisVars
<1>1. req' = req /\ \A v \in Workers \ {w} : worker'[v] = worker[v]
  BY WorkerFacts
<1>2. CASE DequeueScan(w)
  <2>1. /\ Len(queue) \in Nat \ {0} /\ DOMAIN queue = 1 .. Len(queue)
        /\ queue[1] = Head(queue)
        /\ \A n \in DOMAIN queue' : n + 1 \in DOMAIN queue /\ queue'[n] = queue[n + 1]
    <3>1. queue # <<>> /\ queue' = Tail(queue)
      BY <1>2 DEF DequeueScan
    <3>2. Len(queue) \in Nat \ {0} /\ DOMAIN queue = 1 .. Len(queue)
      BY <3>1, EmptySeq, LenProperties DEF TypeOK
    <3>3. DOMAIN queue' = 1 .. Len(queue) - 1
      BY <3>1, HeadTailProperties, LenProperties DEF TypeOK
    <3>4. \A n \in 1 .. Len(queue) - 1 : queue'[n] = queue[n + 1]
      BY <3>1, HeadTailProperties DEF TypeOK
    <3>5. queue[1] = Head(queue)
      BY <3>1, <3>2 DEF TypeOK
    <3> QED  BY <3>2, <3>3, <3>4, <3>5
  <2>2. Queued(i)' => Queued(i)
    BY <2>1 DEF Queued
  <2>3. Job(w)' = i => Queued(i)
    <3>1. Job(w)' = Head(queue)
      BY <1>2 DEF DequeueScan, SetWorker, Job, TypeOK, WorkerState
    <3> QED  BY <2>1, <3>1 DEF Queued
  <2> QED  BY <1>1, <2>2, <2>3 DEF Undecided, BeingEnqueued, Job
<1>3. CASE ~ DequeueScan(w)
  <2>1. queue' = queue
    BY <1>3 DEF WorkerStep, WorkerStart, DequeueScan, WorkerStops, ProcessScan,
         PipelineBegin, PipelineBeginLocked, CommitScan, ClearCancelled, MarkFailed,
         MarkFailedLocked, PipelineStep, StageSkipped, StageBegins, StageEnds,
         StageCancelled, PipelineFinalize, PipelineError, InPipeline, ContainerStep,
         SessionBreaks, HandleSignal, WorkerCrash, OperatorStarts
  <2>2. worker'[w].pc \in Deciding => worker[w].pc \in Deciding /\ Job(w)' = Job(w)
    BY <1>3, WorkerDeciding
  <2> QED  BY <1>1, <2>1, <2>2 DEF Undecided, BeingEnqueued, Job, Queued
<1> QED  BY <1>2, <1>3

\* Keys leave Redis only as a recorded loss, or when the worker that decided
\* their scan clears them.
LEMMA KeyFacts ==
    ASSUME TypeOK, [Next]_vars, NEW i \in cancelKeys, i \notin cancelKeys'
    PROVE  \/ i \in lostKeys'
           \/ \E w \in Workers : ClearCancelled(w) /\ Job(w) = i
<1>1. \A r \in Requests : RequestArrives(r) \/ RequestStep(r) => i \in cancelKeys'
  BY DEF RequestArrives, RequestStep, CreateScan, CreateScanRejected, CancelScan,
         CancelScanRejected, CreateScanInsert, CreateScanInsertFails, EnqueueScan,
         SetCancelled, PublishCancel, CancelScanUpdate, CancelScanLocked, redisVars
<1>2. \A w \in Workers : WorkerStep(w) \/ ContainerStep(w) =>
          i \in cancelKeys' \/ (ClearCancelled(w) /\ Job(w) = i)
  BY DEF WorkerStep, WorkerStart, DequeueScan, WorkerStops, ProcessScan,
         PipelineBegin, PipelineBeginLocked, CommitScan, ClearCancelled, MarkFailed,
         MarkFailedLocked, PipelineStep, StageSkipped, StageBegins, StageEnds,
         StageCancelled, PipelineFinalize, PipelineError, InPipeline, ContainerStep,
         SessionBreaks, HandleSignal, WorkerCrash, OperatorStarts, redisVars
<1>3. OutsideFault \/ RedisComesBack \/ UNCHANGED vars =>
          i \in cancelKeys' \/ i \in lostKeys'
  BY DEF OutsideFault, PanelCrash, RedisGoesDown, CancelKeyExpires, RedisComesBack,
         redisVars, vars
<1> QED  BY <1>1, <1>2, <1>3 DEF Next

\* Recorded losses stay recorded.
LEMMA LossFacts ==
    ASSUME TypeOK, [Next]_vars
    PROVE  lostKeys \subseteq lostKeys'
<1>1. \A r \in Requests : RequestArrives(r) \/ RequestStep(r) => lostKeys' = lostKeys
  BY RequestFacts
<1>2. \A w \in Workers : WorkerStep(w) \/ ContainerStep(w) => lostKeys' = lostKeys
  BY WorkerFacts
<1>3. OutsideFault \/ RedisComesBack \/ UNCHANGED vars => lostKeys \subseteq lostKeys'
  BY DEF OutsideFault, PanelCrash, RedisGoesDown, CancelKeyExpires, RedisComesBack,
         history, vars
<1> QED  BY <1>1, <1>2, <1>3 DEF Next

\* Only the holder of the write lock writes the draft.
LEMMA DraftKept ==
    ASSUME TypeOK, LockIsPipeline, NEW v \in Workers, writer = v, NEW w \in Workers, w # v,
           WorkerStep(w) \/ ContainerStep(w)
    PROVE  draft' = draft
<1>1. worker[w].pc \notin {"loop", "run", "final", "commit"}
  BY DEF LockIsPipeline
<1>2. writer # Nobody
  BY NobodyAssumption
<1> QED
  BY <1>1, <1>2
  DEF WorkerStep, WorkerStart, DequeueScan, WorkerStops, ProcessScan, PipelineBegin,
      PipelineBeginLocked, CommitScan, ClearCancelled, MarkFailed, MarkFailedLocked,
      PipelineStep, StageSkipped, StageBegins, StageEnds, StageCancelled,
      PipelineFinalize, PipelineError, InPipeline, ContainerStep, SessionBreaks,
      HandleSignal, WorkerCrash, OperatorStarts, dbVars

\* Faults outside the workers set no flag, answer nobody and decide nothing.
LEMMA OutsideFacts ==
    ASSUME TypeOK, OutsideFault \/ RedisComesBack \/ UNCHANGED vars
    PROVE  /\ scans' = scans /\ worker' = worker /\ draft' = draft
           /\ \A r \in Requests :
                 /\ HasSetKey(r)' => HasSetKey(r) /\ req'[r].scan = req[r].scan
                 /\ CancelAcknowledged(r)' => CancelAcknowledged(r)
                 /\ req'[r].pc = "setex" => req'[r] = req[r]
           /\ \A i : Undecided(i)' => Undecided(i)
<1>1. scans' = scans /\ worker' = worker /\ draft' = draft
  BY DEF OutsideFault, PanelCrash, RedisGoesDown, CancelKeyExpires, RedisComesBack,
         dbVars, vars
<1>2. req' = req \/ PanelCrash
  BY DEF OutsideFault, RedisGoesDown, CancelKeyExpires, RedisComesBack, vars
<1>3. queue' = queue \/ queue' = <<>>
  BY DEF OutsideFault, PanelCrash, RedisGoesDown, CancelKeyExpires, RedisComesBack,
         redisVars, vars
<1>4. \A r \in Requests :
         /\ HasSetKey(r)' => HasSetKey(r) /\ req'[r].scan = req[r].scan
         /\ CancelAcknowledged(r)' => CancelAcknowledged(r)
         /\ req'[r].pc = "setex" => req'[r] = req[r]
         /\ BeingEnqueued(r)' => BeingEnqueued(r) /\ req'[r].scan = req[r].scan
  <2>1. CASE PanelCrash
    BY <2>1 DEF PanelCrash, HasSetKey, CancelAcknowledged, BeingEnqueued, TypeOK,
                RequestState
  <2>2. CASE req' = req
    BY <2>2 DEF HasSetKey, CancelAcknowledged, BeingEnqueued
  <2> QED  BY <1>2, <2>1, <2>2
<1>5. \A i : Queued(i)' => Queued(i)
  <2>1. CASE queue' = queue
    BY <2>1 DEF Queued
  <2>2. CASE queue' = <<>>
    <3>1. DOMAIN queue' = {}
      BY <2>2
    <3> QED  BY <3>1 DEF Queued
  <2> QED  BY <1>3, <2>1, <2>2
<1>6. \A i : Undecided(i)' => Undecided(i)
  BY <1>1, <1>4, <1>5 DEF Undecided, Job
<1> QED  BY <1>1, <1>4, <1>6

-----------------------------------------------------------------------------
(* What the steps do to the table *)

\* Rows are appended untouched, and only three steps write one that exists.
LEMMA RowChange ==
    ASSUME TypeOK, [Next]_vars, NEW i \in ScanIds'
    PROVE  \/ i \notin ScanIds /\ scans'[i] = NoDraft
           \/ i \in ScanIds /\ scans'[i] = scans[i]
           \/ \E r \in Requests :
                 /\ CancelScanUpdate(r) /\ req[r].scan = i /\ i \in ScanIds
                 /\ scans'[i] = [scans[i] EXCEPT !.status = "CANCELLED"]
           \/ \E w \in Workers :
                 CommitScan(w) /\ Job(w) = i /\ i \in ScanIds /\ scans'[i] = draft
           \/ \E w \in Workers :
                 /\ MarkFailed(w) /\ Job(w) = i /\ i \in ScanIds
                 /\ scans'[i] = [scans[i] EXCEPT !.status = "FAILED"]
<1>0. /\ scans \in Seq(Row) /\ Len(scans) \in Nat /\ ScanIds = 1 .. Len(scans)
      /\ "CANCELLED" \in ScanStatus /\ "FAILED" \in ScanStatus
      /\ \A r \in Requests : req[r].scan \in Nat
      /\ \A w \in Workers : Job(w) \in Nat
      /\ draft \in Row
  BY LenProperties DEF TypeOK, ScanIds, ScanStatus, Terminal, RequestState, WorkerState, Job
<1>1. CASE scans' = scans
  BY <1>1 DEF ScanIds
<1>2. ASSUME NEW r \in Requests, CreateScanInsert(r)
      PROVE  \/ i \notin ScanIds /\ scans'[i] = NoDraft
             \/ i \in ScanIds /\ scans'[i] = scans[i]
  <2>1. scans' = Append(scans, NoDraft)
    BY <1>2 DEF CreateScanInsert
  <2>2. /\ Len(scans') = Len(scans) + 1
        /\ \A j \in 1 .. Len(scans) : scans'[j] = scans[j]
        /\ scans'[Len(scans) + 1] = NoDraft
    BY <1>0, <2>1, RowTypes, AppendProperties
  <2>3. i \in 1 .. Len(scans) + 1
    BY <2>2 DEF ScanIds
  <2>4. i \in 1 .. Len(scans) \/ i = Len(scans) + 1
    BY <1>0, <2>3
  <2> QED  BY <1>0, <2>2, <2>4
<1>3. ASSUME NEW r \in Requests, CancelScanUpdate(r)
      PROVE  /\ i \in ScanIds
             /\ \/ scans'[i] = scans[i]
                \/ /\ req[r].scan = i
                   /\ scans'[i] = [scans[i] EXCEPT !.status = "CANCELLED"]
  <2>1. scans' = [scans EXCEPT ![req[r].scan].status = "CANCELLED"]
    BY <1>3 DEF CancelScanUpdate
  <2>2. /\ Len(scans') = Len(scans)
        /\ \A j \in 1 .. Len(scans) :
              scans'[j] = IF j = req[r].scan THEN [scans[j] EXCEPT !.status = "CANCELLED"]
                                             ELSE scans[j]
    BY ONLY <1>0, <2>1, UpdateStatus
  <2> QED  BY <1>0, <2>2 DEF ScanIds
<1>4. ASSUME NEW w \in Workers, CommitScan(w)
      PROVE  i \in ScanIds /\ (scans'[i] = scans[i] \/ (Job(w) = i /\ scans'[i] = draft))
  <2>1. scans' = [scans EXCEPT ![Job(w)] = draft]
    BY <1>4 DEF CommitScan
  <2>2. /\ Len(scans') = Len(scans)
        /\ \A j \in 1 .. Len(scans) : scans'[j] = IF j = Job(w) THEN draft ELSE scans[j]
    BY ONLY <1>0, <2>1, UpdateRow
  <2> QED  BY <1>0, <2>2 DEF ScanIds
<1>5. ASSUME NEW w \in Workers, MarkFailed(w)
      PROVE  /\ i \in ScanIds
             /\ \/ scans'[i] = scans[i]
                \/ Job(w) = i /\ scans'[i] = [scans[i] EXCEPT !.status = "FAILED"]
  <2>1. scans' = [scans EXCEPT ![Job(w)].status = "FAILED"]
    BY <1>5 DEF MarkFailed
  <2>2. /\ Len(scans') = Len(scans)
        /\ \A j \in 1 .. Len(scans) :
              scans'[j] = IF j = Job(w) THEN [scans[j] EXCEPT !.status = "FAILED"]
                                        ELSE scans[j]
    BY ONLY <1>0, <2>1, UpdateStatus
  <2> QED  BY <1>0, <2>2 DEF ScanIds
<1> QED  BY <1>1, <1>2, <1>3, <1>4, <1>5, RowWriters

\* Which steps let a row that was not stopped stay so, or write such a one.
LEMMA RowFacts ==
    ASSUME TypeOK, [Next]_vars, NEW i \in ScanIds, scans'[i].status \notin Stopped
    PROVE  \/ scans[i].status \notin Stopped
           \/ \E w \in Workers : CommitScan(w) /\ Job(w) = i /\ draft.status \notin Stopped
<1>1. i \in ScanIds' /\ scans[i] \in Row
  BY TableGrows, ElementOfSeq DEF ScanIds, TypeOK
<1> QED  BY <1>1, RowChange DEF Row, Stopped

-----------------------------------------------------------------------------
(* The parts of the invariant *)

LEMMA CancelledExistStep ==
    ASSUME Known, [Next]_vars
    PROVE  CancelledExist'
<1> USE DEF Known, CancelInv
<1>1. ScanIds \subseteq ScanIds'
  BY TableGrows DEF ScanIds
<1>2. ASSUME NEW r \in Requests, RequestArrives(r) \/ RequestStep(r)
      PROVE  CancelledExist'
  <2>1. \A q \in Requests \ {r} : req'[q] = req[q]
    BY <1>2, RequestFacts
  <2>2. HasSetKey(r)' => req'[r].scan \in ScanIds
    <3>1. SUFFICES ASSUME HasSetKey(r)' PROVE req'[r].scan \in ScanIds
      OBVIOUS
    <3>2. /\ req'[r].scan = req[r].scan /\ req[r].kind = "cancel"
          /\ HasSetKey(r) \/ SetCancelled(r)
      BY <1>2, <3>1, RequestFacts
    <3> QED  BY <3>2 DEF CancelledExist, SetCancelled
  <2>3. req'[r].kind = "cancel" /\ req'[r].pc = "setex" => req'[r].scan \in ScanIds
    <3>1. SUFFICES ASSUME CancelScan(r) PROVE req'[r].scan \in ScanIds
      BY <1>2, RequestFacts
    <3> QED  BY <3>1 DEF CancelScan, SetReq, TypeOK
  <2> QED  BY <1>1, <2>1, <2>2, <2>3 DEF CancelledExist, HasSetKey
<1>3. ASSUME NEW w \in Workers, WorkerStep(w) \/ ContainerStep(w)
      PROVE  CancelledExist'
  <2>1. req' = req
    BY <1>3, WorkerFacts
  <2> QED  BY <1>1, <2>1 DEF CancelledExist, HasSetKey
<1>4. ASSUME OutsideFault \/ RedisComesBack \/ UNCHANGED vars
      PROVE  CancelledExist'
  <2>1. \A r \in Requests :
           req'[r].kind = "cancel" /\ (req'[r].pc = "setex" \/ HasSetKey(r)') =>
               req'[r].scan \in ScanIds
    BY <1>4, OutsideFacts DEF CancelledExist, HasSetKey
  <2> QED  BY <1>1, <2>1 DEF CancelledExist, HasSetKey
<1> QED  BY <1>2, <1>3, <1>4 DEF Next

\* The worker that clears a key holds the only job of the scan, and has
\* decided it.
LEMMA ClearedIsDecided ==
    ASSUME Known, NEW w \in Workers, ClearCancelled(w), Job(w) # 0
    PROVE  ~ Undecided(Job(w))
<1>1. ~ Queued(Job(w))
  BY DEF Known, JobInv, OneJobPerScan
<1>2. \A v \in Workers : Job(v) = Job(w) => worker[v].pc \notin Deciding
  BY DEF Known, JobInv, OneJobPerScan, ClearCancelled, Deciding
<1>3. \A r \in Requests : BeingEnqueued(r) => req[r].scan # Job(w)
  BY DEF Known, JobInv, OneJobPerScan, Held
<1> QED  BY <1>1, <1>2, <1>3 DEF Undecided

LEMMA KeyStandsStep ==
    ASSUME Known, [Next]_vars
    PROVE  KeyStands'
<1> SUFFICES ASSUME NEW r \in Requests, HasSetKey(r)', req'[r].scan \notin lostKeys',
                    Undecided(req[r].scan)'
             PROVE  req'[r].scan \in cancelKeys'
  BY DEF KeyStands
<1> USE DEF Known, CancelInv
<1>1. PICK i : i = req'[r].scan
  OBVIOUS
<1>2. i \notin lostKeys
  BY <1>1, LossFacts
<1>3. Undecided(i)'
  BY <1>1 DEF Undecided, Queued, Job, BeingEnqueued
<1>4. CASE \E q \in Requests : SetCancelled(q) /\ redisUp /\ q = r
  BY <1>4 DEF SetCancelled, GotoReq, TypeOK, RequestState
<1>5. CASE HasSetKey(r) /\ req[r].scan = i
  <2>1. i \in ScanIds /\ i # 0
    BY <1>5 DEF CancelledExist, HasSetKey, ScanIds
  <2>2. Undecided(i)
    <3>1. \A q \in Requests : RequestArrives(q) \/ RequestStep(q) => Undecided(i)
      <4> SUFFICES ASSUME NEW q \in Requests, RequestArrives(q) \/ RequestStep(q)
                   PROVE  Undecided(i)
        OBVIOUS
      <4>1. Undecided(i) \/ (CreateScanInsert(q) /\ i = req[q].scan)
        BY <1>3, RequestUndecided
      <4> QED  BY <2>1, <4>1 DEF CreateScanInsert
    <3>2. \A w \in Workers : WorkerStep(w) \/ ContainerStep(w) => Undecided(i)
      BY <1>3, WorkerUndecided
    <3>3. OutsideFault \/ RedisComesBack \/ UNCHANGED vars => Undecided(i)
      BY <1>3, OutsideFacts
    <3> QED  BY <3>1, <3>2, <3>3 DEF Next
  <2>3. i \in cancelKeys
    BY <1>2, <1>5, <2>2 DEF KeyStands
  <2>4. \A w \in Workers : ~ (ClearCancelled(w) /\ Job(w) = i)
    BY <2>1, <2>2, ClearedIsDecided
  <2> QED  BY <1>1, <2>3, <2>4, KeyFacts
<1>6. \/ HasSetKey(r) /\ req[r].scan = i
      \/ \E q \in Requests : SetCancelled(q) /\ redisUp /\ q = r
  <2>1. ASSUME NEW q \in Requests, RequestArrives(q) \/ RequestStep(q)
        PROVE  (HasSetKey(r) /\ req[r].scan = i) \/ (SetCancelled(q) /\ redisUp /\ q = r)
    <3>1. CASE q = r
      BY <1>1, <2>1, <3>1, RequestFacts
    <3>2. CASE q # r
      <4>1. req'[r] = req[r]
        BY <2>1, <3>2, RequestFacts
      <4> QED  BY <1>1, <4>1 DEF HasSetKey
    <3> QED  BY <3>1, <3>2
  <2>2. ASSUME NEW w \in Workers, WorkerStep(w) \/ ContainerStep(w)
        PROVE  HasSetKey(r) /\ req[r].scan = i
    <3>1. req' = req
      BY <2>2, WorkerFacts
    <3> QED  BY <1>1, <3>1 DEF HasSetKey
  <2>3. ASSUME OutsideFault \/ RedisComesBack \/ UNCHANGED vars
        PROVE  HasSetKey(r) /\ req[r].scan = i
    BY <1>1, <2>3, OutsideFacts
  <2> QED  BY <2>1, <2>2, <2>3 DEF Next
<1> QED  BY <1>4, <1>5, <1>6

\* While an acknowledged cancellation is in force, a worker decides the result
\* by a key that stands (CANCELLED) or with Redis down (FAILED).
LEMMA DraftObeysStep ==
    ASSUME Known, [Next]_vars
    PROVE  DraftObeys'
<1> SUFFICES ASSUME NEW r \in Requests, NEW v \in Workers,
                    CancelAcknowledged(r)', req'[r].scan \notin lostKeys',
                    Job(v)' = req'[r].scan, worker'[v].pc = "commit"
             PROVE  draft'.status \in Stopped
  BY DEF DraftObeys
<1> USE DEF Known, CancelInv
<1>0. req'[r].scan \notin lostKeys
  BY LossFacts
<1>1. ASSUME NEW q \in Requests, RequestArrives(q) \/ RequestStep(q)
      PROVE  draft'.status \in Stopped
  <2>1. worker' = worker /\ draft' = draft
    BY <1>1, RequestFacts
  <2>2. writer = v
    BY <2>1 DEF LockIsPipeline
  <2>3. ~ CancelScanUpdate(q)
    BY <2>2, NobodyAssumption DEF CancelScanUpdate
  <2>4. CancelAcknowledged(r) /\ req'[r].scan = req[r].scan
    <3>1. CASE q = r
      BY <1>1, <2>3, <3>1, RequestFacts DEF HasSetKey, CancelAcknowledged
    <3>2. CASE q # r
      BY <1>1, <3>2, RequestFacts DEF CancelAcknowledged
    <3> QED  BY <3>1, <3>2
  <2> QED  BY <1>0, <2>1, <2>4 DEF DraftObeys, Job
<1>2. ASSUME NEW w \in Workers, WorkerStep(w) \/ ContainerStep(w)
      PROVE  draft'.status \in Stopped
  <2>1. req' = req /\ CancelAcknowledged(r) /\ \A u \in Workers \ {w} : worker'[u] = worker[u]
    BY <1>2, WorkerFacts DEF CancelAcknowledged
  <2>2. CASE PipelineFinalize(w) /\ v = w
    <3>1. Job(w)' = Job(w) /\ Job(w) = req[r].scan
      BY <2>1, <2>2 DEF PipelineFinalize, SetWorker, Job, TypeOK, WorkerState
    <3>2. Undecided(req[r].scan)
      BY <2>2, <3>1 DEF PipelineFinalize, InPipeline, Undecided, Deciding
    <3>3. CancelSeen(w)
      BY <1>0, <2>1, <3>1, <3>2 DEF KeyStands, HasSetKey, CancelAcknowledged, CancelSeen
    <3> QED  BY <2>2, <3>3 DEF PipelineFinalize, Stopped, Row
  <2>3. CASE PipelineError(w) /\ v = w
    BY <2>3 DEF PipelineError, Stopped, Row
  <2>4. CASE v # w
    <3>1. worker[v].pc = "commit" /\ Job(v) = req[r].scan
      BY <2>1, <2>4 DEF Job
    <3>2. writer = v /\ writer # w
      BY <2>4, <3>1 DEF LockIsPipeline
    <3>3. draft' = draft
      BY <1>2, <2>4, <3>2, DraftKept
    <3> QED  BY <1>0, <2>1, <3>1, <3>3 DEF DraftObeys
  <2>5. CASE v = w /\ ~ PipelineFinalize(w) /\ ~ PipelineError(w)
    <3>1. HandleSignal(w) \/ OperatorStarts(w)
      <4>1. CASE PipelineStep(w)
        BY <2>5, <4>1 DEF PipelineStep, StageSkipped, StageBegins, StageEnds,
             StageCancelled, NextStage, SetWorker, TypeOK, WorkerState
      <4>2. CASE ~ PipelineStep(w)
        BY <1>2, <2>5, <4>2 DEF WorkerStep, WorkerStart, DequeueScan, WorkerStops,
             ProcessScan, PipelineBegin, PipelineBeginLocked, CommitScan,
             ClearCancelled, MarkFailed, MarkFailedLocked, ContainerStep,
             SessionBreaks, WorkerCrash, IdleWorker, SetWorker, TypeOK,
             WorkerState
      <4> QED  BY <4>1, <4>2
    <3>2. worker[w].pc = "commit" /\ Job(w) = req[r].scan /\ draft' = draft
      BY <2>1, <2>5, <3>1, SignalFacts DEF Job
    <3> QED  BY <1>0, <2>1, <3>2 DEF DraftObeys
  <2> QED  BY <2>2, <2>3, <2>4, <2>5
<1>3. ASSUME OutsideFault \/ RedisComesBack \/ UNCHANGED vars
      PROVE  draft'.status \in Stopped
  <2>1. worker' = worker /\ draft' = draft /\ CancelAcknowledged(r)
        /\ req'[r].scan = req[r].scan
    BY <1>3, OutsideFacts DEF CancelAcknowledged, HasSetKey
  <2> QED  BY <1>0, <2>1 DEF DraftObeys, Job
<1> QED  BY <1>1, <1>2, <1>3 DEF Next

LEMMA CancelWinsStep ==
    ASSUME Known, [Next]_vars
    PROVE  CancelWins'
<1> SUFFICES ASSUME NEW r \in Requests,
                    CancelAcknowledged(r)', req'[r].scan \notin lostKeys',
                    scans'[req'[r].scan].status \notin Stopped
             PROVE  FALSE
  BY DEF CancelWins, Stopped
<1> USE DEF Known, CancelInv
<1>0. req'[r].scan \notin lostKeys
  BY LossFacts
<1>1. ASSUME CancelAcknowledged(r), req'[r].scan = req[r].scan
      PROVE  FALSE
  <2>1. req[r].scan \in ScanIds
    BY <1>1 DEF CancelledExist, CancelAcknowledged, HasSetKey
  <2>2. scans[req[r].scan].status \in Stopped
    BY <1>0, <1>1 DEF CancelWins, Stopped
  <2>3. PICK w \in Workers : /\ CommitScan(w)
                             /\ Job(w) = req[r].scan
                             /\ draft.status \notin Stopped
    BY <1>1, <2>1, <2>2, RowFacts
  <2> QED  BY <1>0, <1>1, <2>3 DEF DraftObeys, CommitScan
<1>2. ASSUME NEW q \in Requests, RequestArrives(q) \/ RequestStep(q)
      PROVE  FALSE
  <2>1. CASE CancelScanUpdate(q) /\ q = r
    <3>1. /\ req[r].scan \in Nat /\ req'[r].scan = req[r].scan
          /\ req'[r].kind = req[r].kind
      BY <2>1 DEF CancelScanUpdate, Answer, TypeOK, RequestState
    <3>2. req[r].scan \in ScanIds
      BY <2>1, <3>1 DEF CancelledExist, CancelAcknowledged, HasSetKey, CancelScanUpdate
    <3>3. scans' = [scans EXCEPT ![req[r].scan].status = "CANCELLED"]
      BY <2>1 DEF CancelScanUpdate
    <3>4. scans'[req[r].scan] = [scans[req[r].scan] EXCEPT !.status = "CANCELLED"]
      <4>1. "CANCELLED" \in ScanStatus /\ scans \in Seq(Row)
            /\ req[r].scan \in 1 .. Len(scans)
        BY <3>2 DEF ScanStatus, Terminal, TypeOK, ScanIds
      <4> QED  BY ONLY <3>1, <3>3, <4>1, UpdateStatus
    <3>5. scans[req[r].scan] \in Row
      BY <3>2, ElementOfSeq DEF TypeOK, ScanIds
    <3> QED  BY <3>1, <3>4, <3>5 DEF Row, Stopped
  <2>2. CASE q = r /\ ~ CancelScanUpdate(q)
    BY <1>1, <1>2, <2>2, RequestFacts DEF HasSetKey, CancelAcknowledged
  <2>3. CASE q # r
    <3>1. req'[r] = req[r]
      BY <1>2, <2>3, RequestFacts
    <3> QED  BY <1>1, <3>1 DEF CancelAcknowledged
  <2> QED  BY <2>1, <2>2, <2>3
<1>3. ASSUME NEW w \in Workers, WorkerStep(w) \/ ContainerStep(w)
      PROVE  FALSE
  BY <1>1, <1>3, WorkerFacts DEF CancelAcknowledged
<1>4. ASSUME OutsideFault \/ RedisComesBack \/ UNCHANGED vars
      PROVE  FALSE
  BY <1>1, <1>4, OutsideFacts DEF CancelAcknowledged, HasSetKey
<1> QED  BY <1>2, <1>3, <1>4 DEF Next

LEMMA CancelInvariant == Spec => []CancelInv
<1>1. Init => CancelInv
  BY DEF Init, CancelInv, CancelledExist, KeyStands, DraftObeys, CancelWins,
         HasSetKey, CancelAcknowledged
<1>2. TypeOK /\ TypeOK' /\ LockIsPipeline /\ JobInv /\ CancelInv /\ [Next]_vars
          => CancelInv'
  BY CancelledExistStep, KeyStandsStep, DraftObeysStep, CancelWinsStep
  DEF Known, CancelInv
<1> QED  BY <1>1, <1>2, TypeCorrect, LockCorrect, JobsCorrect, PTL DEF Spec

\* A cancellation answered 200 holds: unless Redis lost its key, the scan is
\* CANCELLED or FAILED ever after, whatever the workers were doing meanwhile.
THEOREM CancelCorrect == Spec => []CancelWins
<1>1. CancelInv => CancelWins
  BY DEF CancelInv
<1> QED  BY <1>1, CancelInvariant, PTL

-----------------------------------------------------------------------------
(* Accepted scans are not forgotten *)


\* What the pipeline commits is a result.
CommitDecided == \A w \in Workers : worker[w].pc = "commit" => draft.status \in Terminal

\* A worker lets a job go only when its scan is settled.
ClearedIsSettled ==
    \A w \in Workers :
        worker[w].pc = "clear" => scans[Job(w)].status \in Terminal

\* A worker that polls or does not run holds nothing that a new job would
\* replace; any other has a scan in its hands.
WorkersHold ==
    \A w \in Workers :
        IF worker[w].pc \in {"poll", "down", "stopped"} THEN Job(w) = 0
                                                       ELSE Job(w) \in ScanIds

\* Requests on their way to the queue are creations without an answer.
CreatesUnanswered ==
    \A r \in Requests :
        req[r].pc \in {"insert", "enqueue"} => req[r].kind = "create" /\ req[r].code = 0

\* A creation that got its id into the table but not, or not yet, a 201: unlike a
\* request that has only counted the id it keeps it for ever.
Unanswered(i) ==
    \E r \in Requests :
        /\ req[r].kind = "create" /\ req[r].scan = i /\ req[r].code # 201
        /\ req[r].pc \in {"enqueue", "done"}

Remembered(i) == Queued(i) \/ Held(i) \/ i \in lostJobs \/ Unanswered(i)

PendingRemembered == \A i \in ScanIds : scans[i].status = "PENDING" => Remembered(i)

DeliveryInv ==
    /\ CommitDecided /\ ClearedIsSettled /\ WorkersHold /\ CreatesUnanswered
    /\ PendingRemembered

Given == TypeOK /\ TypeOK' /\ LockIsPipeline /\ JobInv /\ DeliveryInv

-----------------------------------------------------------------------------
(* Results *)

LEMMA CommitDecidedStep ==
    ASSUME Given, [Next]_vars
    PROVE  CommitDecided'
<1> SUFFICES ASSUME NEW v \in Workers, worker'[v].pc = "commit"
             PROVE  draft'.status \in Terminal
  BY DEF CommitDecided
<1> USE DEF Given, DeliveryInv
<1>1. ASSUME worker' = worker, draft' = draft
      PROVE  draft'.status \in Terminal
  BY <1>1 DEF CommitDecided
<1>2. ASSUME NEW w \in Workers, WorkerStep(w) \/ ContainerStep(w)
      PROVE  draft'.status \in Terminal
  <2>1. \A u \in Workers \ {w} : worker'[u] = worker[u]
    BY <1>2, WorkerFacts
  <2>2. CASE PipelineFinalize(w) \/ PipelineError(w)
    BY <2>2 DEF PipelineFinalize, PipelineError, Terminal, TypeOK, Row
  <2>3. CASE v # w
    <3>1. worker[v].pc = "commit"
      BY <2>1, <2>3
    <3>2. writer = v /\ writer # w
      BY <2>3, <3>1 DEF LockIsPipeline
    <3>3. draft' = draft
      BY <1>2, <2>3, <3>2, DraftKept
    <3> QED  BY <3>1, <3>3 DEF CommitDecided
  <2>4. CASE v = w /\ ~ PipelineFinalize(w) /\ ~ PipelineError(w)
    <3>1. HandleSignal(w) \/ OperatorStarts(w)
      <4>1. CASE PipelineStep(w)
        BY <2>4, <4>1 DEF PipelineStep, StageSkipped, StageBegins, StageEnds,
             StageCancelled, NextStage, SetWorker, TypeOK, WorkerState
      <4>2. CASE ~ PipelineStep(w)
        <5>1. ~ WorkerCrash(w) /\ ~ WorkerStops(w)
          BY <2>4 DEF WorkerCrash, WorkerStops, IdleWorker, TypeOK, WorkerState
        <5> QED
          BY <1>2, <2>4, <4>2, <5>1 DEF WorkerStep, WorkerStart, DequeueScan,
             ProcessScan, PipelineBegin, PipelineBeginLocked, CommitScan,
             ClearCancelled, MarkFailed, MarkFailedLocked, ContainerStep,
             SessionBreaks, SetWorker, TypeOK, WorkerState
      <4> QED  BY <4>1, <4>2
    <3>2. worker[w].pc = "commit" /\ draft' = draft
      BY <2>4, <3>1, SignalFacts
    <3> QED  BY <3>2 DEF CommitDecided
  <2> QED  BY <2>2, <2>3, <2>4
<1>3. ASSUME NEW r \in Requests, RequestArrives(r) \/ RequestStep(r)
      PROVE  worker' = worker /\ draft' = draft
  BY <1>3, RequestFacts
<1>4. ASSUME OutsideFault \/ RedisComesBack \/ UNCHANGED vars
      PROVE  worker' = worker /\ draft' = draft
  BY <1>4, OutsideFacts
<1> QED  BY <1>1, <1>2, <1>3, <1>4 DEF Next

\* A step settles a scan, adds a new one, or leaves the table as it is.
LEMMA RowStep ==
    ASSUME Given, [Next]_vars, NEW i \in ScanIds
    PROVE  i \in ScanIds' /\ (scans'[i].status = scans[i].status \/ scans'[i].status \in Terminal)
<1> USE DEF Given, DeliveryInv
<1>1. i \in ScanIds' /\ scans[i] \in Row
  BY TableGrows, ElementOfSeq DEF ScanIds, TypeOK
<1> QED  BY <1>1, RowChange DEF CommitScan, CommitDecided, Terminal, Row

LEMMA ClearedIsSettledStep ==
    ASSUME Given, [Next]_vars
    PROVE  ClearedIsSettled'
<1> SUFFICES ASSUME NEW v \in Workers, worker'[v].pc = "clear"
             PROVE  scans'[Job(v)'].status \in Terminal
  BY DEF ClearedIsSettled
<1> USE DEF Given, DeliveryInv
<1>1. ASSUME worker[v].pc = "clear", Job(v)' = Job(v)
      PROVE  scans'[Job(v)'].status \in Terminal
  <2>1. Job(v) \in ScanIds
    BY <1>1 DEF WorkersHold
  <2> QED  BY <1>1, <2>1, RowStep DEF ClearedIsSettled
<1>2. ASSUME CommitScan(v)
      PROVE  scans'[Job(v)'].status \in Terminal
  <2>1. Job(v)' = Job(v) /\ Job(v) \in ScanIds
    BY <1>2 DEF CommitScan, SetWorker, Job, TypeOK, WorkerState, WorkersHold
  <2>2. scans' = [scans EXCEPT ![Job(v)] = draft] /\ draft.status \in Terminal
    BY <1>2 DEF CommitScan, CommitDecided
  <2>3. scans'[Job(v)] = draft
    BY <2>1, <2>2, UpdateRow DEF TypeOK, ScanIds
  <2> QED  BY <2>1, <2>2, <2>3
<1>3. ASSUME worker' = worker
      PROVE  scans'[Job(v)'].status \in Terminal
  BY <1>1, <1>3 DEF Job
<1>4. ASSUME NEW w \in Workers, WorkerStep(w) \/ ContainerStep(w)
      PROVE  scans'[Job(v)'].status \in Terminal
  <2>1. CASE v # w
    <3>1. worker'[v] = worker[v]
      BY <1>4, <2>1, WorkerFacts
    <3> QED  BY <1>1, <3>1 DEF Job
  <2>2. CASE v = w /\ (HandleSignal(w) \/ OperatorStarts(w))
    BY <1>1, <2>2, SignalFacts
  <2>3. CASE v = w /\ ~ HandleSignal(w) /\ ~ OperatorStarts(w)
    <3>1. CASE PipelineStep(w)
      BY <2>3, <3>1 DEF PipelineStep, StageSkipped, StageBegins, StageEnds, StageCancelled,
         PipelineFinalize, PipelineError, NextStage, SetWorker, TypeOK, WorkerState
    <3>2. CASE ~ PipelineStep(w)
      <4>1. CommitScan(w)
        BY <1>4, <2>3, <3>2 DEF WorkerStep, WorkerStart, DequeueScan, WorkerStops,
           ProcessScan, PipelineBegin, PipelineBeginLocked, ClearCancelled, MarkFailed,
           MarkFailedLocked, ContainerStep, SessionBreaks, WorkerCrash, IdleWorker,
           SetWorker, TypeOK, WorkerState
      <4> QED  BY <1>2, <2>3, <4>1
    <3> QED  BY <3>1, <3>2
  <2> QED  BY <2>1, <2>2, <2>3
<1>5. ASSUME NEW r \in Requests, RequestArrives(r) \/ RequestStep(r)
      PROVE  worker' = worker
  BY <1>5, RequestFacts
<1>6. ASSUME OutsideFault \/ RedisComesBack \/ UNCHANGED vars
      PROVE  worker' = worker
  BY <1>6, OutsideFacts
<1> QED  BY <1>3, <1>4, <1>5, <1>6 DEF Next

-----------------------------------------------------------------------------
(* Workers and requests *)

LEMMA WorkersHoldStep ==
    ASSUME Given, [Next]_vars
    PROVE  WorkersHold'
<1> USE DEF Given, DeliveryInv
<1>0. ScanIds \subseteq ScanIds'
  BY TableGrows DEF ScanIds
<1> DEFINE Holds(v) == IF worker'[v].pc \in {"poll", "down", "stopped"}
                       THEN Job(v)' = 0 ELSE Job(v)' \in ScanIds
<1>1. ASSUME worker' = worker
      PROVE  WorkersHold'
  BY <1>0, <1>1 DEF WorkersHold, Job
<1>2. ASSUME NEW w \in Workers, WorkerStep(w) \/ ContainerStep(w)
      PROVE  WorkersHold'
  <2>1. \A v \in Workers \ {w} : Holds(v)
    BY <1>2, WorkerFacts DEF WorkersHold, Job
  <2>2. Holds(w)
    <3>1. CASE DequeueScan(w)
      <4>1. queue # <<>> /\ 1 \in DOMAIN queue /\ Head(queue) = queue[1]
        BY <3>1, EmptySeq, LenProperties DEF DequeueScan, TypeOK
      <4>2. Head(queue) \in ScanIds
        BY <4>1 DEF JobInv, JobsHaveRows
      <4> QED  BY <3>1, <4>2 DEF DequeueScan, SetWorker, Job, TypeOK, WorkerState
    <3>2. CASE PipelineStep(w)
      <4>1. worker[w].pc \in {"loop", "run", "final"}
        BY <3>2 DEF PipelineStep, StageSkipped, StageBegins, StageEnds, StageCancelled,
           PipelineFinalize, PipelineError, InPipeline
      <4>2. PICK pc \in {"loop", "run", "final", "commit"}, seq \in {Cur(w), Cur(w) + 1} :
                SetWorker(w, pc, Job(w), seq)
        BY <3>2 DEF PipelineStep, StageSkipped, StageBegins, StageEnds, StageCancelled,
           PipelineFinalize, PipelineError, NextStage
      <4>3. worker'[w].pc = pc /\ worker'[w].job = Job(w)
        BY <4>2 DEF SetWorker, TypeOK, WorkerState
      <4>4. Job(w) \in ScanIds
        BY <4>1 DEF WorkersHold
      <4> QED  BY <1>0, <4>3, <4>4 DEF Job
    <3>3. CASE WorkerStart(w) \/ WorkerStops(w) \/ WorkerCrash(w)
      <4>1. worker'[w].pc \in {"poll", "down", "stopped"} /\ worker'[w].job = 0
        BY <3>3 DEF WorkerStart, WorkerStops, WorkerCrash, IdleWorker, WorkersHold, Job,
           TypeOK, WorkerState
      <4> QED  BY <4>1 DEF Job
    <3>4. CASE HandleSignal(w) \/ OperatorStarts(w)
      BY <1>0, <3>4, SignalFacts DEF WorkersHold
    <3>5. CASE ProcessScan(w) \/ PipelineBegin(w) \/ PipelineBeginLocked(w)
               \/ CommitScan(w) \/ ClearCancelled(w) \/ MarkFailed(w)
               \/ MarkFailedLocked(w) \/ SessionBreaks(w)
      BY <3>5 DEF ProcessScan, PipelineBegin, PipelineBeginLocked, CommitScan,
         ClearCancelled, MarkFailed, MarkFailedLocked, SessionBreaks, SetWorker, Job,
         TypeOK, WorkerState, WorkersHold
    <3> QED  BY <1>2, <3>1, <3>2, <3>3, <3>4, <3>5 DEF WorkerStep, ContainerStep
  <2> QED  BY <1>0, <2>1, <2>2 DEF WorkersHold
<1>3. ASSUME NEW r \in Requests, RequestArrives(r) \/ RequestStep(r)
      PROVE  worker' = worker
  BY <1>3, RequestFacts
<1>4. ASSUME OutsideFault \/ RedisComesBack \/ UNCHANGED vars
      PROVE  worker' = worker
  BY <1>4, OutsideFacts
<1> QED  BY <1>1, <1>2, <1>3, <1>4 DEF Next

\* Nothing but a request's own steps and a crash of the panel changes it.
LEMMA RequestsKept ==
    ASSUME TypeOK, [Next]_vars, ~ PanelCrash,
           \A r \in Requests : ~ (RequestArrives(r) \/ RequestStep(r))
    PROVE  req' = req
<1>1. ASSUME NEW w \in Workers, WorkerStep(w) \/ ContainerStep(w)
      PROVE  req' = req
  BY <1>1, WorkerFacts
<1> QED
  BY <1>1 DEF Next, OutsideFault, RedisGoesDown, CancelKeyExpires, RedisComesBack, vars

LEMMA CreatesUnansweredStep ==
    ASSUME Given, [Next]_vars
    PROVE  CreatesUnanswered'
<1> USE DEF Given, DeliveryInv
<1>1. ASSUME NEW r \in Requests, RequestArrives(r) \/ RequestStep(r)
      PROVE  CreatesUnanswered'
  <2>1. \A q \in Requests \ {r} : req'[q] = req[q]
    BY <1>1, RequestFacts
  <2>2. req'[r].pc \in {"insert", "enqueue"} => req'[r].kind = "create" /\ req'[r].code = 0
    BY <1>1 DEF RequestArrives, RequestStep, CreateScan, CreateScanRejected,
       CreateScanInsert, CancelScan, CancelScanRejected, CreateScanInsertFails,
       EnqueueScan, SetCancelled, PublishCancel, CancelScanUpdate, CancelScanLocked,
       SetReq, Answer, GotoReq, TypeOK, RequestState, CreatesUnanswered
  <2> QED  BY <2>1, <2>2 DEF CreatesUnanswered
<1>2. CASE PanelCrash
  BY <1>2 DEF PanelCrash, TypeOK, RequestState, CreatesUnanswered
<1>3. CASE req' = req
  BY <1>3 DEF CreatesUnanswered
<1> QED  BY <1>1, <1>2, <1>3, RequestsKept

-----------------------------------------------------------------------------
(* Pending scans *)

LEMMA RequestRemembers ==
    ASSUME Given, NEW r \in Requests, RequestArrives(r) \/ RequestStep(r),
           NEW i \in ScanIds, Remembered(i)
    PROVE  Remembered(i)'
<1> USE DEF Given, DeliveryInv
<1>1. worker' = worker /\ \A q \in Requests \ {r} : req'[q] = req[q]
  BY RequestFacts
<1>2. lostJobs' = lostJobs
  BY DEF RequestArrives, RequestStep, CreateScan, CreateScanRejected, CreateScanInsert,
     CancelScan, CancelScanRejected, CreateScanInsertFails, EnqueueScan, SetCancelled,
     PublishCancel, CancelScanUpdate, CancelScanLocked, history
<1>3. CASE Held(i) \/ i \in lostJobs
  BY <1>1, <1>2, <1>3 DEF Remembered, Held, Job
<1>4. CASE EnqueueScan(r) /\ redisUp
  <2>1. req[r].scan \in Nat /\ queue' = Append(queue, req[r].scan)
    BY <1>4 DEF EnqueueScan, TypeOK, RequestState
  <2>2. Len(queue) \in Nat /\ DOMAIN queue = 1 .. Len(queue)
    BY LenProperties DEF TypeOK
  <2>3. /\ DOMAIN queue' = 1 .. Len(queue) + 1
        /\ \A n \in DOMAIN queue : queue'[n] = queue[n]
        /\ queue'[Len(queue) + 1] = req[r].scan
    BY <2>1, <2>2, AppendProperties, LenProperties DEF TypeOK
  <2>4. Queued(i) => Queued(i)'
    BY <2>2, <2>3 DEF Queued
  <2>5. \E n \in DOMAIN queue' : queue'[n] = req[r].scan
    BY <2>2, <2>3
  <2>6. ASSUME NEW q \in Requests, req[q].kind = "create", req[q].scan = i,
               req[q].code # 201, req[q].pc \in {"enqueue", "done"}
        PROVE  Remembered(i)'
    <3>1. CASE q = r
      BY <2>5, <2>6, <3>1 DEF Remembered, Queued
    <3>2. CASE q # r
      BY <1>1, <2>6, <3>2 DEF Remembered, Unanswered
    <3> QED  BY <3>1, <3>2
  <2> QED  BY <1>3, <2>4, <2>6 DEF Remembered, Unanswered
<1>5. CASE ~ (EnqueueScan(r) /\ redisUp)
  <2>1. queue' = queue
    BY <1>5 DEF RequestArrives, RequestStep, CreateScan, CreateScanRejected,
       CreateScanInsert, CancelScan, CancelScanRejected, CreateScanInsertFails, EnqueueScan,
       SetCancelled, PublishCancel, CancelScanUpdate, CancelScanLocked, redisVars
  <2>2. ASSUME NEW q \in Requests, req[q].kind = "create", req[q].scan = i,
               req[q].code # 201, req[q].pc \in {"enqueue", "done"}
        PROVE  /\ req'[q].kind = "create" /\ req'[q].scan = i /\ req'[q].code # 201
               /\ req'[q].pc \in {"enqueue", "done"}
    <3>1. CASE q = r
      BY <1>5, <2>2, <3>1 DEF RequestArrives, RequestStep, CreateScan, CreateScanRejected,
         CreateScanInsert, CancelScan, CancelScanRejected, CreateScanInsertFails, EnqueueScan,
         SetCancelled, PublishCancel, CancelScanUpdate, CancelScanLocked, Answer, TypeOK,
         RequestState
    <3>2. CASE q # r
      BY <1>1, <2>2, <3>2
    <3> QED  BY <3>1, <3>2
  <2>3. Unanswered(i) => Unanswered(i)'
    BY <2>2 DEF Unanswered
  <2>4. Queued(i) => Queued(i)'
    BY <2>1 DEF Queued
  <2> QED  BY <1>3, <2>3, <2>4 DEF Remembered
<1> QED  BY <1>4, <1>5

\* A worker that lets a job go has settled its scan, or the loss is recorded.
LEMMA WorkerKeepsJob ==
    ASSUME Given, [Next]_vars, NEW w \in Workers, WorkerStep(w) \/ ContainerStep(w),
           NEW i \in ScanIds, Job(w) = i, scans'[i].status \notin Terminal
    PROVE  Job(w)' = i \/ i \in lostJobs'
<1> USE DEF Given, DeliveryInv
<1>0. Len(scans) \in Nat /\ i \in 1 .. Len(scans) /\ i # 0
  BY LenProperties DEF ScanIds, TypeOK
<1>1. worker[w].pc \notin {"poll", "down", "stopped", "clear"}
  <2>1. worker[w].pc \notin {"poll", "down", "stopped"}
    BY <1>0 DEF WorkersHold
  <2>2. scans[i].status \notin Terminal
    BY RowStep
  <2> QED  BY <2>1, <2>2 DEF ClearedIsSettled
<1>2. CASE PipelineStep(w)
  <2>1. \E pc, seq : SetWorker(w, pc, Job(w), seq)
    BY <1>2 DEF PipelineStep, StageSkipped, StageBegins, StageEnds, StageCancelled,
       PipelineFinalize, PipelineError, NextStage
  <2> QED  BY <2>1 DEF SetWorker, Job, TypeOK, WorkerState
<1>3. CASE MarkFailed(w)
  <2>1. scans' = [scans EXCEPT ![Job(w)].status = "FAILED"] /\ "FAILED" \in ScanStatus
    BY <1>3 DEF MarkFailed, ScanStatus, Terminal
  <2>2. scans'[i].status = "FAILED"
    BY <1>0, <2>1, UpdateStatus DEF TypeOK, Row
  <2> QED  BY <2>2 DEF Terminal
<1>4. CASE ProcessScan(w)
  <2>1. scans[i].status # "CANCELLED"
    BY RowStep DEF Terminal
  <2> QED  BY <1>4, <2>1 DEF ProcessScan, SetWorker, Job, TypeOK, WorkerState
<1>5. CASE WorkerCrash(w) \/ MarkFailedLocked(w)
  BY <1>1, <1>5 DEF WorkerCrash, MarkFailedLocked
<1>6. CASE PipelineBegin(w) \/ PipelineBeginLocked(w) \/ CommitScan(w)
           \/ SessionBreaks(w)
  BY <1>6 DEF PipelineBegin, PipelineBeginLocked, CommitScan, SessionBreaks,
     SetWorker, Job, TypeOK, WorkerState
<1>7. ~ (WorkerStart(w) \/ DequeueScan(w) \/ WorkerStops(w) \/ ClearCancelled(w))
  BY <1>1 DEF WorkerStart, DequeueScan, WorkerStops, ClearCancelled
<1>8. CASE HandleSignal(w) \/ OperatorStarts(w)
  BY <1>8, SignalFacts
<1> QED  BY <1>2, <1>3, <1>4, <1>5, <1>6, <1>7, <1>8 DEF WorkerStep, ContainerStep

LEMMA WorkerRemembers ==
    ASSUME Given, [Next]_vars, NEW w \in Workers, WorkerStep(w) \/ ContainerStep(w),
           NEW i \in ScanIds, Remembered(i), scans'[i].status \notin Terminal
    PROVE  Remembered(i)'
<1> USE DEF Given, DeliveryInv
<1>0. i # 0
  BY LenProperties DEF ScanIds, TypeOK
<1>1. req' = req /\ \A v \in Workers \ {w} : worker'[v] = worker[v]
  BY WorkerFacts
<1>2. lostJobs \subseteq lostJobs'
  BY DEF WorkerStep, WorkerStart, DequeueScan, WorkerStops, ProcessScan, PipelineBegin,
     PipelineBeginLocked, CommitScan, ClearCancelled, MarkFailed, MarkFailedLocked,
     PipelineStep, StageSkipped, StageBegins, StageEnds, StageCancelled, PipelineFinalize,
     PipelineError, InPipeline, ContainerStep, SessionBreaks, HandleSignal,
     WorkerCrash, OperatorStarts, history
<1>3. CASE Unanswered(i) \/ i \in lostJobs
  BY <1>1, <1>2, <1>3 DEF Remembered, Unanswered
<1>4. CASE Held(i)
  <2>1. PICK v \in Workers : Job(v) = i
    BY <1>4 DEF Held
  <2>2. CASE v = w
    BY <2>1, <2>2, WorkerKeepsJob DEF Remembered, Held
  <2>3. CASE v # w
    BY <1>1, <2>1, <2>3 DEF Remembered, Held, Job
  <2> QED  BY <2>2, <2>3
<1>5. CASE Queued(i) /\ DequeueScan(w)
  <2>1. queue # <<>> /\ queue' = Tail(queue)
    BY <1>5 DEF DequeueScan
  <2>2. Len(queue) \in Nat \ {0} /\ DOMAIN queue = 1 .. Len(queue)
    BY <2>1, EmptySeq, LenProperties DEF TypeOK
  <2>3. /\ DOMAIN queue' = 1 .. Len(queue) - 1
        /\ \A n \in 1 .. Len(queue) - 1 : queue'[n] = queue[n + 1]
    BY <2>1, HeadTailProperties, LenProperties DEF TypeOK
  <2>4. PICK n \in DOMAIN queue : queue[n] = i
    BY <1>5 DEF Queued
  <2>5. CASE n = 1
    <3>1. Job(w)' = Head(queue) /\ Head(queue) = queue[1]
      BY <1>5, <2>2 DEF DequeueScan, SetWorker, Job, TypeOK, WorkerState
    <3> QED  BY <2>4, <2>5, <3>1 DEF Remembered, Held
  <2>6. CASE n # 1
    <3>1. n - 1 \in 1 .. Len(queue) - 1 /\ (n - 1) + 1 = n
      BY <2>2, <2>4, <2>6
    <3>2. queue'[n - 1] = i /\ n - 1 \in DOMAIN queue'
      BY <2>3, <2>4, <3>1
    <3> QED  BY <3>2 DEF Remembered, Queued
  <2> QED  BY <2>5, <2>6
<1>6. CASE Queued(i) /\ ~ DequeueScan(w)
  <2>1. queue' = queue
    BY <1>6 DEF WorkerStep, WorkerStart, WorkerStops, ProcessScan, PipelineBegin,
       PipelineBeginLocked, CommitScan, ClearCancelled, MarkFailed, MarkFailedLocked,
       PipelineStep, StageSkipped, StageBegins, StageEnds, StageCancelled,
       PipelineFinalize, PipelineError, InPipeline, ContainerStep, SessionBreaks,
       HandleSignal, WorkerCrash, OperatorStarts, redisVars
  <2> QED  BY <1>6, <2>1 DEF Remembered, Queued
<1> QED  BY <1>3, <1>4, <1>5, <1>6 DEF Remembered

\* An outage, a crash of the panel or an expired key forgets no job unrecorded.
LEMMA OutsideRemembers ==
    ASSUME Given, OutsideFault \/ RedisComesBack \/ UNCHANGED vars,
           NEW i \in ScanIds, Remembered(i)
    PROVE  Remembered(i)'
<1> USE DEF Given, DeliveryInv
<1>1. worker' = worker
  BY OutsideFacts
<1>2. CASE PanelCrash
  <2>1. queue' = queue /\ lostJobs' = lostJobs
    BY <1>2 DEF PanelCrash, redisVars
  <2>2. ASSUME NEW q \in Requests, req[q].pc \in {"enqueue", "done"}
        PROVE  /\ req'[q].kind = req[q].kind /\ req'[q].scan = req[q].scan
               /\ req'[q].code = req[q].code /\ req'[q].pc = "done"
    BY <1>2, <2>2 DEF PanelCrash, TypeOK, RequestState
  <2>3. Unanswered(i) => Unanswered(i)'
    BY <2>2 DEF Unanswered
  <2> QED  BY <1>1, <2>1, <2>3 DEF Remembered, Held, Queued, Job
<1>3. CASE ~ PanelCrash
  <2>1. req' = req
    BY <1>3 DEF OutsideFault, RedisGoesDown, CancelKeyExpires, RedisComesBack, vars
  <2>2. /\ lostJobs \subseteq lostJobs'
        /\ queue' = queue \/ {queue[n] : n \in DOMAIN queue} \subseteq lostJobs'
    BY <1>3 DEF OutsideFault, RedisGoesDown, CancelKeyExpires, RedisComesBack, vars
  <2>3. Queued(i) => Queued(i)' \/ i \in lostJobs'
    BY <2>2 DEF Queued
  <2>4. Unanswered(i) => Unanswered(i)'
    BY <2>1 DEF Unanswered
  <2> QED  BY <1>1, <2>2, <2>3, <2>4 DEF Remembered, Held, Job
<1> QED  BY <1>2, <1>3

\* A new row belongs to a creation that is about to enqueue its job.
LEMMA NewRowRemembered ==
    ASSUME Given, [Next]_vars, NEW i \in ScanIds', i \notin ScanIds
    PROVE  Remembered(i)'
<1> USE DEF Given, DeliveryInv
<1>1. PICK r \in Requests : CreateScanInsert(r) /\ Len(scans') = Len(scans) + 1
  BY TableLength DEF ScanIds
<1>2. req[r].scan \in 1 .. Len(scans) + 1 /\ req[r].scan \notin ScanIds
  BY <1>1 DEF CreateScanInsert, JobInv, CountedIds
<1>3. i = req[r].scan
  BY <1>1, <1>2, TableLength DEF ScanIds
<1>4. req[r].kind = "create" /\ req[r].code = 0
  BY <1>1 DEF CreateScanInsert, CreatesUnanswered
<1>5. /\ req'[r].pc = "enqueue" /\ req'[r].scan = i
      /\ req'[r].kind = "create" /\ req'[r].code = 0
  BY <1>1, <1>3, <1>4 DEF CreateScanInsert, GotoReq, TypeOK, RequestState
<1> QED  BY <1>5 DEF Remembered, Unanswered

LEMMA PendingRememberedStep ==
    ASSUME Given, [Next]_vars
    PROVE  PendingRemembered'
<1> SUFFICES ASSUME NEW i \in ScanIds', scans'[i].status = "PENDING"
             PROVE  Remembered(i)'
  BY DEF PendingRemembered
<1>1. CASE i \notin ScanIds
  BY <1>1, NewRowRemembered
<1>2. CASE i \in ScanIds
  <2>1. scans[i].status = "PENDING" /\ scans'[i].status \notin Terminal
    BY <1>2, RowStep DEF Terminal
  <2>2. Remembered(i)
    BY <1>2, <2>1 DEF Given, DeliveryInv, PendingRemembered
  <2> QED  BY <1>2, <2>1, <2>2, RequestRemembers, WorkerRemembers, OutsideRemembers DEF Next
<1> QED  BY <1>1, <1>2

LEMMA DeliveryInvariant == Spec => []DeliveryInv
<1>1. Init => DeliveryInv
  BY LenProperties DEF Init, DeliveryInv, CommitDecided, ClearedIsSettled, WorkersHold,
     CreatesUnanswered, PendingRemembered, ScanIds, IdleWorker, Job
<1>2. TypeOK /\ TypeOK' /\ LockIsPipeline /\ JobInv /\ DeliveryInv /\ [Next]_vars
          => DeliveryInv'
  BY CommitDecidedStep, ClearedIsSettledStep, WorkersHoldStep, CreatesUnansweredStep,
     PendingRememberedStep
  DEF Given, DeliveryInv
<1> QED  BY <1>1, <1>2, TypeCorrect, LockCorrect, JobsCorrect, PTL DEF Spec

\* No accepted scan is forgotten: as long as it is PENDING its job is queued, in a
\* worker's hands or recorded as lost, or its creation was never answered 201,
\* whatever crashes or goes down in between.
THEOREM NoForgottenCorrect == Spec => []NoForgottenScan
<1>1. DeliveryInv => NoForgottenScan
  BY DEF DeliveryInv, PendingRemembered, Remembered, Unanswered, NoForgottenScan
<1> QED  BY <1>1, DeliveryInvariant, PTL


-----------------------------------------------------------------------------
(* Committed rows are whole *)

\* The statuses a stage leaves behind that was skipped or has run.
Ended(st) == st \in { {"SKIPPED"}, {"RUNNING", "COMPLETED"}, {"RUNNING", "FAILED"} }

\* The pipeline has come to stage n, which has left x so far.
ReachedIn(stages, n, x) ==
    /\ n \in Stages
    /\ \A s \in Stages :
          /\ s < n => Ended(stages[s])
          /\ s = n => stages[s] = x
          /\ s > n => stages[s] = {}

AllEnded(stages) == \A s \in Stages : Ended(stages[s])

\* It went through all stages, or stopped before one, or at a cancelled one.
Recorded(stages) ==
    \/ AllEnded(stages)
    \/ \E n \in Stages : ReachedIn(stages, n, {}) \/ ReachedIn(stages, n, {"CANCELLED"})

\* The uncommitted row of a worker at each point of the pipeline.  A stage was cut
\* by a key that stands, or has been lost, when the pipeline asks for it again.
DraftAt(w) ==
    /\ worker[w].pc = "loop" => ReachedIn(draft.stages, Cur(w), {})
    /\ worker[w].pc = "run" => ReachedIn(draft.stages, Cur(w), {"RUNNING"})
    /\ worker[w].pc = "final" =>
          \/ AllEnded(draft.stages)
          \/ /\ ReachedIn(draft.stages, Cur(w), {"CANCELLED"})
             /\ Job(w) \in cancelKeys \cup lostKeys
    /\ worker[w].pc = "commit" =>
          /\ Recorded(draft.stages)
          /\ draft.status = "COMPLETE" => AllEnded(draft.stages) \/ Job(w) \in lostKeys

DraftIsWhole == \A w \in Workers : DraftAt(w)

RowIsWhole(i) ==
    /\ scans[i].status \in {"PENDING"} \cup Terminal
    /\ scans[i].status = "PENDING" => scans[i].stages = NoStages
    /\ Recorded(scans[i].stages)
    /\ scans[i].status = "COMPLETE" /\ i \notin lostKeys => AllEnded(scans[i].stages)

RowsAreWhole == \A i \in ScanIds : RowIsWhole(i)

LEMMA StageNumbers == Len(Profile) \in Nat /\ Stages = 1 .. Len(Profile)
BY ProfileAssumption, LenProperties DEF Stages

LEMMA EndedMeans ==
    ASSUME NEW st, AllEnded(st)
    PROVE  \A s \in Stages : st[s] # {} /\ "CANCELLED" \notin st[s]
<1>1. \A x : Ended(x) => x # {} /\ "CANCELLED" \notin x
  BY DEF Ended
<1> QED  BY <1>1 DEF AllEnded

LEMMA RecordedMeans ==
    ASSUME NEW st, Recorded(st)
    PROVE  /\ \A s \in Stages : st[s] # {} => Cardinality(st[s] \ {"RUNNING"}) = 1
           /\ \A s, t \in Stages :
                 s < t /\ st[t] # {} => st[s] # {} /\ "CANCELLED" \notin st[s]
<1>1. \A x : Ended(x) \/ x = {"CANCELLED"} => Cardinality(x \ {"RUNNING"}) = 1
  <2> SUFFICES ASSUME NEW x, Ended(x) \/ x = {"CANCELLED"}
               PROVE  Cardinality(x \ {"RUNNING"}) = 1
    OBVIOUS
  <2>1. PICK o : x \ {"RUNNING"} = {o}
    BY DEF Ended
  <2> QED  BY <2>1, FS_Singleton
<1>2. \A x : Ended(x) => x # {} /\ "CANCELLED" \notin x
  BY DEF Ended
<1>3. CASE AllEnded(st)
  BY <1>1, <1>2, <1>3 DEF AllEnded
<1>4. ASSUME NEW n \in Stages, NEW x \in {{}, {"CANCELLED"}}, ReachedIn(st, n, x)
      PROVE  /\ \A s \in Stages : st[s] # {} => Cardinality(st[s] \ {"RUNNING"}) = 1
             /\ \A s, t \in Stages :
                   s < t /\ st[t] # {} => st[s] # {} /\ "CANCELLED" \notin st[s]
  <2>1. \A s \in Stages : s < n \/ s = n \/ s > n
    BY StageNumbers
  <2>2. \A s, t \in Stages : s < t /\ ~ (t > n) => s < n
    BY StageNumbers
  <2> QED  BY <1>1, <1>2, <1>4, <2>1, <2>2 DEF ReachedIn
<1> QED  BY <1>3, <1>4 DEF Recorded

LEMMA WholeMeans == RowsAreWhole => CommittedRowsAreWhole
<1> SUFFICES ASSUME RowsAreWhole, NEW i \in ScanIds
             PROVE  LET st == scans[i].stages
                    IN  /\ scans[i].status \in {"PENDING"} \cup Terminal
                        /\ scans[i].status = "PENDING" => st = NoStages
                        /\ \A s \in Stages :
                              st[s] # {} => Cardinality(st[s] \ {"RUNNING"}) = 1
                        /\ \A s, t \in Stages :
                              s < t /\ st[t] # {} => st[s] # {} /\ "CANCELLED" \notin st[s]
                        /\ scans[i].status = "COMPLETE" /\ i \notin lostKeys =>
                              \A s \in Stages : st[s] # {} /\ "CANCELLED" \notin st[s]
  BY DEF CommittedRowsAreWhole
<1>1. RowIsWhole(i)
  BY DEF RowsAreWhole
<1>2. AllEnded(scans[i].stages) =>
          \A s \in Stages : scans[i].stages[s] # {} /\ "CANCELLED" \notin scans[i].stages[s]
  BY EndedMeans
<1> QED  BY <1>1, <1>2, RecordedMeans DEF RowIsWhole

\* A status more for the stage that the pipeline has come to.
LEMMA StageWritten ==
    ASSUME NEW st \in [Stages -> SUBSET StageStatus], NEW n, NEW x, ReachedIn(st, n, x),
           NEW y, NEW st2, st2 = [st EXCEPT ![n] = @ \cup {y}]
    PROVE  ReachedIn(st2, n, x \cup {y})
<1>1. n \in Stages /\ \A s \in Stages : s # n => st2[s] = st[s]
  BY DEF ReachedIn
<1>2. st2[n] = x \cup {y}
  BY <1>1 DEF ReachedIn
<1>3. \A s \in Stages : s < n \/ s > n => s # n
  BY StageNumbers
<1> QED  BY <1>1, <1>2, <1>3 DEF ReachedIn

\* From a stage that has ended to the next one, or to the end.
LEMMA StageLeft ==
    ASSUME NEW st, NEW n, NEW x, ReachedIn(st, n, x), Ended(x)
    PROVE  /\ n = Len(Profile) => AllEnded(st)
           /\ n # Len(Profile) => ReachedIn(st, n + 1, {})
<1>1. n \in 1 .. Len(Profile) /\ Len(Profile) \in Nat /\ Stages = 1 .. Len(Profile)
  BY StageNumbers DEF ReachedIn
<1>2. CASE n = Len(Profile)
  <2>1. \A s \in Stages : s < n \/ s = n
    BY <1>1, <1>2
  <2> QED  BY <1>2, <2>1 DEF ReachedIn, AllEnded
<1>3. CASE n # Len(Profile)
  <2>1. n + 1 \in Stages
    BY <1>1, <1>3
  <2>2. \A s \in Stages : (s < n + 1 => s < n \/ s = n) /\ (s = n + 1 => s > n)
                          /\ (s > n + 1 => s > n)
    BY <1>1
  <2> QED  BY <1>3, <2>1, <2>2 DEF ReachedIn
<1> QED  BY <1>2, <1>3

\* Before the first stage nothing is recorded.
LEMMA NothingRecorded ==
    /\ Profile = <<>> => AllEnded(NoStages)
    /\ Profile # <<>> => ReachedIn(NoStages, 1, {})
    /\ Recorded(NoStages)
<1>1. CASE Profile = <<>>
  <2>1. Stages = {}
    BY <1>1, StageNumbers
  <2> QED  BY <1>1, <2>1 DEF AllEnded, Recorded
<1>2. CASE Profile # <<>>
  <2>1. Len(Profile) \in Nat \ {0}
    BY <1>2, ProfileAssumption, EmptySeq
  <2>2. 1 \in Stages /\ \A s \in Stages : ~ (s < 1)
    BY <2>1, StageNumbers
  <2>3. ReachedIn(NoStages, 1, {})
    BY <2>2 DEF ReachedIn, NoStages
  <2> QED  BY <1>2, <2>2, <2>3 DEF Recorded
<1> QED  BY <1>1, <1>2

-----------------------------------------------------------------------------
(* The draft *)

\* A key that a worker has seen stands, or is lost, as long as it holds the job.
LEMMA KeySeen ==
    ASSUME Given, [Next]_vars, NEW v \in Workers, NEW i \in ScanIds, Job(v) = i,
           worker[v].pc # "clear", i \in cancelKeys \cup lostKeys
    PROVE  i \in cancelKeys' \cup lostKeys'
<1>1. i # 0
  BY DEF ScanIds
<1>2. \A w \in Workers : ~ (ClearCancelled(w) /\ Job(w) = i)
  BY <1>1 DEF Given, JobInv, OneJobPerScan, ClearCancelled
<1> QED  BY <1>2, KeyFacts, LossFacts DEF Given

\* A worker that does nothing, or is only told to stop.
LEMMA DraftStays ==
    ASSUME Given, [Next]_vars, NEW v \in Workers, DraftAt(v), draft' = draft,
           worker'[v].pc = worker[v].pc, worker'[v].job = worker[v].job,
           worker'[v].seq = worker[v].seq
    PROVE  DraftAt(v)'
<1>1. PICK i : Job(v) = i /\ Job(v)' = i
  BY DEF Job
<1>2. lostKeys \subseteq lostKeys'
  BY LossFacts DEF Given
<1>3. worker[v].pc = "final" /\ i \in cancelKeys \cup lostKeys => i \in cancelKeys' \cup lostKeys'
  <2> SUFFICES ASSUME worker[v].pc = "final", i \in cancelKeys \cup lostKeys
               PROVE  i \in cancelKeys' \cup lostKeys'
    OBVIOUS
  <2>1. i \in ScanIds
    BY <1>1 DEF Given, DeliveryInv, WorkersHold
  <2> QED  BY <1>1, <2>1, KeySeen
<1>4. Cur(v)' = Cur(v)
  BY DEF Cur
<1> QED  BY <1>1, <1>2, <1>3, <1>4 DEF DraftAt

LEMMA PipelineDrafts ==
    ASSUME Given, NEW w \in Workers, PipelineStep(w), DraftAt(w)
    PROVE  DraftAt(w)'
<1> USE DEF Given
<1>0. /\ draft \in Row /\ draft.stages \in [Stages -> SUBSET StageStatus]
      /\ worker[w] \in WorkerState /\ lostKeys' = lostKeys /\ cancelKeys' = cancelKeys
  BY DEF TypeOK, Row, PipelineStep, StageSkipped, StageBegins, StageEnds, StageCancelled,
     PipelineFinalize, PipelineError, InPipeline, redisVars, history
<1>1. PICK n, i : n = Cur(w) /\ i = Job(w)
  OBVIOUS
<1> DEFINE st == draft.stages
<1>2. ASSUME NEW pc, NEW seq, SetWorker(w, pc, Job(w), seq)
      PROVE  worker'[w].pc = pc /\ Job(w)' = i /\ Cur(w)' = seq
  BY <1>1, <1>2 DEF SetWorker, Job, Cur, TypeOK, WorkerState
<1>3. ASSUME NEW x, ReachedIn(draft'.stages, n, x), Ended(x), NextStage(w)
      PROVE  DraftAt(w)'
  <2>1. CASE n = Len(Profile)
    <3>1. worker'[w].pc = "final" /\ AllEnded(draft'.stages)
      BY <1>1, <1>2, <1>3, <2>1, StageLeft DEF NextStage
    <3> QED  BY <3>1 DEF DraftAt
  <2>2. CASE n # Len(Profile)
    <3>1. worker'[w].pc = "loop" /\ Cur(w)' = n + 1 /\ ReachedIn(draft'.stages, n + 1, {})
      BY <1>1, <1>2, <1>3, <2>2, StageLeft DEF NextStage
    <3> QED  BY <3>1 DEF DraftAt
  <2> QED  BY <2>1, <2>2
<1>4. CASE StageSkipped(w)
  <2>1. ReachedIn(st, n, {}) /\ NextStage(w)
    BY <1>1, <1>4 DEF StageSkipped, InPipeline, DraftAt
  <2>2. draft'.stages = [st EXCEPT ![n] = @ \cup {"SKIPPED"}]
    BY <1>0, <1>1, <1>4 DEF StageSkipped, SetStage, WithStage, Row
  <2>3. ReachedIn(draft'.stages, n, {} \cup {"SKIPPED"})
    BY <1>0, <2>1, <2>2, StageWritten
  <2> QED  BY <1>3, <2>1, <2>3 DEF Ended
<1>5. CASE StageBegins(w)
  <2>1. ReachedIn(st, n, {})
    BY <1>1, <1>5 DEF StageBegins, InPipeline, DraftAt
  <2>2. draft'.stages = [st EXCEPT ![n] = @ \cup {"RUNNING"}]
    BY <1>1, <1>5 DEF StageBegins, SetStageAndStatus, WithStage
  <2>3. ReachedIn(draft'.stages, n, {} \cup {"RUNNING"})
    BY <1>0, <2>1, <2>2, StageWritten
  <2>4. worker'[w].pc = "run" /\ Cur(w)' = n
    BY <1>1, <1>2, <1>5 DEF StageBegins
  <2> QED  BY <2>3, <2>4 DEF DraftAt
<1>6. CASE StageEnds(w)
  <2>1. ReachedIn(st, n, {"RUNNING"}) /\ NextStage(w)
    BY <1>1, <1>6 DEF StageEnds, InPipeline, DraftAt
  <2>2. PICK outcome \in {"COMPLETED", "FAILED"} : SetStage(w, outcome)
    BY <1>6 DEF StageEnds
  <2>3. draft'.stages = [st EXCEPT ![n] = @ \cup {outcome}]
    BY <1>0, <1>1, <2>2 DEF SetStage, WithStage, Row
  <2>4. ReachedIn(draft'.stages, n, {"RUNNING"} \cup {outcome})
    BY <1>0, <2>1, <2>3, StageWritten
  <2>5. Ended({"RUNNING"} \cup {outcome})
    BY DEF Ended
  <2> QED  BY <1>3, <2>1, <2>4, <2>5
<1>7. CASE StageCancelled(w)
  <2>1. ReachedIn(st, n, {}) /\ i \in cancelKeys
    BY <1>1, <1>7 DEF StageCancelled, InPipeline, DraftAt, CancelSeen
  <2>2. draft'.stages = [st EXCEPT ![n] = @ \cup {"CANCELLED"}]
    BY <1>1, <1>7 DEF StageCancelled, SetStageAndStatus, WithStage
  <2>3. ReachedIn(draft'.stages, n, {} \cup {"CANCELLED"})
    BY <1>0, <2>1, <2>2, StageWritten
  <2>4. worker'[w].pc = "final" /\ Cur(w)' = n /\ Job(w)' = i
    BY <1>1, <1>2, <1>7 DEF StageCancelled
  <2> QED  BY <1>0, <2>1, <2>3, <2>4 DEF DraftAt
<1>8. ASSUME draft'.stages = st, worker[w].pc \in {"loop", "final"}
      PROVE  Recorded(draft'.stages)
  BY <1>1, <1>8 DEF DraftAt, Recorded, ReachedIn
<1>9. CASE PipelineFinalize(w)
  <2>1. /\ worker[w].pc = "final" /\ worker'[w].pc = "commit" /\ Job(w)' = i
        /\ draft'.stages = st
        /\ draft'.status = "COMPLETE" => i \notin cancelKeys
    BY <1>0, <1>1, <1>2, <1>9 DEF PipelineFinalize, InPipeline, CancelSeen, Row
  <2> QED  BY <1>0, <1>1, <1>8, <2>1 DEF DraftAt
<1>10. CASE PipelineError(w)
  <2>1. /\ worker[w].pc \in {"loop", "final"} /\ worker'[w].pc = "commit"
        /\ draft'.stages = st /\ draft'.status = "FAILED"
    BY <1>0, <1>2, <1>10 DEF PipelineError, InPipeline, Row
  <2> QED  BY <1>8, <2>1 DEF DraftAt
<1> QED  BY <1>4, <1>5, <1>6, <1>7, <1>9, <1>10 DEF PipelineStep

LEMMA DraftIsWholeStep ==
    ASSUME Given, DraftIsWhole, [Next]_vars
    PROVE  DraftIsWhole'
<1> SUFFICES ASSUME NEW v \in Workers PROVE DraftAt(v)'
  BY DEF DraftIsWhole
<1> USE DEF Given
<1>0. DraftAt(v)
  BY DEF DraftIsWhole
<1>1. ASSUME worker' = worker, draft' = draft
      PROVE  DraftAt(v)'
  BY <1>0, <1>1, DraftStays
<1>2. ASSUME NEW r \in Requests, RequestArrives(r) \/ RequestStep(r)
      PROVE  worker' = worker /\ draft' = draft
  BY <1>2, RequestFacts
<1>3. ASSUME OutsideFault \/ RedisComesBack \/ UNCHANGED vars
      PROVE  worker' = worker /\ draft' = draft
  BY <1>3, OutsideFacts
<1>4. ASSUME NEW w \in Workers, WorkerStep(w) \/ ContainerStep(w)
      PROVE  DraftAt(v)'
  <2>1. CASE v # w
    <3>1. worker'[v] = worker[v]
      BY <1>4, <2>1, WorkerFacts
    <3>2. CASE worker[v].pc \in {"loop", "run", "final", "commit"}
      <4>1. draft' = draft
        BY <1>4, <2>1, <3>2, DraftKept DEF LockIsPipeline
      <4> QED  BY <1>0, <3>1, <4>1, DraftStays
    <3>3. CASE worker[v].pc \notin {"loop", "run", "final", "commit"}
      BY <3>1, <3>3 DEF DraftAt
    <3> QED  BY <3>2, <3>3
  <2>2. CASE v = w /\ PipelineStep(w)
    BY <1>0, <2>2, PipelineDrafts
  <2>3. CASE v = w /\ PipelineBegin(w)
    <3>1. /\ draft'.stages = NoStages
          /\ worker'[w].pc = IF Profile = <<>> THEN "final" ELSE "loop"
          /\ worker'[w].seq = 1
      BY <2>3 DEF PipelineBegin, SetWorker, TypeOK, WorkerState
    <3> QED  BY <2>3, <3>1, NothingRecorded DEF DraftAt, Cur
  <2>4. CASE v = w /\ (HandleSignal(w) \/ OperatorStarts(w))
    <3>1. CASE worker'[w].pc = worker[w].pc
      <4>1. /\ draft' = draft /\ worker'[w].job = worker[w].job
            /\ worker'[w].seq = worker[w].seq
        BY <2>4, SignalFacts
      <4> QED  BY <1>0, <2>4, <3>1, <4>1, DraftStays
    <3>2. CASE worker'[w].pc \in {"down", "stopped"}
      BY <2>4, <3>2 DEF DraftAt
    <3> QED  BY <2>4, <3>1, <3>2, SignalFacts
  <2>5. CASE /\ v = w /\ ~ PipelineStep(w) /\ ~ PipelineBegin(w)
             /\ ~ HandleSignal(w) /\ ~ OperatorStarts(w)
    <3>1. worker'[w].pc \notin {"loop", "run", "final", "commit"}
      <4>1. CASE WorkerCrash(w) \/ WorkerStops(w)
        BY <4>1 DEF WorkerCrash, WorkerStops, IdleWorker, TypeOK, WorkerState
      <4>2. CASE ~ WorkerCrash(w) /\ ~ WorkerStops(w)
        <5>1. \/ WorkerStart(w) \/ DequeueScan(w) \/ ProcessScan(w)
              \/ PipelineBeginLocked(w) \/ SessionBreaks(w) \/ CommitScan(w)
              \/ ClearCancelled(w) \/ MarkFailed(w) \/ MarkFailedLocked(w)
          BY <1>4, <2>5, <4>2 DEF WorkerStep, ContainerStep
        <5>2. CASE WorkerStart(w)
          BY <5>2 DEF WorkerStart, TypeOK, WorkerState
        <5>3. CASE ~ WorkerStart(w)
          <6>1. \E pc \in {"read", "poll", "begin", "recover", "clear"} : \E job, seq :
                    SetWorker(w, pc, job, seq)
            BY <5>1, <5>3 DEF DequeueScan, ProcessScan, PipelineBeginLocked, SessionBreaks,
               CommitScan, ClearCancelled, MarkFailed, MarkFailedLocked
          <6> QED  BY <6>1 DEF SetWorker, TypeOK, WorkerState
        <5> QED  BY <5>2, <5>3
      <4> QED  BY <4>1, <4>2
    <3> QED  BY <2>5, <3>1 DEF DraftAt
  <2> QED  BY <2>1, <2>2, <2>3, <2>4, <2>5
<1> QED  BY <1>1, <1>2, <1>3, <1>4 DEF Next

\* A row is written by the commit of a whole draft; the other two writes change
\* nothing but its status.
LEMMA RowsAreWholeStep ==
    ASSUME Given, DraftIsWhole, RowsAreWhole, [Next]_vars
    PROVE  RowsAreWhole'
<1> USE DEF Given
<1> SUFFICES ASSUME NEW i \in ScanIds' PROVE RowIsWhole(i)'
  BY DEF RowsAreWhole
<1>0. lostKeys \subseteq lostKeys'
  BY LossFacts
<1>1. CASE i \notin ScanIds
  <2>1. scans'[i] = NoDraft
    BY <1>1, RowChange
  <2> QED  BY <2>1, NothingRecorded DEF RowIsWhole, NoDraft
<1>2. CASE i \in ScanIds
  <2>1. RowIsWhole(i) /\ scans[i] \in Row
    BY <1>2, ElementOfSeq DEF RowsAreWhole, TypeOK, ScanIds
  <2>2. CASE scans'[i] = scans[i]
    BY <1>0, <2>1, <2>2 DEF RowIsWhole
  <2>3. ASSUME NEW st \in {"CANCELLED", "FAILED"}, scans'[i] = [scans[i] EXCEPT !.status = st]
        PROVE  RowIsWhole(i)'
    <3>1. scans'[i].status = st /\ scans'[i].stages = scans[i].stages
      BY <2>1, <2>3 DEF Row
    <3> QED  BY <2>1, <2>3, <3>1 DEF RowIsWhole, Terminal
  <2>4. ASSUME NEW w \in Workers, CommitScan(w), Job(w) = i, scans'[i] = draft
        PROVE  RowIsWhole(i)'
    <3>1. DraftAt(w) /\ worker[w].pc = "commit" /\ draft.status \in Terminal
      BY <2>4 DEF DraftIsWhole, CommitScan, DeliveryInv, CommitDecided
    <3>2. /\ Recorded(draft.stages)
          /\ draft.status = "COMPLETE" => AllEnded(draft.stages) \/ i \in lostKeys
      BY <2>4, <3>1 DEF DraftAt
    <3>3. draft.status # "PENDING"
      BY <3>1 DEF Terminal
    <3> QED  BY <1>0, <2>4, <3>1, <3>2, <3>3 DEF RowIsWhole
  <2> QED  BY <1>2, <2>2, <2>3, <2>4, RowChange
<1> QED  BY <1>1, <1>2

\* Committed rows are settled or untouched, their stages a prefix of the profile
\* in which every stage that was begun has one outcome, and a COMPLETE scan went
\* through all of them unless the key that cut it short was lost.
THEOREM RowsAreWholeCorrect == Spec => []CommittedRowsAreWhole
<1>1. Init => DraftIsWhole /\ RowsAreWhole
  <2> SUFFICES ASSUME Init PROVE DraftIsWhole /\ RowsAreWhole
    OBVIOUS
  <2>1. ScanIds = {} /\ \A w \in Workers : worker[w].pc = "down"
    BY DEF Init, ScanIds, IdleWorker
  <2> QED  BY <2>1 DEF DraftIsWhole, DraftAt, RowsAreWhole
<1>2. /\ TypeOK /\ TypeOK' /\ LockIsPipeline /\ JobInv /\ DeliveryInv
      /\ DraftIsWhole /\ RowsAreWhole /\ [Next]_vars
      => DraftIsWhole' /\ RowsAreWhole'
  BY DraftIsWholeStep, RowsAreWholeStep DEF Given
<1> QED
  BY <1>1, <1>2, WholeMeans, TypeCorrect, LockCorrect, JobsCorrect, DeliveryInvariant, PTL
  DEF Spec

-----------------------------------------------------------------------------
(* What fails a scan *)

\* docker-compose.yml runs one worker: nobody else can hold the write lock when its
\* pipeline begins.
OneWorker == \A v, w \in Workers : v = w

\* Nobody will process the scan again.
Closed(i) ==
    ~ Undecided(i) /\ \A w \in Workers : Job(w) = i => worker[w].pc = "clear"

Undisturbed ==
    faults = 0 =>
        /\ redisUp
        /\ draft.status # "FAILED"
        /\ \A w \in Workers : worker[w].pc = "recover" => Job(w) \in broken
        /\ \A i \in ScanIds : scans[i].stages # NoStages => Closed(i)
        /\ \A i \in ScanIds :
              scans[i].status = "FAILED" => i \in broken /\ scans[i].stages = NoStages

\* A first fault is counted, so nothing was disturbed before a step without one.
LEMMA NoFault ==
    ASSUME TypeOK, [Next]_vars, faults' = 0
    PROVE  /\ faults = 0 /\ ~ OutsideFault
           /\ \A w \in Workers : ~ HandleSignal(w) /\ ~ WorkerCrash(w)
<1>1. faults \in Nat /\ \A kind : Fault(kind) => faults' = faults + 1
  BY FaultsAssumption DEF TypeOK, Fault
<1>2. \A kind : ~ Fault(kind)
  BY <1>1
<1>3. ~ OutsideFault /\ \A w \in Workers : ~ HandleSignal(w) /\ ~ WorkerCrash(w)
  BY <1>2 DEF OutsideFault, PanelCrash, RedisGoesDown, CancelKeyExpires, HandleSignal,
     WorkerCrash
<1>4. \A r \in Requests : RequestArrives(r) \/ RequestStep(r) => faults' = faults
  BY DEF RequestArrives, RequestStep, CreateScan, CreateScanRejected, CreateScanInsert,
     CancelScan, CancelScanRejected, CreateScanInsertFails, EnqueueScan, SetCancelled,
     PublishCancel, CancelScanUpdate, CancelScanLocked, history
<1>5. \A w \in Workers : WorkerStep(w) \/ OperatorStarts(w) => faults' = faults
  BY DEF WorkerStep, WorkerStart, DequeueScan, WorkerStops, ProcessScan, PipelineBegin,
     PipelineBeginLocked, SessionBreaks, CommitScan, ClearCancelled, MarkFailed,
     MarkFailedLocked, PipelineStep, StageSkipped, StageBegins, StageEnds, StageCancelled,
     PipelineFinalize, PipelineError, InPipeline, OperatorStarts, history
<1>6. RedisComesBack \/ UNCHANGED vars => faults' = faults
  BY DEF RedisComesBack, vars
<1> QED  BY <1>3, <1>4, <1>5, <1>6 DEF Next, ContainerStep

\* Where a worker that no fault disturbs can come to after its step.
LEMMA QuietWorker ==
    ASSUME Given, Undisturbed, OneWorker, "stored_scope" \in Repairs, faults = 0,
           NEW w \in Workers, WorkerStep(w) \/ OperatorStarts(w)
    PROVE  /\ redisUp' = redisUp /\ draft'.status # "FAILED" /\ broken \subseteq broken'
           /\ worker'[w].pc = "recover" =>
                 worker[w].pc \in Deciding /\ Job(w)' = Job(w) /\ Job(w) \in broken'
           /\ worker'[w].pc = "commit" => worker[w].pc \in Deciding /\ Job(w)' = Job(w)
<1> USE DEF Given, Deciding
<1>0. /\ redisUp /\ draft.status # "FAILED" /\ worker[w] \in WorkerState
  BY DEF Undisturbed, TypeOK
<1>1. redisUp' = redisUp /\ broken \subseteq broken'
  BY DEF WorkerStep, WorkerStart, DequeueScan, WorkerStops, ProcessScan,
     PipelineBegin, PipelineBeginLocked, SessionBreaks, CommitScan, ClearCancelled,
     MarkFailed, MarkFailedLocked, PipelineStep, StageSkipped, StageBegins, StageEnds,
     StageCancelled, PipelineFinalize, PipelineError, InPipeline, OperatorStarts,
     redisVars, history
<1>2. CASE PipelineStep(w)
  <2>1. ~ PipelineError(w)
    BY <1>0 DEF PipelineError
  <2>2. worker[w].pc \in Deciding
    BY <1>2 DEF PipelineStep, StageSkipped, StageBegins, StageEnds, StageCancelled,
       PipelineFinalize, PipelineError, InPipeline
  <2>3. \E pc \in {"loop", "run", "final", "commit"} : \E seq :
            SetWorker(w, pc, Job(w), seq)
    BY <1>2 DEF PipelineStep, StageSkipped, StageBegins, StageEnds, StageCancelled,
       PipelineFinalize, PipelineError, NextStage
  <2>4. worker'[w].pc # "recover" /\ Job(w)' = Job(w)
    BY <2>3 DEF SetWorker, Job, TypeOK, WorkerState
  <2>5. \A name : StatusForStage(name) # "FAILED"
    BY DEF StatusForStage
  <2>6. draft'.status # "FAILED"
    BY <1>0, <1>2, <2>1, <2>5 DEF PipelineStep, StageSkipped, StageBegins, StageEnds,
       StageCancelled, PipelineFinalize, SetStage, SetStageAndStatus, TypeOK, Row
  <2> QED  BY <1>1, <2>2, <2>4, <2>6
<1>3. CASE SessionBreaks(w)
  BY <1>1, <1>3 DEF SessionBreaks, NoDraft, SetWorker, Job, TypeOK, WorkerState
<1>4. CASE ProcessScan(w) \/ PipelineBegin(w) \/ ClearCancelled(w)
  BY <1>0, <1>1, <1>4 DEF ProcessScan, PipelineBegin, ClearCancelled, SetWorker, TypeOK,
     WorkerState, dbVars
<1>5. CASE WorkerStart(w) \/ DequeueScan(w)
  BY <1>0, <1>1, <1>5 DEF WorkerStart, DequeueScan, SetWorker, TypeOK, WorkerState, dbVars
<1>6. CASE WorkerStops(w)
  BY <1>0, <1>1, <1>6 DEF WorkerStops, IdleWorker, TypeOK, WorkerState, dbVars
<1>7. CASE OperatorStarts(w)
  BY <1>0, <1>1, <1>7 DEF OperatorStarts, TypeOK, WorkerState, dbVars
<1>8. CASE CommitScan(w) \/ MarkFailed(w) \/ MarkFailedLocked(w)
  BY <1>0, <1>1, <1>8 DEF CommitScan, MarkFailed, MarkFailedLocked, NoDraft, SetWorker,
     TypeOK, WorkerState, dbVars
<1>9. ~ PipelineBeginLocked(w)
  BY DEF PipelineBeginLocked, LockIsPipeline, TypeOK, OneWorker
<1> QED
  BY <1>2, <1>3, <1>4, <1>5, <1>6, <1>7, <1>8, <1>9 DEF WorkerStep

\* Without a fault a scan that is closed stays so.
LEMMA ClosedStays ==
    ASSUME Given, [Next]_vars, Undisturbed, OneWorker, "stored_scope" \in Repairs,
           faults' = 0, NEW i \in ScanIds, Closed(i)
    PROVE  Closed(i)'
<1> USE DEF Given
<1>0. i # 0 /\ WorkersHold'
  BY WorkersHoldStep DEF ScanIds
<1>1. ASSUME NEW w \in Workers, WorkerStep(w) \/ OperatorStarts(w)
      PROVE  Closed(i)'
  <2>1. ~ Undecided(i)'
    BY <1>1, WorkerUndecided DEF Closed, ContainerStep
  <2>2. faults = 0
    BY NoFault
  <2>3. ASSUME Job(w)' = i PROVE worker'[w].pc = "clear"
    <3>1. worker'[w].pc \notin Deciding
      BY <2>1, <2>3 DEF Undecided
    <3>2. worker'[w].pc \notin {"commit", "recover"}
      BY <1>1, <2>2, <2>3, QuietWorker DEF Closed, Undecided
    <3>3. worker'[w].pc \notin {"poll", "down", "stopped"}
      BY <1>0, <2>3 DEF WorkersHold
    <3>4. worker'[w].pc \in WorkerPC
      BY DEF TypeOK, WorkerState
    <3> QED  BY <3>1, <3>2, <3>3, <3>4 DEF Deciding, WorkerPC
  <2> QED  BY <2>1, <2>3 DEF Closed, OneWorker
<1>2. ASSUME NEW r \in Requests, RequestArrives(r) \/ RequestStep(r)
      PROVE  Closed(i)'
  <2>1. worker' = worker
    BY <1>2, RequestFacts
  <2>2. ~ (CreateScanInsert(r) /\ i = req[r].scan)
    BY DEF CreateScanInsert
  <2>3. ~ Undecided(i)'
    BY <1>2, <2>2, RequestUndecided DEF Closed
  <2> QED  BY <2>1, <2>3 DEF Closed, Job
<1>3. ASSUME RedisComesBack \/ UNCHANGED vars
      PROVE  Closed(i)'
  BY <1>3, OutsideFacts DEF Closed, Job
<1> QED  BY <1>1, <1>2, <1>3, NoFault DEF Next, ContainerStep

\* The commit is the last that is done to a scan but for its key.
LEMMA CommitCloses ==
    ASSUME Given, NEW w \in Workers, CommitScan(w), OneWorker
    PROVE  Closed(Job(w))'
<1> USE DEF Given
<1>1. PICK i : i = Job(w)
  OBVIOUS
<1>2. /\ worker'[w].pc = "clear" /\ Job(w)' = i /\ worker[w].pc = "commit"
      /\ queue' = queue /\ req' = req
  BY <1>1 DEF CommitScan, SetWorker, Job, TypeOK, WorkerState, redisVars
<1>3. i # 0
  BY <1>1, <1>2 DEF DeliveryInv, WorkersHold, ScanIds
<1>4. ~ Queued(i) /\ \A r \in Requests : BeingEnqueued(r) => req[r].scan # i
  BY <1>1 DEF JobInv, OneJobPerScan, Held
<1>5. ~ Queued(i)' /\ \A r \in Requests : BeingEnqueued(r)' => req'[r].scan # i
  BY <1>2, <1>4 DEF Queued, BeingEnqueued
<1>6. \A v \in Workers : v = w
  BY DEF OneWorker
<1> QED  BY <1>2, <1>5, <1>6 DEF Closed, Undecided, Deciding

LEMMA UndisturbedStep ==
    ASSUME Given, Undisturbed, [Next]_vars, OneWorker, "stored_scope" \in Repairs
    PROVE  Undisturbed'
<1> USE DEF Given
<1> SUFFICES ASSUME faults' = 0
             PROVE  /\ redisUp'
                    /\ draft'.status # "FAILED"
                    /\ \A w \in Workers : worker'[w].pc = "recover" => Job(w)' \in broken'
                    /\ \A i \in ScanIds' : scans'[i].stages # NoStages => Closed(i)'
                    /\ \A i \in ScanIds' :
                          scans'[i].status = "FAILED" =>
                              i \in broken' /\ scans'[i].stages = NoStages
  BY DEF Undisturbed
<1>1. faults = 0
  BY NoFault
<1>2. /\ redisUp /\ draft.status # "FAILED"
      /\ \A w \in Workers : worker[w].pc = "recover" => Job(w) \in broken
      /\ \A i \in ScanIds : scans[i].stages # NoStages => Closed(i)
      /\ \A i \in ScanIds :
            scans[i].status = "FAILED" => i \in broken /\ scans[i].stages = NoStages
  BY <1>1 DEF Undisturbed
<1>3. /\ redisUp' /\ draft'.status # "FAILED" /\ broken \subseteq broken'
      /\ \A w \in Workers : worker'[w].pc = "recover" => Job(w)' \in broken'
  <2>1. ASSUME NEW w \in Workers, WorkerStep(w) \/ OperatorStarts(w)
        PROVE  /\ redisUp' = redisUp /\ draft'.status # "FAILED" /\ broken \subseteq broken'
               /\ worker'[w].pc = "recover" => Job(w)' \in broken'
    BY <1>1, <2>1, QuietWorker
  <2>2. ASSUME NEW r \in Requests, RequestArrives(r) \/ RequestStep(r)
        PROVE  worker' = worker /\ draft' = draft /\ redisUp' = redisUp /\ broken' = broken
    <3>1. redisUp' = redisUp /\ broken' = broken
      BY <2>2 DEF RequestArrives, RequestStep, CreateScan, CreateScanRejected,
         CreateScanInsert, CancelScan, CancelScanRejected, CreateScanInsertFails,
         EnqueueScan, SetCancelled, PublishCancel, CancelScanUpdate, CancelScanLocked,
         redisVars, history
    <3> QED  BY <2>2, <3>1, RequestFacts
  <2>3. RedisComesBack \/ UNCHANGED vars =>
            /\ worker' = worker /\ draft' = draft /\ broken' = broken
            /\ redisUp' \/ redisUp' = redisUp
    BY DEF RedisComesBack, vars, dbVars
  <2>4. CASE \E w \in Workers : WorkerStep(w) \/ OperatorStarts(w)
    BY <1>2, <2>1, <2>4 DEF OneWorker
  <2>5. CASE \E r \in Requests : RequestArrives(r) \/ RequestStep(r)
    BY <1>2, <2>2, <2>5 DEF Job
  <2>6. CASE RedisComesBack \/ UNCHANGED vars
    BY <1>2, <2>3, <2>6 DEF Job
  <2> QED  BY <2>4, <2>5, <2>6, NoFault DEF Next, ContainerStep
<1>4. ASSUME NEW i \in ScanIds'
      PROVE  /\ scans'[i].stages # NoStages => Closed(i)'
             /\ scans'[i].status = "FAILED" => i \in broken' /\ scans'[i].stages = NoStages
  <2>1. i \in ScanIds => scans[i] \in Row
    BY ElementOfSeq DEF TypeOK, ScanIds
  <2>2. CASE i \notin ScanIds /\ scans'[i] = NoDraft
    BY <2>2 DEF NoDraft
  <2>3. CASE i \in ScanIds /\ scans'[i] = scans[i]
    BY <1>2, <1>3, <2>3, ClosedStays
  <2>4. CASE i \in ScanIds /\ scans'[i] = [scans[i] EXCEPT !.status = "CANCELLED"]
    <3>1. scans'[i].status = "CANCELLED" /\ scans'[i].stages = scans[i].stages
      BY <2>1, <2>4 DEF Row
    <3> QED  BY <1>2, <2>4, <3>1, ClosedStays
  <2>5. ASSUME NEW w \in Workers, CommitScan(w), Job(w) = i, scans'[i] = draft
        PROVE  Closed(i)' /\ scans'[i].status # "FAILED"
    <3>1. Job(w)' = i
      BY <2>5 DEF CommitScan, SetWorker, Job, TypeOK, WorkerState
    <3>2. Closed(Job(w))'
      BY <2>5, CommitCloses
    <3> QED  BY <1>2, <2>5, <3>1, <3>2 DEF Closed, Undecided, Queued
  <2>6. ASSUME NEW w \in Workers, MarkFailed(w), Job(w) = i, i \in ScanIds,
               scans'[i] = [scans[i] EXCEPT !.status = "FAILED"]
        PROVE  i \in broken' /\ scans'[i].stages = NoStages
    <3>1. worker[w].pc = "recover"
      BY <2>6 DEF MarkFailed
    <3>2. i \in broken' /\ ~ Closed(i)
      BY <1>2, <1>3, <2>6, <3>1 DEF Closed
    <3>3. scans'[i].stages = scans[i].stages
      BY <2>1, <2>6 DEF Row
    <3> QED  BY <1>2, <2>6, <3>2, <3>3
  <2> QED  BY <2>2, <2>3, <2>4, <2>5, <2>6, RowChange
<1> QED  BY <1>3, <1>4

\* With the one worker that docker-compose.yml runs, and scopes that can be read
\* back, no handler fails its scan as long as the environment has had no fault; a
\* scan whose session the tools' output broke ends FAILED and keeps no stage.
THEOREM ErrorIsolationCorrect ==
    ASSUME OneWorker, "stored_scope" \in Repairs
    PROVE  Spec => []ErrorIsolation
<1>0. OneWorker /\ "stored_scope" \in Repairs
  OBVIOUS
<1>1. Init => Undisturbed
  <2> SUFFICES ASSUME Init PROVE Undisturbed
    OBVIOUS
  <2>1. ScanIds = {} /\ redisUp /\ draft.status = "PENDING"
        /\ \A w \in Workers : worker[w].pc = "down"
    BY DEF Init, NoDraft, IdleWorker, ScanIds
  <2> QED  BY <2>1 DEF Undisturbed
<1>2. /\ TypeOK /\ TypeOK' /\ LockIsPipeline /\ JobInv /\ DeliveryInv
      /\ Undisturbed /\ [Next]_vars
      => Undisturbed'
  BY <1>0, UndisturbedStep DEF Given
<1>3. Undisturbed => ErrorIsolation
  BY DEF Undisturbed, ErrorIsolation
<1> QED
  BY <1>1, <1>2, <1>3, TypeCorrect, LockCorrect, JobsCorrect, DeliveryInvariant, PTL
  DEF Spec
=============================================================================

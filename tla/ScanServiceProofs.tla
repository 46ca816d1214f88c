------------------------- MODULE ScanServiceProofs -------------------------
(***************************************************************************)
(* Theorems about ScanService, for any numbers of requests and workers, any *)
(* profile, any faults and either state of the two defects.                 *)
(***************************************************************************)
EXTENDS ScanService, SequenceTheorems, TLAPS

-----------------------------------------------------------------------------
(* Updates of the state *)

\* A row replaced in place, or at an id that does not exist.
LEMMA UpdateRow ==
    ASSUME NEW S, NEW s \in Seq(S), NEW i \in Nat, NEW e \in S
    PROVE  /\ [s EXCEPT ![i] = e] \in Seq(S)
           /\ Len([s EXCEPT ![i] = e]) = Len(s)
           /\ \A j \in 1 .. Len(s) :
                 [s EXCEPT ![i] = e][j] = IF j = i THEN e ELSE s[j]
<1>1. CASE i \in 1 .. Len(s)
  BY <1>1, ExceptSeq
<1>2. CASE i \notin 1 .. Len(s)
  <2>1. [s EXCEPT ![i] = e] = s
    BY <1>2, LenProperties
  <2> QED  BY <2>1, <1>2
<1> QED  BY <1>1, <1>2

\* The status of a row changed in place.
LEMMA UpdateStatus ==
    ASSUME NEW s \in Seq(Row), NEW i \in Nat, NEW st \in ScanStatus
    PROVE  /\ [s EXCEPT ![i].status = st] \in Seq(Row)
           /\ Len([s EXCEPT ![i].status = st]) = Len(s)
           /\ \A j \in 1 .. Len(s) :
                 [s EXCEPT ![i].status = st][j] =
                     IF j = i THEN [s[j] EXCEPT !.status = st] ELSE s[j]
<1>1. CASE i \in 1 .. Len(s)
  <2>1. s[i] \in Row
    BY <1>1, ElementOfSeq
  <2>2. [s[i] EXCEPT !.status = st] \in Row
    BY <2>1 DEF Row
  <2>3. [s EXCEPT ![i].status = st] = [s EXCEPT ![i] = [s[i] EXCEPT !.status = st]]
    OBVIOUS
  <2> QED  BY <1>1, <2>2, <2>3, ExceptSeq
<1>2. CASE i \notin 1 .. Len(s)
  <2>1. [s EXCEPT ![i].status = st] = s
    BY <1>2, LenProperties
  <2> QED  BY <2>1, <1>2
<1> QED  BY <1>1, <1>2

LEMMA RowTypes == NoStages \in [Stages -> SUBSET StageStatus] /\ NoDraft \in Row
BY DEF NoStages, NoDraft, Row, StageStatus, ScanStatus

LEMMA WorkerTypes ==
    ASSUME NEW w \in Workers, NEW pc \in WorkerPC, NEW job \in Nat, NEW seq \in Nat,
           worker \in [Workers -> WorkerState], SetWorker(w, pc, job, seq)
    PROVE  worker' \in [Workers -> WorkerState]
BY DEF SetWorker, WorkerState

LEMMA RequestTypes ==
    ASSUME NEW r \in Requests, req \in [Requests -> RequestState]
    PROVE  /\ \A pc \in RequestPC, kind \in {"create", "cancel"}, scan \in Nat, code \in Codes :
                 SetReq(r, pc, kind, scan, code) => req' \in [Requests -> RequestState]
           /\ \A code \in Codes : Answer(r, code) => req' \in [Requests -> RequestState]
           /\ \A pc \in RequestPC : GotoReq(r, pc) => req' \in [Requests -> RequestState]
BY DEF SetReq, Answer, GotoReq, RequestState, RequestPC

-----------------------------------------------------------------------------
(* Type correctness *)

LEMMA TypeInit == Init => TypeOK
<1> SUFFICES ASSUME Init PROVE TypeOK
  OBVIOUS
<1>1. scans \in Seq(Row) /\ queue \in Seq(Nat)
  BY EmptySeq DEF Init
<1>2. worker \in [Workers -> WorkerState] /\ req \in [Requests -> RequestState]
  BY DEF Init, IdleWorker, WorkerState, WorkerPC, RequestState, RequestPC, Codes
<1> QED  BY <1>1, <1>2, RowTypes, FaultsAssumption DEF Init, TypeOK

LEMMA TypeRequest ==
    ASSUME TypeOK, NEW r \in Requests, RequestArrives(r) \/ RequestStep(r)
    PROVE  TypeOK'
<1> USE DEF TypeOK, dbVars, redisVars, history
<1>0. req[r] \in RequestState /\ req[r].scan \in Nat
  BY DEF RequestState
<1>1. Len(scans) \in Nat /\ ScanIds \subseteq Nat
  BY LenProperties DEF ScanIds
<1>2. CASE CreateScan(r)
  <2>1. req' \in [Requests -> RequestState]
    BY <1>1, <1>2, RequestTypes DEF CreateScan, RequestPC, Codes
  <2> QED  BY <1>2, <2>1 DEF CreateScan
<1>3. CASE CreateScanRejected(r)
  <2>1. req' \in [Requests -> RequestState]
    BY <1>3, RequestTypes DEF CreateScanRejected, RequestPC, Codes
  <2> QED  BY <1>3, <2>1 DEF CreateScanRejected
<1>4. CASE CreateScanInsert(r)
  <2>1. scans' \in Seq(Row)
    BY <1>4, RowTypes, AppendProperties DEF CreateScanInsert
  <2>2. req' \in [Requests -> RequestState]
    BY <1>4, RequestTypes DEF CreateScanInsert, RequestPC
  <2> QED  BY <1>4, <2>1, <2>2 DEF CreateScanInsert
<1>5. CASE CreateScanInsertFails(r)
  <2>1. req' \in [Requests -> RequestState]
    BY <1>5, RequestTypes DEF CreateScanInsertFails, RequestPC, Codes
  <2> QED  BY <1>5, <2>1 DEF CreateScanInsertFails
<1>6. CASE EnqueueScan(r)
  <2>1. queue' \in Seq(Nat)
    <3>1. Append(queue, req[r].scan) \in Seq(Nat)
      BY <1>0, AppendProperties
    <3> QED  BY <1>6, <3>1 DEF EnqueueScan
  <2>2. req' \in [Requests -> RequestState]
    BY <1>6, RequestTypes DEF EnqueueScan, Codes
  <2> QED  BY <1>6, <2>1, <2>2 DEF EnqueueScan
<1>7. CASE CancelScan(r)
  <2>1. req' \in [Requests -> RequestState]
    BY <1>1, <1>7, RequestTypes DEF CancelScan, RequestPC, Codes
  <2> QED  BY <1>7, <2>1 DEF CancelScan
<1>8. CASE CancelScanRejected(r)
  <2>1. req' \in [Requests -> RequestState]
    BY <1>1, <1>8, RequestTypes DEF CancelScanRejected, RequestPC, Codes
  <2> QED  BY <1>8, <2>1 DEF CancelScanRejected
<1>9. CASE SetCancelled(r)
  <2>1. req' \in [Requests -> RequestState]
    BY <1>9, RequestTypes DEF SetCancelled, Codes, RequestPC
  <2> QED  BY <1>0, <1>9, <2>1 DEF SetCancelled
<1>10. CASE PublishCancel(r)
  <2>1. req' \in [Requests -> RequestState]
    BY <1>10, RequestTypes DEF PublishCancel, Codes, RequestPC
  <2> QED  BY <1>10, <2>1 DEF PublishCancel
<1>11. CASE CancelScanUpdate(r)
  <2>1. scans' \in Seq(Row)
    BY <1>0, <1>11, UpdateStatus DEF CancelScanUpdate, ScanStatus, Terminal
  <2>2. req' \in [Requests -> RequestState]
    BY <1>11, RequestTypes DEF CancelScanUpdate, Codes
  <2> QED  BY <1>11, <2>1, <2>2 DEF CancelScanUpdate
<1>12. CASE CancelScanLocked(r)
  <2>1. req' \in [Requests -> RequestState]
    BY <1>12, RequestTypes DEF CancelScanLocked, Codes
  <2> QED  BY <1>12, <2>1 DEF CancelScanLocked
<1> QED
  BY <1>2, <1>3, <1>4, <1>5, <1>6, <1>7, <1>8, <1>9, <1>10, <1>11, <1>12
  DEF RequestArrives, RequestStep

LEMMA TypePipeline ==
    ASSUME TypeOK, NEW w \in Workers, PipelineStep(w)
    PROVE  TypeOK'
<1> USE DEF TypeOK, dbVars, redisVars, history
<1>1. Job(w) \in Nat /\ Cur(w) \in Nat /\ Cur(w) + 1 \in Nat
  BY DEF Job, Cur, WorkerState
<1>2. \A st \in StageStatus :
        /\ WithStage(w, st) \in [Stages -> SUBSET StageStatus]
        /\ SetStage(w, st) => draft' \in Row
        /\ \A status \in ScanStatus : SetStageAndStatus(w, st, status) => draft' \in Row
  <2> SUFFICES ASSUME NEW st \in StageStatus
               PROVE  /\ WithStage(w, st) \in [Stages -> SUBSET StageStatus]
                      /\ SetStage(w, st) => draft' \in Row
                      /\ \A status \in ScanStatus :
                            SetStageAndStatus(w, st, status) => draft' \in Row
    OBVIOUS
  <2>1. draft \in [status : ScanStatus, stages : [Stages -> SUBSET StageStatus]]
    BY DEF Row
  <2>2. WithStage(w, st) \in [Stages -> SUBSET StageStatus]
    BY <2>1 DEF WithStage
  <2> HIDE DEF WithStage
  <2>3. [draft EXCEPT !.stages = WithStage(w, st)] \in Row
    BY <2>1, <2>2 DEF Row
  <2>4. SetStage(w, st) => draft' \in Row
    BY <2>3 DEF SetStage
  <2>5. ASSUME NEW status \in ScanStatus, SetStageAndStatus(w, st, status)
        PROVE  draft' \in Row
    BY <2>2, <2>5 DEF SetStageAndStatus, Row
  <2> QED  BY <2>2, <2>4, <2>5
<1>3. NextStage(w) => worker' \in [Workers -> WorkerState]
  BY <1>1, WorkerTypes DEF NextStage, WorkerPC
<1>4. CASE StageSkipped(w)
  BY <1>2, <1>3, <1>4 DEF StageSkipped, InPipeline, StageStatus
<1>5. CASE StageBegins(w)
  <2>1. StatusForStage(Stage(w).name) \in ScanStatus
    BY DEF StatusForStage, ScanStatus
  <2>2. draft' \in Row
    BY <1>2, <1>5, <2>1 DEF StageBegins, StageStatus
  <2>3. worker' \in [Workers -> WorkerState]
    BY <1>1, <1>5, WorkerTypes DEF StageBegins, WorkerPC
  <2> QED  BY <1>5, <2>2, <2>3 DEF StageBegins, InPipeline
<1>6. CASE StageEnds(w)
  <2>1. draft' \in Row
    BY <1>2, <1>6 DEF StageEnds, StageStatus
  <2> QED  BY <1>3, <1>6, <2>1 DEF StageEnds, InPipeline
<1>7. CASE StageCancelled(w)
  <2>1. draft' \in Row
    BY <1>2, <1>7 DEF StageCancelled, StageStatus, ScanStatus, Terminal
  <2>2. worker' \in [Workers -> WorkerState]
    BY <1>1, <1>7, WorkerTypes DEF StageCancelled, WorkerPC
  <2> QED  BY <1>7, <2>1, <2>2 DEF StageCancelled, InPipeline
<1>8. CASE PipelineFinalize(w)
  <2>1. draft' \in Row
    BY <1>8 DEF PipelineFinalize, Row, ScanStatus, Terminal
  <2>2. worker' \in [Workers -> WorkerState]
    BY <1>1, <1>8, WorkerTypes DEF PipelineFinalize, WorkerPC
  <2> QED  BY <1>8, <2>1, <2>2 DEF PipelineFinalize, InPipeline
<1>9. CASE PipelineError(w)
  <2>1. draft' \in Row
    BY <1>9 DEF PipelineError, Row, ScanStatus, Terminal
  <2>2. worker' \in [Workers -> WorkerState]
    BY <1>1, <1>9, WorkerTypes DEF PipelineError, WorkerPC
  <2> QED  BY <1>9, <2>1, <2>2 DEF PipelineError, InPipeline
<1> QED
  BY <1>4, <1>5, <1>6, <1>7, <1>8, <1>9 DEF PipelineStep

LEMMA TypeWorker ==
    ASSUME TypeOK, NEW w \in Workers, WorkerStep(w)
    PROVE  TypeOK'
<1> USE DEF TypeOK, dbVars, redisVars, history
<1>1. Job(w) \in Nat /\ ScanIds \subseteq Nat
  BY LenProperties DEF Job, WorkerState, ScanIds
<1>2. CASE WorkerStart(w)
  BY <1>2 DEF WorkerStart, WorkerState, WorkerPC
<1>3. CASE DequeueScan(w)
  <2>1. Head(queue) \in Nat /\ Tail(queue) \in Seq(Nat)
    BY <1>3, HeadTailProperties DEF DequeueScan
  <2>2. worker' \in [Workers -> WorkerState]
    BY <1>3, <2>1, WorkerTypes DEF DequeueScan, WorkerPC
  <2> QED  BY <1>3, <2>1, <2>2 DEF DequeueScan
<1>4. CASE WorkerStops(w)
  <2>1. worker' \in [Workers -> WorkerState]
    BY <1>4 DEF WorkerStops, IdleWorker, WorkerState, WorkerPC
  <2> QED  BY <1>4, <2>1 DEF WorkerStops
<1>5. CASE ProcessScan(w)
  <2>1. worker' \in [Workers -> WorkerState]
    BY <1>1, <1>5, WorkerTypes DEF ProcessScan, WorkerPC
  <2> QED  BY <1>5, <2>1 DEF ProcessScan
<1>6. CASE PipelineBegin(w)
  <2>1. worker' \in [Workers -> WorkerState]
    BY <1>1, <1>6, WorkerTypes DEF PipelineBegin, WorkerPC
  <2>2. draft' \in Row
    BY <1>6, RowTypes DEF PipelineBegin, Row, ScanStatus
  <2> QED  BY <1>6, <2>1, <2>2 DEF PipelineBegin
<1>7. CASE PipelineBeginLocked(w)
  <2>1. worker' \in [Workers -> WorkerState]
    BY <1>1, <1>7, WorkerTypes DEF PipelineBeginLocked, WorkerPC
  <2> QED  BY <1>7, <2>1 DEF PipelineBeginLocked
<1>8. CASE PipelineStep(w)
  BY <1>8, TypePipeline
<1>9. CASE CommitScan(w)
  <2>1. worker' \in [Workers -> WorkerState]
    BY <1>1, <1>9, WorkerTypes DEF CommitScan, WorkerPC
  <2>2. scans' \in Seq(Row)
    BY <1>1, <1>9, UpdateRow DEF CommitScan
  <2> QED  BY <1>9, <2>1, <2>2, RowTypes DEF CommitScan
<1>10. CASE ClearCancelled(w)
  <2>1. worker' \in [Workers -> WorkerState]
    BY <1>1, <1>10, WorkerTypes DEF ClearCancelled, WorkerPC
  <2> QED  BY <1>10, <2>1 DEF ClearCancelled
<1>11. CASE MarkFailed(w)
  <2>1. worker' \in [Workers -> WorkerState]
    BY <1>11, WorkerTypes DEF MarkFailed, WorkerPC
  <2>2. scans' \in Seq(Row)
    BY <1>1, <1>11, UpdateStatus DEF MarkFailed, ScanStatus, Terminal
  <2> QED  BY <1>11, <2>1, <2>2 DEF MarkFailed
<1>12. CASE MarkFailedLocked(w)
  <2>1. worker' \in [Workers -> WorkerState]
    BY <1>12, WorkerTypes DEF MarkFailedLocked, WorkerPC
  <2>2. lostJobs' \subseteq Nat
    BY <1>1, <1>12 DEF MarkFailedLocked
  <2> QED  BY <1>12, <2>1, <2>2 DEF MarkFailedLocked
<1>13. CASE SessionBreaks(w)
  <2>1. worker' \in [Workers -> WorkerState]
    BY <1>1, <1>13, WorkerTypes DEF SessionBreaks, WorkerPC
  <2> QED  BY <1>1, <1>13, <2>1, RowTypes DEF SessionBreaks
<1> QED
  BY <1>2, <1>3, <1>4, <1>5, <1>6, <1>7, <1>8, <1>9, <1>10, <1>11, <1>12, <1>13
  DEF WorkerStep

LEMMA TypeFault ==
    ASSUME TypeOK,
           \/ \E w \in Workers : ContainerStep(w)
           \/ OutsideFault
           \/ RedisComesBack
    PROVE  TypeOK'
<1> USE DEF TypeOK, dbVars, redisVars, history
<1>1. \A kind \in FaultKinds : Fault(kind) => faults' \in 0 .. MaxFaults
  BY FaultsAssumption DEF Fault
<1>2. ASSUME NEW w \in Workers, OperatorStarts(w) PROVE TypeOK'
  <2>1. worker' \in [Workers -> WorkerState]
    BY <1>2 DEF OperatorStarts, WorkerPC, WorkerState
  <2> QED  BY <1>2, <2>1 DEF OperatorStarts
<1>3. ASSUME NEW w \in Workers, HandleSignal(w) PROVE TypeOK'
  <2>1. worker' \in [Workers -> WorkerState]
    <3>1. CASE worker' = [worker EXCEPT ![w].running = FALSE]
      BY <3>1 DEF WorkerState
    <3>2. CASE worker' = [worker EXCEPT ![w].pc = "stopped"]
      BY <3>2 DEF WorkerState, WorkerPC
    <3> QED  BY <1>3, <3>1, <3>2 DEF HandleSignal
  <2> QED  BY <1>1, <1>3, <2>1 DEF HandleSignal, FaultKinds
<1>4. ASSUME NEW w \in Workers, WorkerCrash(w) PROVE TypeOK'
  <2>1. worker' \in [Workers -> WorkerState]
    BY <1>4 DEF WorkerCrash, IdleWorker, WorkerState, WorkerPC
  <2>2. Job(w) \in Nat
    BY DEF Job, WorkerState
  <2> QED  BY <1>1, <1>4, <2>1, <2>2, RowTypes DEF WorkerCrash, FaultKinds
<1>5. CASE PanelCrash
  <2>1. req' \in [Requests -> RequestState]
    BY <1>5 DEF PanelCrash, RequestState, RequestPC
  <2> QED  BY <1>1, <1>5, <2>1 DEF PanelCrash, FaultKinds
<1>6. CASE RedisGoesDown
  BY <1>1, <1>6 DEF RedisGoesDown, FaultKinds
<1>7. CASE CancelKeyExpires
  BY <1>1, <1>7 DEF CancelKeyExpires, FaultKinds
<1>8. CASE RedisComesBack
  <2>1. \A n \in DOMAIN queue : queue[n] \in Nat
    BY LenProperties, ElementOfSeq
  <2> QED  BY <1>8, <2>1, EmptySeq DEF RedisComesBack
<1> QED
  BY <1>2, <1>3, <1>4, <1>5, <1>6, <1>7, <1>8 DEF ContainerStep, OutsideFault

\* Every variable keeps its type: rows only have the statuses of models.py, ids
\* are never negative and the fault budget is respected.
THEOREM TypeCorrect == Spec => []TypeOK
<1>1. TypeOK /\ [Next]_vars => TypeOK'
  <2> SUFFICES ASSUME TypeOK, [Next]_vars PROVE TypeOK'
    OBVIOUS
  <2>1. CASE UNCHANGED vars
    BY <2>1 DEF vars, TypeOK
  <2> QED
    BY <2>1, TypeRequest, TypeWorker, TypeFault DEF Next
<1> QED  BY TypeInit, <1>1, PTL DEF Spec

-----------------------------------------------------------------------------
(* The write lock *)

\* A step of one worker that moves it between two places outside the pipeline,
\* or between two places inside it, and leaves the lock alone.
LEMMA LockKept ==
    ASSUME TypeOK, LockIsPipeline, NEW w \in Workers, NEW pc, NEW job, NEW seq,
           writer' = writer, SetWorker(w, pc, job, seq),
           pc \in {"loop", "run", "final", "commit"} <=>
               worker[w].pc \in {"loop", "run", "final", "commit"}
    PROVE  LockIsPipeline'
BY DEF TypeOK, LockIsPipeline, SetWorker, WorkerState

LEMMA LockPipeline ==
    ASSUME TypeOK, LockIsPipeline, NEW w \in Workers, PipelineStep(w)
    PROVE  LockIsPipeline'
<1>1. PICK pc \in {"loop", "run", "final", "commit"} :
          \E job, seq : SetWorker(w, pc, job, seq)
  BY DEF PipelineStep, StageSkipped, StageBegins, StageEnds, StageCancelled,
         PipelineFinalize, PipelineError, NextStage
<1>2. writer' = writer /\ worker[w].pc \in {"loop", "run", "final", "commit"}
  BY DEF PipelineStep, StageSkipped, StageBegins, StageEnds, StageCancelled,
         PipelineFinalize, PipelineError, InPipeline
<1> QED  BY <1>1, <1>2, LockKept

LEMMA LockWorker ==
    ASSUME TypeOK, LockIsPipeline, NEW w \in Workers, WorkerStep(w)
    PROVE  LockIsPipeline'
<1> USE DEF dbVars
<1>1. CASE WorkerStart(w)
  BY <1>1 DEF WorkerStart, LockIsPipeline, TypeOK, WorkerState
<1>2. CASE DequeueScan(w)
  BY <1>2, LockKept DEF DequeueScan
<1>3. CASE WorkerStops(w)
  BY <1>3 DEF WorkerStops, IdleWorker, LockIsPipeline, TypeOK, WorkerState
<1>4. CASE ProcessScan(w)
  BY <1>4, LockKept DEF ProcessScan
<1>5. CASE PipelineBegin(w)
  BY <1>5, NobodyAssumption
  DEF PipelineBegin, SetWorker, LockIsPipeline, TypeOK, WorkerState
<1>6. CASE PipelineBeginLocked(w)
  BY <1>6, LockKept DEF PipelineBeginLocked
<1>7. CASE PipelineStep(w)
  BY <1>7, LockPipeline
<1>8. CASE CommitScan(w)
  BY <1>8, NobodyAssumption
  DEF CommitScan, SetWorker, LockIsPipeline, TypeOK, WorkerState
<1>9. CASE ClearCancelled(w)
  BY <1>9, LockKept DEF ClearCancelled
<1>10. CASE MarkFailed(w)
  BY <1>10, LockKept DEF MarkFailed
<1>11. CASE MarkFailedLocked(w)
  BY <1>11, LockKept DEF MarkFailedLocked
<1>12. CASE SessionBreaks(w)
  <2>1. worker[w].pc \in {"run", "final"} /\ writer = w
    BY <1>12 DEF SessionBreaks, LockIsPipeline
  <2> QED
    BY <1>12, <2>1, NobodyAssumption
    DEF SessionBreaks, SetWorker, LockIsPipeline, TypeOK, WorkerState
<1> QED
  BY <1>1, <1>2, <1>3, <1>4, <1>5, <1>6, <1>7, <1>8, <1>9, <1>10, <1>11, <1>12
  DEF WorkerStep

LEMMA LockContainer ==
    ASSUME TypeOK, LockIsPipeline, NEW w \in Workers, ContainerStep(w)
    PROVE  LockIsPipeline'
<1>1. CASE OperatorStarts(w)
  BY <1>1 DEF OperatorStarts, dbVars, LockIsPipeline, TypeOK, WorkerState
<1>2. CASE HandleSignal(w)
  BY <1>2 DEF HandleSignal, dbVars, LockIsPipeline, TypeOK, WorkerState
<1>3. CASE WorkerCrash(w)
  BY <1>3, NobodyAssumption
  DEF WorkerCrash, IdleWorker, LockIsPipeline, TypeOK, WorkerState
<1> QED  BY <1>1, <1>2, <1>3 DEF ContainerStep

LEMMA LockOthers ==
    ASSUME LockIsPipeline,
           \/ \E r \in Requests : RequestArrives(r) \/ RequestStep(r)
           \/ OutsideFault
           \/ RedisComesBack
           \/ UNCHANGED vars
    PROVE  LockIsPipeline'
<1>1. writer' = writer /\ worker' = worker
  BY DEF RequestArrives, RequestStep, CreateScan, CreateScanRejected, CancelScan,
         CancelScanRejected, CreateScanInsert, CreateScanInsertFails, EnqueueScan,
         SetCancelled, PublishCancel, CancelScanUpdate, CancelScanLocked,
         OutsideFault, PanelCrash, RedisGoesDown, CancelKeyExpires,
         RedisComesBack, dbVars, vars
<1> QED  BY <1>1 DEF LockIsPipeline

\* At most one pipeline runs at a time, however many workers there are: a
\* worker is inside Pipeline.run exactly while it holds SQLite's write lock.
THEOREM LockCorrect == Spec => []LockIsPipeline
<1>1. Init => LockIsPipeline
  BY NobodyAssumption DEF Init, IdleWorker, LockIsPipeline
<1>2. TypeOK /\ LockIsPipeline /\ [Next]_vars => LockIsPipeline'
  BY LockWorker, LockContainer, LockOthers DEF Next
<1> QED  BY <1>1, <1>2, TypeCorrect, PTL DEF Spec

-----------------------------------------------------------------------------
(* Jobs and rows *)

\* The inductive invariant: uniqueness of a new job needs that all older jobs
\* have rows, and that the counted id is the next one when the INSERT succeeds.
JobInv == OneJobPerScan /\ JobsHaveRows /\ CountedIds

\* Only four steps write the table.
LEMMA RowWriters ==
    ASSUME [Next]_vars
    PROVE  \/ scans' = scans
           \/ \E r \in Requests : CreateScanInsert(r) \/ CancelScanUpdate(r)
           \/ \E w \in Workers : CommitScan(w) \/ MarkFailed(w)
<1> USE DEF dbVars
<1>1. ASSUME NEW r \in Requests, RequestArrives(r) \/ RequestStep(r)
      PROVE  scans' = scans \/ CreateScanInsert(r) \/ CancelScanUpdate(r)
  BY <1>1 DEF RequestArrives, RequestStep, CreateScan, CreateScanRejected,
     CancelScan, CancelScanRejected, CreateScanInsertFails, EnqueueScan,
     SetCancelled, PublishCancel, CancelScanLocked
<1>2. ASSUME NEW w \in Workers, WorkerStep(w) \/ ContainerStep(w)
      PROVE  scans' = scans \/ CommitScan(w) \/ MarkFailed(w)
  BY <1>2 DEF WorkerStep, WorkerStart, DequeueScan, WorkerStops, ProcessScan,
     PipelineBegin, PipelineBeginLocked, ClearCancelled, MarkFailedLocked,
     PipelineStep, StageSkipped, StageBegins, StageEnds, StageCancelled,
     PipelineFinalize, PipelineError, InPipeline, ContainerStep,
     SessionBreaks, HandleSignal, WorkerCrash, OperatorStarts
<1>3. OutsideFault \/ RedisComesBack \/ UNCHANGED vars => scans' = scans
  BY DEF OutsideFault, PanelCrash, RedisGoesDown, CancelKeyExpires,
     RedisComesBack, vars
<1> QED  BY <1>1, <1>2, <1>3 DEF Next

\* Only an INSERT makes it longer.
LEMMA TableLength ==
    ASSUME TypeOK, [Next]_vars
    PROVE  /\ Len(scans) \in Nat
           /\ \/ Len(scans') = Len(scans)
              \/ \E r \in Requests : CreateScanInsert(r) /\ Len(scans') = Len(scans) + 1
<1> USE DEF TypeOK
<1>0. Len(scans) \in Nat
  BY LenProperties
<1>1. CASE scans' = scans
  BY <1>0, <1>1
<1>2. ASSUME NEW r \in Requests, CreateScanInsert(r)
      PROVE  Len(scans') = Len(scans) + 1
  BY <1>2, RowTypes, AppendProperties DEF CreateScanInsert
<1>3. ASSUME NEW r \in Requests, CancelScanUpdate(r)
      PROVE  Len(scans') = Len(scans)
  <2>1. req[r].scan \in Nat
    BY DEF RequestState
  <2> QED  BY <1>3, <2>1, UpdateStatus DEF CancelScanUpdate, ScanStatus, Terminal
<1>4. ASSUME NEW w \in Workers, CommitScan(w)
      PROVE  Len(scans') = Len(scans)
  <2>1. Job(w) \in Nat
    BY DEF Job, WorkerState
  <2> QED  BY <1>4, <2>1, UpdateRow DEF CommitScan
<1>5. ASSUME NEW w \in Workers, MarkFailed(w)
      PROVE  Len(scans') = Len(scans)
  <2>1. Job(w) \in Nat
    BY DEF Job, WorkerState
  <2> QED  BY <1>5, <2>1, UpdateStatus DEF MarkFailed, ScanStatus, Terminal
<1> QED  BY <1>0, <1>1, <1>2, <1>3, <1>4, <1>5, RowWriters

\* The table never shrinks, so a row an id has stays there.
LEMMA TableGrows ==
    ASSUME TypeOK, [Next]_vars
    PROVE  Len(scans) \in Nat /\ Len(scans') \in Nat /\ Len(scans) <= Len(scans')
BY TableLength

\* A step that moves no job anywhere new: jobs may only disappear.
LEMMA JobsKept ==
    ASSUME TypeOK, TypeOK', JobInv, [Next]_vars,
           queue' = queue,
           \A w \in Workers : Job(w)' \in {Job(w), 0},
           \A r \in Requests : BeingEnqueued(r)' =>
               BeingEnqueued(r) /\ req'[r].scan = req[r].scan
    PROVE  (OneJobPerScan /\ JobsHaveRows)'
<1>1. ScanIds \subseteq ScanIds' /\ 0 \notin ScanIds
  BY TableGrows DEF ScanIds
<1>2. JobsHaveRows'
  BY <1>1 DEF JobInv, JobsHaveRows
<1>3. OneJobPerScan'
  BY <1>1 DEF JobInv, JobsHaveRows, OneJobPerScan, Queued, Held
<1> QED  BY <1>2, <1>3

LEMMA JobRequest ==
    ASSUME TypeOK, TypeOK', JobInv, [Next]_vars,
           NEW r \in Requests, RequestArrives(r) \/ RequestStep(r)
    PROVE  (OneJobPerScan /\ JobsHaveRows)'
<1> USE DEF dbVars, redisVars
<1>1. \A w \in Workers : Job(w)' = Job(w)
  BY DEF RequestArrives, RequestStep, CreateScan, CreateScanRejected, CancelScan,
         CancelScanRejected, CreateScanInsert, CreateScanInsertFails, EnqueueScan,
         SetCancelled, PublishCancel, CancelScanUpdate, CancelScanLocked, Job
<1>2. CASE CreateScanInsert(r)
  <2>1. Len(scans) \in Nat /\ Len(scans') = Len(scans) + 1
    BY <1>2, RowTypes, AppendProperties, LenProperties DEF CreateScanInsert, TypeOK
  <2>2. req[r].scan = Len(scans) + 1
    BY <1>2, <2>1 DEF CreateScanInsert, JobInv, CountedIds, ScanIds
  <2>3. /\ queue' = queue
        /\ req'[r].scan = req[r].scan
        /\ \A q \in Requests \ {r} : req'[q] = req[q]
    BY <1>2 DEF CreateScanInsert, GotoReq, TypeOK, RequestState
  <2>4. ScanIds \subseteq ScanIds' /\ 0 \notin ScanIds
        /\ req[r].scan \in ScanIds' /\ req[r].scan \notin ScanIds
    BY <2>1, <2>2 DEF ScanIds
  <2>5. JobsHaveRows'
    BY <1>1, <2>3, <2>4 DEF JobInv, JobsHaveRows, BeingEnqueued
  <2>6. ~ Queued(req[r].scan) /\ ~ Held(req[r].scan)
        /\ \A q \in Requests : BeingEnqueued(q) => req[q].scan # req[r].scan
    BY <2>2, <2>4 DEF JobInv, JobsHaveRows, Queued, Held, ScanIds
  <2>7. OneJobPerScan'
    <3>1. \A p, q \in Requests :
             BeingEnqueued(p)' /\ BeingEnqueued(q)' /\ req'[p].scan = req'[q].scan => p = q
      BY <2>3, <2>6 DEF JobInv, OneJobPerScan, BeingEnqueued
    <3>2. \A q \in Requests :
             BeingEnqueued(q)' => (~ Queued(req[q].scan) /\ ~ Held(req[q].scan))'
      BY <1>1, <2>3, <2>6 DEF JobInv, OneJobPerScan, BeingEnqueued, Queued, Held
    <3>3. \A w \in Workers : ~ Queued(Job(w))'
      BY <1>1, <2>3 DEF JobInv, OneJobPerScan, Queued
    <3> QED  BY <1>1, <2>3, <3>1, <3>2, <3>3 DEF JobInv, OneJobPerScan
  <2> QED  BY <2>5, <2>7
<1>3. CASE EnqueueScan(r)
  <2>1. /\ scans' = scans
        /\ \A q \in Requests : BeingEnqueued(q)' =>
               q # r /\ BeingEnqueued(q) /\ req'[q].scan = req[q].scan
    BY <1>3 DEF EnqueueScan, Answer, TypeOK, RequestState, BeingEnqueued
  <2>2. CASE ~ redisUp
    <3>1. queue' = queue
      BY <1>3, <2>2 DEF EnqueueScan
    <3> QED  BY <1>1, <2>1, <3>1, JobsKept
  <2>3. CASE redisUp
    <3> DEFINE i == req[r].scan
    <3>1. i \in Nat /\ i \in ScanIds /\ BeingEnqueued(r)
      BY <1>3 DEF EnqueueScan, JobInv, JobsHaveRows, BeingEnqueued, TypeOK, RequestState
    <3>2. queue' = Append(queue, i)
      BY <1>3, <2>3 DEF EnqueueScan
    <3>3. /\ Len(queue) \in Nat
          /\ DOMAIN queue = 1 .. Len(queue)
          /\ DOMAIN queue' = 1 .. Len(queue) + 1
          /\ \A n \in DOMAIN queue : queue'[n] = queue[n]
          /\ queue'[Len(queue) + 1] = i
      BY <3>1, <3>2, AppendProperties, LenProperties DEF TypeOK
    <3>4. JobsHaveRows'
      BY <1>1, <2>1, <3>1, <3>3 DEF JobInv, JobsHaveRows, ScanIds
    <3>5. ~ Queued(i) /\ ~ Held(i)
      BY <3>1 DEF JobInv, OneJobPerScan
    <3>6. \A n \in DOMAIN queue' : \/ n \in DOMAIN queue /\ queue'[n] = queue[n]
                                   \/ n = Len(queue) + 1 /\ queue'[n] = i
      BY <3>3
    <3>7. \A m, n \in DOMAIN queue' : queue'[m] = queue'[n] => m = n
      BY <3>5, <3>6 DEF JobInv, OneJobPerScan, Queued
    <3>8. \A j : Queued(j)' => Queued(j) \/ j = i
      BY <3>6 DEF Queued
    <3>9. OneJobPerScan'
      BY <1>1, <2>1, <3>1, <3>5, <3>7, <3>8 DEF JobInv, OneJobPerScan, Held
    <3> QED  BY <3>4, <3>9
  <2> QED  BY <2>2, <2>3
<1>4. CASE ~ CreateScanInsert(r) /\ ~ EnqueueScan(r)
  <2>1. queue' = queue
    BY <1>4 DEF RequestArrives, RequestStep, CreateScan, CreateScanRejected, CancelScan,
         CancelScanRejected, CreateScanInsertFails, SetCancelled, PublishCancel,
         CancelScanUpdate, CancelScanLocked
  <2>2. /\ \A q \in Requests \ {r} : req'[q] = req[q]
        /\ req'[r].pc # "enqueue"
    BY <1>4 DEF RequestArrives, RequestStep, CreateScan, CreateScanRejected, CancelScan,
         CancelScanRejected, CreateScanInsertFails, SetCancelled, PublishCancel,
         CancelScanUpdate, CancelScanLocked, SetReq, Answer, GotoReq, TypeOK,
         RequestState
  <2> QED  BY <1>1, <2>1, <2>2, JobsKept DEF BeingEnqueued
<1> QED  BY <1>2, <1>3, <1>4

LEMMA JobWorker ==
    ASSUME TypeOK, TypeOK', JobInv, [Next]_vars,
           NEW w \in Workers, WorkerStep(w) \/ ContainerStep(w)
    PROVE  (OneJobPerScan /\ JobsHaveRows)'
<1> USE DEF dbVars, redisVars
<1>1. req' = req
  BY DEF WorkerStep, WorkerStart, DequeueScan, WorkerStops, ProcessScan,
         PipelineBegin, PipelineBeginLocked, CommitScan, ClearCancelled, MarkFailed,
         MarkFailedLocked, PipelineStep, StageSkipped, StageBegins, StageEnds,
         StageCancelled, PipelineFinalize, PipelineError, InPipeline, ContainerStep,
         SessionBreaks, HandleSignal, WorkerCrash, OperatorStarts
<1>2. CASE DequeueScan(w)
  <2>0. PICK i : i = Head(queue)
    OBVIOUS
  <2>1. /\ scans' = scans
        /\ queue' = Tail(queue)
        /\ queue # <<>>
        /\ Job(w)' = i
        /\ \A v \in Workers \ {w} : Job(v)' = Job(v)
    BY <1>2, <2>0 DEF DequeueScan, SetWorker, Job, TypeOK, WorkerState
  <2>2. /\ Len(queue) \in Nat
        /\ DOMAIN queue = 1 .. Len(queue)
        /\ 1 \in DOMAIN queue
        /\ queue[1] = i
        /\ \A n \in DOMAIN queue' : n + 1 \in DOMAIN queue /\ n + 1 # 1
                                    /\ queue'[n] = queue[n + 1] /\ n \in Nat
    <3>1. Len(queue) \in Nat \ {0} /\ DOMAIN queue = 1 .. Len(queue)
      BY <2>1, EmptySeq, LenProperties DEF TypeOK
    <3>2. DOMAIN queue' = 1 .. Len(queue) - 1
      BY <2>1, HeadTailProperties, LenProperties DEF TypeOK
    <3>3. \A n \in 1 .. Len(queue) - 1 : queue'[n] = queue[n + 1]
      BY <2>1, HeadTailProperties DEF TypeOK
    <3>4. queue[1] = i
      BY <2>0, <2>1, <3>1 DEF TypeOK
    <3> QED  BY <3>1, <3>2, <3>3, <3>4
  <2>3. i \in ScanIds /\ Queued(i) /\ 0 \notin ScanIds
    BY <2>2 DEF JobInv, JobsHaveRows, Queued, ScanIds
  <2>4. \A j : Queued(j)' => Queued(j)
    BY <2>2 DEF Queued
  <2>5. ~ Queued(i)'
    BY <2>2 DEF Queued, JobInv, OneJobPerScan
  <2>6. \A v \in Workers : Job(v) # i
    BY <2>3 DEF JobInv, OneJobPerScan
  <2>7. \A r \in Requests : BeingEnqueued(r) => req[r].scan # i
    BY <2>3 DEF JobInv, OneJobPerScan
  <2>8. JobsHaveRows'
    BY <1>1, <2>1, <2>2, <2>3 DEF JobInv, JobsHaveRows, ScanIds, BeingEnqueued
  <2>9. \A m, n \in DOMAIN queue' : queue'[m] = queue'[n] => m = n
    BY <2>2 DEF JobInv, OneJobPerScan
  <2>10. OneJobPerScan'
    <3>1. \A u, v \in Workers : Job(u)' = Job(v)' /\ Job(u)' # 0 => u = v
      BY <2>1, <2>6 DEF JobInv, OneJobPerScan
    <3>2. \A v \in Workers : ~ Queued(Job(v))'
      <4> SUFFICES ASSUME NEW v \in Workers PROVE ~ Queued(Job(v))'
        OBVIOUS
      <4>1. CASE v = w
        BY <2>1, <2>5, <4>1 DEF Queued
      <4>2. CASE v # w
        <5>1. ~ Queued(Job(v)) /\ Job(v)' = Job(v)
          BY <2>1, <4>2 DEF JobInv, OneJobPerScan
        <5>2. Queued(Job(v))' => Queued(Job(v))
          BY <2>2, <5>1 DEF Queued
        <5> QED  BY <5>1, <5>2
      <4> QED  BY <4>1, <4>2
    <3>3. \A r \in Requests :
             BeingEnqueued(r)' => (~ Queued(req[r].scan) /\ ~ Held(req[r].scan))'
      <4> SUFFICES ASSUME NEW r \in Requests, BeingEnqueued(r)
                   PROVE  ~ Queued(req[r].scan)' /\ ~ Held(req[r].scan)'
        BY <1>1 DEF BeingEnqueued
      <4>1. PICK k : k = req[r].scan
        OBVIOUS
      <4>2. ~ Queued(k) /\ ~ Held(k) /\ k # i
        BY <2>7, <4>1 DEF JobInv, OneJobPerScan
      <4>3. ~ Queued(k)'
        BY <2>4, <4>2
      <4>4. ~ Held(k)'
        BY <2>1, <4>2 DEF Held
      <4> QED  BY <1>1, <4>1, <4>3, <4>4 DEF Queued, Held
    <3> QED  BY <1>1, <2>9, <3>1, <3>2, <3>3 DEF JobInv, OneJobPerScan, BeingEnqueued
  <2> QED  BY <2>8, <2>10
<1>3. CASE ~ DequeueScan(w)
  <2>1. queue' = queue
    BY <1>3 DEF WorkerStep, WorkerStart, WorkerStops, ProcessScan,
         PipelineBegin, PipelineBeginLocked, CommitScan, ClearCancelled, MarkFailed,
         MarkFailedLocked, PipelineStep, StageSkipped, StageBegins, StageEnds,
         StageCancelled, PipelineFinalize, PipelineError, InPipeline, ContainerStep,
         SessionBreaks, HandleSignal, WorkerCrash, OperatorStarts
  <2>2. ASSUME NEW pc, NEW seq, NEW job \in {Job(w), 0}, SetWorker(w, pc, job, seq)
        PROVE  \A v \in Workers : Job(v)' \in {Job(v), 0}
    BY <2>2 DEF SetWorker, Job, TypeOK, WorkerState
  <2>3. ASSUME \/ WorkerStart(w) \/ WorkerStops(w) \/ HandleSignal(w)
               \/ WorkerCrash(w) \/ OperatorStarts(w)
        PROVE  \A v \in Workers : Job(v)' \in {Job(v), 0}
    <3>1. ASSUME WorkerStart(w) PROVE \A v \in Workers : Job(v)' \in {Job(v), 0}
      BY <3>1 DEF WorkerStart, Job, TypeOK, WorkerState
    <3>2. ASSUME HandleSignal(w) PROVE \A v \in Workers : Job(v)' \in {Job(v), 0}
      <4>1. CASE worker' = [worker EXCEPT ![w].running = FALSE]
        BY <4>1 DEF Job, TypeOK, WorkerState
      <4>2. CASE worker' = [worker EXCEPT ![w].pc = "stopped"]
        BY <4>2 DEF Job, TypeOK, WorkerState
      <4> QED  BY <3>2, <4>1, <4>2 DEF HandleSignal
    <3>3. ASSUME WorkerStops(w) \/ WorkerCrash(w) PROVE \A v \in Workers : Job(v)' \in {Job(v), 0}
      <4>1. PICK pc : worker' = [worker EXCEPT ![w] = IdleWorker(pc)]
        BY <3>3 DEF WorkerStops, WorkerCrash
      <4> QED  BY <4>1 DEF IdleWorker, Job, TypeOK
    <3>4. ASSUME OperatorStarts(w) PROVE \A v \in Workers : Job(v)' \in {Job(v), 0}
      BY <3>4 DEF OperatorStarts, Job, TypeOK, WorkerState
    <3> QED  BY <2>3, <3>1, <3>2, <3>3, <3>4
  <2>4. \/ \E pc, seq : \E job \in {Job(w), 0} : SetWorker(w, pc, job, seq)
        \/ WorkerStart(w) \/ WorkerStops(w) \/ HandleSignal(w)
        \/ WorkerCrash(w) \/ OperatorStarts(w)
    <3>1. PipelineStep(w) => \E pc, seq : SetWorker(w, pc, Job(w), seq)
      BY DEF PipelineStep, StageSkipped, StageBegins, StageEnds, StageCancelled,
           PipelineFinalize, PipelineError, NextStage
    <3>2. CASE ~ PipelineStep(w)
      BY <1>3, <3>2 DEF WorkerStep, ProcessScan, PipelineBegin, PipelineBeginLocked,
           CommitScan, ClearCancelled, MarkFailed, MarkFailedLocked, ContainerStep,
           SessionBreaks
    <3> QED  BY <3>1, <3>2
  <2>5. \A v \in Workers : Job(v)' \in {Job(v), 0}
    BY <2>2, <2>3, <2>4
  <2> QED  BY <1>1, <2>1, <2>5, JobsKept DEF BeingEnqueued
<1> QED  BY <1>2, <1>3

LEMMA JobOutside ==
    ASSUME TypeOK, TypeOK', JobInv, [Next]_vars,
           OutsideFault \/ RedisComesBack \/ UNCHANGED vars
    PROVE  (OneJobPerScan /\ JobsHaveRows)'
<1> USE DEF dbVars
<1>1. worker' = worker /\ \A w \in Workers : Job(w)' = Job(w)
  BY DEF OutsideFault, PanelCrash, RedisGoesDown, CancelKeyExpires, RedisComesBack,
         vars, Job
<1>2. \A r \in Requests : BeingEnqueued(r)' =>
          BeingEnqueued(r) /\ req'[r].scan = req[r].scan
  <2>1. CASE PanelCrash
    BY <2>1 DEF PanelCrash, BeingEnqueued, TypeOK, RequestState
  <2>2. CASE ~ PanelCrash
    BY <2>2 DEF OutsideFault, RedisGoesDown, CancelKeyExpires, RedisComesBack, vars,
                BeingEnqueued
  <2> QED  BY <2>1, <2>2
<1>3. CASE queue' = queue
  BY <1>1, <1>2, <1>3, JobsKept
<1>4. CASE queue' = <<>>
  <2>1. DOMAIN queue' = {}
    BY <1>4
  <2>2. JobsHaveRows'
    <3>1. ScanIds \subseteq ScanIds'
      BY TableGrows DEF ScanIds
    <3> QED  BY <1>1, <1>2, <2>1, <3>1 DEF JobInv, JobsHaveRows
  <2>3. OneJobPerScan'
    BY <1>1, <1>2, <2>1 DEF JobInv, OneJobPerScan, Queued, Held
  <2> QED  BY <2>2, <2>3
<1> QED
  BY <1>3, <1>4 DEF OutsideFault, PanelCrash, RedisGoesDown, CancelKeyExpires,
                    RedisComesBack, redisVars, vars

LEMMA CountedIdsStep ==
    ASSUME TypeOK, CountedIds, [Next]_vars
    PROVE  CountedIds'
<1>1. Len(scans) \in Nat /\ Len(scans') \in Nat /\ Len(scans) <= Len(scans')
  BY TableGrows
<1>2. ASSUME NEW r \in Requests, CreateScan(r) PROVE CountedIds'
  <2>1. /\ \A q \in Requests \ {r} : req'[q] = req[q]
        /\ req'[r].scan = Len(scans) + 1
        /\ scans' = scans
    BY <1>2 DEF CreateScan, SetReq, TypeOK, dbVars
  <2> QED  BY <1>1, <2>1 DEF CountedIds
<1>3. CASE \A q \in Requests : req'[q].pc = "insert" => req'[q] = req[q]
  BY <1>1, <1>3 DEF CountedIds
<1>4. \/ \E r \in Requests : CreateScan(r)
      \/ \A q \in Requests : req'[q].pc = "insert" => req'[q] = req[q]
  <2>1. ASSUME NEW r \in Requests, RequestArrives(r) \/ RequestStep(r), ~ CreateScan(r)
        PROVE  \A q \in Requests : req'[q].pc = "insert" => req'[q] = req[q]
    <3>1. /\ \A q \in Requests \ {r} : req'[q] = req[q]
          /\ req'[r].pc # "insert"
      BY <2>1 DEF RequestArrives, RequestStep, CreateScanRejected, CreateScanInsert,
         CancelScan, CancelScanRejected, CreateScanInsertFails, EnqueueScan,
         SetCancelled, PublishCancel, CancelScanUpdate, CancelScanLocked, SetReq,
         Answer, GotoReq, TypeOK, RequestState
    <3> QED  BY <3>1
  <2>2. PanelCrash => \A q \in Requests : req'[q].pc = "insert" => req'[q] = req[q]
    BY DEF PanelCrash, TypeOK, RequestState
  <2>3. \/ \E w \in Workers : WorkerStep(w) \/ ContainerStep(w)
        \/ RedisGoesDown \/ CancelKeyExpires \/ RedisComesBack \/ UNCHANGED vars
        => req' = req
    BY DEF WorkerStep, WorkerStart, DequeueScan, WorkerStops, ProcessScan,
         PipelineBegin, PipelineBeginLocked, CommitScan, ClearCancelled, MarkFailed,
         MarkFailedLocked, PipelineStep, StageSkipped, StageBegins, StageEnds,
         StageCancelled, PipelineFinalize, PipelineError, InPipeline, ContainerStep,
         SessionBreaks, HandleSignal, WorkerCrash, OperatorStarts, RedisGoesDown,
         CancelKeyExpires, RedisComesBack, vars
  <2> QED  BY <2>1, <2>2, <2>3 DEF Next, OutsideFault
<1> QED  BY <1>2, <1>3, <1>4

\* The invariant of jobs, rows and counted ids holds throughout.
THEOREM JobsCorrect == Spec => []JobInv
<1>1. Init => JobInv
  <2> SUFFICES ASSUME Init PROVE JobInv
    OBVIOUS
  <2>1. DOMAIN queue = {} /\ (\A w \in Workers : Job(w) = 0)
        /\ (\A r \in Requests : req[r].pc = "new")
    BY DEF Init, IdleWorker, Job
  <2> QED
    BY <2>1 DEF JobInv, OneJobPerScan, JobsHaveRows, CountedIds, Queued, BeingEnqueued
<1>2. TypeOK /\ TypeOK' /\ JobInv /\ [Next]_vars => JobInv'
  <2> SUFFICES ASSUME TypeOK, TypeOK', JobInv, [Next]_vars PROVE JobInv'
    OBVIOUS
  <2>1. CountedIds'
    BY CountedIdsStep DEF JobInv
  <2>2. (OneJobPerScan /\ JobsHaveRows)'
    BY JobRequest, JobWorker, JobOutside DEF Next
  <2> QED  BY <2>1, <2>2 DEF JobInv
<1> QED  BY <1>1, <1>2, TypeCorrect, PTL DEF Spec

\* No scan ever has two jobs: concurrent create requests, several workers and
\* any crash or outage notwithstanding.
THEOREM OneJobCorrect == Spec => []OneJobPerScan
<1>1. JobInv => OneJobPerScan
  BY DEF JobInv
<1> QED  BY <1>1, JobsCorrect, PTL

\* A worker never meets a job whose scan is not in the database.
THEOREM JobsHaveRowsCorrect == Spec => []JobsHaveRows
<1>1. JobInv => JobsHaveRows
  BY DEF JobInv
<1> QED  BY <1>1, JobsCorrect, PTL
=============================================================================

-------------------------- MODULE LifecycleProofs --------------------------
(***************************************************************************)
(* The service implements the abstract life cycle, for any numbers of       *)
(* requests and workers, any profile and any faults; and what the life      *)
(* cycle promises, that no settled scan is reopened, holds of the service.  *)
(***************************************************************************)
EXTENDS OutcomeProofs

-----------------------------------------------------------------------------
(* The part of the inductive invariant that only the refinement needs *)

\* Redis has cancellation keys of existing scans only.
KeysExist == cancelKeys \subseteq ScanIds

\* A request that nobody has served is of no kind; one that is on its way through
\* cancel_scan is a cancellation; none is answered before it is done.
RequestShape ==
    \A r \in Requests :
        /\ req[r].pc = "new" => req[r].kind = "none"
        /\ req[r].pc \in {"setex", "publish", "update"} => req[r].kind = "cancel"
        /\ req[r].pc # "done" => req[r].code = 0

\* A worker may still write the result of the scan.
Open(i) == Undecided(i) \/ \E w \in Workers : Job(w) = i /\ worker[w].pc = "commit"

CancelledFor(i) == \E r \in Requests : CancelAcknowledged(r) /\ req[r].scan = i

\* Until the result is written the row is as it was inserted, but for an
\* acknowledged cancellation.
OpenRow ==
    \A i \in ScanIds :
        Open(i) => \/ scans[i].status = "PENDING"
                   \/ scans[i].status = "CANCELLED" /\ CancelledFor(i)

ClientInv == KeysExist /\ RequestShape /\ OpenRow

Proved == TypeOK /\ TypeOK' /\ LockIsPipeline /\ JobInv /\ CancelInv /\ DeliveryInv

LEMMA KeysExistStep ==
    ASSUME Proved, ClientInv, [Next]_vars
    PROVE  KeysExist'
<1> USE DEF Proved, ClientInv
<1>1. ScanIds \subseteq ScanIds'
  BY TableGrows DEF ScanIds
<1>2. ASSUME NEW r \in Requests, RequestArrives(r) \/ RequestStep(r)
      PROVE  cancelKeys' \subseteq ScanIds
  <2>1. CASE SetCancelled(r)
    <3>1. req[r].scan \in ScanIds
      BY <2>1 DEF SetCancelled, RequestShape, CancelInv, CancelledExist
    <3> QED  BY <2>1, <3>1 DEF SetCancelled, KeysExist
  <2>2. CASE ~ SetCancelled(r)
    BY <1>2, <2>2 DEF RequestArrives, RequestStep, CreateScan, CreateScanRejected,
       CreateScanInsert, CancelScan, CancelScanRejected, CreateScanInsertFails, EnqueueScan,
       PublishCancel, CancelScanUpdate, CancelScanLocked, redisVars, KeysExist
  <2> QED  BY <2>1, <2>2
<1>3. ASSUME NEW w \in Workers, WorkerStep(w) \/ ContainerStep(w)
      PROVE  cancelKeys' \subseteq cancelKeys
  BY <1>3 DEF WorkerStep, WorkerStart, DequeueScan, WorkerStops, ProcessScan,
     PipelineBegin, PipelineBeginLocked, CommitScan, ClearCancelled, MarkFailed,
     MarkFailedLocked, PipelineStep, StageSkipped, StageBegins, StageEnds, StageCancelled,
     PipelineFinalize, PipelineError, InPipeline, ContainerStep, SessionBreaks,
     HandleSignal, WorkerCrash, OperatorStarts, redisVars
<1>4. OutsideFault \/ RedisComesBack \/ UNCHANGED vars => cancelKeys' \subseteq cancelKeys
  BY DEF OutsideFault, PanelCrash, RedisGoesDown, CancelKeyExpires, RedisComesBack,
         redisVars, vars
<1> QED  BY <1>1, <1>2, <1>3, <1>4 DEF Next, KeysExist

LEMMA RequestShapeStep ==
    ASSUME Proved, ClientInv, [Next]_vars
    PROVE  RequestShape'
<1> USE DEF Proved, ClientInv
<1> DEFINE Shape(r) == /\ req'[r].pc = "new" => req'[r].kind = "none"
                       /\ req'[r].pc \in {"setex", "publish", "update"} =>
                              req'[r].kind = "cancel"
                       /\ req'[r].pc # "done" => req'[r].code = 0
<1>1. ASSUME NEW r \in Requests, RequestArrives(r) \/ RequestStep(r)
      PROVE  RequestShape'
  <2>1. \A q \in Requests \ {r} : req'[q] = req[q]
    BY <1>1, RequestFacts
  <2>2. Shape(r)
    <3>1. CASE RequestArrives(r)
      BY <3>1 DEF RequestArrives, CreateScan, CreateScanRejected, CancelScan,
         CancelScanRejected, SetReq, TypeOK, RequestState
    <3>2. CASE CreateScanInsert(r)
      BY <3>2 DEF CreateScanInsert, GotoReq, TypeOK, RequestState, RequestShape
    <3>3. CASE CreateScanInsertFails(r)
      BY <3>3 DEF CreateScanInsertFails, SetReq, TypeOK, RequestState
    <3>4. CASE EnqueueScan(r)
      BY <3>4 DEF EnqueueScan, Answer, TypeOK, RequestState
    <3>5. CASE \/ SetCancelled(r) \/ PublishCancel(r) \/ CancelScanUpdate(r)
               \/ CancelScanLocked(r)
      BY <3>5 DEF SetCancelled, PublishCancel, CancelScanUpdate, CancelScanLocked, Answer,
         GotoReq, TypeOK, RequestState, RequestShape
    <3> QED  BY <1>1, <3>1, <3>2, <3>3, <3>4, <3>5 DEF RequestStep
  <2> QED  BY <2>1, <2>2 DEF RequestShape
<1>2. CASE PanelCrash
  BY <1>2 DEF PanelCrash, TypeOK, RequestState, RequestShape
<1>3. CASE req' = req
  BY <1>3 DEF RequestShape
<1> QED  BY <1>1, <1>2, <1>3, RequestsKept

\* Only a worker that was at work on a scan comes to the commit.
LEMMA OpenFacts ==
    ASSUME Proved, [Next]_vars, NEW i \in ScanIds, Open(i)'
    PROVE  Open(i)
<1> USE DEF Proved
<1>1. ASSUME NEW r \in Requests, RequestArrives(r) \/ RequestStep(r)
      PROVE  Open(i)
  <2>1. worker' = worker
    BY <1>1, RequestFacts
  <2>2. Undecided(i)' => Undecided(i)
    <3>1. ~ (CreateScanInsert(r) /\ i = req[r].scan)
      BY DEF CreateScanInsert
    <3> QED  BY <1>1, <3>1, RequestUndecided
  <2> QED  BY <2>1, <2>2 DEF Open, Job
<1>2. ASSUME NEW w \in Workers, WorkerStep(w) \/ ContainerStep(w)
      PROVE  Open(i)
  <2>1. \A v \in Workers \ {w} : worker'[v] = worker[v]
    BY <1>2, WorkerFacts
  <2>2. Undecided(i)' => Undecided(i)
    BY <1>2, WorkerUndecided
  <2>3. ASSUME worker'[w].pc = "commit"
        PROVE  Job(w)' = Job(w) /\ worker[w].pc \in Deciding \cup {"commit"}
    <3>1. CASE PipelineStep(w)
      <4>1. worker[w].pc \in Deciding
        BY <3>1 DEF PipelineStep, StageSkipped, StageBegins, StageEnds, StageCancelled,
           PipelineFinalize, PipelineError, InPipeline, Deciding
      <4>2. \E pc, seq : SetWorker(w, pc, Job(w), seq)
        BY <3>1 DEF PipelineStep, StageSkipped, StageBegins, StageEnds, StageCancelled,
           PipelineFinalize, PipelineError, NextStage
      <4> QED  BY <4>1, <4>2 DEF SetWorker, Job, TypeOK, WorkerState
    <3>2. CASE ~ PipelineStep(w)
      <4>1. HandleSignal(w) \/ OperatorStarts(w)
        <5>1. ~ WorkerCrash(w) /\ ~ WorkerStops(w)
          BY <2>3 DEF WorkerCrash, WorkerStops, IdleWorker, TypeOK, WorkerState
        <5> QED
          BY <1>2, <2>3, <3>2, <5>1 DEF WorkerStep, WorkerStart, DequeueScan,
             ProcessScan, PipelineBegin, PipelineBeginLocked, CommitScan, ClearCancelled,
             MarkFailed, MarkFailedLocked, ContainerStep, SessionBreaks, SetWorker,
             TypeOK, WorkerState
      <4> QED  BY <2>3, <4>1, SignalFacts
    <3> QED  BY <3>1, <3>2
  <2>4. ASSUME NEW v \in Workers, Job(v)' = i, worker'[v].pc = "commit"
        PROVE  Open(i)
    <3>1. CASE v = w
      BY <2>3, <2>4, <3>1 DEF Open, Undecided
    <3>2. CASE v # w
      BY <2>1, <2>4, <3>2 DEF Open, Job
    <3> QED  BY <3>1, <3>2
  <2> QED  BY <2>2, <2>4 DEF Open
<1>3. ASSUME OutsideFault \/ RedisComesBack \/ UNCHANGED vars
      PROVE  Open(i)
  BY <1>3, OutsideFacts DEF Open, Job
<1> QED  BY <1>1, <1>2, <1>3 DEF Next
\* A cancellation that was answered 200 stays so.
LEMMA AcknowledgedStays ==
    ASSUME Proved, ClientInv, [Next]_vars, NEW q \in Requests, CancelAcknowledged(q)
    PROVE  CancelAcknowledged(q)' /\ req'[q].scan = req[q].scan
<1> USE DEF Proved, ClientInv
<1>0. req[q].pc = "done"
  BY DEF RequestShape, CancelAcknowledged
<1>1. ASSUME NEW r \in Requests, RequestArrives(r) \/ RequestStep(r)
      PROVE  req'[q] = req[q]
  <2>1. q # r
    BY <1>0, <1>1 DEF RequestArrives, RequestStep, CreateScan, CreateScanRejected,
       CreateScanInsert, CancelScan, CancelScanRejected, CreateScanInsertFails, EnqueueScan,
       SetCancelled, PublishCancel, CancelScanUpdate, CancelScanLocked
  <2> QED  BY <1>1, <2>1, RequestFacts
<1>2. CASE PanelCrash
  BY <1>2 DEF PanelCrash, TypeOK, RequestState, CancelAcknowledged
<1>3. CASE req' = req
  BY <1>3 DEF CancelAcknowledged
<1> QED  BY <1>1, <1>2, <1>3, RequestsKept DEF CancelAcknowledged

LEMMA OpenRowStep ==
    ASSUME Proved, ClientInv, [Next]_vars
    PROVE  OpenRow'
<1> USE DEF Proved, ClientInv
<1> SUFFICES ASSUME NEW i \in ScanIds', Open(i)'
             PROVE  \/ scans'[i].status = "PENDING"
                    \/ scans'[i].status = "CANCELLED" /\ CancelledFor(i)'
  BY DEF OpenRow
<1>1. CASE i \notin ScanIds
  <2>1. scans'[i] = NoDraft
    BY <1>1, RowChange
  <2> QED  BY <2>1 DEF NoDraft
<1>2. CASE i \in ScanIds
  <2>1. Open(i) /\ scans[i] \in Row
    BY <1>2, OpenFacts, ElementOfSeq DEF TypeOK, ScanIds
  <2>2. CancelledFor(i) => CancelledFor(i)'
    <3>1. \A r \in Requests : CancelAcknowledged(r) =>
              CancelAcknowledged(r)' /\ req'[r].scan = req[r].scan
      BY AcknowledgedStays
    <3> QED  BY <3>1 DEF CancelledFor
  <2>3. CASE scans'[i] = scans[i]
    BY <1>2, <2>1, <2>2, <2>3 DEF OpenRow
  <2>4. ASSUME NEW r \in Requests, CancelScanUpdate(r), req[r].scan = i,
               scans'[i] = [scans[i] EXCEPT !.status = "CANCELLED"]
        PROVE  scans'[i].status = "CANCELLED" /\ CancelledFor(i)'
    <3>1. CancelAcknowledged(r)' /\ req'[r].scan = i
      BY <2>4 DEF CancelScanUpdate, Answer, CancelAcknowledged, RequestShape, TypeOK,
         RequestState
    <3> QED  BY <2>1, <2>4, <3>1 DEF CancelledFor, Row
  <2>5. ASSUME NEW w \in Workers, Job(w) = i, worker[w].pc \notin Deciding \cup {"commit"}
        PROVE  FALSE
    <3>1. i # 0
      BY <1>2 DEF ScanIds
    <3> QED  BY <2>1, <2>5, <3>1 DEF Open, Undecided, JobInv, OneJobPerScan, Held
  <2>6. \A w \in Workers : ~ (MarkFailed(w) /\ Job(w) = i)
    BY <2>5 DEF MarkFailed, Deciding
  <2>7. ASSUME NEW w \in Workers, CommitScan(w), Job(w) = i
        PROVE  FALSE
    <3>1. i # 0 /\ Job(w)' = i /\ worker'[w].pc = "clear" /\ queue' = queue /\ req' = req
      BY <1>2, <2>7 DEF CommitScan, SetWorker, Job, TypeOK, WorkerState, ScanIds, redisVars
    <3>2. \A v \in Workers \ {w} : worker'[v] = worker[v]
      BY <2>7, WorkerFacts DEF WorkerStep
    <3> QED  BY <2>7, <3>1, <3>2 DEF Open, Undecided, JobInv, OneJobPerScan, Held, Job,
             Queued, BeingEnqueued, Deciding
  <2> QED  BY <1>2, <2>3, <2>4, <2>6, <2>7, RowChange
<1> QED  BY <1>1, <1>2

LEMMA ClientInvariant == Spec => []ClientInv
<1>1. Init => ClientInv
  BY LenProperties DEF Init, ClientInv, KeysExist, RequestShape, OpenRow, ScanIds
<1>2. /\ TypeOK /\ TypeOK' /\ LockIsPipeline /\ JobInv /\ CancelInv /\ DeliveryInv
      /\ ClientInv /\ [Next]_vars
      => ClientInv'
  BY KeysExistStep, RequestShapeStep, OpenRowStep DEF Proved, ClientInv
<1> QED
  BY <1>1, <1>2, TypeCorrect, LockCorrect, JobsCorrect, CancelInvariant,
     DeliveryInvariant, PTL DEF Spec
-----------------------------------------------------------------------------
(* Where a job is *)

\* What a client makes of a worker with the job in its hands.
PhaseAt(pc) ==
    IF pc = "clear" THEN "delivered" ELSE IF pc = "recover" THEN "failing" ELSE "open"

Phases == { "open", "delivered", "failing", "closed" }

LEMMA PhaseTypes == \A i : PhaseOf(i) \in Phases
BY DEF PhaseOf, Phases

\* A job in a worker's hands is nowhere else.
HeldPhases ==
    \A w \in Workers : \A i \in Nat \ {0} :
        Job(w) = i => PhaseOf(i) = PhaseAt(worker[w].pc)

OtherPhases == \A i \in Nat : ~ Held(i) => PhaseOf(i) = IF Waiting(i) THEN "open" ELSE "closed"

LEMMA PhaseHeld == OneJobPerScan => HeldPhases
<1> SUFFICES ASSUME OneJobPerScan, NEW w \in Workers, NEW i \in Nat \ {0}, Job(w) = i
             PROVE  PhaseOf(i) = PhaseAt(worker[w].pc)
  BY DEF HeldPhases
<1>1. /\ AtPC(i, {"clear"}) <=> worker[w].pc = "clear"
      /\ AtPC(i, {"recover"}) <=> worker[w].pc = "recover"
  BY DEF AtPC, OneJobPerScan
<1>2. Held(i)
  BY DEF Held
<1> QED  BY <1>1, <1>2 DEF PhaseOf, PhaseAt

LEMMA PhaseOthers == OtherPhases
BY DEF OtherPhases, PhaseOf, Held, AtPC, Waiting

LEMMA PhaseNext == OtherPhases' /\ (OneJobPerScan' => HeldPhases')
BY PhaseHeld, PhaseOthers, PTL

\* Without a step of a worker a job stays where it is, or is gone.
LEMMA PhaseStays ==
    ASSUME NEW i, worker' = worker
    PROVE  /\ (Undecided(i)' => Undecided(i)) =>
                  PhaseOf(i)' = PhaseOf(i) \/ PhaseOf(i)' = "closed"
           /\ (Waiting(i)' <=> Waiting(i)) => PhaseOf(i)' = PhaseOf(i)
<1>1. /\ Held(i)' <=> Held(i)
      /\ \A pcs : AtPC(i, pcs)' <=> AtPC(i, pcs)
  BY DEF Held, AtPC, Job
<1>2. Undecided(i) => Waiting(i) \/ Held(i)
  BY DEF Undecided, Waiting, Held
<1>3. Waiting(i)' => Undecided(i)'
  BY DEF Undecided, Waiting
<1>4. /\ AtPC(i, {"clear"})' <=> AtPC(i, {"clear"})
      /\ AtPC(i, {"recover"})' <=> AtPC(i, {"recover"})
  BY <1>1
<1> QED  BY <1>1, <1>2, <1>3, <1>4 DEF PhaseOf
-----------------------------------------------------------------------------
(* The steps of the life cycle, told by what the service does *)

MappedTypes ==
    /\ Len(scans) \in Nat /\ ScanIds = 1 .. Len(scans)
    /\ CommittedStatus \in Seq(ScanStatus) /\ Len(CommittedStatus) = Len(scans)
    /\ JobPhase \in Seq(Phases) /\ Len(JobPhase) = Len(scans)

LEMMA IsSequence ==
    ASSUME NEW S, NEW n \in Nat, NEW f \in [1 .. n -> S]
    PROVE  f \in Seq(S) /\ Len(f) = n
BY SeqDef

LEMMA MappedTypesHold == TypeOK => MappedTypes
<1> SUFFICES ASSUME TypeOK PROVE MappedTypes
  OBVIOUS
<1>1. Len(scans) \in Nat /\ ScanIds = 1 .. Len(scans) /\ scans \in Seq(Row)
  BY LenProperties DEF TypeOK, ScanIds
<1>2. CommittedStatus \in [1 .. Len(scans) -> ScanStatus]
  <2>1. \A i \in ScanIds : scans[i] \in Row
    BY <1>1, ElementOfSeq
  <2> QED  BY <1>1, <2>1 DEF CommittedStatus, Row
<1>3. JobPhase \in [1 .. Len(scans) -> Phases]
  BY <1>1, PhaseTypes DEF JobPhase
<1>4. /\ CommittedStatus \in Seq(ScanStatus) /\ Len(CommittedStatus) = Len(scans)
      /\ JobPhase \in Seq(Phases) /\ Len(JobPhase) = Len(scans)
  BY <1>1, <1>2, <1>3, IsSequence
<1> QED  BY <1>1, <1>4 DEF MappedTypes

LEMMA MappedTypesNext == TypeOK' => MappedTypes'
BY MappedTypesHold, PTL

\* Nothing but the phases of jobs that are gone, and flags that are lost.
LEMMA CloseMove ==
    ASSUME TypeOK, TypeOK', scans' = scans, AskedToCancel' = AskedToCancel,
           NEW flags \in SUBSET ScanIds, lostKeys' = lostKeys \cup flags,
           \A i \in ScanIds : PhaseOf(i)' = PhaseOf(i) \/ PhaseOf(i)' = "closed"
    PROVE  Lifecycle!LifecycleNext
<1>1. MappedTypes
  BY MappedTypesHold
<1>2. CommittedStatus' = CommittedStatus
  BY DEF CommittedStatus, ScanIds
<1> DEFINE ids == {i \in ScanIds : PhaseOf(i)' = "closed"}
<1>3. JobPhase' = [i \in 1 .. Len(JobPhase) |-> IF i \in ids THEN "closed" ELSE JobPhase[i]]
  <2>1. ScanIds' = ScanIds /\ ScanIds = 1 .. Len(JobPhase)
    BY <1>1 DEF ScanIds, MappedTypes
  <2>2. \A i \in ScanIds : PhaseOf(i)' = IF i \in ids THEN "closed" ELSE JobPhase[i]
    BY DEF JobPhase
  <2>3. JobPhase' = [i \in ScanIds |-> PhaseOf(i)']
    BY <2>1 DEF JobPhase
  <2> QED  BY <2>1, <2>2, <2>3
<1>4. /\ ids \in SUBSET (1 .. Len(CommittedStatus))
      /\ flags \in SUBSET (1 .. Len(CommittedStatus))
  BY <1>1 DEF MappedTypes
<1>5. Lifecycle!Close
  BY <1>2, <1>3, <1>4 DEF Lifecycle!Close
<1> QED  BY <1>5 DEF Lifecycle!LifecycleNext

\* The phase of one scan changes, and perhaps its status.
LEMMA OnePhase ==
    ASSUME TypeOK, TypeOK', Len(scans') = Len(scans), NEW i \in ScanIds,
           \A j \in ScanIds \ {i} : PhaseOf(j)' = PhaseOf(j)
    PROVE  JobPhase' = [JobPhase EXCEPT ![i] = PhaseOf(i)']
<1>1. ScanIds' = ScanIds
  BY DEF ScanIds
<1> QED  BY <1>1 DEF JobPhase

LEMMA OneStatus ==
    ASSUME TypeOK, TypeOK', Len(scans') = Len(scans), NEW i \in ScanIds, NEW st,
           scans'[i].status = st,
           \A j \in ScanIds \ {i} : scans'[j].status = scans[j].status
    PROVE  CommittedStatus' = [CommittedStatus EXCEPT ![i] = st]
<1>1. ScanIds' = ScanIds
  BY DEF ScanIds
<1> QED  BY <1>1 DEF CommittedStatus

LEMMA BreakOffMove ==
    ASSUME TypeOK, TypeOK', scans' = scans, AskedToCancel' = AskedToCancel,
           lostKeys' = lostKeys, NEW i \in ScanIds,
           PhaseOf(i) \in {"open", "delivered"}, PhaseOf(i)' = "failing",
           \A j \in ScanIds \ {i} : PhaseOf(j)' = PhaseOf(j)
    PROVE  Lifecycle!LifecycleNext
<1>1. MappedTypes
  BY MappedTypesHold
<1>2. CommittedStatus' = CommittedStatus
  BY DEF CommittedStatus, ScanIds
<1>3. JobPhase' = [JobPhase EXCEPT ![i] = "failing"] /\ JobPhase[i] = PhaseOf(i)
  BY OnePhase DEF JobPhase
<1>4. i \in 1 .. Len(CommittedStatus)
  BY <1>1 DEF MappedTypes
<1>5. Lifecycle!BreakOff(i)
  BY <1>2, <1>3 DEF Lifecycle!BreakOff
<1> QED  BY <1>4, <1>5 DEF Lifecycle!LifecycleNext

LEMMA MarkBrokenMove ==
    ASSUME TypeOK, TypeOK', AskedToCancel' = AskedToCancel, lostKeys' = lostKeys,
           NEW i \in ScanIds, Len(scans') = Len(scans), scans'[i].status = "FAILED",
           PhaseOf(i) = "failing", PhaseOf(i)' = "closed",
           \A j \in ScanIds \ {i} :
               PhaseOf(j)' = PhaseOf(j) /\ scans'[j].status = scans[j].status
    PROVE  Lifecycle!LifecycleNext
<1>1. MappedTypes
  BY MappedTypesHold
<1>2. CommittedStatus' = [CommittedStatus EXCEPT ![i] = "FAILED"]
  BY OneStatus
<1>3. JobPhase' = [JobPhase EXCEPT ![i] = "closed"] /\ JobPhase[i] = PhaseOf(i)
  BY OnePhase DEF JobPhase
<1>4. i \in 1 .. Len(CommittedStatus)
  BY <1>1 DEF MappedTypes
<1>5. Lifecycle!MarkBroken(i)
  BY <1>2, <1>3 DEF Lifecycle!MarkBroken
<1> QED  BY <1>4, <1>5 DEF Lifecycle!LifecycleNext

LEMMA DeliverMove ==
    ASSUME TypeOK, TypeOK', AskedToCancel' = AskedToCancel, lostKeys' = lostKeys,
           NEW i \in ScanIds, NEW result \in Terminal,
           result = "COMPLETE" => scans[i].status = "PENDING" \/ i \in lostKeys,
           Len(scans') = Len(scans), scans'[i].status = result,
           PhaseOf(i) = "open", PhaseOf(i)' = "delivered",
           \A j \in ScanIds \ {i} :
               PhaseOf(j)' = PhaseOf(j) /\ scans'[j].status = scans[j].status
    PROVE  Lifecycle!LifecycleNext
<1>1. MappedTypes
  BY MappedTypesHold
<1>2. /\ CommittedStatus' = [CommittedStatus EXCEPT ![i] = result]
      /\ CommittedStatus[i] = scans[i].status
  BY OneStatus DEF CommittedStatus
<1>3. JobPhase' = [JobPhase EXCEPT ![i] = "delivered"] /\ JobPhase[i] = PhaseOf(i)
  BY OnePhase DEF JobPhase
<1>4. i \in 1 .. Len(CommittedStatus) /\ result \in Lifecycle!Results
  BY <1>1 DEF MappedTypes, Terminal, Lifecycle!Results
<1>5. Lifecycle!Deliver(i, result)
  BY <1>2, <1>3 DEF Lifecycle!Deliver
<1> QED  BY <1>4, <1>5 DEF Lifecycle!LifecycleNext
-----------------------------------------------------------------------------
(* Steps of the requests *)

Facts ==
    TypeOK /\ TypeOK' /\ LockIsPipeline /\ JobInv /\ JobInv' /\ CancelInv /\ DeliveryInv
    /\ ClientInv

LEMMA AsksKept ==
    ASSUME \A q \in Requests :
               (Asks(q)' <=> Asks(q)) /\ (Asks(q) => req'[q].scan = req[q].scan)
    PROVE  AskedToCancel' = AskedToCancel
<1>1. ASSUME NEW x \in AskedToCancel
      PROVE  x \in AskedToCancel'
  BY <1>1 DEF AskedToCancel
<1>2. ASSUME NEW x \in AskedToCancel'
      PROVE  x \in AskedToCancel
  BY <1>2 DEF AskedToCancel
<1> QED  BY <1>1, <1>2

\* A request that has not asked before it arrives, and goes on asking once it has.
LEMMA RequestAsks ==
    ASSUME Facts, NEW r \in Requests, RequestArrives(r) \/ RequestStep(r)
    PROVE  /\ ~ CancelScan(r) => AskedToCancel' = AskedToCancel
           /\ CancelScan(r) => AskedToCancel' = AskedToCancel \cup {req'[r].scan}
<1> USE DEF Facts, ClientInv
<1>1. \A q \in Requests \ {r} : req'[q] = req[q]
  BY RequestFacts
<1>2. CASE ~ CancelScan(r)
  <2>1. (Asks(r)' <=> Asks(r)) /\ (Asks(r) => req'[r].scan = req[r].scan)
    <3>1. CASE RequestArrives(r)
      BY <1>2, <3>1 DEF RequestArrives, CreateScan, CreateScanRejected,
         CancelScanRejected, SetReq, TypeOK, RequestState, Asks, RequestShape
    <3>2. CASE CreateScanInsert(r) \/ CreateScanInsertFails(r) \/ EnqueueScan(r)
      BY <3>2 DEF CreateScanInsert, CreateScanInsertFails, EnqueueScan, SetReq, Answer,
         GotoReq, TypeOK, RequestState, Asks, DeliveryInv, CreatesUnanswered
    <3>3. CASE \/ SetCancelled(r) \/ PublishCancel(r) \/ CancelScanUpdate(r)
               \/ CancelScanLocked(r)
      BY <3>3 DEF SetCancelled, PublishCancel, CancelScanUpdate, CancelScanLocked, Answer,
         GotoReq, TypeOK, RequestState, Asks, RequestShape
    <3> QED  BY <3>1, <3>2, <3>3 DEF RequestStep
  <2> QED  BY <1>1, <1>2, <2>1, AsksKept DEF Asks
<1>3. CASE CancelScan(r)
  <2>1. ~ Asks(r) /\ Asks(r)'
    BY <1>3 DEF CancelScan, SetReq, TypeOK, Asks, RequestShape
  <2>2. \A q \in Requests \ {r} : (Asks(q)' <=> Asks(q)) /\ req'[q].scan = req[q].scan
    BY <1>1 DEF Asks
  <2>3. ASSUME NEW x \in AskedToCancel'
        PROVE  x \in AskedToCancel \cup {req'[r].scan}
    BY <2>2, <2>3 DEF AskedToCancel
  <2>4. ASSUME NEW x \in AskedToCancel \cup {req'[r].scan}
        PROVE  x \in AskedToCancel'
    BY <2>1, <2>2, <2>4 DEF AskedToCancel
  <2>5. AskedToCancel' = AskedToCancel \cup {req'[r].scan}
    BY <2>3, <2>4
  <2> QED  BY <1>3, <2>5
<1> QED  BY <1>2, <1>3

\* The new row comes with the one job that will be enqueued for it.
LEMMA InsertAccepts ==
    ASSUME Facts, [Next]_vars, NEW r \in Requests, CreateScanInsert(r)
    PROVE  Lifecycle!LifecycleNext
<1> USE DEF Facts
<1>1. MappedTypes /\ MappedTypes'
  BY MappedTypesHold, MappedTypesNext
<1>0. PICK n : n = Len(scans)
  OBVIOUS
<1> USE <1>0
<1>2. n \in Nat /\ scans' = Append(scans, NoDraft) /\ scans \in Seq(Row)
  BY <1>1 DEF CreateScanInsert, MappedTypes, TypeOK
<1>3. /\ Len(scans') = n + 1 /\ scans'[n + 1] = NoDraft
      /\ \A i \in 1 .. n : scans'[i] = scans[i]
  BY <1>2, RowTypes, AppendProperties
<1>4. req[r].scan = n + 1
  BY <1>2 DEF CreateScanInsert, JobInv, CountedIds, ScanIds
<1>5. /\ worker' = worker /\ queue' = queue /\ lostKeys' = lostKeys
      /\ \A q \in Requests \ {r} : req'[q] = req[q]
      /\ ~ BeingEnqueued(r) /\ BeingEnqueued(r)' /\ req'[r].scan = n + 1
  <2>1. /\ worker' = worker /\ lostKeys' = lostKeys
        /\ \A q \in Requests \ {r} : req'[q] = req[q]
    BY RequestFacts DEF RequestStep
  <2>2. queue' = queue /\ ~ BeingEnqueued(r) /\ BeingEnqueued(r)' /\ req'[r].scan = n + 1
    BY <1>4 DEF CreateScanInsert, GotoReq, TypeOK, RequestState, BeingEnqueued, redisVars
  <2> QED  BY <2>1, <2>2
<1>6. \A i \in 1 .. n : PhaseOf(i)' = PhaseOf(i)
  <2> SUFFICES ASSUME NEW i \in 1 .. n PROVE PhaseOf(i)' = PhaseOf(i)
    OBVIOUS
  <2>1. i # n + 1
    BY <1>2
  <2>2. Waiting(i)' <=> Waiting(i)
    BY <1>5, <2>1 DEF Waiting, Queued, BeingEnqueued
  <2> QED  BY <1>5, <2>2, PhaseStays
<1>7. PhaseOf(n + 1)' = "open"
  <2>1. n + 1 \in Nat /\ n + 1 # 0
    BY <1>2
  <2>2. Waiting(n + 1)'
    BY <1>5 DEF Waiting
  <2>3. ~ Held(n + 1)'
    BY <1>5, <2>1 DEF JobInv, JobsHaveRows, ScanIds, Held, Job
  <2> QED  BY <2>1, <2>2, <2>3, PhaseNext DEF OtherPhases
<1>8. CommittedStatus' = Append(CommittedStatus, "PENDING")
  <2>1. "PENDING" \in ScanStatus
    BY DEF ScanStatus
  <2>2. /\ Append(CommittedStatus, "PENDING") \in Seq(ScanStatus)
        /\ Len(Append(CommittedStatus, "PENDING")) = n + 1
        /\ \A i \in 1 .. n : Append(CommittedStatus, "PENDING")[i] = CommittedStatus[i]
        /\ Append(CommittedStatus, "PENDING")[n + 1] = "PENDING"
    BY <1>1, <2>1, AppendProperties DEF MappedTypes
  <2>3. \A i \in 1 .. n + 1 : CommittedStatus'[i] = IF i = n + 1 THEN "PENDING"
                                                               ELSE CommittedStatus[i]
    BY <1>1, <1>2, <1>3 DEF CommittedStatus, MappedTypes, NoDraft
  <2>4. \A i \in 1 .. n + 1 : i \in 1 .. n \/ i = n + 1
    BY <1>2
  <2>5. CommittedStatus' \in Seq(ScanStatus) /\ Len(CommittedStatus') = n + 1
    BY <1>1, <1>3 DEF MappedTypes
  <2>6. \A i \in 1 .. n + 1 : CommittedStatus'[i] = Append(CommittedStatus, "PENDING")[i]
    BY <1>2, <2>2, <2>3, <2>4
  <2> QED  BY <2>2, <2>5, <2>6, SeqEqual
<1>9. JobPhase' = Append(JobPhase, "open")
  <2>1. "open" \in Phases
    BY DEF Phases
  <2>2. /\ Append(JobPhase, "open") \in Seq(Phases)
        /\ Len(Append(JobPhase, "open")) = n + 1
        /\ \A i \in 1 .. n : Append(JobPhase, "open")[i] = JobPhase[i]
        /\ Append(JobPhase, "open")[n + 1] = "open"
    BY <1>1, <2>1, AppendProperties DEF MappedTypes
  <2>3. \A i \in 1 .. n + 1 : JobPhase'[i] = IF i = n + 1 THEN "open" ELSE JobPhase[i]
    BY <1>1, <1>2, <1>3, <1>6, <1>7 DEF JobPhase, MappedTypes
  <2>4. \A i \in 1 .. n + 1 : i \in 1 .. n \/ i = n + 1
    BY <1>2
  <2>5. JobPhase' \in Seq(Phases) /\ Len(JobPhase') = n + 1
    BY <1>1, <1>3 DEF MappedTypes
  <2>6. \A i \in 1 .. n + 1 : JobPhase'[i] = Append(JobPhase, "open")[i]
    BY <1>2, <2>2, <2>3, <2>4
  <2> QED  BY <2>2, <2>5, <2>6, SeqEqual
<1>10. AskedToCancel' = AskedToCancel
  <2>1. ~ CancelScan(r)
    BY DEF CancelScan, CreateScanInsert
  <2> QED  BY <2>1, RequestAsks DEF RequestStep
<1>11. Lifecycle!Accept
  BY <1>5, <1>8, <1>9, <1>10 DEF Lifecycle!Accept
<1> QED  BY <1>11 DEF Lifecycle!LifecycleNext

\* A cancellation is asked for, or answered 200; the jobs stay where they are.
LEMMA CancelRefines ==
    ASSUME Facts, [Next]_vars, NEW r \in Requests, CancelScan(r) \/ CancelScanUpdate(r)
    PROVE  Lifecycle!LifecycleNext
<1> USE DEF Facts
<1>0. MappedTypes
  BY MappedTypesHold
<1>1. /\ worker' = worker /\ lostKeys' = lostKeys /\ queue' = queue
      /\ \A q \in Requests \ {r} : req'[q] = req[q]
  <2>1. RequestArrives(r) \/ RequestStep(r)
    BY DEF RequestArrives, RequestStep
  <2> QED  BY <2>1, RequestFacts DEF CancelScan, CancelScanUpdate, redisVars
<1>2. ~ BeingEnqueued(r) /\ ~ BeingEnqueued(r)'
  BY DEF CancelScan, CancelScanUpdate, SetReq, Answer, BeingEnqueued, TypeOK, RequestState
<1>3. \A i : PhaseOf(i)' = PhaseOf(i)
  <2> SUFFICES ASSUME NEW i PROVE PhaseOf(i)' = PhaseOf(i)
    OBVIOUS
  <2>1. Waiting(i)' <=> Waiting(i)
    BY <1>1, <1>2 DEF Waiting, Queued, BeingEnqueued
  <2> QED  BY <1>1, <2>1, PhaseStays
<1>4. CASE CancelScan(r)
  <2>1. PICK i \in ScanIds : scans[i].status \notin Terminal /\ SetReq(r, "setex", "cancel", i, 0)
    BY <1>4 DEF CancelScan
  <2>2. scans' = scans /\ req'[r].scan = i
    BY <1>4, <2>1 DEF CancelScan, dbVars, SetReq, TypeOK
  <2>3. CommittedStatus' = CommittedStatus /\ JobPhase' = JobPhase
    BY <1>3, <2>2 DEF CommittedStatus, JobPhase, ScanIds
  <2>4. AskedToCancel' = AskedToCancel \cup {i}
    BY <1>4, <2>2, RequestAsks DEF RequestArrives
  <2>5. CommittedStatus[i] \notin Lifecycle!Results
    BY <2>1 DEF CommittedStatus, Terminal, Lifecycle!Results
  <2>6. i \in 1 .. Len(CommittedStatus)
    BY <1>0 DEF MappedTypes
  <2>7. Lifecycle!Ask(i)
    BY <1>1, <2>3, <2>4, <2>5 DEF Lifecycle!Ask
  <2> QED  BY <2>6, <2>7 DEF Lifecycle!LifecycleNext
<1>5. CASE CancelScanUpdate(r)
  <2>1. PICK i : i = req[r].scan
    OBVIOUS
  <2>2. i \in ScanIds /\ i \in AskedToCancel
    <3>1. req[r].kind = "cancel" /\ req[r].pc = "update" /\ req[r].code = 0
      BY <1>5 DEF CancelScanUpdate, ClientInv, RequestShape
    <3> QED  BY <2>1, <3>1 DEF CancelInv, CancelledExist, HasSetKey, Asks, AskedToCancel
  <2>3. /\ Len(scans') = Len(scans)
        /\ \A j \in ScanIds :
              scans'[j] = IF j = i THEN [scans[j] EXCEPT !.status = "CANCELLED"] ELSE scans[j]
    <3>1. scans' = [scans EXCEPT ![i].status = "CANCELLED"]
      BY <1>5, <2>1 DEF CancelScanUpdate
    <3>2. i \in Nat /\ "CANCELLED" \in ScanStatus /\ scans \in Seq(Row)
      BY <2>2 DEF ScanStatus, Terminal, TypeOK, ScanIds
    <3> QED  BY <3>1, <3>2, UpdateStatus DEF ScanIds
  <2>4. scans'[i].status = "CANCELLED"
    <3>1. scans[i] \in Row
      BY <2>2, ElementOfSeq DEF TypeOK, ScanIds
    <3> QED  BY <2>2, <2>3, <3>1 DEF Row
  <2>5. CommittedStatus' = [CommittedStatus EXCEPT ![i] = "CANCELLED"]
    BY <2>2, <2>3, <2>4, OneStatus
  <2>6. JobPhase' = JobPhase
    BY <1>3, <2>3 DEF JobPhase, ScanIds
  <2>7. AskedToCancel' = AskedToCancel
    <3>1. ~ CancelScan(r)
      BY <1>5 DEF CancelScan, CancelScanUpdate
    <3> QED  BY <1>5, <3>1, RequestAsks DEF RequestStep
  <2>8. i \in 1 .. Len(CommittedStatus)
    BY <1>0, <2>2 DEF MappedTypes
  <2>9. Lifecycle!MarkCancelled(i)
    BY <1>1, <2>2, <2>5, <2>6, <2>7 DEF Lifecycle!MarkCancelled
  <2> QED  BY <2>8, <2>9 DEF Lifecycle!LifecycleNext
<1> QED  BY <1>4, <1>5

LEMMA RequestRefines ==
    ASSUME Facts, [Next]_vars, NEW r \in Requests, RequestArrives(r) \/ RequestStep(r)
    PROVE  Lifecycle!LifecycleNext
<1>1. CASE CreateScanInsert(r)
  BY <1>1, InsertAccepts
<1>2. CASE CancelScan(r) \/ CancelScanUpdate(r)
  BY <1>2, CancelRefines
<1>3. CASE ~ CreateScanInsert(r) /\ ~ CancelScan(r) /\ ~ CancelScanUpdate(r)
  <2>1. worker' = worker /\ lostKeys' = lostKeys
    BY RequestFacts DEF Facts
  <2>2. scans' = scans
    BY <1>3 DEF RequestArrives, RequestStep, CreateScan, CreateScanRejected,
       CancelScanRejected, CreateScanInsertFails, EnqueueScan, SetCancelled, PublishCancel,
       CancelScanLocked, dbVars
  <2>3. ASSUME NEW i \in ScanIds
        PROVE  PhaseOf(i)' = PhaseOf(i) \/ PhaseOf(i)' = "closed"
    <3>1. Undecided(i)' => Undecided(i)
      BY <1>3, RequestUndecided DEF Facts
    <3> QED  BY <2>1, <3>1, PhaseStays
  <2>4. AskedToCancel' = AskedToCancel
    BY <1>3, RequestAsks
  <2>5. {} \in SUBSET ScanIds /\ lostKeys' = lostKeys \cup {}
    BY <2>1
  <2> QED  BY <2>2, <2>3, <2>4, <2>5, CloseMove DEF Facts
<1> QED  BY <1>1, <1>2, <1>3

-----------------------------------------------------------------------------
(* Faults outside the workers *)

LEMMA OutsideRefines ==
    ASSUME Facts, OutsideFault \/ RedisComesBack \/ UNCHANGED vars
    PROVE  Lifecycle!LifecycleNext
<1> USE DEF Facts
<1>1. scans' = scans /\ worker' = worker
  BY OutsideFacts
<1>2. ASSUME NEW i \in ScanIds
      PROVE  PhaseOf(i)' = PhaseOf(i) \/ PhaseOf(i)' = "closed"
  BY <1>1, OutsideFacts, PhaseStays
<1>3. AskedToCancel' = AskedToCancel
  <2>1. CASE PanelCrash
    <3>1. \A q \in Requests : (Asks(q)' <=> Asks(q)) /\ req'[q].scan = req[q].scan
      BY <2>1 DEF PanelCrash, Asks, TypeOK, RequestState
    <3> QED  BY <3>1, AsksKept
  <2>2. CASE ~ PanelCrash
    <3>1. req' = req
      BY <2>2 DEF OutsideFault, RedisGoesDown, CancelKeyExpires, RedisComesBack, vars
    <3> QED  BY <3>1, AsksKept DEF Asks
  <2> QED  BY <2>1, <2>2
<1>4. \E flags \in SUBSET ScanIds : lostKeys' = lostKeys \cup flags
  <2>1. cancelKeys \subseteq ScanIds
    BY DEF ClientInv, KeysExist
  <2>2. CASE lostKeys' = lostKeys
    <3>1. {} \in SUBSET ScanIds /\ lostKeys' = lostKeys \cup {}
      BY <2>2
    <3> QED  BY <3>1
  <2>3. CASE RedisComesBack
    BY <2>1, <2>2, <2>3 DEF RedisComesBack
  <2>4. CASE CancelKeyExpires
    <3>1. PICK i \in cancelKeys : lostKeys' = lostKeys \cup {i}
      BY <2>4 DEF CancelKeyExpires
    <3>2. {i} \in SUBSET ScanIds
      BY <2>1
    <3> QED  BY <3>1, <3>2
  <2>5. CASE PanelCrash \/ RedisGoesDown \/ UNCHANGED vars
    BY <2>2, <2>5 DEF PanelCrash, RedisGoesDown, vars
  <2> QED  BY <2>3, <2>4, <2>5 DEF OutsideFault
<1> QED  BY <1>1, <1>2, <1>3, <1>4, CloseMove

-----------------------------------------------------------------------------
(* Steps of the workers *)

\* Where a worker's step leaves its own job and those of all the others.
LEMMA WorkerPhases ==
    ASSUME Facts, NEW w \in Workers, WorkerStep(w) \/ ContainerStep(w), ~ DequeueScan(w)
    PROVE  /\ Job(w)' = Job(w) \/ Job(w)' = 0
           /\ \A i \in ScanIds : Job(w) # i => PhaseOf(i)' = PhaseOf(i)
           /\ \A i \in ScanIds : Job(w) = i =>
                 /\ PhaseOf(i) = PhaseAt(worker[w].pc)
                 /\ PhaseOf(i)' = IF Job(w)' = i THEN PhaseAt(worker'[w].pc) ELSE "closed"
<1> USE DEF Facts
<1>0. ScanIds \subseteq Nat \ {0}
  BY DEF ScanIds
<1>1. req' = req /\ \A v \in Workers \ {w} : worker'[v] = worker[v]
  BY WorkerFacts
<1>2. queue' = queue
  BY DEF WorkerStep, WorkerStart, WorkerStops, ProcessScan, PipelineBegin,
     PipelineBeginLocked, CommitScan, ClearCancelled, MarkFailed, MarkFailedLocked,
     PipelineStep, StageSkipped, StageBegins, StageEnds, StageCancelled, PipelineFinalize,
     PipelineError, InPipeline, ContainerStep, SessionBreaks, HandleSignal,
     WorkerCrash, OperatorStarts, redisVars
<1>3. Job(w)' = Job(w) \/ Job(w)' = 0
  <2>1. CASE PipelineStep(w)
    <3>1. \E pc, seq : SetWorker(w, pc, Job(w), seq)
      BY <2>1 DEF PipelineStep, StageSkipped, StageBegins, StageEnds, StageCancelled,
         PipelineFinalize, PipelineError, NextStage
    <3> QED  BY <3>1 DEF SetWorker, Job, TypeOK, WorkerState
  <2>2. CASE WorkerStart(w) \/ WorkerStops(w) \/ WorkerCrash(w)
    BY <2>2 DEF WorkerStart, WorkerStops, WorkerCrash, IdleWorker, Job, TypeOK, WorkerState
  <2>3. CASE HandleSignal(w) \/ OperatorStarts(w)
    BY <2>3, SignalFacts
  <2>4. CASE ProcessScan(w) \/ PipelineBegin(w) \/ PipelineBeginLocked(w)
             \/ CommitScan(w) \/ ClearCancelled(w) \/ MarkFailed(w)
             \/ MarkFailedLocked(w) \/ SessionBreaks(w)
    BY <2>4 DEF ProcessScan, PipelineBegin, PipelineBeginLocked, CommitScan,
       ClearCancelled, MarkFailed, MarkFailedLocked, SessionBreaks, SetWorker, Job,
       TypeOK, WorkerState
  <2> QED  BY <2>1, <2>2, <2>3, <2>4 DEF WorkerStep, ContainerStep
<1>4. \A i : Waiting(i)' <=> Waiting(i)
  BY <1>1, <1>2 DEF Waiting, Queued, BeingEnqueued
<1>5. ASSUME NEW i \in ScanIds, Job(w) # i
      PROVE  PhaseOf(i)' = PhaseOf(i)
  <2>1. Job(w)' # i
    BY <1>0, <1>3, <1>5
  <2>2. /\ Held(i)' <=> Held(i)
        /\ AtPC(i, {"clear"})' <=> AtPC(i, {"clear"})
        /\ AtPC(i, {"recover"})' <=> AtPC(i, {"recover"})
    BY <1>1, <1>5, <2>1 DEF Held, AtPC, Job
  <2> QED  BY <1>4, <2>2 DEF PhaseOf
<1>6. ASSUME NEW i \in ScanIds, Job(w) = i
      PROVE  /\ PhaseOf(i) = PhaseAt(worker[w].pc)
             /\ PhaseOf(i)' = IF Job(w)' = i THEN PhaseAt(worker'[w].pc) ELSE "closed"
  <2>1. i \in Nat /\ i # 0
    BY <1>0
  <2>2. PhaseOf(i) = PhaseAt(worker[w].pc)
    BY <1>6, <2>1, PhaseHeld DEF JobInv, HeldPhases
  <2>3. CASE Job(w)' = i
    BY <2>1, <2>2, <2>3, PhaseNext DEF JobInv, HeldPhases
  <2>4. CASE Job(w)' # i
    <3>1. ~ Held(i)'
      BY <1>1, <1>6, <2>1, <2>4 DEF JobInv, OneJobPerScan, Held, Job
    <3>2. ~ Waiting(i)
      BY <1>6 DEF JobInv, OneJobPerScan, Held, Waiting
    <3>3. PhaseOf(i)' = "closed"
      BY <1>4, <2>1, <3>1, <3>2, PhaseNext DEF OtherPhases
    <3> QED  BY <2>2, <2>4, <3>3
  <2> QED  BY <2>3, <2>4
<1> QED  BY <1>3, <1>5, <1>6

\* The head of the queue comes into the worker's hands, still open.
LEMMA DequeueRefines ==
    ASSUME Facts, NEW w \in Workers, DequeueScan(w)
    PROVE  Lifecycle!LifecycleNext
<1> USE DEF Facts
<1>1. /\ req' = req /\ lostKeys' = lostKeys
      /\ \A v \in Workers \ {w} : worker'[v] = worker[v]
  BY WorkerFacts DEF WorkerStep
<1>2. PICK j : j = Head(queue)
  OBVIOUS
<1>3. /\ scans' = scans /\ Job(w) = 0 /\ worker'[w].job = j /\ worker'[w].pc = "read"
  BY <1>2 DEF DequeueScan, dbVars, DeliveryInv, WorkersHold, SetWorker, TypeOK, WorkerState
<1>4. Queued(j)
  <2>1. queue # <<>> /\ 1 \in DOMAIN queue /\ Head(queue) = queue[1]
    BY EmptySeq, LenProperties DEF DequeueScan, TypeOK
  <2> QED  BY <1>2, <2>1 DEF Queued
<1>5. j \in ScanIds /\ j \in Nat \ {0} /\ ~ Held(j)
  BY <1>4 DEF Queued, JobInv, JobsHaveRows, OneJobPerScan, Held, ScanIds
<1>6. ASSUME NEW i \in ScanIds
      PROVE  PhaseOf(i)' = PhaseOf(i) \/ PhaseOf(i)' = "closed"
  <2>1. CASE i = j
    <3>1. PhaseOf(j) = "open"
      BY <1>4, <1>5, PhaseOthers DEF OtherPhases, Waiting
    <3>2. PhaseOf(j)' = "open"
      <4>1. Job(w)' = j
        BY <1>3 DEF Job
      <4> QED  BY <1>3, <1>5, <4>1, PhaseNext DEF JobInv, HeldPhases, PhaseAt
    <3> QED  BY <2>1, <3>1, <3>2
  <2>2. CASE i # j
    <3>1. Job(w) # i /\ Job(w)' # i
      BY <1>3, <2>2 DEF Job, ScanIds
    <3>2. /\ Held(i)' <=> Held(i)
          /\ AtPC(i, {"clear"})' <=> AtPC(i, {"clear"})
          /\ AtPC(i, {"recover"})' <=> AtPC(i, {"recover"})
      BY <1>1, <3>1 DEF Held, AtPC, Job
    <3>3. Waiting(i)' => Waiting(i) \/ Held(i)
      <4>1. Undecided(i)' => Undecided(i)
        BY WorkerUndecided DEF WorkerStep
      <4> QED  BY <4>1 DEF Undecided, Waiting, Held
    <3> QED  BY <3>2, <3>3 DEF PhaseOf
  <2> QED  BY <2>1, <2>2
<1>7. AskedToCancel' = AskedToCancel
  BY <1>1, AsksKept DEF Asks
<1>8. {} \in SUBSET ScanIds /\ lostKeys' = lostKeys \cup {}
  BY <1>1
<1> QED  BY <1>3, <1>6, <1>7, <1>8, CloseMove

\* A job that is gone, or goes on without a result.
LEMMA GoesOn ==
    ASSUME Facts, NEW w \in Workers, WorkerStep(w) \/ ContainerStep(w), ~ DequeueScan(w),
           scans' = scans,
           Job(w)' = 0 \/ PhaseAt(worker'[w].pc) = PhaseAt(worker[w].pc)
    PROVE  Lifecycle!LifecycleNext
<1>1. AskedToCancel' = AskedToCancel /\ lostKeys' = lostKeys \cup {} /\ {} \in SUBSET ScanIds
  BY WorkerFacts, AsksKept DEF Facts, Asks
<1>2. ASSUME NEW i \in ScanIds
      PROVE  PhaseOf(i)' = PhaseOf(i) \/ PhaseOf(i)' = "closed"
  <2>1. i # 0
    BY DEF ScanIds
  <2> QED  BY <2>1, WorkerPhases
<1> QED  BY <1>1, <1>2, CloseMove DEF Facts

\* Processing breaks off: the handler of _process_scan is about to write FAILED.
LEMMA BreaksOff ==
    ASSUME Facts, NEW w \in Workers, WorkerStep(w) \/ ContainerStep(w), ~ DequeueScan(w),
           scans' = scans, worker[w].pc \notin {"poll", "down", "stopped", "recover"},
           Job(w)' = Job(w), worker'[w].pc = "recover"
    PROVE  Lifecycle!LifecycleNext
<1>1. PICK i \in ScanIds : Job(w) = i
  BY DEF Facts, DeliveryInv, WorkersHold
<1>2. AskedToCancel' = AskedToCancel /\ lostKeys' = lostKeys
  BY WorkerFacts, AsksKept DEF Facts, Asks
<1>3. PhaseOf(i) \in {"open", "delivered"} /\ PhaseOf(i)' = "failing"
  BY <1>1, WorkerPhases DEF PhaseAt
<1>4. \A j \in ScanIds \ {i} : PhaseOf(j)' = PhaseOf(j)
  BY <1>1, WorkerPhases
<1> QED  BY <1>2, <1>3, <1>4, BreakOffMove DEF Facts

\* The handler's UPDATE.
LEMMA MarkFailedRefines ==
    ASSUME Facts, NEW w \in Workers, MarkFailed(w)
    PROVE  Lifecycle!LifecycleNext
<1> USE DEF Facts
<1>1. PICK i \in ScanIds : Job(w) = i
  BY DEF DeliveryInv, WorkersHold, MarkFailed
<1>2. AskedToCancel' = AskedToCancel /\ lostKeys' = lostKeys
  BY WorkerFacts, AsksKept DEF Asks, WorkerStep
<1>3. Job(w)' = 0 /\ i # 0
  BY DEF MarkFailed, SetWorker, Job, TypeOK, WorkerState, ScanIds
<1>4. PhaseOf(i) = "failing" /\ PhaseOf(i)' = "closed"
      /\ \A j \in ScanIds \ {i} : PhaseOf(j)' = PhaseOf(j)
  <2>1. WorkerStep(w) /\ ~ DequeueScan(w) /\ worker[w].pc = "recover"
    BY DEF WorkerStep, MarkFailed, DequeueScan
  <2> QED  BY <1>1, <1>3, <2>1, WorkerPhases DEF PhaseAt
<1>5. /\ Len(scans') = Len(scans)
      /\ \A j \in ScanIds :
            scans'[j] = IF j = i THEN [scans[j] EXCEPT !.status = "FAILED"] ELSE scans[j]
  <2>1. scans' = [scans EXCEPT ![i].status = "FAILED"]
    BY <1>1 DEF MarkFailed
  <2>2. i \in Nat /\ "FAILED" \in ScanStatus /\ scans \in Seq(Row)
    BY DEF ScanStatus, Terminal, TypeOK, ScanIds
  <2> QED  BY <2>1, <2>2, UpdateStatus DEF ScanIds
<1>6. scans'[i].status = "FAILED"
  <2>1. scans[i] \in Row
    BY ElementOfSeq DEF TypeOK, ScanIds
  <2> QED  BY <1>5, <2>1 DEF Row
<1> QED  BY <1>2, <1>4, <1>5, <1>6, MarkBrokenMove

\* The pipeline's one commit.  COMPLETE is written over CANCELLED only if the
\* cancellation's key was lost: otherwise the draft would obey it.
LEMMA CommitRefines ==
    ASSUME Facts, NEW w \in Workers, CommitScan(w)
    PROVE  Lifecycle!LifecycleNext
<1> USE DEF Facts
<1>1. PICK i \in ScanIds : Job(w) = i
  BY DEF DeliveryInv, WorkersHold, CommitScan
<1>2. AskedToCancel' = AskedToCancel /\ lostKeys' = lostKeys
  BY WorkerFacts, AsksKept DEF Asks, WorkerStep
<1>3. Job(w)' = i /\ worker'[w].pc = "clear" /\ worker[w].pc = "commit"
  BY <1>1 DEF CommitScan, SetWorker, Job, TypeOK, WorkerState
<1>4. PhaseOf(i) = "open" /\ PhaseOf(i)' = "delivered"
      /\ \A j \in ScanIds \ {i} : PhaseOf(j)' = PhaseOf(j)
  <2>1. WorkerStep(w) /\ ~ DequeueScan(w)
    BY DEF WorkerStep, CommitScan, DequeueScan
  <2> QED  BY <1>1, <1>3, <2>1, WorkerPhases DEF PhaseAt
<1>5. /\ Len(scans') = Len(scans)
      /\ \A j \in ScanIds : scans'[j] = IF j = i THEN draft ELSE scans[j]
  <2>1. scans' = [scans EXCEPT ![i] = draft]
    BY <1>1 DEF CommitScan
  <2>2. i \in Nat /\ draft \in Row /\ scans \in Seq(Row)
    BY DEF TypeOK, ScanIds
  <2> QED  BY <2>1, <2>2, UpdateRow DEF ScanIds
<1>6. draft.status \in Terminal
  BY <1>3 DEF DeliveryInv, CommitDecided
<1>7. draft.status = "COMPLETE" => scans[i].status = "PENDING" \/ i \in lostKeys
  <2> SUFFICES ASSUME draft.status = "COMPLETE", i \notin lostKeys
               PROVE  scans[i].status = "PENDING"
    OBVIOUS
  <2>1. Open(i)
    BY <1>1, <1>3 DEF Open
  <2>2. ~ CancelledFor(i)
    BY <1>1, <1>3 DEF CancelledFor, CancelInv, DraftObeys, Stopped
  <2> QED  BY <2>1, <2>2 DEF ClientInv, OpenRow
<1>8. \A j \in ScanIds \ {i} : PhaseOf(j)' = PhaseOf(j) /\ scans'[j].status = scans[j].status
  BY <1>4, <1>5
<1>9. scans'[i].status = draft.status
  BY <1>5
<1> QED  BY <1>2, <1>4, <1>5, <1>6, <1>7, <1>8, <1>9, DeliverMove

LEMMA WorkerRefines ==
    ASSUME Facts, NEW w \in Workers, WorkerStep(w) \/ ContainerStep(w)
    PROVE  Lifecycle!LifecycleNext
<1> USE DEF Facts
<1>1. CASE DequeueScan(w)
  BY <1>1, DequeueRefines
<1>2. CASE MarkFailed(w)
  BY <1>2, MarkFailedRefines
<1>3. CASE CommitScan(w)
  BY <1>3, CommitRefines
<1>4. CASE PipelineStep(w)
  <2>1. ~ DequeueScan(w) /\ scans' = scans /\ worker[w].pc \in {"loop", "run", "final"}
    BY <1>4 DEF PipelineStep, StageSkipped, StageBegins, StageEnds, StageCancelled,
       PipelineFinalize, PipelineError, InPipeline, DequeueScan
  <2>2. \E pc \in {"loop", "run", "final", "commit"}, seq \in {Cur(w), Cur(w) + 1} :
            SetWorker(w, pc, Job(w), seq)
    BY <1>4 DEF PipelineStep, StageSkipped, StageBegins, StageEnds, StageCancelled,
       PipelineFinalize, PipelineError, NextStage
  <2>3. worker'[w].pc \in {"loop", "run", "final", "commit"}
    BY <2>2 DEF SetWorker, TypeOK, WorkerState
  <2> QED  BY <2>1, <2>3, GoesOn DEF PhaseAt
<1>5. CASE WorkerStart(w) \/ WorkerStops(w) \/ WorkerCrash(w) \/ MarkFailedLocked(w)
  <2>1. scans' = scans
    BY <1>5 DEF WorkerStart, WorkerStops, WorkerCrash, MarkFailedLocked, dbVars
  <2>2. CASE WorkerStart(w) \/ MarkFailedLocked(w)
    <3>1. Job(w)' = 0
      BY <2>2 DEF WorkerStart, MarkFailedLocked, SetWorker, Job, TypeOK, WorkerState,
         DeliveryInv, WorkersHold
    <3> QED  BY <1>1, <1>5, <2>1, <3>1, GoesOn
  <2>3. CASE WorkerStops(w) \/ WorkerCrash(w)
    <3>1. Job(w)' = 0
      BY <2>3 DEF WorkerStops, WorkerCrash, IdleWorker, Job, TypeOK, WorkerState
    <3> QED  BY <1>1, <1>5, <2>1, <3>1, GoesOn
  <2> QED  BY <1>5, <2>2, <2>3
<1>6. CASE HandleSignal(w) \/ OperatorStarts(w)
  <2>1. scans' = scans /\ PhaseAt(worker'[w].pc) = PhaseAt(worker[w].pc)
    BY <1>6, SignalFacts DEF PhaseAt
  <2> QED  BY <1>1, <1>6, <2>1, GoesOn
<1>7. CASE PipelineBegin(w)
  <2>1. /\ ~ DequeueScan(w) /\ scans' = scans /\ worker[w].pc = "begin"
        /\ worker'[w].pc \in {"loop", "final"}
    BY <1>7 DEF PipelineBegin, DequeueScan, SetWorker, TypeOK, WorkerState
  <2> QED  BY <2>1, GoesOn DEF PhaseAt
<1>8. CASE ProcessScan(w)
  <2>1. /\ ~ DequeueScan(w) /\ scans' = scans /\ worker[w].pc = "read"
        /\ \/ Job(w)' = 0
           \/ Job(w)' = Job(w) /\ worker'[w].pc \in {"begin", "recover"}
    BY <1>8 DEF ProcessScan, DequeueScan, SetWorker, Job, TypeOK, WorkerState, dbVars
  <2>2. CASE Job(w)' = 0 \/ worker'[w].pc = "begin"
    BY <2>1, <2>2, GoesOn DEF PhaseAt
  <2>3. CASE Job(w)' = Job(w) /\ worker'[w].pc = "recover"
    BY <2>1, <2>3, BreaksOff
  <2> QED  BY <2>1, <2>2, <2>3
<1>9. CASE PipelineBeginLocked(w) \/ SessionBreaks(w)
  <2>1. /\ ~ DequeueScan(w) /\ scans' = scans /\ worker[w].pc \in {"begin", "run", "final"}
        /\ Job(w)' = Job(w) /\ worker'[w].pc = "recover"
    BY <1>9 DEF PipelineBeginLocked, SessionBreaks, DequeueScan, SetWorker, Job,
       TypeOK, WorkerState, dbVars
  <2> QED  BY <2>1, BreaksOff
<1>10. CASE ClearCancelled(w)
  <2>1. /\ ~ DequeueScan(w) /\ scans' = scans /\ worker[w].pc = "clear"
        /\ \/ Job(w)' = 0
           \/ Job(w)' = Job(w) /\ worker'[w].pc = "recover"
    BY <1>10 DEF ClearCancelled, DequeueScan, SetWorker, Job, TypeOK, WorkerState, dbVars
  <2>2. CASE Job(w)' = 0
    BY <2>1, <2>2, GoesOn
  <2>3. CASE Job(w)' = Job(w) /\ worker'[w].pc = "recover"
    BY <2>1, <2>3, BreaksOff
  <2> QED  BY <2>1, <2>2, <2>3
<1> QED
  BY <1>1, <1>2, <1>3, <1>4, <1>5, <1>6, <1>7, <1>8, <1>9, <1>10
  DEF WorkerStep, ContainerStep

-----------------------------------------------------------------------------
(* The refinement *)

\* Whatever a request, a worker or a fault does is a step of the life cycle that
\* clients rely on, or changes nothing they can see.
THEOREM ImplementsLifecycleCorrect == Spec => ImplementsLifecycle
<1>1. Init => Lifecycle!LifecycleInit
  <2> SUFFICES ASSUME Init PROVE Lifecycle!LifecycleInit
    OBVIOUS
  <2>1. ScanIds = {}
    BY DEF Init, ScanIds
  <2>2. CommittedStatus = <<>> /\ JobPhase = <<>>
    BY <2>1 DEF CommittedStatus, JobPhase
  <2>3. AskedToCancel = {}
    BY DEF Init, AskedToCancel, Asks
  <2> QED  BY <2>2, <2>3 DEF Init, Lifecycle!LifecycleInit
<1>2. Facts /\ [Next]_vars => Lifecycle!LifecycleNext
  BY RequestRefines, WorkerRefines, OutsideRefines DEF Next
<1>3. Facts /\ [Next]_vars => [Lifecycle!LifecycleNext]_(Lifecycle!lifecycleVars)
  BY <1>2
<1> QED
  BY <1>1, <1>3, TypeCorrect, LockCorrect, JobsCorrect, CancelInvariant,
     DeliveryInvariant, ClientInvariant, PTL
  DEF Spec, Facts, ImplementsLifecycle, Lifecycle!LifecycleSpec

-----------------------------------------------------------------------------
(* What the life cycle promises *)

\* What a step does to every scan that there is.
Kept ==
    \A i \in 1 .. Len(CommittedStatus) :
        /\ i \in 1 .. Len(CommittedStatus')
        /\ CommittedStatus'[i] = "PENDING" => CommittedStatus[i] = "PENDING"
        /\ CommittedStatus'[i] = "COMPLETE" =>
              CommittedStatus[i] \in {"PENDING", "COMPLETE"} \/ i \in lostKeys

LEMMA StepKeeps ==
    ASSUME MappedTypes, [Lifecycle!LifecycleNext]_(Lifecycle!lifecycleVars)
    PROVE  Kept
<1> USE DEF MappedTypes
<1>1. CASE Lifecycle!Accept
  <2>1. CommittedStatus' = Append(CommittedStatus, "PENDING") /\ "PENDING" \in ScanStatus
    BY <1>1 DEF Lifecycle!Accept, ScanStatus
  <2>2. /\ Len(CommittedStatus') = Len(CommittedStatus) + 1
        /\ \A i \in 1 .. Len(CommittedStatus) : CommittedStatus'[i] = CommittedStatus[i]
    BY <2>1, AppendProperties
  <2> QED  BY <2>2 DEF Kept
<1>2. CASE UNCHANGED CommittedStatus
  BY <1>2 DEF Kept
<1>3. ASSUME NEW i \in 1 .. Len(CommittedStatus), NEW result \in Terminal,
             CommittedStatus' = [CommittedStatus EXCEPT ![i] = result],
             result = "COMPLETE" => CommittedStatus[i] = "PENDING" \/ i \in lostKeys
      PROVE  Kept
  <2>1. result # "PENDING" /\ result \in ScanStatus
    BY DEF Terminal, ScanStatus
  <2>2. /\ Len(CommittedStatus') = Len(CommittedStatus)
        /\ \A j \in 1 .. Len(CommittedStatus) :
              CommittedStatus'[j] = IF j = i THEN result ELSE CommittedStatus[j]
    BY <1>3, <2>1, ExceptSeq
  <2> QED  BY <1>3, <2>1, <2>2 DEF Kept
<1>4. ASSUME NEW i \in 1 .. Len(CommittedStatus),
             \/ Lifecycle!MarkCancelled(i) \/ Lifecycle!MarkBroken(i)
             \/ \E result \in Lifecycle!Results : Lifecycle!Deliver(i, result)
      PROVE  Kept
  <2>1. CASE Lifecycle!MarkCancelled(i) \/ Lifecycle!MarkBroken(i)
    BY <1>3, <2>1 DEF Lifecycle!MarkCancelled, Lifecycle!MarkBroken, Terminal
  <2>2. CASE \E result \in Lifecycle!Results : Lifecycle!Deliver(i, result)
    BY <1>3, <2>2 DEF Lifecycle!Deliver, Lifecycle!Results, Terminal
  <2> QED  BY <1>4, <2>1, <2>2
<1> QED
  BY <1>1, <1>2, <1>4
  DEF Lifecycle!LifecycleNext, Lifecycle!lifecycleVars, Lifecycle!Ask,
      Lifecycle!BreakOff, Lifecycle!Close

\* A settled scan is never reopened: no row is deleted, none becomes PENDING again,
\* and only a scan whose cancellation flag Redis lost goes from CANCELLED (or
\* FAILED) to COMPLETE.
THEOREM NeverReopenedCorrect == Spec => Lifecycle!NeverReopened
<1>1. Spec => [][Lifecycle!LifecycleNext]_(Lifecycle!lifecycleVars)
  BY ImplementsLifecycleCorrect, PTL DEF ImplementsLifecycle, Lifecycle!LifecycleSpec
<1>2. MappedTypes /\ [Lifecycle!LifecycleNext]_(Lifecycle!lifecycleVars)
          => [Kept]_(Lifecycle!lifecycleVars)
  BY StepKeeps
<1>3. Spec => [][Kept]_(Lifecycle!lifecycleVars)
  BY <1>1, <1>2, TypeCorrect, MappedTypesHold, PTL
<1> QED  BY <1>3 DEF Lifecycle!NeverReopened, Kept
=============================================================================

---------------------------- MODULE ScanService ----------------------------
(***************************************************************************)
(* The life of a scan job in Shadow.Lab: API requests of the control panel *)
(* (api/scans.py), the Redis queue and cancellation keys (queue.py), the   *)
(* SQLite file both processes share (database.py) and the scanner worker   *)
(* (worker.py) running the stages of a pipeline (scanner/pipeline.py).     *)
(*                                                                         *)
(* Each request and each worker is a process.  One step is the code        *)
(* between two calls that other processes can interleave with: a committed *)
(* read, a write that needs SQLite's single write lock, a Redis command.   *)
(* What a stage handler finds on the network is left out: a handler ends   *)
(* COMPLETED or FAILED, or breaks the session (SessionBreaks).             *)
(***************************************************************************)
EXTENDS Integers, Sequences, FiniteSets

CONSTANTS
    Requests,   \* HTTP requests to the panel; each is served at most once
    Workers,    \* scanner-worker processes (docker-compose.yml runs one)
    Nobody,     \* not a worker: no transaction holds the write lock
    Profile,    \* the stages of the scan profile, in order (profiles.py)
    Repairs,    \* which of the two defects that stop every scan are mended
    Faults,     \* the kinds of fault the environment may inject
    MaxFaults   \* bound: how many faults it injects

StageNames ==
    { "host_discovery", "port_discovery", "service_detection",
      "http_discovery", "tech_fingerprint", "dns_enrich",
      "vuln_assessment", "normalization" }

Terminal == { "COMPLETE", "FAILED", "CANCELLED" }

ScanStatus ==
    { "PENDING", "VALIDATING", "DISCOVERING", "ENUMERATING", "ASSESSING",
      "PROCESSING" } \cup Terminal

StageStatus == { "RUNNING", "COMPLETED", "FAILED", "SKIPPED", "CANCELLED" }

FaultKinds ==
    { "worker_crash", "sigterm", "panel_crash", "redis_outage", "key_loss" }

ASSUME ProfileAssumption ==
    Profile \in Seq([name : StageNames, enabled : BOOLEAN])
ASSUME NobodyAssumption == Nobody \notin Workers
ASSUME FaultsAssumption == Faults \subseteq FaultKinds /\ MaxFaults \in Nat
ASSUME RepairsAssumption == Repairs \subseteq {"imports", "stored_scope"}

VARIABLES
    scans,      \* committed rows of table scans; the index is the scan id
    writer,     \* the worker whose open transaction holds the write lock
    draft,      \* the uncommitted row of that transaction
    queue,      \* the Redis list of jobs
    cancelKeys, \* scan ids with a scan:cancel:<id> key in Redis
    redisUp,    \* Redis answers
    worker,     \* worker processes
    req,        \* API requests
    faults,     \* how many faults have happened
    lostJobs,   \* history: scans whose job a crash, Redis or a swallowed error of
                \* the worker's handler has destroyed
    lostKeys,   \* history: scans whose cancellation key Redis has dropped
    broken      \* history: scans whose session a failed flush has broken

dbVars    == <<scans, writer, draft>>
redisVars == <<queue, cancelKeys, redisUp>>
history   == <<faults, lostJobs, lostKeys, broken>>
vars      == <<scans, writer, draft, queue, cancelKeys, redisUp, worker, req,
               faults, lostJobs, lostKeys, broken>>

Stages  == 1 .. Len(Profile)
ScanIds == 1 .. Len(scans)

\* The statuses of the scan_stages rows that carry a sequence number.
NoStages == [s \in Stages |-> {}]
NoDraft  == [status |-> "PENDING", stages |-> NoStages]

Row == [status : ScanStatus, stages : [Stages -> SUBSET StageStatus]]

WorkerPC ==
    { "stopped", "down", "poll", "read", "begin", "loop", "run", "final",
      "commit", "clear", "recover" }

RequestPC == { "new", "insert", "enqueue", "setex", "publish", "update", "done" }

\* HTTP answers; 0 while none was sent, and for ever if the panel crashed.
Codes == { 0, 200, 201, 400, 404, 409, 500 }

WorkerState == [pc : WorkerPC, job : Nat, seq : Nat, running : BOOLEAN]

RequestState ==
    [pc : RequestPC, kind : {"none", "create", "cancel"}, scan : Nat, code : Codes]

TypeOK ==
    /\ scans \in Seq(Row)
    /\ writer \in Workers \cup {Nobody}
    /\ draft \in Row
    /\ queue \in Seq(Nat)
    /\ cancelKeys \subseteq Nat
    /\ redisUp \in BOOLEAN
    /\ worker \in [Workers -> WorkerState]
    /\ req \in [Requests -> RequestState]
    /\ faults \in 0 .. MaxFaults
    /\ lostJobs \subseteq Nat
    /\ lostKeys \subseteq Nat
    /\ broken \subseteq Nat

\* A container that Docker restarts ("down") or leaves alone ("stopped").
IdleWorker(pc) == [pc |-> pc, job |-> 0, seq |-> 0, running |-> FALSE]

Init ==
    /\ scans = <<>>
    /\ writer = Nobody
    /\ draft = NoDraft
    /\ queue = <<>>
    /\ cancelKeys = {}
    /\ redisUp = TRUE
    /\ worker = [w \in Workers |-> IdleWorker("down")]
    /\ req = [r \in Requests |-> [pc |-> "new", kind |-> "none", scan |-> 0,
                                  code |-> 0]]
    /\ faults = 0
    /\ lostJobs = {}
    /\ lostKeys = {}
    /\ broken = {}

-----------------------------------------------------------------------------
(* API requests: POST /api/scans *)

SetReq(r, pc, kind, scan, code) ==
    req' = [req EXCEPT ![r] = [pc |-> pc, kind |-> kind, scan |-> scan, code |-> code]]

Answer(r, code) ==
    req' = [req EXCEPT ![r].pc = "done", ![r].code = code]

GotoReq(r, pc) == req' = [req EXCEPT ![r].pc = pc]

\* Mutant: the job is enqueued before the row is committed.
CreateScanEnqueuesFirst(r) ==
    /\ req[r].pc = "new"
    /\ SetReq(r, "enqueue", "create", Len(scans) + 1, 0)
    /\ UNCHANGED <<dbVars, redisVars, worker, history>>

\* Up to the INSERT: the scope is loaded and parsed again, the profile looked
\* up, and the id is the number of rows counted plus one.
CreateScan(r) ==
    /\ req[r].pc = "new"
    /\ SetReq(r, "insert", "create", Len(scans) + 1, 0)
    /\ UNCHANGED <<dbVars, redisVars, worker, history>>

\* A stored scope that no longer parses, an unknown scope_id, or a profile
\* nobody checked (get_profile raises).
CreateScanRejected(r) ==
    /\ req[r].pc = "new"
    /\ \E code \in {400, 404, 500} : SetReq(r, "done", "create", 0, code)
    /\ UNCHANGED <<dbVars, redisVars, worker, history>>

\* Mutant: without the primary key both of two racing requests keep their id.
CreateScanInsertUnkeyed(r) ==
    /\ req[r].pc = "insert"
    /\ writer = Nobody
    /\ scans' = Append(scans, NoDraft)
    /\ GotoReq(r, "enqueue")
    /\ UNCHANGED <<writer, draft, redisVars, worker, history>>

\* INSERT and commit need the write lock; the primary key is the counted id.
CreateScanInsert(r) ==
    /\ req[r].pc = "insert"
    /\ writer = Nobody
    /\ req[r].scan \notin ScanIds
    /\ scans' = Append(scans, NoDraft)
    /\ GotoReq(r, "enqueue")
    /\ UNCHANGED <<writer, draft, redisVars, worker, history>>

\* IntegrityError (another request counted the same rows), or the write lock
\* stayed taken for the 5000 ms of busy_timeout: the request ends in a 500.
CreateScanInsertFails(r) ==
    /\ req[r].pc = "insert"
    /\ req[r].scan \in ScanIds \/ writer # Nobody
    /\ SetReq(r, "done", "create", 0, 500)
    /\ UNCHANGED <<dbVars, redisVars, worker, history>>

\* Mutant: a failing RPUSH is swallowed and the request answers 201.
EnqueueScanSwallows(r) ==
    /\ req[r].pc = "enqueue"
    /\ queue' = IF redisUp THEN Append(queue, req[r].scan) ELSE queue
    /\ Answer(r, 201)
    /\ UNCHANGED <<dbVars, cancelKeys, redisUp, worker, history>>

\* RPUSH after the commit: if it raises, the committed row stays behind.
EnqueueScan(r) ==
    /\ req[r].pc = "enqueue"
    /\ IF redisUp
       THEN /\ queue' = Append(queue, req[r].scan)
            /\ Answer(r, 201)
       ELSE /\ Answer(r, 500)
            /\ UNCHANGED queue
    /\ UNCHANGED <<dbVars, cancelKeys, redisUp, worker, history>>

-----------------------------------------------------------------------------
(* API requests: POST /api/scans/{id}/cancel *)

\* Mutant: no test for a terminal status.
CancelScanUnchecked(r) ==
    /\ req[r].pc = "new"
    /\ \E i \in ScanIds : SetReq(r, "setex", "cancel", i, 0)
    /\ UNCHANGED <<dbVars, redisVars, worker, history>>

\* The committed row is read once; its status is not looked at again.
CancelScan(r) ==
    /\ req[r].pc = "new"
    /\ \E i \in ScanIds :
          /\ scans[i].status \notin Terminal
          /\ SetReq(r, "setex", "cancel", i, 0)
    /\ UNCHANGED <<dbVars, redisVars, worker, history>>

\* 404: no such row.  409: terminal already.
CancelScanRejected(r) ==
    /\ req[r].pc = "new"
    /\ \/ SetReq(r, "done", "cancel", 0, 404)
       \/ \E i \in ScanIds :
             /\ scans[i].status \in Terminal
             /\ SetReq(r, "done", "cancel", i, 409)
    /\ UNCHANGED <<dbVars, redisVars, worker, history>>

SetCancelled(r) ==
    /\ req[r].pc = "setex"
    /\ IF redisUp
       THEN /\ cancelKeys' = cancelKeys \cup {req[r].scan}
            /\ GotoReq(r, "publish")
       ELSE /\ Answer(r, 500)
            /\ UNCHANGED cancelKeys
    /\ UNCHANGED <<dbVars, queue, redisUp, worker, history>>

\* Nobody subscribes to the channel: PUBLISH changes nothing, but may raise.
PublishCancel(r) ==
    /\ req[r].pc = "publish"
    /\ IF redisUp THEN GotoReq(r, "update") ELSE Answer(r, 500)
    /\ UNCHANGED <<dbVars, redisVars, worker, history>>

\* UPDATE and commit: by id only, whatever the row has become meanwhile.
CancelScanUpdate(r) ==
    /\ req[r].pc = "update"
    /\ writer = Nobody
    /\ scans' = [scans EXCEPT ![req[r].scan].status = "CANCELLED"]
    /\ Answer(r, 200)
    /\ UNCHANGED <<writer, draft, redisVars, worker, history>>

\* "database is locked" after busy_timeout: 500, with the key already set.
CancelScanLocked(r) ==
    /\ req[r].pc = "update"
    /\ writer # Nobody
    /\ Answer(r, 500)
    /\ UNCHANGED <<dbVars, redisVars, worker, history>>

(* Scanner worker: the polling loop *)

SetWorker(w, pc, job, seq) ==
    worker' = [worker EXCEPT ![w].pc = pc, ![w].job = job, ![w].seq = seq]

\* `python -m app.worker' imports the runners first.  nuclei_runner.py declares
\* a dataclass field without a default after one with a default: the import
\* raises TypeError and the process ends (Docker starts it again and again).
WorkerStart(w) ==
    /\ "imports" \in Repairs
    /\ worker[w].pc = "down"
    /\ worker' = [worker EXCEPT ![w].pc = "poll", ![w].running = TRUE]
    /\ UNCHANGED <<dbVars, redisVars, req, history>>

\* BLPOP: the job leaves Redis the moment it is delivered.  If Redis is down
\* the call raises and the loop sleeps and polls again.
DequeueScan(w) ==
    /\ worker[w].pc = "poll"
    /\ redisUp
    /\ queue # <<>>
    /\ queue' = Tail(queue)
    /\ SetWorker(w, "read", Head(queue), 0)
    /\ UNCHANGED <<dbVars, cancelKeys, redisUp, req, history>>

\* The loop condition is false after a signal: no job is held here.  If the
\* signal was that of `docker stop', also behind the panel's own Stop, nothing
\* starts the container again (restart: unless-stopped); after the restart of
\* the container or of Docker it comes back.
WorkerStops(w) ==
    /\ worker[w].pc = "poll"
    /\ ~ worker[w].running
    /\ \E pc \in {"down", "stopped"} :
          worker' = [worker EXCEPT ![w] = IdleWorker(pc)]
    /\ UNCHANGED <<dbVars, redisVars, req, history>>

-----------------------------------------------------------------------------
(* Scanner worker: _process_scan around the pipeline *)

Job(w) == worker[w].job

\* validate_scope stores the scope as a JSON list and Scope.from_json reads a
\* JSON object: the exception sends every scan to the handler at the end.
ProcessScan(w) ==
    /\ worker[w].pc = "read"
    /\ IF Job(w) \notin ScanIds \/ scans[Job(w)].status = "CANCELLED"
       THEN SetWorker(w, "poll", 0, 0)
       ELSE SetWorker(w, IF "stored_scope" \in Repairs THEN "begin" ELSE "recover",
                      Job(w), 0)
    /\ UNCHANGED <<dbVars, redisVars, req, history>>

\* Mutant: the cancellation key is cleared when the run starts.
PipelineBeginClears(w) ==
    /\ worker[w].pc = "begin"
    /\ writer = Nobody
    /\ writer' = w
    /\ draft' = [status |-> "VALIDATING", stages |-> NoStages]
    /\ cancelKeys' = cancelKeys \ {Job(w)}
    /\ SetWorker(w, IF Profile = <<>> THEN "final" ELSE "loop", Job(w), 1)
    /\ UNCHANGED <<scans, queue, redisUp, req, history>>

\* The first flush (status VALIDATING, first log line) opens the transaction
\* that pipeline.run never commits: the write lock is held from here on.
PipelineBegin(w) ==
    /\ worker[w].pc = "begin"
    /\ writer = Nobody
    /\ writer' = w
    /\ draft' = [status |-> "VALIDATING", stages |-> NoStages]
    /\ SetWorker(w, IF Profile = <<>> THEN "final" ELSE "loop", Job(w), 1)
    /\ UNCHANGED <<scans, redisVars, req, history>>

PipelineBeginLocked(w) ==
    /\ worker[w].pc = "begin"
    /\ writer # Nobody
    /\ SetWorker(w, "recover", Job(w), 0)
    /\ UNCHANGED <<dbVars, redisVars, req, history>>

CommitScan(w) ==
    /\ worker[w].pc = "commit"
    /\ scans' = [scans EXCEPT ![Job(w)] = draft]
    /\ writer' = Nobody
    /\ draft' = NoDraft
    /\ SetWorker(w, "clear", Job(w), 0)
    /\ UNCHANGED <<redisVars, req, history>>

\* Still inside the try block: if DEL raises, the scan just committed is
\* marked FAILED by the handler.
ClearCancelled(w) ==
    /\ worker[w].pc = "clear"
    /\ IF redisUp
       THEN /\ cancelKeys' = cancelKeys \ {Job(w)}
            /\ SetWorker(w, "poll", 0, 0)
       ELSE /\ SetWorker(w, "recover", Job(w), 0)
            /\ UNCHANGED cancelKeys
    /\ UNCHANGED <<dbVars, queue, redisUp, req, history>>

\* Mutant: the handler only logs.
MarkFailedOnlyLogs(w) ==
    /\ worker[w].pc = "recover"
    /\ writer = Nobody
    /\ SetWorker(w, "poll", 0, 0)
    /\ UNCHANGED <<dbVars, redisVars, req, history>>

\* The exception handler of _process_scan, after its rollback.
MarkFailed(w) ==
    /\ worker[w].pc = "recover"
    /\ writer = Nobody
    /\ scans' = [scans EXCEPT ![Job(w)].status = "FAILED"]
    /\ SetWorker(w, "poll", 0, 0)
    /\ UNCHANGED <<writer, draft, redisVars, req, history>>

\* Its own UPDATE may find the database locked: `except Exception: pass'.
MarkFailedLocked(w) ==
    /\ worker[w].pc = "recover"
    /\ writer # Nobody
    /\ SetWorker(w, "poll", 0, 0)
    /\ lostJobs' = lostJobs \cup {Job(w)}
    /\ UNCHANGED <<dbVars, redisVars, req, faults, lostKeys, broken>>

-----------------------------------------------------------------------------
(* Scanner worker: Pipeline.run, inside the transaction *)

Cur(w) == worker[w].seq
Stage(w) == Profile[Cur(w)]
CancelSeen(w) == Job(w) \in cancelKeys

\* Mutant: an unmapped stage name becomes the status.
StatusForStageRaw(name) == name

StatusForStage(name) ==
    CASE name \in {"host_discovery", "port_discovery"} -> "DISCOVERING"
      [] name \in {"service_detection", "http_discovery", "tech_fingerprint",
                   "dns_enrich"} -> "ENUMERATING"
      [] name = "vuln_assessment" -> "ASSESSING"
      [] OTHER -> "PROCESSING"

\* _set_stage looks for the stage's row in scan.stages, a collection the session
\* loaded once, while it was empty; rows are added by scan_id, which leaves that
\* collection as it is.  So no row is ever found, and each call inserts one.
WithStage(w, st) == [draft.stages EXCEPT ![Cur(w)] = @ \cup {st}]

SetStage(w, st) == draft' = [draft EXCEPT !.stages = WithStage(w, st)]

SetStageAndStatus(w, st, status) ==
    draft' = [status |-> status, stages |-> WithStage(w, st)]

NextStage(w) ==
    IF Cur(w) = Len(Profile) THEN SetWorker(w, "final", Job(w), Cur(w))
                              ELSE SetWorker(w, "loop", Job(w), Cur(w) + 1)

InPipeline(w, pc) == worker[w].pc = pc /\ UNCHANGED <<scans, writer, redisVars, req, history>>

StageSkipped(w) ==
    /\ InPipeline(w, "loop")
    /\ redisUp /\ ~ CancelSeen(w)
    /\ ~ Stage(w).enabled
    /\ SetStage(w, "SKIPPED")
    /\ NextStage(w)

StageBegins(w) ==
    /\ InPipeline(w, "loop")
    /\ redisUp /\ ~ CancelSeen(w)
    /\ Stage(w).enabled
    /\ SetStageAndStatus(w, "RUNNING", StatusForStage(Stage(w).name))
    /\ SetWorker(w, "run", Job(w), Cur(w))

\* Mutant: the except block forgets to record the stage.
StageEndsUnrecorded(w) ==
    /\ InPipeline(w, "run")
    /\ \/ SetStage(w, "COMPLETED")
       \/ UNCHANGED draft
    /\ NextStage(w)

\* Mutant: a failed stage fails the scan.
StageEndsFailsScan(w) ==
    /\ InPipeline(w, "run")
    /\ \/ SetStage(w, "COMPLETED") /\ NextStage(w)
       \/ /\ SetStageAndStatus(w, "FAILED", "FAILED")
          /\ SetWorker(w, "commit", Job(w), Cur(w))

\* The handler returns or raises.  A raised exception is caught, recorded and
\* the loop goes on: the later stages run whether or not they need this one.
StageEnds(w) ==
    /\ InPipeline(w, "run")
    /\ \E outcome \in {"COMPLETED", "FAILED"} : SetStage(w, outcome)
    /\ NextStage(w)

\* The stages whose rows hold what a tool printed, whatever type that has.
FlushesOutput == {"http_discovery", "dns_enrich"}

\* _store_findings flushes what nuclei printed.
NucleiReported(stages) ==
    \E s \in Stages : Profile[s].name = "vuln_assessment" /\ "RUNNING" \in stages[s]

\* A flush fails on the tools' output (a URL of no known service, a list where
\* the column takes text): SQLite rolls back, the session refuses every further
\* flush, those of the except blocks too, and the exception ends in the handler
\* of _process_scan.
SessionBreaks(w) ==
    /\ \/ worker[w].pc = "run" /\ Stage(w).name \in FlushesOutput
       \/ /\ worker[w].pc = "final" /\ redisUp /\ ~ CancelSeen(w)
          /\ NucleiReported(draft.stages)
    /\ writer' = Nobody
    /\ draft' = NoDraft
    /\ broken' = broken \cup {Job(w)}
    /\ SetWorker(w, "recover", Job(w), 0)
    /\ UNCHANGED <<scans, redisVars, req, faults, lostJobs, lostKeys>>

\* `break' on a cancellation seen between two stages.
StageCancelled(w) ==
    /\ InPipeline(w, "loop")
    /\ redisUp /\ CancelSeen(w)
    /\ SetStageAndStatus(w, "CANCELLED", "CANCELLED")
    /\ SetWorker(w, "final", Job(w), Cur(w))

\* After the loop the key is read once more; this second answer decides.
PipelineFinalize(w) ==
    /\ InPipeline(w, "final")
    /\ redisUp
    /\ draft' = [draft EXCEPT !.status = IF CancelSeen(w) THEN "CANCELLED"
                                                          ELSE "COMPLETE"]
    /\ SetWorker(w, "commit", Job(w), Cur(w))

\* Mutant: the outer handler returns without a commit.
PipelineErrorReturns(w) ==
    /\ InPipeline(w, "loop") \/ InPipeline(w, "final")
    /\ ~ redisUp
    /\ UNCHANGED draft
    /\ SetWorker(w, "poll", 0, 0)

\* EXISTS raises: the outer handler of run marks the scan FAILED and returns.
PipelineError(w) ==
    /\ InPipeline(w, "loop") \/ InPipeline(w, "final")
    /\ ~ redisUp
    /\ draft' = [draft EXCEPT !.status = "FAILED"]
    /\ SetWorker(w, "commit", Job(w), Cur(w))

-----------------------------------------------------------------------------
(* Faults *)

Fault(kind) ==
    /\ kind \in Faults
    /\ faults < MaxFaults
    /\ faults' = faults + 1

\* SIGTERM is noted by a running worker; a container that waits for its restart
\* is stopped at once.
HandleSignal(w) ==
    /\ Fault("sigterm")
    /\ \/ worker[w].running /\ worker' = [worker EXCEPT ![w].running = FALSE]
       \/ worker[w].pc = "down" /\ worker' = [worker EXCEPT ![w].pc = "stopped"]
    /\ UNCHANGED <<dbVars, redisVars, req, lostJobs, lostKeys, broken>>

\* The open transaction is rolled back; the job in hand is in no queue.  The
\* SIGKILL of `docker stop', 10 s after its SIGTERM, leaves the worker stopped.
WorkerCrash(w) ==
    /\ worker[w].pc \notin {"down", "stopped"}
    /\ Fault("worker_crash")
    /\ \E pc \in {"down", "stopped"} :
          /\ worker[w].running => pc = "down"
          /\ worker' = [worker EXCEPT ![w] = IdleWorker(pc)]
    /\ IF writer = w THEN writer' = Nobody /\ draft' = NoDraft
                     ELSE UNCHANGED <<writer, draft>>
    /\ lostJobs' = IF worker[w].pc \in {"poll", "clear"} THEN lostJobs
                                                         ELSE lostJobs \cup {Job(w)}
    /\ UNCHANGED <<scans, redisVars, req, lostKeys, broken>>

\* Requests in flight end without an answer, between any two of their steps.
PanelCrash ==
    /\ \E r \in Requests : req[r].pc \notin {"new", "done"}
    /\ Fault("panel_crash")
    /\ req' = [r \in Requests |->
                 IF req[r].pc = "new" THEN req[r] ELSE [req[r] EXCEPT !.pc = "done"]]
    /\ UNCHANGED <<dbVars, redisVars, worker, lostJobs, lostKeys, broken>>

RedisGoesDown ==
    /\ redisUp
    /\ Fault("redis_outage")
    /\ redisUp' = FALSE
    /\ UNCHANGED <<dbVars, queue, cancelKeys, worker, req, lostJobs, lostKeys, broken>>

\* A partition heals with the data intact; a restart comes back empty, since
\* docker-compose.yml turns off both kinds of persistence.
RedisComesBack ==
    /\ ~ redisUp
    /\ redisUp' = TRUE
    /\ \/ UNCHANGED <<queue, cancelKeys, lostJobs, lostKeys>>
       \/ /\ queue' = <<>>
          /\ cancelKeys' = {}
          /\ lostJobs' = lostJobs \cup {queue[n] : n \in DOMAIN queue}
          /\ lostKeys' = lostKeys \cup cancelKeys
    /\ UNCHANGED <<dbVars, worker, req, faults, broken>>

\* `docker start', or the panel's Start: nothing obliges anybody to it.
OperatorStarts(w) ==
    /\ worker[w].pc = "stopped"
    /\ worker' = [worker EXCEPT ![w].pc = "down"]
    /\ UNCHANGED <<dbVars, redisVars, req, history>>

\* The key's TTL of 3600 s ends.
CancelKeyExpires ==
    /\ Fault("key_loss")
    /\ \E i \in cancelKeys :
          /\ cancelKeys' = cancelKeys \ {i}
          /\ lostKeys' = lostKeys \cup {i}
    /\ UNCHANGED <<dbVars, queue, redisUp, worker, req, lostJobs, broken>>

-----------------------------------------------------------------------------

RequestArrives(r) ==
    CreateScan(r) \/ CreateScanRejected(r) \/ CancelScan(r) \/ CancelScanRejected(r)

RequestStep(r) ==
    \/ CreateScanInsert(r) \/ CreateScanInsertFails(r) \/ EnqueueScan(r)
    \/ SetCancelled(r) \/ PublishCancel(r) \/ CancelScanUpdate(r)
    \/ CancelScanLocked(r)

PipelineStep(w) ==
    \/ StageSkipped(w) \/ StageBegins(w) \/ StageEnds(w) \/ StageCancelled(w)
    \/ PipelineFinalize(w) \/ PipelineError(w)

WorkerStep(w) ==
    \/ WorkerStart(w) \/ DequeueScan(w) \/ WorkerStops(w) \/ ProcessScan(w)
    \/ PipelineBegin(w) \/ PipelineBeginLocked(w) \/ PipelineStep(w)
    \/ SessionBreaks(w) \/ CommitScan(w) \/ ClearCancelled(w)
    \/ MarkFailed(w) \/ MarkFailedLocked(w)

\* What Docker and the operator do to a worker's container.
ContainerStep(w) == HandleSignal(w) \/ WorkerCrash(w) \/ OperatorStarts(w)

OutsideFault == PanelCrash \/ RedisGoesDown \/ CancelKeyExpires

Next ==
    \/ \E r \in Requests : RequestArrives(r) \/ RequestStep(r)
    \/ \E w \in Workers : WorkerStep(w) \/ ContainerStep(w)
    \/ OutsideFault
    \/ RedisComesBack

Spec == Init /\ [][Next]_vars

\* A served request and a worker that has not been stopped go on: timeouts bound
\* every wait, and Docker restarts a process that has ended by itself or crashed.
\* Nothing obliges an operator to start what was stopped, or Redis to come back.
FairSpec ==
    /\ Spec
    /\ \A r \in Requests : WF_vars(RequestStep(r))
    /\ \A w \in Workers : WF_vars(WorkerStep(w))

-----------------------------------------------------------------------------
(* Properties *)

Held(i) == \E w \in Workers : Job(w) = i
Queued(i) == \E n \in DOMAIN queue : queue[n] = i
BeingEnqueued(r) == req[r].pc = "enqueue"
Settled == {i \in ScanIds : scans[i].status \in Terminal}
Accepted(r) == req[r].kind = "create" /\ req[r].code = 201
CancelAcknowledged(r) == req[r].kind = "cancel" /\ req[r].code = 200

\* A scan has at most one job: two concurrent create requests never get the
\* same id into the queue, and no scan is processed twice.
OneJobPerScan ==
    /\ \A m, n \in DOMAIN queue : queue[m] = queue[n] => m = n
    /\ \A v, w \in Workers : Job(v) = Job(w) /\ Job(v) # 0 => v = w
    /\ \A r, q \in Requests :
          BeingEnqueued(r) /\ BeingEnqueued(q) /\ req[r].scan = req[q].scan => r = q
    /\ \A w \in Workers : ~ Queued(Job(w))
    /\ \A r \in Requests : BeingEnqueued(r) => ~ Queued(req[r].scan) /\ ~ Held(req[r].scan)

\* A job always has its committed row ("Scan not found in database" never
\* happens), because create_scan commits before it enqueues.
JobsHaveRows ==
    /\ \A n \in DOMAIN queue : queue[n] \in ScanIds
    /\ \A w \in Workers : Job(w) # 0 => Job(w) \in ScanIds
    /\ \A r \in Requests : BeingEnqueued(r) => req[r].scan \in ScanIds

\* A counted id is at most one past the last row.
CountedIds ==
    \A r \in Requests : req[r].pc = "insert" => req[r].scan \in 1 .. Len(scans) + 1

\* The write lock is held exactly by the worker inside Pipeline.run: no path
\* leaves the transaction open or writes after losing it.
LockIsPipeline ==
    \A w \in Workers :
        writer = w <=> worker[w].pc \in {"loop", "run", "final", "commit"}

\* Committed rows are settled or untouched: PENDING until the pipeline's one
\* commit; every stage that was begun has exactly one outcome; the recorded
\* stages are a prefix that ends at a cancelled one; a COMPLETE scan went
\* through all its stages.
CommittedRowsAreWhole ==
    \A i \in ScanIds :
        LET st == scans[i].stages
        IN  /\ scans[i].status \in {"PENDING"} \cup Terminal
            /\ scans[i].status = "PENDING" => st = NoStages
            /\ \A s \in Stages :
                  st[s] # {} => Cardinality(st[s] \ {"RUNNING"}) = 1
            /\ \A s, t \in Stages :
                  s < t /\ st[t] # {} => st[s] # {} /\ "CANCELLED" \notin st[s]
            /\ scans[i].status = "COMPLETE" /\ i \notin lostKeys =>
                  \A s \in Stages : st[s] # {} /\ "CANCELLED" \notin st[s]

\* A cancellation answered 200 holds: unless Redis dropped its key, the scan is
\* never committed COMPLETE afterwards, whatever the worker was doing.
CancelWins ==
    \A r \in Requests :
        CancelAcknowledged(r) /\ req[r].scan \notin lostKeys =>
            scans[req[r].scan].status \in {"CANCELLED", "FAILED"}

\* A PENDING scan is not forgotten: its job is queued, in a worker's hands,
\* about to be enqueued, or known to be lost to a fault; or its create request
\* did not answer 201.
NoForgottenScan ==
    \A i \in ScanIds :
        scans[i].status = "PENDING" =>
            \/ Queued(i) \/ Held(i) \/ i \in lostJobs
            \/ \E r \in Requests :
                  req[r].kind = "create" /\ req[r].scan = i /\ req[r].code # 201

\* As long as the environment has had no fault, a handler that raises does not
\* fail its scan; only a broken session does, and it takes everything with it:
\* no stage of such a scan stays behind as if the scan had partly run.
ErrorIsolation ==
    faults = 0 =>
        \A i \in ScanIds :
            scans[i].status = "FAILED" => i \in broken /\ scans[i].stages = NoStages

AllStopped == \A w \in Workers : worker[w].pc = "stopped"

\* An accepted scan reaches a terminal status unless its job was lost, provided
\* that not all workers are stopped for good, nor Redis.
AcceptedScansSettle ==
    \A r \in Requests :
        []<>(~ AllStopped) /\ []<>redisUp =>
            (Accepted(r) ~> req[r].scan \in lostJobs \cup Settled)

\* The database is free for the panel's writes again and again: a pipeline
\* gives the write lock back however it ends.
LockIsReleased == []<>(writer = Nobody)

-----------------------------------------------------------------------------
(* Refinement of the abstract life cycle *)

AtPC(i, pcs) == \E w \in Workers : Job(w) = i /\ worker[w].pc \in pcs

Waiting(i) == Queued(i) \/ \E r \in Requests : BeingEnqueued(r) /\ req[r].scan = i

PhaseOf(i) ==
    IF AtPC(i, {"clear"}) THEN "delivered"
    ELSE IF AtPC(i, {"recover"}) THEN "failing"
    ELSE IF Waiting(i) \/ Held(i) THEN "open"
    ELSE "closed"

\* What a client sees of the rows, the jobs and the cancellations.
CommittedStatus == [i \in ScanIds |-> scans[i].status]
JobPhase == [i \in ScanIds |-> PhaseOf(i)]
Asks(r) == req[r].kind = "cancel" /\ req[r].code \notin {404, 409}
AskedToCancel == {req[r].scan : r \in {q \in Requests : Asks(q)}}

Lifecycle == INSTANCE ScanLifecycle WITH
    status    <- CommittedStatus,
    phase     <- JobPhase,
    asked     <- AskedToCancel,
    forgotten <- lostKeys

\* Every step of the service is a step of the life cycle its clients rely on,
\* or changes nothing they can see.
ImplementsLifecycle == Lifecycle!LifecycleSpec

-----------------------------------------------------------------------------
(* What the API says and the code does not do *)

\* api/scans.py answers 409 "already in terminal state": such a state is final.
TerminalIsFinal ==
    [][\A i \in ScanIds : scans[i].status \in Terminal =>
                             scans'[i].status = scans[i].status]_scans
=============================================================================

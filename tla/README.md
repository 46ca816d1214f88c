# Shadow.Lab in TLA+

Shadow.Lab is a small network-scanning service: a FastAPI control panel takes
scan requests for an authorised scope, queues a job in Redis, and a worker
runs a pipeline of scanner tools (nmap, httpx, nuclei, dnsx), normalises what
they report and stores it in a SQLite file that both processes share. This
directory holds TLA+ models of that service, the TLC configurations that check
them, and TLAPS proofs about the service, the pipeline, the executor,
the findings and the panel.
All source paths below are under `src/`; `app/` stands for `src/control-panel/app/`.

## 1. Inventory

| Component | State it keeps | Operations | Module |
|---|---|---|---|
| Scan API `app/api/scans.py` | rows of `scopes` and `scans` (SQLite) | `validate_scope`, `create_scan`, `cancel_scan`; reads | `ScanService`, `ScopeGate` |
| Queue `app/queue.py` | a Redis list, one key per cancellation (TTL 3600 s), a progress channel | `enqueue_scan`, `dequeue_scan`, `set_cancelled`, `is_cancelled`, `clear_cancelled`, `publish` | `ScanService` |
| Worker `app/worker.py` | `_running`; one session per job | `run_worker`, `_process_scan`, signal handler | `ScanService` |
| Pipeline `app/scanner/pipeline.py` | the open transaction; hosts, services, web targets and raw findings in memory | `run`, eight stage handlers, `_set_stage`, `_update_progress`, `_store_findings` | `ScanService`, `Pipeline`, `Findings` |
| Database `app/database.py`, `app/models.py` | SQLite in WAL mode, busy timeout 5000 ms, one write lock | commit, rollback, flush, lock | `ScanService`, `Findings`, `Pipeline` |
| Profiles `app/profiles.py` | none (data) | `get_profile` | constant `Profile` |
| Scope `app/scope.py` | settings | `parse`, `_validate_network`, `_collapse`, `is_in_scope`, `filter_targets` | `ScopeManager`, `ScopeGate` |
| Runners `app/scanner/*_runner.py` | none | filter, build a command, run it, parse, filter again | `ScopeGate`, `Pipeline` |
| Executor `app/executor.py` | one child process | `_run_process` | `Executor` |
| Normalisation `app/normalize.py` | none | `map_severity`, `deduplicate_findings`, ... | `Findings` |
| Findings API `app/api/findings.py` | `findings`, `finding_status_changes`, notes | `update_finding_status`, notes, reads | `Findings` |
| Control panel `app/main.py` | cached Tailscale health, background task | `check_tailscale`, `monitor_tailscale`, `healthz`, `service_action` | `Panel` |
| Reports, assets, preflight, events, CLI, templates | none | read, render, log | not modelled |
| Deployment `docker-compose.yml` | containers | `restart: unless-stopped`, Redis without persistence, labels | assumptions of `ScanService` and `Panel` |

How they interact. The panel and the worker never call each other. They share
the SQLite file (every write needs its single write lock) and Redis (the job
list, the cancellation keys, a progress channel nobody subscribes to). Inside
the worker everything is one thread: worker → pipeline → runner → executor →
tool, with a callback `cancel_check` that goes from the executor's polling loop
back to Redis. Requests of the panel run in a thread pool and interleave
freely with each other and with the worker.

What is hard here:

* `create_scan` counts rows, inserts, commits and then pushes the job;
  `cancel_scan` reads, sets a key, publishes and then writes a row. Other
  requests and the worker act between any two of these steps.
* BLPOP delivers a job at most once. Nothing looks for unfinished scans when a
  worker starts, and Redis is configured to keep nothing over a restart.
* The pipeline holds SQLite's write lock from its first flush to the worker's
  one commit, which may be hours. Every other writer gives up after 5 s.
* The cancellation key is read before each stage, again after the last one and
  during each tool; it may expire or be lost in between.
* The exception handler of `_process_scan` also covers the steps *after* the
  commit, and its own commit may fail and is swallowed.
* A scope is parsed three times (validate, create, worker) by processes whose
  environment may differ.
* A tool may hang, ignore SIGTERM or end in the very poll that is cancelled.
* Two scans may report the same issue in any order, before or after somebody
  changed its status, while two people change it at once.
* What a tool prints is not trusted: it may name hosts outside the scope, ports
  nobody asked about, or stop half way. A stage that fails leaves its successors
  to work with what there is, and one bad row breaks the whole transaction, be it
  in a handler or when the findings are stored after the last one.
* `docker stop`, and the panel's own Stop on the labelled worker, end a container
  for good (`unless-stopped`); only an operator brings it back.
* `/healthz` answers from a cache a background task fills; nothing looks after
  the task.
* A container action is three calls to Docker, between which names, states and
  containers change, and the panel may be asked to stop itself.

What makes each part correct:

* Service: a scan has one job; a job has its row; no accepted scan is
  forgotten; a committed row is whole; an acknowledged cancellation holds; a
  settled scan is not reopened; a failed stage does not fail the scan; the write
  lock is given back; scans settle.
* Scope: no tool gets an address that was not typed, is blocked, or whose
  version was off; what is stored is what was typed; created scans meet the
  settings in force.
* Executor: the call always returns, no tool is left running, cancellation and
  timeout hold within one poll and the grace of SIGTERM, cut-off output is flagged.
* Findings: one row per issue, highest severity, a status only people change,
  an audit trail that tells the truth, counters that count issues.
* Pipeline: nothing outside the scope is touched and no row is about a host outside
  it (the URLs stored beside the hosts are another matter), rows hang together,
  counters belong to the rows they are committed with, findings are stored with
  a COMPLETE scan only, a later stage takes nothing from an earlier one, and a
  cancellation stops the tools.
* Panel: a healthy answer is recent and comes back, only labelled containers are
  acted on, an answer tells what became of the container.

## 2. Modules

| Module | What it is |
|---|---|
| `ScanService` | requests, queue, database, worker and pipeline control, with faults |
| `ScanLifecycle` | what a client may assume about one scan: the abstract specification `ScanService` implements |
| `ScopeManager` | `scope.py` as operators on blocks of addresses |
| `ScopeGate` | a scope on its way from the operator to a tool |
| `Executor` | one call of `_run_process` against a tool |
| `Findings` | severity, deduplication, merging over scans, status changes |
| `Pipeline` | one run of the pipeline over what the tools print; built on `ScopeManager` |
| `Panel` | the Tailscale monitor with `/healthz`, and container actions |
| `ScanServiceProofs`, `OutcomeProofs` | TLAPS proofs about `ScanService`: its jobs and lock, and what becomes of a scan |
| `LifecycleProofs` | `ScanService` implements `ScanLifecycle`, and what follows from it |
| `ScopeProofs`, `PipelineProofs`, `ExecutorProofs`, `FindingsProofs`, `PanelProofs` | TLAPS proofs about the modules they are named for |
| `MCScanService`, `MCScopeGate`, `MCFindings`, `MCPipeline`, `MCPanel` | constants and symmetries for TLC (`Executor` needs none) |

`PROJECT.json` maps every definition that models code to its lines.

### ScanService

`scans` is the committed table; its index is the id, since `_generate_scan_id`
is the row count plus one. `writer` and `draft` are the one open write
transaction: a pipeline's first flush takes the lock (`PipelineBegin`), its
changes go to `draft`, and `CommitScan` copies `draft` to `scans`.
`queue` and `cancelKeys` are Redis. `worker[w].pc` and `req[r].pc` are program
counters whose steps are the pieces of code between two calls with which
others can interleave:

    create_scan   new -> insert (id counted) -> enqueue (row committed) -> done
    cancel_scan   new -> setex (status read) -> publish -> update -> done
    worker        down -> poll -> read -> begin -> loop -> run -> loop ... ->
                  final -> commit -> clear -> poll; recover after an exception;
                  stopped after a docker stop, until OperatorStarts

A failing call has its own action or disjunct with the effect the code gives
it: a failed insert is a 500 and no row; a failed RPUSH is a 500 and a PENDING
row without a job; a locked database ends a cancellation in a 500 with the key
already set; a failed DEL after the commit marks a finished scan FAILED.
`lostJobs` and `lostKeys` are history: what a crash or Redis destroyed; so is
`broken`, the scans whose session a failed flush has broken.

`SessionBreaks` is no fault of the environment: what a tool prints is enough. It
happens in the two stages whose handlers put a tool's output into rows that are
flushed inside the stage (`FlushesOutput`: httpx names a port that is no known
service, `pipeline.py:431`; dnsx a hostname that is a list), and after the last
stage, when `_store_findings` flushes what nuclei printed (`NucleiReported`:
`cve-id` and `cwe-id` may be JSON lists, which SQLite cannot bind to a text
column). Every further use of the session raises, that of the except blocks
too; the scan is rolled back and `MarkFailed` commits it FAILED without a stage.
`docs/architecture.md:141` says "a failed stage does not destroy the scan" and
`pipeline.py:167` catches what a handler raises; `ErrorIsolation` is what remains
true of it: without a fault only a broken session fails a scan.

Three facts about the code that shape the model:

* **Stage rows.** `_set_stage` looks for its row in `scan.stages`, which the
  session loaded while it was empty. New rows get only `scan_id`, so the loaded
  collection never holds them and the outcome of a stage goes into a second
  row. `stages[s]` is therefore the *set* of statuses of the rows with number
  s: a finished stage is `{"RUNNING", "COMPLETED"}`. The rows numbered 0
  (`scope_validation`) are left out.
* **Repairs.** As the code stands no scan ever runs: the worker cannot be
  imported (`NucleiFinding` in `app/scanner/nuclei_runner.py`), and if it could
  the stored scope cannot be read (`api/scans.py:151`). The constant `Repairs`
  mends either defect, so that the behaviour behind them can be checked.
  `stored_scope_defect` runs without the second repair; the other runs have
  both. `ScopeGate` needs `"stored_scope"` for the same reason.
* **What stages find** is left to `Pipeline`: here a handler ends COMPLETED or
  FAILED, and the next one runs in both cases, as in `Pipeline.run`, or it breaks
  the session.

A job is in `lostJobs` when its worker crashed with it, when Redis came back
empty, or when the worker could not mark its scan FAILED (`MarkFailedLocked`: the
database was locked by the other worker, and the failed commit is swallowed).

Losing a key by TTL and by Redis' LRU eviction (`allkeys-lru`) are one action,
`CancelKeyExpires`. Eviction of the queue itself has the effect of a restart
that comes back empty.

### ScanLifecycle

For each scan: the committed status, and where its one job is (`open`,
`delivered`, `failing`, `closed`). `ScanService` implements it under the mapping
`Lifecycle == INSTANCE ScanLifecycle WITH ...`: the status is that of the row
(`CommittedStatus`), `phase` is computed from the queue, the requests that enqueue
and the workers' program counters (`JobPhase`), and a cancellation is asked for
from its SELECT to its refusal, if any (`Asks`, `AskedToCancel`). The abstract steps say in a few lines
what survives all interleavings: a result is delivered at most once, only a
failure after that may change it to FAILED, a cancellation asked for before the
scan settled may overwrite it with CANCELLED, and COMPLETE never follows
CANCELLED unless the key was lost.

### ScopeManager and ScopeGate

A network is an aligned block of addresses of one version; a prefix length is
the block's size. The address spaces, the broadest block and the blocked ranges
are constants, so that the few addresses of `MCScopeGate` stand for 32 and 128
bits. `ParseToken` drops host bits (`strict=False`) and summarises ranges,
`ValidateNetwork` tests version, overlap with blocked ranges and breadth per
token, `Collapse` merges each version on its own, and `Accepts` adds the limit
on IPv4 addresses (IPv6 has no such limit in the code). `ScopeGate` runs
validate, create and the runners' filter with the settings changing at any
time. `IsInScope` refuses whatever is not a literal address.

### Executor

Time is counted in polls of 0.5 s: the expired ones (`polls`) and, after SIGTERM,
the wait for the tool to obey (`grace`, up to 5 s or ten polls), of which a tool
that ignores SIGTERM uses all before it is killed (`GracePasses`, `GraceExpires`).
`Now` is their sum: it is what `TimeoutHolds` and `CancelStopsTool` bound.
`Refused` models the standard
library: `communicate` raises on input for a child it has talked to already,
which is where a call with stdin ends after its first expired poll. Redis
failing under `on_cancel`, a tool that is not installed, one that cannot be started
for another reason (the `OSError` passes to the stage: `raised`), one that ends,
hangs or ignores SIGTERM, and output that cannot be decoded are all there. `Patience` bounds when the operator may still
cancel, nothing else.

### Findings

A scan's `_store_findings` is one step, because the pipeline holds the write
lock; `update_finding_status` is two, its read and its commit. Severities are
numbers in rank order, dedup keys are members of a set, and a severity the map
does not know is INFO. `FinishScanBreaks` is the flush that fails on a list for a
column of text: the whole of `_store_findings` is rolled back with the scan.

### Pipeline

One scan. `pc` and `seq` are the loop of `run`: `check` is its head, where the
cancellation key is read, `stage` a handler at work, `final` the code after the
loop. Each of the eight handlers is one action, from its first line to
`_update_progress` and the record of its outcome, because nothing else reads or
writes the scan's data in between; what interleaves is the operator's
cancellation and a Redis failure (`PipelineError`). `hosts`, `services`,
`webTargets` and `findings` are the accumulators and, after a flush, the rows.
`loaded` is the part of the ORM session that matters: a collection `h.services`
is read once and then stays, so `ports_discovered` is 0 for a host that was
found before its ports.

Tools are untrusted: a handler takes any finite subset of `Printed`, `PortLines`,
`WebLines` or `NucleiLines`, which hold addresses in and out of scope, host names,
ports nobody asked about and URLs whose host part is elsewhere. A finding has the
host it was filtered and linked by (`host`) and the host part of what is stored
(`asset`: `affected_asset` and `affected_url`, taken from nuclei's URL). What the
runner drops on the
way in (`Filter` before the tool) and on the way out (`Filter` on results) is
`ScopeManager`'s filter. Three exits of a handler are told apart:

* it completes, with whatever part of the output there was: a timeout is looked
  at for nmap only, and a killed tool's partial output counts;
* it fails: nmap timed out, or a JSON line of another shape makes a parser, the
  creation of a web target or the normalisation of a finding raise. What was stored
  before the line stays, and the exposure checks of the assessment are lost;
* the session breaks (`SessionBreaks`): a flush fails on a web target whose port is
  no known service (`web_targets.service_id` is NULL) or on a list where the column
  takes text, and the whole scan is rolled back and FAILED. `FinalizeBreaks` is the
  same after the last stage, when the findings are flushed for the first time.

`Repairs` mends two defects that together empty every host discovery, so that
the handlers behind it have something to do: `"cidr_filter"` (the scope's own
networks go through a filter that only literal addresses pass,
`nmap_runner.py:59` and `scope.py:220-226`, although `docs/scope-safety.md:39` says
that in-scope CIDRs are passed to nmap) and `"host_state"` (nmap's host
state is read as an attribute of `host`, and it is an element, so no host is ever
up). The theorems hold for either setting.

### Panel

`monitor` is the background task with `check_tailscale` inside: a check with its
timeout, a sleep of `TAILSCALE_CHECK_INTERVAL`, and `dead` after an exception that
the `except` of `main.py:53` does not name. The first check is made by `lifespan`
before a request is served (`starting`). A `GET /healthz` reads the cached value
(`HealthRead`) and then pings Docker (`HealthAnswers`), and time passes between;
a time-out of the Docker client is no `DockerException` and ends in a 500.
Time is counted in ticks; a tick needs every timer to have time left.

A container action is the look (`ManagedContainer`: label, id), the action
(`ServiceAction`, at the id that was looked up) and the reload
(`SerializeContainer`). Each of the three may time out (500), the action also after
Docker has carried it out (`CarryOut`). Between them `DockerChanges` starts, stops and removes
containers and lets a new one take the name of one that is gone. The panel's own
container has the label (`docker-compose.yml:123-127`): asked to stop or restart
itself the request goes down with the process, and after a stop nothing but
somebody's `docker start` brings the panel back (`PanelIsStarted`).

## 3. Runs

| Run | Bounds | Shows |
|---|---|---|
| `service` | 1 worker, 3 requests, 3 stages (one disabled), any 2 of 5 kinds of fault | `TypeOK`, `OneJobPerScan`, `JobsHaveRows`, `CommittedRowsAreWhole`, `CancelWins`, `NoForgottenScan`, `ErrorIsolation` |
| `service_two_workers` | 2 workers, 2 requests, 1 stage, any 2 faults, under `FairSpec` | `LockIsPipeline`, the refinement `ImplementsLifecycle`, and the liveness `AcceptedScansSettle`, `LockIsReleased` |
| `scope_gate` | every scope of one or two of 22 lines over 24 addresses, 4 environments | `OnlyAuthorisedTouched`, `StoredScopeIsTyped`, `ScansMeetSettings` |
| `executor` | a timeout of 3 polls, a grace of 10, cancellation up to poll 4, with and without input, obeying or ignoring SIGTERM | `NoToolLeftRunning`, `CancelStopsTool`, `CutOutputIsFlagged`, `TimeoutHolds`, `CallReturns` |
| `findings` | 2 scans of up to 2 reports, 2 status requests, 2 keys, 2 severities | `OneRowPerKey`, `SeverityIsHighest`, `StatusIsAudited`, `AuditRecordsThePast`, `CountersCountIssues` |
| `pipeline` | 4 profiles, a scope of 2 addresses, output naming these, a neighbour and a host name, 5 port lines, 5 web lines, 4 nuclei lines, cancellation at any moment | `NothingOutside`, `RowsHangTogether`, `CountersMatchRows`, `FindingsOnlyWhenComplete`, `ExposuresReported`, `CancelStopsTools`, `EarlierResultsKept` |
| `panel` | a managed container, an unmanaged one that may take its name, the panel itself; interval 2, timeouts 1 | `HealthyIsRecent`, `OnlyManagedTouched`, `ReportsAfterAction`, `HealthRecovers` |

Why the bounds are enough to see the interesting cases:

* Three requests give two creates that count the same id, two creates and a
  cancellation, one create and two cancellations. Two faults are what the
  longest known chains need (a Redis outage and a lost key; a SIGTERM and the
  SIGKILL that follows it); a worker is started again as often as it stops. Three stages give
  a stage that is skipped, one before and one after it. Each request runs once,
  so nothing else is unbounded.
* Two workers are enough for both to hold jobs and one to hold the lock. Two
  requests there give two creates, or a create and a cancellation that meets
  either worker; a scan cannot be touched by more than one job (`OneJobCorrect`),
  and two faults allow a crash of each worker. One stage has a begin, an end and
  a cancellation point on each side. The safety of three requests is the run
  `service` and, for any number, the theorems.
* Two lines give every relation two networks can have (equal, nested, adjacent,
  overlapping a blocked range, of different versions), and the tokens include
  host bits, ranges across block boundaries, reversed ranges and junk. One
  scope and one created scan at a time suffice: neither reads another's.
* A timeout of three polls has a first, a middle and a last poll; the grace of ten
  polls is the code's own (5 s in polls of 0.5 s).
* Two scans and two requests have every order of find, decide, find again.
* Two addresses in scope give a host found by host discovery and one found with
  its ports; the neighbour and the host name are the two ways to be outside. The
  port lines hold a dangerous service open and closed, one that is dangerous and
  spoken to over HTTP, and one out of scope; the web lines one as asked, one with
  its URL elsewhere, one with a port that is no service, and the nuclei lines a
  finding as asked, one with its URL elsewhere and one about a host out of scope. The profiles are three
  of `profiles.py`'s shapes and one that enables the assessment but forbids it.
* An interval longer than a check makes an answer as old as it can get: the bound
  `Fresh` of `HealthyIsRecent` is tight, one tick less is violated.

Symmetry is used over requests, workers, scans and updates in runs that check
invariants and action properties only, never under fairness.

Deadlock is not checked where a behaviour may end: all requests have been
served and all workers are down or idle, the call of the executor has returned,
all scans and updates are done, the scan is over. `scope_gate` and `panel` check it.

### Fairness

`FairSpec` of `ScanService`: weak fairness of each request's and each worker's
next step. A request or a worker that has started goes on, because each wait in it
is bounded (BLPOP 5 s, SQLite's busy timeout 5 s, a tool by its timeout and grace,
see `executor`), and Docker starts a worker again that ended by itself or crashed
(`restart: unless-stopped`, `down`). A worker that was stopped by `docker stop` or by
the panel's own Stop (`docker-compose.yml:172-182`, `stopped`) is not started again
by anything, so `OperatorStarts` has no fairness, nor has `RedisComesBack`:
`AcceptedScansSettle` promises something only if again and again some worker is not
stopped and Redis is up. No fairness is given to arriving requests
nor to faults. `FairSpec` of `Executor` is fair to `RunProcess` only: nothing
makes a tool end. `FairSpec` of `Panel` is weak fairness of the monitor's steps, of
an answer under way, and of time: `asyncio.sleep`, `subprocess.run(timeout=...)` and
the Docker client's timeout are all bounded. Nothing else of the panel is fair: no
request need come, no container need change, no node need come back.

### Where the code differs from what it says

Each of these runs checks one property and TLC shows how the code violates it.

| Run | Property | What happens |
|---|---|---|
| `stored_scope_defect` | `ErrorIsolation` | the scope row is written as a list and read as an object; every scan FAILS |
| `terminal_overwritten` | `TerminalIsFinal` | a cancellation that read the scan before it settled overwrites COMPLETE |
| `scope_refused` | `AcceptedScopeCreatable` | adjacent networks of the broadest size are accepted, merged, and then refused as too broad |
| `stored_out_of_scope` | `StoredDataInScope` | results of httpx and nuclei are filtered by host and stored with a URL that may lead outside the scope (`docs/scope-safety.md:45`) |
| `stdin_killed` | `PolledToolDelivers` | a tool with input that outlives one poll is killed, its output dropped, its stage COMPLETED |

Further disagreements met while reading, visible in the models but without a
run of their own: `NucleiFinding` (`scanner/nuclei_runner.py:25`) has a field
without default after one with a default, so importing `app.worker` raises
`TypeError` and as the code stands no worker ever polls and every accepted scan
stays PENDING (with `Repairs` lacking `"imports"`, `AcceptedScansSettle` fails);
readers see PENDING until the pipeline's single commit,
though the docs promise live progress (`worker.py:113-114`); a cancellation
that meets the pipeline's write lock is answered 500 (`CancelScanLocked`); a
second worker that meets that lock drops its job and leaves the scan PENDING
(`MarkFailedLocked`, which is why such a job counts as lost; docker-compose
starts one worker); host discovery filters out the networks of its own scope (see
`Repairs` of `Pipeline`); a tool's output can break the session, also when the
findings are stored, and then destroys the scan (see `SessionBreaks`); each finished stage keeps its RUNNING row;
`pipeline.py:3-5` says the dependents of a failed stage are skipped, and they
are run; a finding moves to the scan that saw it last while the earlier scan's
counters stay; `deduplicate_findings` promises to accumulate evidence and keeps
that of one report; two racing status updates may leave a gap in the audit
trail (`AuditRecordsThePast` is what remains true).

From `Pipeline` and `Panel`: a tool killed because Redis failed under it returns
code 1 and no output, so its stage is COMPLETED although nothing was looked at
(`docs/architecture.md:141` promises that errors are isolated per stage and
recorded); nuclei usually prints its host with scheme and port, which the final
filter drops, so most of its findings are lost; httpx is given IPv6 addresses
without brackets; `README.md:61` says the panel checks Tailscale at startup and at
every interval, but an unexpected answer ends the monitor, and the last health
is served for ever (`HealthyIsRecent` and `HealthRecovers` except that case); a
container removed while `GET /api/services` lists turns the whole list into a 503.

## 4. Proofs

Every safety property the runs check is proved for every value of the constants;
only liveness is not (see the end of this section). The assumptions the proofs
use are the named ASSUMEs of the modules they are about, which TLC evaluates in
each run.

The first three modules hold for every set of requests and workers, every profile,
every choice of faults and their number, and either setting of `Repairs` (one
theorem says otherwise). They use `ProfileAssumption`, `NobodyAssumption`,
`FaultsAssumption` and `RepairsAssumption` of `ScanService`.

`ScanServiceProofs`:

* `TypeCorrect`: `Spec => []TypeOK`. `TypeOK` is inductive by itself.
* `LockCorrect`: `Spec => []LockIsPipeline`, inductive with `TypeOK`: every
  action that enters or leaves the program counters of a running pipeline takes
  or gives up the lock.
* `OneJobCorrect`, `JobsHaveRowsCorrect`: `Spec => []OneJobPerScan` and
  `Spec => []JobsHaveRows`. Neither is inductive alone. A counted id that another
  request has inserted meanwhile must not become a second job, so the invariant
  `JobInv` adds `CountedIds` (an id in flight is at most one past the last row)
  to the two, over the type invariant: the insert succeeds only for a fresh
  id, for which by `JobsHaveRows` there is no job yet.

`OutcomeProofs`:

* `CancelCorrect`: `Spec => []CancelWins`. By the time a cancellation is
  answered the worker may be at any step, so the invariant `CancelInv` follows
  the cancellation's key: `CancelledExist` (the scan of a cancellation in flight
  has a row), `KeyStands` (a key that was set and not lost is there as long as
  the scan has a job that still reads it), `DraftObeys` (what is about to be
  committed after an acknowledged cancellation is CANCELLED or FAILED), and
  `CancelWins` itself. It rests on `OneJobPerScan`: another worker could
  otherwise clear the key.

* `NoForgottenCorrect`: `Spec => []NoForgottenScan`. `DeliveryInv` follows a job from
  the INSERT to the settled row: the creation of a row whose job is not queued yet
  has not been answered (`CreatesUnanswered`), a worker that polls or is down holds
  no job a new one would replace (`WorkersHold`), and one that lets a job go does so
  only after its scan is settled (`ClearedIsSettled`), which a commit does because
  what it commits is a result (`CommitDecided`) and no step reopens a settled row
  (`RowStep`). `PendingRemembered` is slightly stronger than `NoForgottenScan`: a
  request that has only counted an id does not vouch for its scan, for it may
  still lose the id to another. The proof rests on `LockCorrect` (two workers
  never share the draft) and `JobsCorrect` (a queued job has a row).

* `RowsAreWholeCorrect`: `Spec => []CommittedRowsAreWhole`. A row is whole because the
  draft is when it is committed, so the invariant says how far the draft has come
  (`Recorded`): every stage before the current one has ended, the current one as
  the program counter says, and the later ones have not begun. A stage recorded
  CANCELLED is followed by the status CANCELLED because the key that was seen there
  stands, or is recorded as lost, when the pipeline asks again (`KeySeen`: no other
  worker has the job whose end would clear it).
* `ErrorIsolationCorrect`: `ErrorIsolation`, under two hypotheses the
  theorem states: one worker, as in `docker-compose.yml` (a second one that finds
  the database locked fails its scan without any fault), and `"stored_scope"` in
  `Repairs` (without it every scan fails). `Undisturbed` adds to the property that a scan on its way to FAILED is one of `broken`, and that no
  worker has a scan again whose stages are committed, so that `MarkFailed` never
  leaves stages behind.

`LifecycleProofs`:

* `ImplementsLifecycleCorrect`: `Spec => ImplementsLifecycle`, every step a step of
  `ScanLifecycle` or a stutter. The mapping computes phases from all workers, so
  the proof first says how one worker's move changes the phase of its own job and
  leaves the others' (`WorkerPhases`, by `OneJobPerScan`), then maps the requests
  (`RequestRefines`), the workers (`WorkerRefines`) and the faults (`OutsideRefines`).
  It uses the invariants of the two modules above and `ClientInv`: an open job's
  row is PENDING, or CANCELLED after somebody asked for that. The step that needs
  them all is the commit (`CommitRefines`): COMPLETE over CANCELLED is no step of
  the life cycle, and only `DraftObeys` excludes it.
* `NeverReopenedCorrect`: `Spec => Lifecycle!NeverReopened`, the abstract promise
  carried over: no settled scan becomes PENDING again, nor COMPLETE unless its
  cancellation key was lost.

`ScopeProofs` holds for any address spaces, block sizes that divide each other, broadest
blocks, blocked ranges, lines and environments. It rests on the assumptions of
`ScopeManager` and on `GateAssumption` and `TokensAssumption` of `ScopeGate`: what
`ipaddress` reads has a prefix length and an address of its version.

* Of blocks: two aligned blocks that share an address are nested, and equal when
  their sizes are (`Laminar`, from the arithmetic of `Nested`).
* Of the parser: among the blocks that hold an address and fit into a set one is
  the largest (`LargestAt`), so the largest blocks cover the set exactly and are
  apart (`LargestBlocksExact`). From this a line is parsed into networks with just
  its addresses (`ParseTokenExact`), collapsing keeps them (`CollapseExact`), and
  the networks of an accepted scope hold what was typed, each address once
  (`NetworksExact`). Where networks are apart the sum of their sizes is the number
  of addresses (`SumDisjoint`, a bijection).
* Of the round trip through the database: a network's text is read back as that
  network (`StoredNetwork`), so what `create_scan` accepts keeps to its settings
  (`StoredMeets`).
* `TypeCorrect`, `AuthorisedCorrect`, `StoredScopeCorrect`, `ScansMeetCorrect`: the four
  properties of the run, all from `GateInv`. It keeps with every scope that its
  networks are those of the accepted lines, with every scan that its scope was
  accepted again, and with a tool that its targets are covered by the scan's
  networks. `ValidateNetwork` looks at the lines and not at the collapsed networks,
  so that no target is in a blocked range follows through the line it came from
  (`AcceptedIsValid`).

`PipelineProofs` holds for any scope, any profiles and anything the tools print,
with `Repairs` or without, and rests on `ScanAssumption`, `ProfilesAssumption` (the
stages of a profile are distinct, ports are sought before the assessment, as in
`profiles.py`), `OutputAssumption` (a port line has an address and a port; findings with one URL are
one) and the
assumptions of `ScopeManager`:

* `HandlerEnds` is the case analysis the others share: every handler either breaks
  the session or leaves rows that satisfy `Leaves`, which says how they relate to
  those before and to the stage. `TypeCorrect` follows from it.
* `NothingOutsideCorrect`, `RowsCorrect`: `NothingOutside` and `RowsHangTogether` are
  not inductive, for a service created from a line outside the scope would bring
  its host with it. `RowsInv` states both at once for the rows (`RowsSafe`): hosts
  and findings are in scope, and services and web targets hang on hosts that are.
  Handlers leave such rows by what the filter returns (`FilterKeepsScope`), and start
  their tool on filtered targets (`ToolsSafe`, with `DiscoveryInScope` for the
  networks themselves).
* `CountersCorrect`: `CountInv` says what the session has loaded of each host. A host
  found with its ports has all its services loaded, because ports are sought only
  once (`NotSoughtTwice`, by `ProfilesAssumption`), any other host has none.
* `ExposuresCorrect`: an assessment recorded COMPLETED left every exposure in
  `findings` (`AssessedInv`), and no later stage adds a service, because the ports
  were sought before it.
* `CancelStopsCorrect`: `LateInv` adds that after a late tool the loop is not inside
  a stage and the key is set, so no further stage begins.
* `FindingsCorrect`: `StoredInv` adds that nothing is stored and the scan is not
  COMPLETE before the end.
* `EarlierResultsCorrect`: an action property, which `KeptIn` of `Leaves` gives for
  every handler, a broken session apart.

`PanelProofs` holds for any containers, names, labels and timers, and rests on
`ContainersAssumption` and `TimesAssumption`:

* `TypeCorrect`: `TypeOK` is inductive; no timer is overrun, and only the three
  actions are ever sent.
* `OnlyManagedCorrect`, `ReportsCorrect`: the invariant `ActionInv` follows a request
  through its three calls: between look and action its id is a labelled one,
  and while it waits for the reload the container's present state is among the
  states recorded since the action.
* `HealthyCorrect`: `AgeInv` bounds, for every step of the monitor and of a request,
  how long the node can have been offline by the timers that have run since the
  answer in use was given: the present check, the sleep and the check before it,
  and the ping of the request that read the cache.

`ExecutorProofs` holds for any timeout and grace (`TimeoutAssumption`), whenever the tool ends,
the operator cancels and Redis fails: `TypeCorrect`, `NoToolLeftCorrect`,
`CancelStopsCorrect`, `CutOutputCorrect` and `TimeoutCorrect`, all from one inductive
invariant. `CallInv` relates where the call is to its clock and the tool (only a poll
that began in time may follow, and a tool is there to be stopped); `CancelInv` says
that a cancellation the tool has survived falls in the present poll, or in the
one before while the present one is not over.

`FindingsProofs` holds for any scans, reports, keys and spellings of severities, and
rests on `ReportsAssumption`.

* About `deduplicate_findings`: it leaves one finding for each key
  (`DeduplicateIsUnique`) that is at least as severe as every other with that key
  (`DeduplicateCovers`).
* About `_store_findings` (`StoreFacts`): old rows keep key and status and take the
  higher severity, new rows are one for each key that had none. The lookup finds
  an issue's row because it has only one (`ExistingIsTheRow`): `OneRowPerKey` is what
  makes it inductive.
* `FindingsInv` adds that what a finished scan reported has a row
  (`ReportedHaveRows`), without which a new row could miss an earlier, higher
  severity, and that a status request commits to a row that exists
  (`PendingExists`).
* `TypeCorrect`, `OneRowCorrect` and `SeverityCorrect` follow from these.
* `StatusCorrect`, `AuditRecordsCorrect`: `AuditInv` adds to the two properties that the
  status a request has read, and will write into its record, is one the finding
  has had by now (`PendingReadThePast`). It may no longer be the present one, which
  is why a record need not go on where the last one ended.
* `CountersCorrect`: what is left by `deduplicate_findings` is as many findings as keys
  (`DeduplicateCounts`, a bijection), and the five severities divide them
  (`PartsAddUp`).

What stays with TLC: the liveness properties (`AcceptedScansSettle`,
`LockIsReleased`, `CallReturns`, `HealthRecovers`), which need fairness and ENABLED.
Every other property of a passing run has its theorem. The properties of the
`violation` runs are false of the code and have none.

Two definitions were found wrong, or wrong to reason about, by the proofs.
`PhaseOf` of `ScanService` had a CASE with overlapping guards, whose value is
then unspecified and which TLC resolves by their order; it says the order now.
`CountersMatchRows` was guarded by "between two stages, after the first", which
the proof does not need: it holds in every state.

## 5. Not modelled

* Of `main.py`: the pages, the list of services and the logs, which only read. Of
  the routes, `GET /api/services` of the assets router shadows the panel's own.
* The parsers of tool output beyond what they drop, keep or raise on (titles,
  banners, certificates are copied), the remote process behind `tailscale ssh`
  (nothing observes it).
* `add_note`, logs, events, the progress channel: appended and never read by the
  program. Reports, assets, preflight, CLI, templates: they keep no state, and
  what they show are rows whose correctness is stated above.
* `SCANNER_SCAN_TIMEOUT` and `EVIDENCE_RETENTION_DAYS`: configured, used nowhere.
* Add-on services, SearXNG and the Makefile are outside the program.

## 6. Plan

Done, in this order, most important first: `ScanService` with `ScanLifecycle`,
its proofs, `ScopeManager` with `ScopeGate`, `Executor`, `Findings`, then
`Pipeline` and `Panel` with theirs, `ExecutorProofs` and `FindingsProofs`, the
refinement in `LifecycleProofs`, the rest of `OutcomeProofs` and `PipelineProofs`,
and `ScopeProofs`.

No further module is planned: what is left of the code keeps no state. What
could still be stated and proved:

1. `ScopeGate`: a refused scope is one whose settings changed
   (`AcceptedScopeCreatable`) once the code collapses before it validates; today it
   is false (`scope_refused`).
2. `Pipeline` as a refinement of the pipeline steps of `ScanService`, which share the
   loop and differ in what a stage holds.

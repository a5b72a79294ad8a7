# Lamware in TLA+

Lamware analyses malware samples on one host. A sample arrives through the API
(or is fetched from MalwareBazaar), waits in a spool directory, is detonated in
CAPE and analysed by a chain of containers and a language model, and ends as a
report, a row in PostgreSQL and a PDF. The programs that do this are separate
processes which share directories, JSON files, a table and pipes, mostly without
locks. This directory models them in TLA+, checks the models with TLC and
proves what matters most with TLAPS.

Paths below are relative to the repository's root (`src/` in `PROJECT.json`);
`roles/` abbreviates `ansible/roles/`.

## 1. Inventory

### 1.1 Components

| Component | State it keeps | Operations | What makes it correct | Model |
|---|---|---|---|---|
| **Upload spool** — `api/app/routers/samples.py`, `roles/api/templates/pipeline-spool*` | the spool and quarantine directories, `.failure` sidecars, the run log, the unit's start counter | upload, drain (list, run, delete or quarantine), stop, crash, operator's drop, removal and requeue | no sample is lost or deleted unanalysed; an interruption is not a failure; no loop; records are kept; the spool drains | `Spool`, `SpoolContract` |
| **Analysis rows** — `roles/pipeline/files/pipeline_status.py`, `db_ingest.py`, `run-pipeline.py` | tables `analyses` and `samples`, `report.json`, `report.pdf` | reconcile, create, stage updates, ingest in two transactions, replay, PDF, complete | one row per run; settled rows and reports stay; a row claims only what landed; a dead run's row is corrected | `PipelineRuns` |
| **Enrichment and relationships** — `db_ingest.py`, `pipeline/lamware_pipeline/relationships.py`, `api/app/routers/analyses.py` | `ioc_values`, `technique_values`, the analysis' child tables, `sample_relationships` | the eleven groups, each in a savepoint; the second commit; edges; deletion of an analysis | what did not land is named or counted; samples that share a value are related; ingests do not block each other for good | `Enrichment` |
| **Pipeline stages** — `run-pipeline.py`, `stages/cape.py`, `stages/volatility.py`, `stages/ghidra.py`, `correlation_rules.py` | the report dictionary, CAPE's task, a thread pool, Ghidra projects | submit and poll, plugins under an alarm, the chain of analysers, the verifier, cross-tool correlation, the choice of what the agent reads | a failed stage is neither hidden nor fatal; silence means that something was looked at; the agent reads the best program there is | `CapeTask`, `MemoryStage`, `Correlation`, `StaticStage`, `StageFlow` |
| **Interpret broker and agent** — `roles/pipeline/files/stages/interpret.py`, `roles/interpret/files/interpret-ghidra.py` | two pipes, a reader queue, deadlines, the transcript | tool calls, force_final, synthesis, termination | every tool_use block gets one answer, its own; time is bounded; a final in time is used; the answer says what happened and what it cost | `Interpret`, `Container` |
| **Flow view** — `api/app/flow.py` | none: it draws a stored report | nodes and edges of stages, tools, verifier, agent | a stage is drawn as it went | `FlowGraph` |
| **Auto-feeder** — `roles/auto-feeder/templates/auto-feeder.py.j2`, `api/app/routers/feeder.py`, `roles/sample-feeder/templates/sample_feeder.py.j2` | `state.json`, `seen_hashes.json`, the PAUSE file | a cycle; pause, resume, reset; a command line session | failure limit and budget hold across lost updates; no sample is fed twice without a reason | `AutoFeeder` |
| **Investigation assistant** — `api/app/investigate`, `routers/investigate.py`, `frontend/src/hooks/use-investigation.ts`, `pages/analysis-detail/investigation-panel.tsx` | sessions and their messages, streamed tool-call fragments; the panel's live exchange, its cached history and requests | a message, its turn of requests and tools, upstream failure, the client leaving; sending, aborting, opening, closing, switching, pinning | the stored conversation can be continued; totals are right; a tool gets its own arguments; the panel loses no exchange and shows none twice | `Investigation`, `Panel` |
| **Live status** — `routers/ws.py`, `ws_manager.py`, `frontend/src/hooks/use-websocket.ts`, `providers/ws-provider.tsx` | sockets per account, the LISTEN connection, broadcasts, a page's cache | notify, broadcast, connect, deadline, reconnect, refetch | a page shows the last state; a broken page gets back under the account's limit | `LiveStatus` |
| **Network monitor** — `roles/network-monitor/templates` | `status.json`, `baseline.json`, the counters of the firewall | a check: questions, alerts, dispatch, state | an alert is sent once and repeated while it stands | `NetworkMonitor`, `Ntfy` |
| **Alert relay** — `roles/ntfy-alerts/templates` | the drop box, the path unit | enqueue, list, send, set aside, drop over the cap | an alert is attempted once, or its loss is told | `NtfyRelay`, `Ntfy` |
| **Batches** — `scripts/lib/intake_run.sh`, `scripts/detonate.sh`, `roles/pipeline/files/lamware_detonate` | `status.tsv`, staged downloads, PAUSE; CAPE's tasks, the scorecard | start, skip, download, run, record, stop, resume; submit, poll, verify, abort, score | a finished sample is not run again; a scorecard compares comparable runs | `Intake`, `Detonate` |
| **Ghidra's runs** — `stages/ghidra.py`, `roles/ghidra/templates/run-ghidra*` | the project directories of a report, their index, containers | list the programs, import, copy the project, index it, open it for a tool call | the agent given a program reads that program | `GhidraJob` |
| **Evaluation corpus** — `lamware_eval/promote.py`, `corpus_harvest.py`, `pipeline-cleanup.sh.j2` | report directories with an age, `corpus/`, `archive/`, the manifest | nightly cleanup, harvest, promote, replace | a listed sample can be given to an agent again | `Corpus` |
| **Sweeps** — `lamware_eval/runner.py`, `__main__.py`, `rebuild.py` | a sample's cells: tool logs and results | run a cell, score it, score it again | an answer is scored against what its agent was given | `Sweep` |
| .NET stages — `stages/dotnet*.py` | decompiled tree | tool calls in a sandbox | a call ends with its group killed | an analyser of `StaticStage` |
| Evaluation metrics — `lamware_eval/metrics.py`, `stats.py`, … | none | figures over results | — | not modelled |
| Report depth — `pipeline/lamware_pipeline/report_depth.py` | none | a pure function over a report | — | not modelled |
| IOC extraction, grounding, scoring | none | text processing | — | not modelled |
| Authentication and audit, read-only routers, most of the frontend | none of interest | queries, token checks | — | not modelled |
| Host provisioning — `ansible/`, `packer/` | — | declarative | — | not modelled |

### 1.2 Interactions

* The API writes a file into the spool; a systemd path unit starts the drain
  while the directory is not empty; the drain runs `run-pipeline` once per entry
  and looks at its exit status only.
* `run-pipeline` is also started by the auto-feeder, by the intake runner (with
  a time limit) and by hand. Nothing serialises these; they meet in PostgreSQL.
* Within a run one thread goes from stage to stage; each leaves a section in the
  report which later stages read, an error as much as a result.
* A run tells its row of every stage and notifies the API's WebSocket listener,
  which makes every open page ask again.
* The interpret stage starts a container and brokers its tool calls to Ghidra or
  .NET sandboxes, because a tool call is the only moment the agent reads stdin.
* The API controls the auto-feeder through files: PAUSE, a trigger, and
  `state.json`, which both sides rewrite. The network monitor touches PAUSE, too.
* Everything reports through ntfy: directly, or, without a network, through the
  drop box and the relay.

### 1.3 What is hard

Stops and crashes between any two file operations of the drain; two directories
without a transaction; uploads visible before they are written; several writers of
one JSON file; judging a process dead by the age of its row; two transactions of
which the second may be lost; a task in CAPE that is polled, never awaited; an
alarm that raises an exception wherever the main thread is; a failed stage whose
empty section looks like a clean sample; a budget that expires while a model request is
in flight; a `force_final` that crosses a tool call in the pipes; two turns of one
conversation; notifications lost while a listener reconnects, under sockets that stay
open; checks cut between an alert and its record. `PROJECT.json` lists these
hazards at their lines, each with the properties that watch it or the reason
why none does.

## 2. Plan

A module is split where two programs meet; what is pure follows what has state.
Done, in this order: the spool and its contract; the rows; the feeder; the
interpret call; the stages of a run; the assistant; live status; the monitor, the
relay and the batches; the corpus and its sweeps; Ghidra's runs. Abstract specifications: the submitter's view of the spool is
the one that is refined; the others (a row's life, "one answer per question") are
properties of `PipelineRuns` and `Interpret`.

Runs: one per question, and one for the parts of the host that do not meet; one
more for each statement of the repository that the code refutes. Theorems: the type
invariant and the main safety invariants of every module with an inductive argument
worth writing down. Left to do: see 7.

## 3. Modules

### 3.1 `Spool`, `SpoolContract`

A file is an identity; its name in a directory is a pair (given name, copy). The
variables `pc, queue, cur, rc, stopping, stuck` are the drain script's position and
its shell variables; `where`, `copy`, `sidecar`, `runlog` are the file system;
`pathUnit`, `starts`, `lastExit` systemd's.

| Actions | Code |
|---|---|
| `BeginUpload`, `FinishUpload`, `FailUpload` | `_write_spool_file`: `O_EXCL` create, write, unlink on failure |
| `Trigger`, `WindowPasses`, `ResetUnit` | the path unit, its start limit |
| `List` | `find … | sort -z` into `queue` |
| `Done`, `SkipVanished`, `SkipIrregular`, `StartRun`, `EndRun`, `AfterRun`, `RemoveDone`, `RemoveFails` | the loop over the queue |
| `Quarantine`, `QuarantineFails`, `WriteSidecar`, `SidecarFails` | `quarantine`, `quarantine_dest` |
| `LateOutput` | a descendant of a run that still holds the run log |
| `Stop`, `Crash` | SIGTERM to the control group (the trap sets `stopping`), power loss |
| `HandDrop`, `Remove`, `Requeue` | the operator |

The upload's authentication and size limit are left out, and so is the text of a
sidecar except for whose output it quotes. What the pipeline does is its exit
status: `EndRun` picks any.

`SpoolContract` says the same to a submitter: queued, then done by a run that
succeeded or quarantined by a run that failed; an interrupted run decides nothing.
`Spool` refines it: `UploadStatus` maps a file's place to a status, `outcome` is
the verdict.

### 3.2 `PipelineRuns`, `Enrichment`

An invocation's `pc` is the next database call or file write of `run_pipeline` and
`ingest_to_db`; `rows` is the `analyses` table; `tx` is the enrichment that is
inserted and not committed; `early` and `id` are the two row ids a process holds.
Every database call has a failing variant which swallows the exception as the code
does, and `Die` may come between any two steps. A stage is abstracted to the two
events it reports; the correlations group stands for all enrichment groups (they
have the same shape: savepoint, inserts, on failure rollback of the group).

`Enrichment` follows that second transaction statement by statement, beside others. `Items`
is what a report lists for each group. `Upsert` waits while someone else holds the
value (`WaitsFor`); `Fails` rolls a group back, for a statement `Refused`, for a row
deleted meanwhile (`RefusedOrphan`) or as the deadlock detector's `Victim`; what earlier
groups locked stays locked. `FetchShared` and `Relate` are the third transaction. The row's
list of warnings has three parts: up to `Malformed` complaints about the report, as many as
the groups have read of it, the groups lost, and up to `Cleaned` complaints of the cleaner;
`Capped` cuts it to `MaxWarnings` entries and counts the rest (`untold`). The operator's
`backfill_all` is left out.

### 3.3 `AutoFeeder`

A cycle holds `cst`, the `state.json` it loaded at its start, up to an hour;
`ApiRead`/`ApiWrite` are the two halves of the API's read-modify-write; the CLI
session writes back `cliSeen`, which it read when it started. `ReadSeen`,
`WriteSeen` with `Crash` in between give the torn file. Hashes are numbers since
trimming keeps the largest. A run costs any amount of `RunCosts`, added after the budget was
looked at, so the cost on file may exceed the budget, by less than the dearest run; a lost
update of the API may also forget a run's cost.

### 3.4 `Interpret`

`bpc` is the position of `run_interpret`'s loop, `stdout` and `queue` are the lines
before and after the reader thread, `stdin` the lines the agent has not read;
`apc` is the agent's position in its loop. `blocks`, `results`, `thisTurn` are the
turn under work, a result remembering which call its block made and which call's
answer it received. Time is discrete, and passes only when every process waits
(`Quiet`), so that scheduling and pipes take less than a tick, while requests, tools and the
synthesis take any number of ticks up to their bound. A container starts within a tick. `InitFits` and
`ReadInit` are the two ways the write of the init message ends: the pipe holds
all of it, or the agent reads.

Argument validation is a tool that takes no time. The forensic trail, prompts and
the content of results are left out.

`Container` is the same agent seen from its requests: which client and model each
goes to, what is billed, and what the result line says. `rpc` names the request under
way; `ChooseClient` and `Dispatch` come before the loop; `Shot…`, `Loop…`,
`LocalSynthesize`, `CloudSynthesize`, `Recover…` and `Last…` are the answers and failures
of each request. The two views meet only in the
protocol, which is `Interpret`'s, so `MCInterpret` gives each behaviour one of them
(`part`). The instance enumerates what the roles deploy and what an evaluation's arms
configure, not every combination of settings.

### 3.5 `CapeTask`, `MemoryStage`, `Correlation`, `StaticStage`, `StageFlow`

Each of the first four is a part of `run_pipeline` and EXTENDS the one before it,
because each reads the sections its predecessors left; `StageFlow` is the run: it
hands on (`LeaveCape`, `LeaveMemory`, `Correlate`) and has the specification.

| Module | State | Actions | Code |
|---|---|---|---|
| `CapeTask` | `task` (CAPE's), `waited`, `started`, `errors` (the poll's), `cape`, `intel` (the report's) | `SkipCape`, `RefuseSubmission`, `SubmitTask`, `SubmitFails`, `PollAnswered`, `PollFails`, `GiveUp`, `ExtractIntel`, `StageRaises`; `CapeStarts`, `CapeMoves` of CAPE | Stage 2, `poll_cape_task`, `extract_cape_intel` |
| `MemoryStage` | the pool's futures `plug`, `got`, the main thread `mpc`, `alarm`, `clock`, `vol` | workers, `Collect`, the targeted dump, vadinfo, images per process; the alarm by where it strikes: `AlarmInPool`, `AlarmInResult`, `AlarmInDump`, `AlarmInImages` | Stage 3, `run_volatility` and what it calls |
| `Correlation` | `warnings`, `blind`, `passed` | `CrossCorrelate` | `cross_correlate`, its five rules, `_cape_warnings`, `_volatility_warnings` |
| `StaticStage` | `tool`, `shell`, `routed`, `files`, `canonical`, `target` | `RunAnalyser`, `RunGo`, `RunNative`, `RunGhidra`, `SelectCanonical`, `AnalyseShell`, `PayloadTarget`, `WrapperTarget`, `HashFails` | Stage 4 and 4.5: the chain of detectors, `run_ghidra_analysis`'s bookkeeping, `propagate_project_dir`, `_pick_openable`, `select_native_target`, `select_payload_target` |

A sample is what the stages tell apart: the first detector that matches, whether
Ghidra loads it, whether CAPE dumps its memory, what CAPE sees and extracts. Time
is local to a stage. A rule's findings are left out: what is modelled is whether
it had its input (`blind`), since "nothing found" and "could not look" are the same
empty list to a reader of the report. The loaders pass over a buffer, dump, command line
or manifest line they cannot read and say nothing: which rules miss something for that
reason alone is `passed`. A program that is gone before it is hashed ends the run
(`HashFails`, `spc = "raised"`).

`FlowGraph` is what `flow.py` makes of a report that `StageFlow` left: the state
of each node and edge as operators over the run's sections, without state of its own. A
candidate is handed to Ghidra as a payload, an injection or a region (`HandOff`), and drawn
by the source it is recorded with (`Edge`), which for a call that failed (`mute`) is malfind's.

### 3.6 `Investigation`, `Panel`

The API is one process whose database calls are synchronous: a turn is
interrupted only where it waits for the model or a tool, and these are the
actions' boundaries. A turn holds a copy of its session's row (`copy`), which a
commit expires; it is read again when it is used. `acc` is the
`ToolCallAccumulator`: of each call the sequence of pieces it was given, each piece
marked with the call it belongs to. `CutOffTurn` is a client that goes away or an
exception nobody expects. What a tool finds is left out (an answer or an error,
which are the same row). The generator is taken to run inside the request's
database session, as it does from FastAPI 0.118 on.

`Panel` is the other end: one tab's panel, which shows an exchange while it streams
and the stored history afterwards. `Post`, `Abort`, `ConfirmPin`, `Dismiss`, `NewSession`,
`SelectPrevious`, `CompleteShown`, `OpenPanel`, `ClosePanel` are the analyst;
`Receive` and `EndOfStream` the stream's callbacks, which outlive the panel that
started them; `ReadDetail`, `DetailArrives`, `DetailFails`, `ListArrives` the query cache,
as `main.tsx` configures it. `Finalise` is the refetch after which the live
exchange is cleared. The API is its rows here (`Accept` … `Breaks`), since its turns
are `Investigation`'s; `MCInvestigation` gives each behaviour one of the two.

### 3.7 `LiveStatus`

A message makes a page fetch and carries nothing else a page uses; it is the
number of the change it was sent for. The row is the number of changes. `Write`,
`Notify` are the two autocommits of `update_pipeline_stage`; `ListenerConnects`,
`Callback`, `StartBroadcast`, `SendTo`, `EndBroadcast` the hub; `Track`, `Reject`,
`SendState`, `Deadline`, `Disconnect` the handler of one socket; `Connect`, `OnClose`,
`OnMessage`, `Poll`, `Read`, `Answer`, `FetchFails` the page and its query cache: a
request under way absorbs an invalidation, and one that has already read the row
absorbs it wrongly only while the page has no data (`excused`).

### 3.8 `Ntfy`, `NetworkMonitor`, `NtfyRelay`, `Intake`, `Detonate`, `Host`

* `NetworkMonitor`: one check at a time, from the first question to `status.json`.
  A question that fails ends the check (errexit, pipefail) with its queue. A
  condition is a number: its details. Truncation and writing of both files are two
  steps, and `Cut` comes between any two.
* `NtfyRelay`: the drop box, the path unit with its start limit, the relay's run.
  Send and removal are two steps with `RelayKilled` in between.
* `Intake`: `status.tsv` and the staging directories of a batch, which stops
  anywhere and is started again.
* `Detonate`: a batch of runs of one sample against CAPE's scheduler. No clock is
  needed: the poll's deadline passes when it passes.
* `Host` composes the five; the monitor and the relay share the ntfy service. They
  share nothing else, and so `MCHost` gives each behaviour one of them to exercise
  (`part`): the states of the parts add up and do not multiply.

### 3.9 `GhidraJob`

What `StaticStage` takes as one step, from `run_ghidra`'s list of programs to a tool
call. `given` is what the stage gets, `Jobs` the list; `gpc` is where the call of the
job `entry` stands: `ImportPe`, `ImportRaw64`, `ImportRaw86` are the container,
`CollectOutput`, `CallFails`, `CallTimesOut` the wrapper's ends, `OrphanEnds` the container
whose wrapper was killed. `RecordPresence`, `Probe`, `Unverified` choose the program, and
`ToolCall` is answered from what its project holds. A file is a name and its content, so
that a project found by one and a program opened by the other can be of two files. How many
functions an import finds is its choice.

### 3.10 `Corpus`, `Sweep`

`Corpus`: `disk` and `age` are the reports of one sample, `shape` what each says of its
programs; the cleanup (`HarvestKeeps`, `HarvestFails`, `Delete`, `NightEnds`) and a
promotion (`StartPromotion`, `CopyProject`, `CopyRefused`, `IndexRefused`, `SetAside`,
`Place`, `PlaceFails`, `ListPromotion`, `PromotionDies`) interleave at every directory
operation. A project is whole, or has a hole where the cleanup or a cut-off copy left one.

`Sweep`: `dest.cells` are the cells below the corpus directory, each with the log of
tool calls per kind of input and the result; `todo` is the plan. `ReadInput`, `Prepare`,
`AgentAnswers`, `AgentDoesNot`, `Score`, `CellFails`, `SweepDies` are one cell; `Rebuild`
scores all of them again. Everything is by path, so a promotion may replace the
directory between any two steps.

`MCHost` has `GhidraJob` as one more part, and `MCInterpret` has the cleanup with
promotions ("corpus") and promotions with sweeps ("sweep"), which share nothing with a call.

## 4. What TLC checks

`CHECK_DEADLOCK FALSE` stands where the system really stops: the spool's unit is
idle for good once everything has been uploaded and drained; a call, a run of the
pipeline, a session out of turns, a batch and an alert queue without further
alerts do nothing more; the pages of `live_status` stop when their bounded
requests are used up; ingests end (that they do not wait in a circle is `IngestEnds`).
`feeder_cycle` starts cycles for ever and is checked for deadlock. The corpus has a
last night and a last promotion.

| Run | Instance | What it shows |
|---|---|---|
| `spool_order` | two uploads, one of whose runs leaves a descendant; two faults; start limit 1 | `ArrivalOrder`, `TailOwnRun` and the refinement `ContractSpec` across every stop, crash and failing operation |
| `spool_records` | a file and a symlink of the same name dropped by hand; two requeues, one fault; three copies | the second quarantine overwrites nothing (`NoSampleLost`), every rerun has a reason (`NoDetonationLoop`), and everything leaves the spool (`Drains`) |
| `pipeline_faults` | one run of two stages, its replay, two failing calls, age limit 1; two ingests with IOCs and techniques in opposite orders beside an older analysis of one of the samples, one trouble, one deletion | a settled row stays (`Settled`) and a dead run's is corrected (`OrphansReconciled`); a group that did not land is named, or counted where complaints about the report fill the list of two (`GroupsAccounted`), samples that share a value are related (`EdgesFound`), circles of waiting are broken (`IngestEnds`) |
| `feeder_cycle` | two hashes, seen file of one, limit of two failures, budget of two and runs that cost one or three, two days, each hash selected twice at most, one kill, one CLI session | `StreakBounded`: the feeder never passes its failure limit, whatever updates are lost; `FedAgainForAReason` |
| `interpret_call` | budget 8, grace 4, reserve 3, tool 2, request 2, synthesis 3; four calls, two per turn, four blocks; two faults | the protocol (`WellFormed`), `FinalUsed`, the deadlines (`Returns`), and that reserve and grace suffice when they cover one tool, one request and one synthesis (`AnsweredInTime`); of the requests of four configurations and five messages: each goes where it can be answered (`LegServes`), and the result line says how it ended and what it cost (`ResultHonest`); of three reports of a sample, two promotions and two sweeps of two arms: what is listed can be given to an agent (`CorpusServes`), a score is of the run's own input (`ScoredOnOwn`) |
| `flow` | six kinds of sample from CAPE's poll (window of four intervals) through three plugins on two workers to the target | the memory stage lasts as long as its alarm or its pool (`StageBounded`); silence covers all but what a loader passes over (`SilenceCovers`); the program read (`BestProgram`); what the flow view draws of it (`PictureHonest`); the run gets there or a program vanished before it was hashed, and a report finished in the poll's window is read (`Interpreted`) |
| `talk` | three messages, a limit of two turns, two calls of two pieces, three calls per turn; a panel, two sessions of two turns, two messages, in three scenes | `TotalsHonest`, `AnswerKept`, `ToolsAsAsked`; an exchange stays on the screen while its answer moves from the stream to the history (`NoGapInView`), and what is quiet shows everything once (`QuietShows`) |
| `live_status` | a page, two sockets, a limit of one, two changes, one fault | `NoGap`; `Converges` and `ComesBack` under the fairness below |
| `host` | a breach and a question that fails, two details each, one cut; four alerts, one badly named, one malformed, two per run; two samples, three starts; two runs, two batches, two guests; three inputs for Ghidra, two PE files, two functions | what becomes of an alert (`AnnouncedOrRepeat`, `Accounted`, `Reminded`), what `status.tsv` and a scorecard say (`BatchHonest`, `ScorecardSound`), whose program a tool call reads (`ReadsItsProgram`) |
| `spool_partial`, `flow_silence`, `breach_pause` | two uploads without faults; the instance of `flow`; the batch and the monitor together | violations, see 6 |

### Bounds and why they are enough

* **Spool.** The script handles one entry at a time, so a second file is needed only
  for what passes between entries: order, the shared log, equal names. Two
  faults cover a fault while recovering from a fault. `MaxCopy = 3` exceeds what one
  name can collect with two requeues. Start limit 1 makes the failed path unit reachable.
* **PipelineRuns.** Reconciliation and ingest look at a row and its own process:
  a run and its replay show each pair of roles. `OtherRunStarts` stands for any
  further run's reconciliation. A row's age stops just above the limit.
* **Enrichment.** Two ingests wait for each other within a group, across groups and after
  one of them was a victim; the older analysis makes the number of analyses of a value exceed
  the number of its samples, which is at the limit.
* **AutoFeeder.** A lost update involves one cycle and one API request, both of
  which are unbounded in number; two hashes and a file of one force trimming.
  `MaxPicks`, `MaxDay`, `MaxCrashes`, `MaxCli` keep counters finite.
* **Interpret.** Turns of four blocks with two calls per turn and four in all
  reach every branch: deferral, refusal within a turn, force_final at the first,
  at a middle and at the last block, the limit at a turn's end. `MaxFaults = 2`
  lets a hang be followed by a death. `Tick` stops at `Horizon`, past which only a
  blocked init write would wait.
* **Container.** Escalation after two calls of at most four, two per turn, lies before,
  at and after each limit; usage is counted per request, so no bound on it is needed.
* **StageFlow.** The stages meet in the report's sections and not in their inner
  steps, so a sample with a memory dump has little for Ghidra and one with much for
  Ghidra no dump. Three plugins on two workers give a queue; a stage limit between
  one round and two lets the alarm strike in the pool, in the dump and at an image.
* **Investigation, LiveStatus.** Two of three messages may overlap; a limit of two
  turns refuses the third. The panel opened twice, another tab's sessions, and sessions
  that end each disturb an exchange by themselves, so each is a scene of its own. One account with a limit of one is enough for a socket
  left behind to shut its page out.
* **Host.** Two details tell a change from a repeat; one kill or outage strikes
  anywhere. Two batches of two runs let a task of an aborted batch run beside the next.
* **GhidraJob.** The inputs have two files of one name, two of one content, and more PE
  files than are loaded; jobs run one after another and meet only in a directory.
* **Corpus, Sweep.** Two promotions: the second finds the first's directory. Of three
  reports the oldest is made by hand and the last has every shape; the keep-list of one
  has to choose. Two sweeps: the second meets a cell the first left, of an earlier report.

### Fairness

* `Spool`: weak fairness of the drain's steps and of the path unit, i.e. each
  statement of the script ends and systemd starts a triggered unit. The run itself
  ends since the pipeline's stages have time limits; nothing is assumed of the API
  or the operator. `Drains` excepts a path unit failed by the start limit, which
  only an operator resets.
* `PipelineRuns`: time passes and further runs keep being started. A run need not
  make progress. `Enrichment`: a statement that does not wait ends, and PostgreSQL looks for
  deadlocks.
* `Interpret`: the broker's threads are scheduled, time passes, and an agent that is
  not hung takes its next step. Hanging is an explicit fault, so this assumes nothing
  of a container that misbehaves. `InitFits` is not fair: a long init
  message never fits.
* `StageFlow`: the pipeline's thread, whose requests, plugins and analysers all have
  timeouts. None for CAPE.
* `LiveStatus`: the API's event loop, its timers and the page's are weakly fair; an
  answer is strongly fair because a request takes less time than a session lasts,
  so that not every one can be cut. Writers, the listener and a browser with a dead
  link owe nothing: `NoGap` and `ComesBack` name them as exceptions.
* `MCHost`: cron and systemd start the monitor's checks and the relay, whose steps
  end; an outage of ntfy ends; an entry of `status.json` grows old however
  often checks come between (strong fairness). Nothing of what an operator starts.
* `Investigation`, the batches, the corpus, the sweeps and Ghidra's runs: safety only.

### Mutants

Every property of a passing run has a mutant in `PROJECT.json`: an operator of the
same module that changes one definition as a plausible bug would (a dropped
guard, a failed `mv` that is not reported, a seen file written only on success, the
clock looked at between lines only), with which TLC finds that property violated.

## 5. What is proved

TLAPS proves these for every value of the constants that satisfies the ASSUMEs of
the modules (finite sets, upload names unique because of the submission's uuid,
limits natural numbers, …): every safety property that a passing run checks, and some that no
run checks. Liveness is only model-checked. Where a specification has parts that share nothing, a theorem
is about the part's own specification (`EnrichmentSpec`, `ContainerSpec`,
`EvaluationSpec`, `PanelSpec`, `GhidraSpec`), which an instance composes with the rest.
Hardly any of the properties is inductive. What each needs besides, in the words of the
conjunct that says so:

* **`SpoolProofs`**. `NoSampleIsLost`, `InterruptionNotBlamed`, `RecordsAreKept`: whether
  a deletion is right depends on what the script remembers, so `IInv` adds what each
  position of the script says of the sample under work: while it runs it has no outcome
  (`RunOpen`); after it `rc` is that outcome, and a `killed` one is met only while
  stopping (`RunEnded`); the quarantine is entered only with an error or an irregular
  file (`ToQuarantine`); at the sidecar no record has the chosen name (`ToRecord`);
  the current entry is the running file's (`EntryIsRunning`). That `RecordsKept`
  holds follows from `ToRecord` and the freshness of the names `quarantine_dest` picks.
  `TailIsOwn`: what is in the log is the present run's, or of a descendant that still
  writes (`LogIsRuns`). `NoLoop`: a file that may be run once more has its next run paid for by
  a requeue or a fault. `ArrivalsInOrder` (`ArrivalIInv`): while a drain goes through its
  list, a waiting upload is on the list behind what arrived before it, or arrived
  after all that is on it.
  `SpoolImplementsContract`: the initial state maps to the contract's,
  and every step of drain, environment or fault to one of its steps or a stutter
  (`StepSimulation`, one case per action).
* **`PipelineRunsProofs`**. `RunsHaveOneRow`, `ClaimsAreHonest`, `PdfsAreOfTheirRows`,
  `DeathStageIsKept`, `EvidenceIsKept`, `SettledStays`. `Effect` says what one
  step may do to the table: add one running row, change one held row as its
  process's position allows, or fail stale rows; one lemma per database call shows it
  (`StageEffect` …). `IInv` adds that a process holds only rows it inserted
  (`HoldsOwn`), so that the effects of two processes do not meet, and that the stage
  a row names is the last its run told (`ToldLast`).
  `EnrichmentAccounts`, `EdgesAreFound`, for any number of ingests that cross
  (`EnrichmentIInv`): the groups before the present one have landed or are known to have failed
  (`GroupsPassed`), and of those known to have failed `Capped` leaves out at most as many as it counts, an ingest relates only after its values are committed (`InTurn`), and
  of two that have fetched, one saw the other's values or has the edge (`Crossed`).
* **`AutoFeederProofs`**. `TypeCorrect` bounds the cost on file by the budget and less than one
  dearest run. `GuardrailHolds`. The invariant `StreakCounted`:
  no writer of `state.json` forgets a failure of the streak, because the only stale
  value ever written back is an operator's zero. It relates the ghost `streak` to
  the file, to the cycle's copy before the run, and to the copy at the save.
  `FedOnce` (`FeedsPaid`): a hash that is neither on file nor in hand, and every hash
  while the file is torn, has its next selection paid for.
* **`InterpretProofs`**. `ProtocolWellFormed`, `CallsCounted`, `FinalIsUsed`,
  `TimeIsBounded`, for every budget, grace, reserve and limit: what a step may do depends on
  what is in the pipes.
  `IInv` adds: the call under way is in exactly one of `stdout`, the reader's queue,
  the tool and `stdin`, always as the first line, and with the number the agent
  counted (`CallPlace`; so the result an agent reads is its own); how far the two
  counts differ by place (`CallCount`); only an agent that is gone has written `eof`,
  and nothing follows it (`LineOrder`); a final is in a pipe until the loop ends, and
  one that the reader has not taken was written in this tick (`FinalPlace`; so a
  deadline that finds the queue empty lost no final of an earlier tick); a tool that
  runs was granted before the reserve (`ToolClock`). A call that arrives after the
  budget finds `forced` set, hence no tool runs while a final is under way.
  `HealthyRunsAnswer` adds how late a run without faults can be at each position (`Pace`).
  `LegsServe`: the client goes with the backend, and a model other than the message's is the
  one it escalates to (`LegIInv`). `ResultsAreHonest`: every answer is counted until
  something is said (`BillIInv`). `CorpusAlwaysServes`: between the two renames of a
  promotion what was listed is aside, to come back or to be archived (`CorpusIInv`).
  `ScoresAreOwn`: each cell's log is of one run, and the cell that a run finds by its path
  has no other's result (`SweepIInv`).
* **`StageFlowProofs`**. `NeverStartedIsHonest`, `MemoryStageEndsQuiet`, `SilenceIsCovered`,
  `BestProgramIsRead`, `TargetIsReadable`. `IInv` adds: one thread, a stage at a time
  (`InOrder`); a task that runs unseen started since the last answer (`PollInv`);
  results are taken of plugins that ended (`PoolInv`); without a warning the rules that miss
  something are those that `passed` names; an answer of the verifier is
  true, and a canonical program is not known to be missing (`ChoiceInv`, with
  `SelectChooses` for the loop over the candidates). `PictureIsHonest` adds which
  sections a position has left (`PictureIInv`). `StageIsBounded`, for every number of
  plugins and workers: a plugin starts within the rounds that those before it fill
  (`PoolOnTime`), each position says what has become of the alarm (`AlarmPlace`), and the
  alarm is not late (`StageOnTime`).
* **`InvestigationProofs`**. `TotalsAreHonest`, `AnswersAreKept`, `ToolsGetTheirCalls`, for any
  number of messages, calls and pieces. `IInv`: a copy is covered by the answers
  stored (`CopyCovered`); without overlap the only copy in use is current
  (`OneAtATime`); the accumulator holds what has arrived, in place (`PiecesInPlace`).
  `NothingGoesMissing`, `HistoryShowsAll`, for any sessions, messages and mounts. `PanelIInv`:
  the answer is the last event of an exchange and is stored when it is sent (`InOrder`); a
  mount streams one exchange (`OneStream`), so that an answer of the mount in view is the
  watched one's; whoever waits to clear waits for a request under way, and an answer to it
  has what there was (`Requested`); an exchange whose answer was read is in the
  history in view, or in the one on its way, unless its session is excused (`Fresh`); what is
  live is to be cleared once it has landed (`LiveGoes`); and only the watched exchange's
  own history clears it (`Watching`).
* **`LiveStatusProofs`**. `NothingAnnouncedIsMissed`, `PoolIsKept`, for any pages, sockets and
  limit. `IInv`: a working socket is in the pool (`Pooled`), a broadcast removes only
  dead ones (`DeadAreGone`), sockets are not shared (`OwnSocket`), a page never goes
  back (`NeverBack`).
* **`HostProofs`**. `FoundIsAnnounced` (`MonitorIInv`): what is noted was sent, and in its turn of
  the queue. `AlertsAccounted` (`RelayIInv`): attempts beyond the first are paid for by
  kills, and an alert tried more often than that is the one about to be removed.
  `BatchIsHonest` (`IntakeIInv`): a sample that ran and has no line in `status.tsv` is
  still staged. `ScorecardsAreSound` (`DetonateIInv`): CAPE's tasks are the ones the batches
  created, one at a time unless a batch was aborted, and the runs listed were reported.
  `AgentReadsItsProgram` (`GhidraIInv`): every project directory holds one of the jobs
  of that place, and each report is of its job.

`TypeCorrect` is the type invariant of a module's `Spec`; the types of a part are a
conjunct of its own invariant (`MonitorTypeOK`, `EnrichmentType`, `PanelType`, …). No run repeats
them. Each inductive invariant was a TLC invariant of its instance before it was
proved. What a proof needs of the constants stands as an ASSUME where they are
declared: that values which stand for "nothing" differ from data (`SilenceAssumption`,
`StubAssumption`, `NothingAssumption`), that ingests are finitely many, that a
configuration names a model its backend serves (`ServedAssumption`, as the roles deploy them).

Only model-checked, since fairness and ENABLED are out of the prover's reach: `Drains`,
`OrphansReconciled`, `IngestEnds`, `Returns`, `Interpreted`, `Converges`, `ComesBack`,
`Reminded`. Proved and not run, since the proof covers every instance:
`InterruptedNotBlamed`, `RecordsKept`, `OneRowPerRun`, `ClaimHonest`, `EvidenceKept`,
`CountHonest`, `TimeBounded`, `QuietAfterwards`, `NeverStartedHonest`, `ReadableTarget`,
`PdfOfRow`, `DeathStageKept`, `Pooled`.

## 6. Where the code and its documentation disagree

Checked as violations:

* **`DeletedAfterProcessing`** (`spool_partial`). `docs/SECURITY_MODEL.md` says
  "read + delete after processing". The upload's final name exists before its
  content (`samples.py:46`): the drain may run on a part of it, and
  delete it although the upload is then answered "submitted".
* **`SilenceMeansChecked`** (`flow_silence`). `_cape_warnings` exists so that a failed
  sandbox run is not read as a clean sample; its list of failed statuses lacks
  `timeout` and `never_started`, for which correlation is silent.
* **`BreachPauses`** (`breach_pause`). The network monitor "Creates PAUSE file if air-gap
  breach detected"; a batch looks for it at another path and goes on.

Met while modelling, without a run of their own. Spool and rows:

* A failed sidecar write or a crash after the `mv` leaves a sample in quarantine
  with no record of why (`pipeline-spool-run.sh.j2:121`).
* `pipeline-spool-run.sh.j2:8` "Every entry leaves the spool on every run" does
  not hold of an interrupted drain, and "later uploads continue" (`:124`) not
  when the start limit has failed the path unit.
* An entry that vanished while its run failed makes the final `mv` fail: the exit
  status is 1 although nothing is stuck in the spool (`:191`).
* `pipeline_status.py:49` says a row still `running` after the hard timeout "cannot
  be running" (`LiveNotFailed` in `PipelineRuns`). Only the intake runner has that
  limit: a spool run may outlive it and be shown as failed.
* `run-pipeline.py:1706` "must be AFTER all stages including PDF": the ingest
  has already written `pipeline_status = completed` (`db_ingest.py:977`).
* `main` exits 1 when a stage failed, so the spool quarantines a sample whose row
  says completed.
* A triage that failed leaves the report without a hash, and the ingest then files
  the analysis under the task id as its sample (`db_ingest.py:880`).

* `db_ingest.py:1190` "the failure is named in _ingest_warnings": the list keeps its first 50
  entries, and the groups lost come after the complaints about the report, so that a badly
  malformed one leaves them as part of "... and n more" only (`Capped`).
* Of an analysis that is deleted while its report is ingested every group is refused (its key
  is gone) or updates nothing, and the ingest returns its id as if it existed.
* `db_ingest.py:1132`: if the iocs group was rolled back "the lookups below find nothing": they
  look in everybody's values, so an analysis may have mappings of IOCs it does not list.
* The graph of samples depends on the order of ingests: an edge found while a value was below
  the frequency limit stays, and the next sample gets none; deleting an analysis leaves the
  edges it gave rise to.

Feeder and interpretation:

* The budget is looked at before a run whose cost is not known, so a day's cost may exceed
  `DAILY_BUDGET`, and each lost update of `state.json` may forget a run's cost.
* `sample_feeder.py.j2:87` keeps "only the most recent 10000"; both writers keep
  the 10000 largest hash values, and with a full file the sample just handled may be
  dropped at once.
* `feeder_resume` promises that resetting the failures prevents a lockout
  (`feeder.py:99`): a cycle in flight holds the old count and may save it, or touch
  PAUSE, after the answer.
* `roles/interpret/defaults/main.yml:173` says "reserve + grace is the synthesis
  window a run is guaranteed" (`WindowGuaranteed` in `Interpret`). A tool granted just
  before the reserve, and the model request after it, take their time from that
  window; `AnsweredInTime` states what the two settings do guarantee.
* `run_interpret`'s docstring bounds its time by two deadlines; the write of the init
  message precedes both and waits for an agent that may never read, which is
  why `Returns` starts at the end of that write. A final whose audit log cannot be
  written is discarded (`AuditFails`, excepted in `FinalUsed`).

* An answer of the model that is a JSON list or a scalar raises an `AttributeError`
  which nothing catches (`interpret-ghidra.py:2730`); a transport error outside the
  loop, the forced final and the single shots ends the container without a line.
* `interpret-ghidra.py`'s `main` says "a model refusal anywhere ends it with a refused
  final": a summary and a plain-English text do not look for one.

The stages of a run:

* The alarm is swallowed where `except Exception` stands around a result or an
  image (`volatility.py:821`, `:940`): the stage goes on without a limit.
* The correlation's loaders pass over a buffer they cannot read (`correlation_rules.py:202`), a
  VAD dump (`:979`) and a manifest line (`:168`), and `cape.py:470` a buffer it cannot write, and
  warn of none of it: with some or all of its files gone a rule finds nothing in silence
  (`passed` in `Correlation`; `SilenceCovers` names these losses apart).
* A shellcode call that failed is recorded as `malfind_injection` whatever it was called for
  (`ghidra.py:529`), and the flow view draws CAPE's failed ones on the edge of the regions, too.
* When the verifier rejects every program, `select_native_target` falls back to the
  first success, whose project is named by a container's path (`ghidra.py:787`).
* `should_run_ghidra`'s docstring (`ghidra.py:330`) against its result for a CAPE
  task that timed out, failed or never started (`:341`).
* The flow view draws a memory stage that timed out or failed as ok unless it was
  not triggered at all, an ELF file's skipped CAPE as failed, a .NET section without
  a program's name as Ghidra, and matches lost tools by 16 characters.
* An error after extraction replaces the section, task id and all.

Assistant and live status:

* A turn without tools writes back totals it read before the stream
  (`investigate.py:468`); `finish_reason` is never read; a client that leaves
  makes two user rows meet in the history.
* The row's update and its NOTIFY commit separately; `reconcile_stale_running` sends
  none; an outage of the listener loses notifications while sockets stay "Live"; a
  reconnect invalidates only one query.

The investigation panel:

* What a stream brings is appended to the session in view, and a pin it proposes is
  saved there, although it may have come from another; an abort refetches the session
  in view, too (`investigation-panel.tsx:417`). Two clicks on "accept" save two pins.
* A message sent while the last exchange is being refetched loses its line when that
  refetch clears the live exchange (`:258`, "so there's no gap").
* After an error nothing is refetched: a later refetch shows the exchange twice, and
  its message counts twice against the limit until then. A refetch that fails clears
  the exchange all the same.

Monitor, relay, batches:

* "Alerts must never be silently dropped" (`network-monitor.sh.j2:37`): a question
  that fails ends the check with its queue; a failed push is recorded as notified;
  `--priority critical` is refused by the command's parser; a torn `baseline.json`
  ends every later check; equal packet counts are suppressed as repeats.
* The relay's unit limit of 120 s is less than twenty sends of 10 s; a kill between send
  and removal sends twice; what a killed run dropped is never reported.
* A stop between download and cleanup makes the resumed download fail, and the
  sample is recorded `download_failed` and never run; PAUSE is looked at before a
  download only.
* `batch.py:15` "never submit while a task is outstanding" (`OneInFlight` in
  `Detonate`): an aborted batch leaves its task in CAPE and a new batch may start.
  `TERMINAL_FAILURES` lacks `failed_reporting` (`batch.py:49`). `runs_requested` counts
  attempts (`aggregate.py:85`). An exception in `measure` loses the scorecard.

Corpus and sweeps:

* Two renames replace a corpus directory: a crash between them leaves the old copy only
  in `archive/`, and a sweep that makes its cell's directory there makes the second
  rename fail, and the rename back, too (`Place`, `PlaceFails`).
* Only a project's index is looked for, so one whose cleanup or copy was cut off is
  promoted with its hole. A report is accepted whose native fallback is not copied: every
  sweep of it fails. Two promotions at a time lose one's manifest entry (one at a
  time is modelled).
* A killed agent leaves a log of an unfinished run, which the rerun clears.
  `rebuild` scores unmarked cells against whatever report is there; a marked one of another
  report ends the rebuild. Pairing by sample and ordering does not compare the inputs.

Ghidra's runs:

* The raw loader reports the better of an x64 and an x86 import, and the project keeps the
  second: an x64 result may be read as x86 code (`run-ghidra.py.j2:428`; the exception
  in `ReadsItsProgram`). On a tie of no functions a failed x64 is preferred to an x86 that
  succeeded.
* `select_native_target` looks for the canonical program by its name alone (`ghidra.py:177`): of
  two programs of one name the agent gets the first in the list, whichever was
  ranked and verified (`Target`; it is read from its own project).
* Two imports of up to 180 s each exceed the caller's 300 s. A call that times out kills the
  wrapper only: the container goes on and its directory stays. A copy that fails is told
  on stderr and exits 0.
* A file that vanishes before it is hashed for its directory's name raises
  out of `run_ghidra` and ends the run (`ghidra.py:437`).

## 7. Not modelled

Host provisioning and packer files (declarative), most of the frontend (of the
investigation panel: promoting an answer, the choice of a model, the export),
authentication (a library's), read-only API routers, and text processing without a
deciding rule; the evaluation's figures. Within the modelled components: which regions of
memory Ghidra is given and what it finds in them, MalwareBazaar queries and family
diversity, validation of tool arguments,
prompts, trail and audit formats, what a correlation rule, a plugin's parser or
a decompiler finds, the daily digest.

---------------------------- MODULE PipelineRuns ----------------------------
(***************************************************************************)
(* Concurrent invocations of run-pipeline and the analyses table.          *)
(*                                                                         *)
(* A run (spool, auto-feeder, intake or an operator, nothing serialises    *)
(* them) first marks old `running` rows failed, inserts its own row, tells *)
(* the row every stage it enters and leaves, writes report.json, ingests   *)
(* it (the core row in one transaction, enrichment in a second), renders   *)
(* the PDF and marks the row complete.  A replay ingests a saved report    *)
(* again.  Every database call may fail and is swallowed; a process may    *)
(* die between any two statements.                                         *)
(*                                                                         *)
(* A stage's own work is abstracted to the events it reports.  A row's age *)
(* counts ticks since started_at and stops just above HardTimeout; the     *)
(* task id of a run is the run itself.                                     *)
(***************************************************************************)
EXTENDS Naturals, Sequences, FiniteSets

CONSTANTS
  Runs,         \* invocations with a sample
  Replays,      \* invocations with --replay
  ReplayOf,     \* replay -> the run whose report.json it reloads
  SampleOf,     \* run -> the SHA-256 of its sample
  Stages,       \* the stages before the report, in order; the first is triage
  None,         \* NULL
  HardTimeout,  \* PIPELINE_HARD_TIMEOUT_SECONDS, in ticks
  MaxFaults     \* bound: database calls that fail

Invocations == Runs \cup Replays

ASSUME RunsAssumption ==
  /\ Runs \cap Replays = {} /\ None \notin Invocations
  /\ ReplayOf \in [Replays -> Runs]
  /\ DOMAIN SampleOf = Runs
ASSUME StagesAssumption == Stages \in Seq(STRING) /\ Len(Stages) > 0
ASSUME TimeAssumption == HardTimeout \in Nat /\ MaxFaults \in Nat

VARIABLES
  pc, at,       \* per invocation: where it is, and which stage it is in
  early,        \* analysis_id_early: the row its create returned, 0 for None
  id,           \* analysis_id: what its ingest returned, 0 for None or False
  triageOk,     \* run -> triage did not return an error
  tx,           \* uncommitted enrichment of its ingest
  rows,         \* the analyses table, by id
  samples,      \* keys of the samples table
  reportFile,   \* runs whose report.json is on disk
  pdfFile,      \* runs whose report.pdf is on disk
  told,         \* run -> the last stage its row was told of
  faults

process == <<pc, at, early, id, triageOk, tx, told>>
disk    == <<reportFile, pdfFile>>
tables  == <<rows, samples>>
vars    == <<process, disk, tables, faults>>

NoTx == [findings |-> FALSE, claimed |-> FALSE]

\* A database call that fails: its exception is swallowed.
DbFails == faults < MaxFaults /\ faults' = faults + 1 /\ UNCHANGED tables

Go(r, to) == pc' = [pc EXCEPT ![r] = to]

Live(r) == pc[r] \notin {"new", "done", "dead"}

Init ==
  /\ pc = [r \in Invocations |-> "new"] /\ at = [r \in Invocations |-> 1]
  /\ early = [r \in Invocations |-> 0] /\ id = [r \in Invocations |-> 0]
  /\ triageOk = [r \in Runs |-> TRUE] /\ tx = [r \in Invocations |-> NoTx]
  /\ told = [r \in Runs |-> "none"]
  /\ rows = <<>> /\ samples = {}
  /\ reportFile = {} /\ pdfFile = {} /\ faults = 0
-----------------------------------------------------------------------------
(* reconcile_stale_running and create_analysis_row.                        *)

\* Mutants of MarkStale: without autocommit the update is rolled back when the
\* connection closes; every old row, whatever its status.
MarkStaleUncommitted == rows
MarkStaleAll ==
  [i \in DOMAIN rows |->
     IF rows[i].age > HardTimeout THEN [rows[i] EXCEPT !.status = "failed"] ELSE rows[i]]

MarkStale ==
  [i \in DOMAIN rows |->
     IF rows[i].status = "running" /\ rows[i].age > HardTimeout
       THEN [rows[i] EXCEPT !.status = "failed"] ELSE rows[i]]

Reconcile(r) ==
  /\ r \in Runs /\ pc[r] = "new"
  /\ Go(r, "create")
  /\ \/ rows' = MarkStale /\ UNCHANGED <<samples, faults>>
     \/ DbFails
  /\ UNCHANGED <<at, early, id, triageOk, tx, told, disk>>

\* A run outside Runs starts: of it, only the reconciliation is modelled.
OtherRunStarts ==
  /\ rows' = MarkStale
  /\ UNCHANGED <<process, disk, samples, faults>>

NewRow(r) ==
  [owner |-> r, sample |-> SampleOf[r], status |-> "running", stage |-> "initializing",
   age |-> 0, report |-> None, findings |-> FALSE, claimed |-> FALSE, pdf |-> FALSE]

\* The inserts and their commit; the answer to the commit may be lost.
Create(r) ==
  /\ pc[r] = "create"
  /\ Go(r, "enter")
  /\ \/ /\ rows' = Append(rows, NewRow(r))
        /\ samples' = samples \cup {SampleOf[r]}
        /\ \/ /\ early' = [early EXCEPT ![r] = Len(rows) + 1]
              /\ told' = [told EXCEPT ![r] = "initializing"]
              /\ UNCHANGED faults
           \/ /\ faults < MaxFaults /\ faults' = faults + 1
              /\ UNCHANGED <<early, told>>
     \/ DbFails /\ UNCHANGED <<early, told>>
  /\ UNCHANGED <<at, id, triageOk, tx, disk>>
-----------------------------------------------------------------------------
(* update_stage: no row, nothing; otherwise one UPDATE, or a failure.      *)

AtStage(row, stage, status) ==
  [row EXCEPT !.stage = stage,
              !.status = IF status = "started" THEN "running" ELSE row.status]

Tell(r, stage, status) ==
  IF early[r] = 0 THEN UNCHANGED <<tables, told, faults>>
  ELSE \/ /\ rows' = [rows EXCEPT ![early[r]] = AtStage(@, stage, status)]
          /\ told' = [told EXCEPT ![r] = stage]
          /\ UNCHANGED <<samples, faults>>
       \/ DbFails /\ UNCHANGED told

EnterStage(r) ==
  /\ pc[r] = "enter"
  /\ Go(r, "leave")
  /\ Tell(r, Stages[at[r]], "started")
  /\ UNCHANGED <<at, early, id, triageOk, tx, disk>>

\* Triage may return an error, recorded in stage_failures; the run goes on.
LeaveStage(r) ==
  /\ pc[r] = "leave"
  /\ Tell(r, Stages[at[r]], "completed")
  /\ \E ok \in {TRUE} \cup (IF at[r] = 1 THEN {FALSE} ELSE {}) :
       triageOk' = [triageOk EXCEPT ![r] = @ /\ ok]
  /\ IF at[r] < Len(Stages)
       THEN Go(r, "enter") /\ at' = [at EXCEPT ![r] = @ + 1]
       ELSE Go(r, "report") /\ UNCHANGED at
  /\ UNCHANGED <<early, id, tx, disk>>

\* stage_timer.__exit__ with an exception, which then ends the process.
TriageRaises(r) ==
  /\ pc[r] = "leave" /\ at[r] = 1
  /\ Tell(r, Stages[1], "failed")
  /\ Go(r, "dead")
  /\ UNCHANGED <<at, early, id, triageOk, tx, disk>>

WriteReport(r) ==
  /\ pc[r] = "report"
  /\ reportFile' = reportFile \cup {r}
  /\ Go(r, "ingest")
  /\ UNCHANGED <<at, early, id, triageOk, tx, told, pdfFile, tables, faults>>
-----------------------------------------------------------------------------
(* ingest_to_db.                                                           *)

StartReplay(r) ==
  /\ r \in Replays /\ pc[r] = "new" /\ ReplayOf[r] \in reportFile
  /\ Go(r, "ingest")
  /\ UNCHANGED <<at, early, id, triageOk, tx, told, disk, tables, faults>>

RunOf(r) == IF r \in Replays THEN ReplayOf[r] ELSE r

\* SHA-256 from triage; without it the sample is keyed by the task id.
SampleKey(r) ==
  IF triageOk[RunOf(r)] THEN SampleOf[RunOf(r)] ELSE <<"task", RunOf(r)>>

\* existing_analysis_id: a replay passes none.
Target(r) == early[r]

CoreRows(r) ==
  LET upd(row) == [row EXCEPT !.sample = SampleKey(r), !.status = "completed", !.report = r]
  IN  IF Target(r) = 0
        THEN Append(rows, [upd(NewRow(RunOf(r))) EXCEPT
                             !.owner = r, !.stage = "none",
                             !.age = IF r \in Replays THEN HardTimeout + 1 ELSE 0])
        ELSE [rows EXCEPT ![Target(r)] = upd(@)]

AfterIngest(r) == Go(r, IF r \in Runs THEN "pdf" ELSE "done")

\* The two core rows and their commit.  Any failure ends the ingest.
IngestCore(r) ==
  /\ pc[r] = "ingest"
  /\ rows' = CoreRows(r)
  /\ samples' = samples \cup {SampleKey(r)}
  /\ \/ /\ id' = [id EXCEPT ![r] = IF Target(r) = 0 THEN Len(rows) + 1 ELSE Target(r)]
        /\ Go(r, "insert")
        /\ UNCHANGED faults
     \/ /\ faults < MaxFaults /\ faults' = faults + 1     \* the answer is lost
        /\ AfterIngest(r) /\ UNCHANGED id
  /\ UNCHANGED <<at, early, triageOk, tx, told, disk>>

IngestFails(r) ==
  /\ pc[r] = "ingest"
  /\ DbFails
  /\ AfterIngest(r)
  /\ UNCHANGED <<at, early, id, triageOk, tx, told, disk>>

\* The correlations group: inserts, then the warnings column, in one savepoint.
InsertFindings(r) ==
  /\ pc[r] = "insert"
  /\ tx' = [tx EXCEPT ![r].findings = TRUE]
  /\ Go(r, "claim")
  /\ UNCHANGED <<at, early, id, triageOk, told, disk, tables, faults>>

ClaimCorrelated(r) ==
  /\ pc[r] = "claim"
  /\ tx' = [tx EXCEPT ![r].claimed = TRUE]
  /\ Go(r, "commit")
  /\ UNCHANGED <<at, early, id, triageOk, told, disk, tables, faults>>

\* A refused statement: ROLLBACK TO SAVEPOINT, and the ingest goes on.
RefuseGroup(r) ==
  /\ pc[r] \in {"insert", "claim"}
  /\ DbFails
  /\ tx' = [tx EXCEPT ![r] = NoTx]
  /\ Go(r, "commit")
  /\ UNCHANGED <<at, early, id, triageOk, told, disk>>

Enriched(row, t) ==
  [row EXCEPT !.findings = row.findings \/ t.findings,
              !.claimed = row.claimed \/ t.claimed]

\* The second commit, or a connection lost before it: the id is returned anyway.
CommitEnrichment(r) ==
  /\ pc[r] = "commit"
  /\ \/ /\ rows' = [rows EXCEPT ![id[r]] = Enriched(@, tx[r])]
        /\ UNCHANGED <<samples, faults>>
     \/ DbFails
  /\ tx' = [tx EXCEPT ![r] = NoTx]
  /\ AfterIngest(r)
  /\ UNCHANGED <<at, early, id, triageOk, told, disk>>
-----------------------------------------------------------------------------
(* The PDF stage and complete_pipeline.                                    *)

EnterPdf(r) ==
  /\ pc[r] = "pdf"
  /\ Go(r, "render")
  /\ Tell(r, "pdf", "started")
  /\ UNCHANGED <<at, early, id, triageOk, tx, disk>>

RenderPdf(r) ==
  /\ pc[r] = "render"
  /\ pdfFile' = pdfFile \cup {r}
  /\ Go(r, IF id[r] = 0 THEN "rendered" ELSE "mark")
  /\ UNCHANGED <<at, early, id, triageOk, tx, told, reportFile, tables, faults>>

RenderFails(r) ==
  /\ pc[r] = "render"
  /\ Go(r, "rendered")
  /\ UNCHANGED <<at, early, id, triageOk, tx, told, disk, tables, faults>>

MarkPdf(r) ==
  /\ pc[r] = "mark"
  /\ \/ rows' = [rows EXCEPT ![id[r]].pdf = TRUE] /\ UNCHANGED <<samples, faults>>
     \/ DbFails
  /\ Go(r, "rendered")
  /\ UNCHANGED <<at, early, id, triageOk, tx, told, disk>>

LeavePdf(r) ==
  /\ pc[r] = "rendered"
  /\ Go(r, "complete")
  /\ Tell(r, "pdf", "completed")
  /\ UNCHANGED <<at, early, id, triageOk, tx, disk>>

\* complete_pipeline(analysis_id or analysis_id_early, "completed").
Complete(r) ==
  /\ pc[r] = "complete"
  /\ LET i == IF id[r] # 0 THEN id[r] ELSE early[r] IN
       IF i = 0 THEN UNCHANGED <<tables, faults>>
       ELSE \/ /\ rows' = [rows EXCEPT ![i] =
                             [@ EXCEPT !.status = "completed", !.stage = "none"]]
               /\ UNCHANGED <<samples, faults>>
            \/ DbFails
  /\ Go(r, "done")
  /\ UNCHANGED <<at, early, id, triageOk, tx, told, disk>>
-----------------------------------------------------------------------------
\* An exception no stage catches, SIGKILL, OOM, or a caller's timeout; an open
\* transaction is rolled back by the server.
Die(r) ==
  /\ Live(r)
  /\ Go(r, "dead")
  /\ tx' = [tx EXCEPT ![r] = NoTx]
  /\ UNCHANGED <<at, early, id, triageOk, told, disk, tables, faults>>

Tick ==
  /\ \E i \in DOMAIN rows : rows[i].age <= HardTimeout
  /\ rows' = [i \in DOMAIN rows |->
                IF rows[i].age <= HardTimeout THEN [rows[i] EXCEPT !.age = @ + 1] ELSE rows[i]]
  /\ UNCHANGED <<process, disk, samples, faults>>

Ingest(r) ==
  \/ IngestCore(r) \/ IngestFails(r) \/ InsertFindings(r) \/ ClaimCorrelated(r)
  \/ RefuseGroup(r) \/ CommitEnrichment(r)

Step(r) ==
  \/ Reconcile(r) \/ Create(r) \/ EnterStage(r) \/ LeaveStage(r) \/ TriageRaises(r)
  \/ WriteReport(r) \/ StartReplay(r) \/ Ingest(r) \/ EnterPdf(r) \/ RenderPdf(r)
  \/ RenderFails(r) \/ MarkPdf(r) \/ LeavePdf(r) \/ Complete(r)

Next == OtherRunStarts \/ Tick \/ \E r \in Invocations : Step(r) \/ Die(r)

Spec == Init /\ [][Next]_vars

\* Time passes, and further runs keep being started.  A run need not progress.
FairSpec == Spec /\ WF_vars(Tick) /\ WF_vars(OtherRunStarts)
-----------------------------------------------------------------------------
(* Properties.                                                             *)

StageNames == {Stages[i] : i \in DOMAIN Stages} \cup {"none", "initializing", "pdf"}
SampleKeys == {SampleOf[r] : r \in Runs} \cup {<<"task", r>> : r \in Runs}
Points ==
  {"new", "create", "enter", "leave", "report", "ingest", "insert", "claim",
   "commit", "pdf", "render", "mark", "rendered", "complete", "done", "dead"}

Row ==
  [owner : Invocations, sample : SampleKeys, status : {"running", "completed", "failed"},
   stage : StageNames, age : 0 .. (HardTimeout + 1), report : Invocations \cup {None},
   findings : BOOLEAN, claimed : BOOLEAN, pdf : BOOLEAN]

ProcessType ==
  /\ pc \in [Invocations -> Points] /\ at \in [Invocations -> DOMAIN Stages]
  /\ early \in [Invocations -> 0 .. Len(rows)] /\ id \in [Invocations -> 0 .. Len(rows)]
  /\ triageOk \in [Runs -> BOOLEAN] /\ told \in [Runs -> StageNames]
  /\ tx \in [Invocations -> [findings : BOOLEAN, claimed : BOOLEAN]]
TableType ==
  /\ rows \in Seq(Row) /\ samples \subseteq SampleKeys
  /\ reportFile \subseteq Runs /\ pdfFile \subseteq Runs /\ faults \in 0 .. MaxFaults

\* Every variable keeps its type; the ids a process holds are ids of rows.
TypeOK == ProcessType /\ TableType

RowsOf(r) == {i \in DOMAIN rows : rows[i].owner = r}

\* A run that got its row's id at the start has that row only, however its
\* ingest, its database or the runs beside it behave.
OneRowPerRun == \A r \in Runs : early[r] # 0 => RowsOf(r) = {early[r]}

\* A row is settled once its process has ended with a terminal status: neither
\* a later run's reconciliation nor a replay changes it (age apart).
Settled ==
  [][\A i \in DOMAIN rows :
       rows[i].status # "running" /\ pc[rows[i].owner] \in {"done", "dead"} =>
         [rows'[i] EXCEPT !.age = 0] = [rows[i] EXCEPT !.age = 0]]_vars

\* "A replay never writes over the run it replays" (#405): a report, once in
\* the database, is never replaced by another invocation's.
EvidenceKept ==
  [][\A i \in DOMAIN rows : rows[i].report # None => rows'[i].report = rows[i].report]_vars

\* "A failure part-way cannot leave an analysis claiming it was correlated when
\* nothing landed": with the second commit lost, refused or killed included.
ClaimHonest == \A i \in DOMAIN rows : rows[i].claimed => rows[i].findings

\* A row marked pdf_generated is the row of the report the PDF was made from.
PdfOfRow == \A i \in DOMAIN rows : rows[i].pdf => rows[i].report \in pdfFile

\* "The last stage seen is kept in current_stage, which is the only record of
\* where it died": a dead run's unfinished row names the last stage it was told.
DeathStageKept ==
  \A r \in Runs : pc[r] = "dead" /\ early[r] # 0 => rows[early[r]].stage = told[r]

\* "A killed run's row is corrected rather than staying running forever": as
\* long as runs keep starting, a dead run's running row becomes failed.
OrphansReconciled ==
  \A r \in Runs :
    LET Shown(status) == early[r] # 0 /\ rows[early[r]].status = status
    IN  (pc[r] = "dead" /\ Shown("running")) ~> Shown("failed")

\* "A row still running after this many seconds cannot be running": only rows
\* of processes that ended are marked failed.
LiveNotFailed ==
  \A i \in DOMAIN rows : rows[i].status = "failed" => ~Live(rows[i].owner)
-----------------------------------------------------------------------------
(* The inductive invariant.                                                *)

\* Where a process is tells which row ids it holds, and they are of its own rows.
HoldsOwn ==
  \A r \in Invocations :
    /\ r \in Replays =>
         /\ pc[r] \in {"new", "ingest", "insert", "claim", "commit", "done", "dead"}
         /\ early[r] = 0
    /\ pc[r] \in {"insert", "claim", "commit", "mark"} => id[r] # 0
    /\ pc[r] = "mark" => r \in pdfFile
    /\ early[r] # 0 => rows[early[r]].owner = r
    /\ id[r] # 0 => rows[id[r]].owner = r /\ rows[id[r]].report = r
    /\ r \in Runs /\ pc[r] \in {"new", "create"} => early[r] = 0 /\ RowsOf(r) = {}

\* A row holds the report of its owner, and its claims are covered.
Sound(row) ==
  /\ row.report \in {None, row.owner}
  /\ row.pdf => row.report = row.owner /\ row.owner \in pdfFile
  /\ row.claimed => row.findings

RowsSound == \A i \in DOMAIN rows : Sound(rows[i])

\* The claim is the last of an enrichment's inserts.
TxSound ==
  \A r \in Invocations : (tx[r].claimed \/ pc[r] = "claim") => tx[r].findings

\* Until a run is complete its row shows what it was told last.
ToldLast ==
  \A r \in Runs : early[r] # 0 /\ pc[r] # "done" => rows[early[r]].stage = told[r]

IInv == TypeOK /\ HoldsOwn /\ RowsSound /\ TxSound /\ ToldLast /\ OneRowPerRun
=============================================================================

------------------------- MODULE PipelineRunsProofs -------------------------
(***************************************************************************)
(* Proofs about PipelineRuns and Enrichment.  For any runs, replays,       *)
(* stages and limits: types, one row per run, what a row claims, and which *)
(* row a step may change; most follow from one lemma on what a step does   *)
(* to each row.  For any ingests: what an enrichment names, and that the   *)
(* edges of crossing ingests are found.                                    *)
(***************************************************************************)
EXTENDS PipelineRuns, Enrichment, FiniteSetTheorems, TLAPS

\* One row replaced.
LEMMA ReplaceRow ==
  ASSUME rows \in Seq(Row), NEW i \in DOMAIN rows, NEW entry \in Row
  PROVE  LET new == [rows EXCEPT ![i] = entry] IN
         /\ new \in Seq(Row) /\ Len(new) = Len(rows) /\ DOMAIN new = DOMAIN rows
         /\ \A j \in DOMAIN rows : new[j] = IF j = i THEN entry ELSE rows[j]
OBVIOUS

\* A row added.
LEMMA AddRow ==
  ASSUME rows \in Seq(Row), NEW entry \in Row
  PROVE  LET new == Append(rows, entry) IN
         /\ new \in Seq(Row) /\ Len(new) = Len(rows) + 1
         /\ DOMAIN new = DOMAIN rows \cup {Len(rows) + 1} /\ Len(rows) + 1 \notin DOMAIN rows
         /\ \A j \in DOMAIN rows : new[j] = rows[j]
         /\ new[Len(rows) + 1] = entry
OBVIOUS

\* Every row mapped.
LEMMA MapRows ==
  ASSUME rows \in Seq(Row), NEW f \in [DOMAIN rows -> Row]
  PROVE  f \in Seq(Row) /\ Len(f) = Len(rows) /\ DOMAIN f = DOMAIN rows
<1>1. DOMAIN rows = 1 .. Len(rows) /\ Len(rows) \in Nat
  OBVIOUS
<1> QED
  BY <1>1

\* A process that ended leaves its settled row alone.
Ended(r) == pc[r] \in {"done", "dead"}

\* What a step may make of a row.
Kept(old, new) ==
  /\ new.owner = old.owner
  /\ new.report \in {old.report, old.owner}
  /\ new.pdf => old.pdf \/ (new.report = old.owner /\ old.owner \in pdfFile)
  /\ (old.claimed => old.findings) => (new.claimed => new.findings)
  /\ Ended(old.owner) /\ old.status # "running"
       => [new EXCEPT !.age = 0] = [old EXCEPT !.age = 0]

\* The rows a step adds are of the process that takes it.
Added(r, entry) ==
  /\ Create(r) \/ (IngestCore(r) /\ early[r] = 0)
  /\ entry.owner = r /\ entry.report \in {None, r} /\ ~entry.pdf /\ ~entry.claimed

\* What a step does to the table.
Effect ==
  /\ rows' \in Seq(Row)
  /\ \A i \in DOMAIN rows : i \in DOMAIN rows' /\ Kept(rows[i], rows'[i])
  /\ \/ DOMAIN rows' = DOMAIN rows /\ Len(rows') = Len(rows)
     \/ /\ DOMAIN rows' = DOMAIN rows \cup {Len(rows) + 1} /\ Len(rows') = Len(rows) + 1
        /\ \E r \in Invocations : Added(r, rows'[Len(rows) + 1])

\* A row id that a process holds is the id of a row.
LEMMA HeldRow ==
  ASSUME TypeOK, NEW r \in Invocations
  PROVE  /\ early[r] # 0 => early[r] \in DOMAIN rows
         /\ id[r] # 0 => id[r] \in DOMAIN rows
<1>1. early[r] \in 0 .. Len(rows) /\ id[r] \in 0 .. Len(rows) /\ DOMAIN rows = 1 .. Len(rows)
  BY DEF TypeOK, ProcessType, TableType
<1>2. Len(rows) \in Nat
  BY DEF TypeOK, TableType
<1> QED
  BY <1>1, <1>2

\* A run's row, when it is made.
LEMMA NewRowType ==
  ASSUME NEW r \in Runs
  PROVE  NewRow(r) \in Row
BY RunsAssumption, TimeAssumption DEF NewRow, Row, Invocations, SampleKeys, StageNames

\* The table unchanged.
LEMMA NoEffect ==
  ASSUME TypeOK, UNCHANGED rows
  PROVE  Effect
BY DEF Effect, Kept, TypeOK, TableType, Row

\* A live process changes a row of its own.
LEMMA OwnRowEffect ==
  ASSUME TypeOK, NEW r \in Invocations, ~Ended(r),
         NEW i \in DOMAIN rows, rows[i].owner = r, NEW entry \in Row,
         entry.owner = r, entry.report \in {rows[i].report, r},
         entry.pdf => rows[i].pdf \/ (entry.report = r /\ r \in pdfFile),
         (rows[i].claimed => rows[i].findings) => (entry.claimed => entry.findings),
         rows' = [rows EXCEPT ![i] = entry]
  PROVE  Effect /\ \A j \in DOMAIN rows : rows'[j] = IF j = i THEN entry ELSE rows[j]
<1>1. rows \in Seq(Row)
  BY DEF TypeOK, TableType
<1>2. /\ rows' \in Seq(Row) /\ Len(rows') = Len(rows) /\ DOMAIN rows' = DOMAIN rows
      /\ \A j \in DOMAIN rows : rows'[j] = IF j = i THEN entry ELSE rows[j]
  BY <1>1, ReplaceRow
<1>3. Kept(rows[i], entry)
  BY DEF Kept
<1>4. \A j \in DOMAIN rows : Kept(rows[j], rows[j])
  BY <1>1 DEF Kept, Row
<1> QED
  BY <1>2, <1>3, <1>4 DEF Effect

\* A process adds a row of its own.
LEMMA AddEffect ==
  ASSUME TypeOK, NEW r \in Invocations, NEW entry \in Row, Added(r, entry),
         rows' = Append(rows, entry)
  PROVE  /\ Effect /\ rows'[Len(rows) + 1] = entry
         /\ \A j \in DOMAIN rows : rows'[j] = rows[j]
<1>1. rows \in Seq(Row)
  BY DEF TypeOK, TableType
<1>2. /\ rows' \in Seq(Row) /\ Len(rows') = Len(rows) + 1
      /\ DOMAIN rows' = DOMAIN rows \cup {Len(rows) + 1}
      /\ \A j \in DOMAIN rows : rows'[j] = rows[j]
      /\ rows'[Len(rows) + 1] = entry
  BY <1>1, AddRow
<1>3. \A j \in DOMAIN rows : Kept(rows[j], rows[j])
  BY <1>1 DEF Kept, Row
<1> QED
  BY <1>2, <1>3 DEF Effect

\* Reconciliation changes the status of running rows only.
LEMMA StaleEffect ==
  ASSUME TypeOK, rows' = MarkStale
  PROVE  Effect /\ \A i \in DOMAIN rows : rows'[i].stage = rows[i].stage
<1>1. rows \in Seq(Row)
  BY DEF TypeOK, TableType
<1>2. ASSUME NEW i \in DOMAIN rows
      PROVE  /\ MarkStale[i] \in Row /\ Kept(rows[i], MarkStale[i])
             /\ MarkStale[i].stage = rows[i].stage
  <2>1. rows[i] \in Row
    BY <1>1
  <2>2. CASE rows[i].status = "running" /\ rows[i].age > HardTimeout
    <3>1. MarkStale[i] = [rows[i] EXCEPT !.status = "failed"]
      BY <2>2 DEF MarkStale
    <3> QED
      BY <2>1, <2>2, <3>1 DEF Row, Kept
  <2>3. CASE ~(rows[i].status = "running" /\ rows[i].age > HardTimeout)
    <3>1. MarkStale[i] = rows[i]
      BY <2>3 DEF MarkStale
    <3> QED
      BY <2>1, <3>1 DEF Row, Kept
  <2> QED
    BY <2>2, <2>3
<1>3. MarkStale \in [DOMAIN rows -> Row]
  BY <1>2 DEF MarkStale
<1>4. rows' \in Seq(Row) /\ Len(rows') = Len(rows) /\ DOMAIN rows' = DOMAIN rows
  BY <1>1, <1>3, MapRows
<1> QED
  BY <1>2, <1>4 DEF Effect

\* Time changes ages only.
LEMMA TickEffect ==
  ASSUME TypeOK, Tick
  PROVE  Effect /\ \A i \in DOMAIN rows : rows'[i].stage = rows[i].stage
<1>1. rows \in Seq(Row)
  BY DEF TypeOK, TableType
<1>2. /\ DOMAIN rows' = DOMAIN rows
      /\ \A i \in DOMAIN rows :
           rows'[i] = IF rows[i].age <= HardTimeout
                        THEN [rows[i] EXCEPT !.age = rows[i].age + 1] ELSE rows[i]
  BY DEF Tick
<1>3. ASSUME NEW i \in DOMAIN rows
      PROVE  rows'[i] \in Row /\ Kept(rows[i], rows'[i]) /\ rows'[i].stage = rows[i].stage
  <2>1. rows[i] \in Row
    BY <1>1
  <2>2. CASE rows[i].age <= HardTimeout
    <3>1. rows[i].age + 1 \in 0 .. (HardTimeout + 1)
      BY <2>1, <2>2, TimeAssumption DEF Row
    <3> QED
      BY <1>2, <2>1, <2>2, <3>1 DEF Row, Kept
  <2>3. CASE ~(rows[i].age <= HardTimeout)
    BY <1>2, <2>1, <2>3 DEF Row, Kept
  <2> QED
    BY <2>2, <2>3
<1>4. rows' \in [DOMAIN rows -> Row]
  BY <1>3 DEF Tick
<1>5. rows' \in Seq(Row) /\ Len(rows') = Len(rows)
  BY <1>1, <1>4, MapRows
<1> QED
  BY <1>2, <1>3, <1>5 DEF Effect

-----------------------------------------------------------------------------
\* The stages a step may touch: only those of its own row, which stays at the
\* stage the run was told last until the run is complete.
StageEffect(r) ==
  /\ \A j \in DOMAIN rows : rows[j].owner # r => rows'[j].stage = rows[j].stage
  /\ r \in Runs /\ early'[r] # 0 /\ pc'[r] # "done" => rows'[early'[r]].stage = told'[r]

\* The stages of the pipeline are stage names.
LEMMA StageNamed ==
  ASSUME NEW i \in DOMAIN Stages
  PROVE  Stages[i] \in StageNames
BY DEF StageNames

\* The key of an ingested sample is one.
LEMMA SampleKeyType ==
  ASSUME NEW r \in Invocations
  PROVE  RunOf(r) \in Runs /\ SampleKey(r) \in SampleKeys
<1>1. RunOf(r) \in Runs
  BY RunsAssumption DEF RunOf, Invocations
<1> QED
  BY <1>1 DEF SampleKey, SampleKeys

\* A step that leaves the table, the row ids and what was told alone.
LEMMA NoStageEffect ==
  ASSUME IInv, NEW r \in Invocations, pc[r] # "done",
         UNCHANGED <<rows, early, told>>
  PROVE  Effect /\ StageEffect(r)
BY NoEffect DEF IInv, StageEffect, ToldLast

\* update_stage, whether it succeeds, fails or has no row.
LEMMA TellEffect ==
  ASSUME IInv, NEW r \in Invocations, ~Ended(r), NEW stage \in StageNames, NEW status,
         Tell(r, stage, status), UNCHANGED early
  PROVE  /\ Effect /\ StageEffect(r)
         /\ samples' = samples /\ faults' \in 0 .. MaxFaults
         /\ told' \in [Runs -> StageNames]
         /\ \A q \in Runs : q # r => told'[q] = told[q]
<1>1. /\ TypeOK /\ told \in [Runs -> StageNames] /\ faults \in 0 .. MaxFaults
      /\ rows \in Seq(Row) /\ pc[r] # "done"
  BY DEF IInv, TypeOK, ProcessType, TableType, Ended
<1>2. CASE UNCHANGED <<tables, told, faults>>
  BY <1>1, <1>2, NoStageEffect DEF tables
<1>3. CASE DbFails /\ UNCHANGED told
  <2>1. UNCHANGED rows /\ samples' = samples /\ faults' \in 0 .. MaxFaults
    BY <1>1, <1>3, TimeAssumption DEF DbFails, tables
  <2> QED
    BY <1>1, <1>3, <2>1, NoStageEffect
<1>4. CASE /\ early[r] # 0
           /\ rows' = [rows EXCEPT ![early[r]] = AtStage(@, stage, status)]
           /\ told' = [told EXCEPT ![r] = stage]
           /\ UNCHANGED <<samples, faults>>
  <2> DEFINE old == rows[early[r]]
             new == AtStage(old, stage, status)
  <2>1. early[r] \in DOMAIN rows /\ old.owner = r
    BY <1>1, <1>4, HeldRow DEF IInv, HoldsOwn
  <2>2. old \in Row
    BY <1>1, <2>1
  <2>3. /\ new \in Row /\ new.owner = r /\ new.report = old.report /\ new.pdf = old.pdf
        /\ new.claimed = old.claimed /\ new.findings = old.findings /\ new.stage = stage
    BY <2>1, <2>2 DEF Row, AtStage
  <2>4. rows' = [rows EXCEPT ![early[r]] = new]
    BY <1>4
  <2> HIDE DEF new
  <2>5. Effect /\ \A j \in DOMAIN rows : rows'[j] = IF j = early[r] THEN new ELSE rows[j]
    BY <1>1, <2>1, <2>3, <2>4, OwnRowEffect
  <2>6. rows'[early[r]].stage = stage /\ (r \in Runs => told'[r] = stage)
    BY <1>1, <1>4, <2>1, <2>3, <2>5
  <2>7. \A j \in DOMAIN rows : rows[j].owner # r => rows'[j] = rows[j]
    BY <2>1, <2>5
  <2>8. StageEffect(r)
    BY <2>6, <2>7 DEF StageEffect
  <2> QED
    BY <1>1, <1>4, <2>5, <2>8
<1> QED
  BY <1>2, <1>3, <1>4 DEF Tell

\* The insert of a run's row.
LEMMA CreateEffect ==
  ASSUME IInv, NEW r \in Invocations, Create(r)
  PROVE  Effect /\ StageEffect(r)
<1>1. /\ TypeOK /\ pc[r] = "create" /\ early \in [Invocations -> 0 .. Len(rows)]
      /\ told \in [Runs -> StageNames]
  BY DEF IInv, TypeOK, ProcessType, Create
<1>2. r \in Runs
  BY <1>1 DEF IInv, HoldsOwn, Invocations
<1>3. early[r] = 0
  BY <1>1, <1>2 DEF IInv, HoldsOwn
<1>4. CASE rows' = Append(rows, NewRow(r))
  <2> DEFINE entry == NewRow(r)
  <2>1. entry \in Row
    BY <1>2, NewRowType
  <2>2. Added(r, entry) /\ entry.stage = "initializing"
    BY DEF Added, NewRow
  <2> HIDE DEF entry
  <2>3. /\ Effect /\ rows'[Len(rows) + 1] = entry /\ \A j \in DOMAIN rows : rows'[j] = rows[j]
    BY <1>1, <1>4, <2>1, <2>2, AddEffect DEF entry
  <2>4. early'[r] # 0 => early'[r] = Len(rows) + 1 /\ told'[r] = "initializing"
    BY <1>1, <1>2, <1>3 DEF Create, DbFails
  <2> QED
    BY <2>2, <2>3, <2>4 DEF StageEffect
<1>5. CASE DbFails /\ UNCHANGED <<early, told>>
  BY <1>1, <1>5, NoStageEffect DEF DbFails, tables
<1> QED
  BY <1>4, <1>5 DEF Create

\* The core rows of an ingest: a row of its own, updated or added.
LEMMA IngestEffect ==
  ASSUME IInv, NEW r \in Invocations, IngestCore(r)
  PROVE  /\ Effect /\ StageEffect(r)
         /\ early[r] = 0 => /\ rows'[Len(rows) + 1].owner = r
                            /\ rows'[Len(rows) + 1].report = r
                            /\ Len(rows') = Len(rows) + 1
         /\ early[r] # 0 => rows'[early[r]].report = r
<1>1. /\ TypeOK /\ pc[r] = "ingest" /\ early[r] \in 0 .. Len(rows) /\ UNCHANGED <<early, told>>
      /\ rows \in Seq(Row) /\ rows' = CoreRows(r)
  BY DEF IInv, TypeOK, ProcessType, TableType, IngestCore
<1>2. RunOf(r) \in Runs /\ SampleKey(r) \in SampleKeys
  BY SampleKeyType
<1>3. CASE early[r] = 0
  <2> DEFINE base == NewRow(RunOf(r))
             age == IF r \in Replays THEN HardTimeout + 1 ELSE 0
             entry == [[base EXCEPT !.sample = SampleKey(r), !.status = "completed",
                                  !.report = r]
                       EXCEPT !.owner = r, !.stage = "none", !.age = age]
  <2>1. base \in Row /\ ~base.pdf /\ ~base.claimed
    BY <1>2, NewRowType DEF NewRow
  <2>2. /\ entry \in Row /\ entry.owner = r /\ entry.report = r /\ entry.pdf = base.pdf
        /\ entry.claimed = base.claimed
    <3>1. age \in 0 .. (HardTimeout + 1)
      BY TimeAssumption
    <3>2. "none" \in StageNames
      BY DEF StageNames
    <3> HIDE DEF base, age
    <3> QED
      BY <1>2, <2>1, <3>1, <3>2 DEF Row
  <2>3. rows' = Append(rows, entry)
    BY <1>1, <1>3 DEF CoreRows, Target
  <2> HIDE DEF entry, base
  <2>4. Added(r, entry)
    BY <1>3, <2>1, <2>2 DEF Added
  <2>5. /\ Effect /\ rows'[Len(rows) + 1] = entry /\ \A j \in DOMAIN rows : rows'[j] = rows[j]
    BY <1>1, <2>2, <2>3, <2>4, AddEffect
  <2>6. Len(rows') = Len(rows) + 1
    BY <1>1, <2>2, <2>3
  <2> QED
    BY <1>1, <1>3, <2>2, <2>5, <2>6 DEF StageEffect
<1>4. CASE early[r] # 0
  <2> DEFINE old == rows[early[r]]
             new == [old EXCEPT !.sample = SampleKey(r), !.status = "completed", !.report = r]
  <2>1. early[r] \in DOMAIN rows /\ old.owner = r
    BY <1>1, <1>4, HeldRow DEF IInv, HoldsOwn
  <2>2. old \in Row
    BY <1>1, <2>1
  <2>3. /\ new \in Row /\ new.owner = r /\ new.report = r /\ new.pdf = old.pdf
        /\ new.claimed = old.claimed /\ new.findings = old.findings /\ new.stage = old.stage
    BY <1>2, <2>1, <2>2 DEF Row
  <2>4. rows' = [rows EXCEPT ![early[r]] = new]
    BY <1>1, <1>4 DEF CoreRows, Target
  <2>5. /\ new.report \in {rows[early[r]].report, r} /\ ~Ended(r)
        /\ new.pdf => rows[early[r]].pdf
        /\ (rows[early[r]].claimed => rows[early[r]].findings) => (new.claimed => new.findings)
    BY <1>1, <2>3 DEF Ended
  <2> HIDE DEF new
  <2>6. Effect /\ \A j \in DOMAIN rows : rows'[j] = IF j = early[r] THEN new ELSE rows[j]
    BY <1>1, <2>1, <2>3, <2>4, <2>5, OwnRowEffect
  <2>7. rows'[early[r]].stage = rows[early[r]].stage
    BY <2>1, <2>3, <2>6
  <2>8. r \in Runs => rows[early[r]].stage = told[r]
    BY <1>1, <1>4 DEF IInv, ToldLast
  <2>9. StageEffect(r)
    BY <1>1, <2>1, <2>6, <2>7, <2>8 DEF StageEffect
  <2> QED
    BY <1>4, <2>1, <2>3, <2>6, <2>9
<1> QED
  BY <1>3, <1>4

\* A change of the row whose id a live process holds, its stage kept.
LEMMA HeldRowEffect ==
  ASSUME IInv, NEW r \in Invocations, ~Ended(r), id[r] # 0, NEW entry \in Row,
         entry.owner = rows[id[r]].owner, entry.report = rows[id[r]].report,
         entry.stage = rows[id[r]].stage, entry.pdf => rows[id[r]].pdf \/ r \in pdfFile,
         (rows[id[r]].claimed => rows[id[r]].findings) => (entry.claimed => entry.findings),
         rows' = [rows EXCEPT ![id[r]] = entry], UNCHANGED <<early, told>>
  PROVE  Effect /\ StageEffect(r)
<1>1. /\ TypeOK /\ id[r] \in DOMAIN rows /\ rows[id[r]].owner = r /\ rows[id[r]].report = r
  BY HeldRow DEF IInv, HoldsOwn
<1>2. Effect /\ \A j \in DOMAIN rows : rows'[j] = IF j = id[r] THEN entry ELSE rows[j]
  BY <1>1, OwnRowEffect
<1>3. \A j \in DOMAIN rows : rows'[j].stage = rows[j].stage
  BY <1>2
<1>4. r \in Runs /\ early[r] # 0 => early[r] \in DOMAIN rows /\ rows[early[r]].stage = told[r]
  BY <1>1, HeldRow DEF IInv, ToldLast, Ended
<1> QED
  BY <1>2, <1>3, <1>4 DEF StageEffect

\* The second commit of an ingest.
LEMMA CommitEffect ==
  ASSUME IInv, NEW r \in Invocations, CommitEnrichment(r)
  PROVE  Effect /\ StageEffect(r)
<1>1. /\ TypeOK /\ pc[r] = "commit" /\ UNCHANGED <<early, told>> /\ rows \in Seq(Row)
      /\ tx[r] \in [findings : BOOLEAN, claimed : BOOLEAN]
  BY DEF IInv, TypeOK, ProcessType, TableType, CommitEnrichment
<1>2. CASE UNCHANGED rows
  BY <1>1, <1>2, NoStageEffect
<1>3. CASE rows' = [rows EXCEPT ![id[r]] = Enriched(@, tx[r])]
  <2> DEFINE old == rows[id[r]]
             new == Enriched(old, tx[r])
  <2>1. id[r] # 0 /\ id[r] \in DOMAIN rows
    BY <1>1, HeldRow DEF IInv, HoldsOwn
  <2>2. old \in Row /\ (tx[r].claimed => tx[r].findings)
    BY <1>1, <2>1 DEF IInv, TxSound
  <2>3. /\ new \in Row /\ new.owner = old.owner /\ new.report = old.report
        /\ new.pdf = old.pdf /\ new.stage = old.stage
    BY <1>1, <2>2 DEF Row, Enriched
  <2>4. /\ new.claimed = (old.claimed \/ tx[r].claimed)
        /\ new.findings = (old.findings \/ tx[r].findings)
    BY <2>2 DEF Row, Enriched
  <2>5. rows' = [rows EXCEPT ![id[r]] = new]
    BY <1>3
  <2> HIDE DEF new
  <2>6. (old.claimed => old.findings) => (new.claimed => new.findings)
    BY <2>2, <2>4
  <2>7. ~Ended(r)
    BY <1>1 DEF Ended
  <2> QED
    BY <1>1, <2>1, <2>3, <2>5, <2>6, <2>7, HeldRowEffect
<1> QED
  BY <1>2, <1>3 DEF CommitEnrichment, DbFails, tables

\* The row of a rendered PDF is marked.
LEMMA MarkEffect ==
  ASSUME IInv, NEW r \in Invocations, MarkPdf(r)
  PROVE  Effect /\ StageEffect(r)
<1>1. /\ TypeOK /\ pc[r] = "mark" /\ UNCHANGED <<early, told>> /\ rows \in Seq(Row)
  BY DEF IInv, TypeOK, TableType, MarkPdf
<1>2. CASE UNCHANGED rows
  BY <1>1, <1>2, NoStageEffect
<1>3. CASE rows' = [rows EXCEPT ![id[r]].pdf = TRUE]
  <2> DEFINE old == rows[id[r]]
             new == [old EXCEPT !.pdf = TRUE]
  <2>1. id[r] # 0 /\ id[r] \in DOMAIN rows /\ r \in pdfFile
    BY <1>1, HeldRow DEF IInv, HoldsOwn
  <2>2. old \in Row
    BY <1>1, <2>1
  <2>3. /\ new \in Row /\ new.owner = old.owner /\ new.report = old.report
        /\ new.stage = old.stage /\ new.claimed = old.claimed /\ new.findings = old.findings
    BY <2>2 DEF Row
  <2>4. rows' = [rows EXCEPT ![id[r]] = new]
    BY <1>3
  <2> HIDE DEF new
  <2> QED
    BY <1>1, <2>1, <2>3, <2>4, HeldRowEffect DEF Ended
<1> QED
  BY <1>2, <1>3 DEF MarkPdf, DbFails, tables

\* complete_pipeline.
LEMMA CompleteEffect ==
  ASSUME IInv, NEW r \in Invocations, Complete(r)
  PROVE  Effect /\ StageEffect(r)
<1> DEFINE i == IF id[r] # 0 THEN id[r] ELSE early[r]
<1>1. /\ TypeOK /\ pc[r] = "complete" /\ UNCHANGED <<early, told>> /\ rows \in Seq(Row)
      /\ pc \in [Invocations -> Points] /\ pc'[r] = "done"
  BY DEF IInv, TypeOK, ProcessType, TableType, Complete, Go
<1>2. CASE UNCHANGED rows
  BY <1>1, <1>2, NoStageEffect
<1>3. CASE /\ i # 0
           /\ rows' = [rows EXCEPT ![i] = [@ EXCEPT !.status = "completed", !.stage = "none"]]
  <2> DEFINE old == rows[i]
             new == [old EXCEPT !.status = "completed", !.stage = "none"]
  <2>1. i \in DOMAIN rows /\ old.owner = r
    BY <1>1, <1>3, HeldRow DEF IInv, HoldsOwn
  <2> HIDE DEF i
  <2>2. old \in Row
    BY <1>1, <2>1
  <2>3. /\ new \in Row /\ new.owner = r /\ new.report = old.report /\ new.pdf = old.pdf
        /\ new.claimed = old.claimed /\ new.findings = old.findings
    BY <2>1, <2>2 DEF Row, StageNames
  <2>4. rows' = [rows EXCEPT ![i] = new]
    BY <1>3
  <2> HIDE DEF new
  <2>5. Effect /\ \A j \in DOMAIN rows : rows'[j] = IF j = i THEN new ELSE rows[j]
    BY <1>1, <2>1, <2>3, <2>4, OwnRowEffect DEF Ended
  <2> QED
    BY <1>1, <2>1, <2>5 DEF StageEffect
<1> QED
  BY <1>2, <1>3 DEF Complete, DbFails, tables

\* Where only a run can be, and which of its stages it is in.
LEMMA OnlyRuns ==
  ASSUME IInv, NEW r \in Invocations,
         pc[r] \in {"create", "enter", "leave", "report", "pdf", "render", "mark", "rendered",
                    "complete"}
  PROVE  r \in Runs /\ Stages[at[r]] \in StageNames /\ Stages[1] \in StageNames
<1>1. r \in Runs
  BY DEF IInv, HoldsOwn, Invocations
<1>2. at[r] \in DOMAIN Stages /\ 1 \in DOMAIN Stages
  BY StagesAssumption DEF IInv, TypeOK, ProcessType
<1> QED
  BY <1>1, <1>2, StageNamed

\* Whatever a process does, it changes rows of its own and no settled row.
LEMMA StepEffect ==
  ASSUME IInv, NEW r \in Invocations, Step(r) \/ Die(r)
  PROVE  Effect /\ StageEffect(r)
<1>0. TypeOK /\ {"enter", "leave", "pdf", "rendered"} \cap {"done", "dead"} = {}
  BY DEF IInv
<1>1. CASE Reconcile(r)
  <2>1. UNCHANGED <<early, told>> /\ pc[r] = "new"
    BY <1>1 DEF Reconcile
  <2>2. CASE rows' = MarkStale
    <3>1. r \in Runs /\ early[r] = 0
      BY <1>1, <2>1 DEF Reconcile, IInv, HoldsOwn
    <3> QED
      BY <1>0, <2>1, <2>2, <3>1, StaleEffect DEF StageEffect
  <2>3. CASE DbFails
    BY <2>1, <2>3, NoStageEffect DEF DbFails, tables
  <2> QED
    BY <1>1, <2>2, <2>3 DEF Reconcile
<1>2. CASE EnterStage(r)
  <2>1. ~Ended(r) /\ Stages[at[r]] \in StageNames
    BY <1>2, OnlyRuns DEF EnterStage, Ended
  <2> QED
    BY <1>2, <2>1, TellEffect DEF EnterStage
<1>3. CASE LeaveStage(r)
  <2>1. ~Ended(r) /\ Stages[at[r]] \in StageNames
    BY <1>3, OnlyRuns DEF LeaveStage, Ended
  <2> QED
    BY <1>3, <2>1, TellEffect DEF LeaveStage
<1>4. CASE TriageRaises(r)
  <2>1. ~Ended(r) /\ Stages[1] \in StageNames
    BY <1>4, OnlyRuns DEF TriageRaises, Ended
  <2> QED
    BY <1>4, <2>1, TellEffect DEF TriageRaises
<1>5. CASE EnterPdf(r)
  <2>1. ~Ended(r) /\ "pdf" \in StageNames
    BY <1>5 DEF EnterPdf, Ended, StageNames
  <2> QED
    BY <1>5, <2>1, TellEffect DEF EnterPdf
<1>6. CASE LeavePdf(r)
  <2>1. ~Ended(r) /\ "pdf" \in StageNames
    BY <1>6 DEF LeavePdf, Ended, StageNames
  <2> QED
    BY <1>6, <2>1, TellEffect DEF LeavePdf
<1>7. CASE \/ WriteReport(r) \/ StartReplay(r) \/ IngestFails(r) \/ InsertFindings(r)
           \/ ClaimCorrelated(r) \/ RefuseGroup(r) \/ RenderPdf(r) \/ RenderFails(r) \/ Die(r)
  <2>1. UNCHANGED <<rows, early, told>> /\ pc[r] # "done"
    BY <1>7 DEF WriteReport, StartReplay, IngestFails, InsertFindings, ClaimCorrelated,
                RefuseGroup, RenderPdf, RenderFails, Die, Live, DbFails, tables
  <2> QED
    BY <2>1, NoStageEffect
<1> QED
  BY <1>1, <1>2, <1>3, <1>4, <1>5, <1>6, <1>7, CreateEffect, IngestEffect, CommitEffect,
     MarkEffect, CompleteEffect DEF Step, Ingest

-----------------------------------------------------------------------------
\* What a process keeps of the others': everything.
Frame(r) ==
  \A q \in Invocations : q # r =>
    /\ pc'[q] = pc[q] /\ at'[q] = at[q] /\ early'[q] = early[q] /\ id'[q] = id[q]
    /\ tx'[q] = tx[q] /\ (q \in Runs => told'[q] = told[q])

\* Every process keeps its type and leaves the others alone.
LEMMA ProcessFrame ==
  ASSUME IInv, NEW r \in Invocations, Step(r) \/ Die(r)
  PROVE  Frame(r) /\ ProcessType'
<1> DEFINE Ids == [Invocations -> 0 .. Len(rows)]
           Flags == [findings : BOOLEAN, claimed : BOOLEAN]
<1>0. /\ TypeOK /\ pc \in [Invocations -> Points] /\ at \in [Invocations -> DOMAIN Stages]
      /\ early \in Ids /\ id \in Ids /\ triageOk \in [Runs -> BOOLEAN]
      /\ told \in [Runs -> StageNames] /\ tx \in [Invocations -> Flags]
      /\ rows \in Seq(Row) /\ Len(rows) \in Nat
  BY DEF IInv, TypeOK, ProcessType, TableType
<1>1. Effect
  BY StepEffect
<1>2. Len(rows') \in Nat /\ Len(rows) <= Len(rows')
  BY <1>0, <1>1 DEF Effect
<1>3. pc' \in [Invocations -> Points] /\ \A q \in Invocations : q # r => pc'[q] = pc[q]
  BY <1>0 DEF Step, Ingest, Reconcile, Create, EnterStage, LeaveStage, TriageRaises,
     WriteReport, StartReplay, IngestCore, IngestFails, InsertFindings, ClaimCorrelated,
     RefuseGroup, CommitEnrichment, EnterPdf, RenderPdf, RenderFails, MarkPdf, LeavePdf,
     Complete, Die, Go, AfterIngest, Points
<1>4. at' \in [Invocations -> DOMAIN Stages] /\ \A q \in Invocations : q # r => at'[q] = at[q]
  <2>1. CASE UNCHANGED at
    BY <1>0, <2>1
  <2>2. CASE at[r] < Len(Stages) /\ at' = [at EXCEPT ![r] = @ + 1]
    <3>1. at[r] + 1 \in DOMAIN Stages
      BY <1>0, <2>2, StagesAssumption
    <3> QED
      BY <1>0, <2>2, <3>1
  <2> QED
    BY <2>1, <2>2 DEF Step, Ingest, Reconcile, Create, EnterStage, LeaveStage, TriageRaises,
     WriteReport, StartReplay, IngestCore, IngestFails, InsertFindings, ClaimCorrelated,
     RefuseGroup, CommitEnrichment, EnterPdf, RenderPdf, RenderFails, MarkPdf, LeavePdf,
     Complete, Die
<1>5. /\ early' \in [Invocations -> 0 .. Len(rows')]
      /\ \A q \in Invocations : q # r => early'[q] = early[q]
  <2>1. CASE UNCHANGED early
    BY <1>0, <1>2, <2>1
  <2>2. CASE /\ rows' = Append(rows, NewRow(r))
             /\ early' = [early EXCEPT ![r] = Len(rows) + 1]
    <3>1. Len(rows') = Len(rows) + 1
      BY <1>0, <2>2
    <3> QED
      BY <1>0, <1>2, <2>2, <3>1
  <2> QED
    BY <2>1, <2>2 DEF Step, Ingest, Reconcile, Create, EnterStage, LeaveStage, TriageRaises,
     WriteReport, StartReplay, IngestCore, IngestFails, InsertFindings, ClaimCorrelated,
     RefuseGroup, CommitEnrichment, EnterPdf, RenderPdf, RenderFails, MarkPdf, LeavePdf,
     Complete, Die
<1>6. /\ id' \in [Invocations -> 0 .. Len(rows')]
      /\ \A q \in Invocations : q # r => id'[q] = id[q]
  <2>1. CASE UNCHANGED id
    BY <1>0, <1>2, <2>1
  <2>2. CASE /\ IngestCore(r)
             /\ id' = [id EXCEPT ![r] = IF early[r] = 0 THEN Len(rows) + 1 ELSE early[r]]
    <3>1. (IF early[r] = 0 THEN Len(rows) + 1 ELSE early[r]) \in 0 .. Len(rows')
      BY <1>0, <1>2, <2>2, IngestEffect
    <3> QED
      BY <1>0, <1>2, <2>2, <3>1
  <2> QED
    BY <2>1, <2>2 DEF Step, Ingest, Reconcile, Create, EnterStage, LeaveStage, TriageRaises,
     WriteReport, StartReplay, IngestCore, IngestFails, InsertFindings, ClaimCorrelated,
     RefuseGroup, CommitEnrichment, EnterPdf, RenderPdf, RenderFails, MarkPdf, LeavePdf,
     Complete, Die, Target
<1>7. tx' \in [Invocations -> Flags] /\ \A q \in Invocations : q # r => tx'[q] = tx[q]
  <2>1. /\ [tx[r] EXCEPT !.findings = TRUE] \in Flags /\ [tx[r] EXCEPT !.claimed = TRUE] \in Flags
        /\ NoTx \in Flags
    BY <1>0 DEF NoTx
  <2>2. \/ UNCHANGED tx
        \/ \E new \in Flags : tx' = [tx EXCEPT ![r] = new]
    BY <2>1 DEF Step, Ingest, Reconcile, Create, EnterStage, LeaveStage, TriageRaises,
     WriteReport, StartReplay, IngestCore, IngestFails, InsertFindings, ClaimCorrelated,
     RefuseGroup, CommitEnrichment, EnterPdf, RenderPdf, RenderFails, MarkPdf, LeavePdf,
     Complete, Die
  <2> HIDE DEF Flags
  <2> QED
    BY <1>0, <2>2
<1>8. triageOk' \in [Runs -> BOOLEAN]
  BY <1>0 DEF Step, Ingest, Reconcile, Create, EnterStage, LeaveStage, TriageRaises,
     WriteReport, StartReplay, IngestCore, IngestFails, InsertFindings, ClaimCorrelated,
     RefuseGroup, CommitEnrichment, EnterPdf, RenderPdf, RenderFails, MarkPdf, LeavePdf,
     Complete, Die
<1>9. told' \in [Runs -> StageNames] /\ \A q \in Runs : q # r => told'[q] = told[q]
  <2>1. CASE UNCHANGED told
    BY <1>0, <2>1
  <2>2. CASE told' = [told EXCEPT ![r] = "initializing"]
    BY <1>0, <2>2 DEF StageNames
  <2>3. CASE EnterStage(r)
    BY <1>0, <2>3, TellEffect, OnlyRuns DEF EnterStage, Ended
  <2>4. CASE LeaveStage(r)
    BY <1>0, <2>4, TellEffect, OnlyRuns DEF LeaveStage, Ended
  <2>5. CASE TriageRaises(r)
    BY <1>0, <2>5, TellEffect, OnlyRuns DEF TriageRaises, Ended
  <2>6. "pdf" \in StageNames
    BY DEF StageNames
  <2>7. CASE EnterPdf(r)
    BY <1>0, <2>6, <2>7, TellEffect DEF EnterPdf, Ended
  <2>8. CASE LeavePdf(r)
    BY <1>0, <2>6, <2>8, TellEffect DEF LeavePdf, Ended
  <2> QED
    BY <2>1, <2>2, <2>3, <2>4, <2>5, <2>7, <2>8 DEF Step, Ingest, Reconcile, Create,
     WriteReport, StartReplay, IngestCore, IngestFails, InsertFindings, ClaimCorrelated,
     RefuseGroup, CommitEnrichment, RenderPdf, RenderFails, MarkPdf, Complete, Die
<1> QED
  BY <1>3, <1>4, <1>5, <1>6, <1>7, <1>8, <1>9 DEF Frame, ProcessType

\* The samples, the files and the faults of a step.
LEMMA StepTables ==
  ASSUME IInv, NEW r \in Invocations, Step(r) \/ Die(r)
  PROVE  TableType' /\ pdfFile \subseteq pdfFile'
<1>1. /\ TypeOK /\ samples \subseteq SampleKeys /\ reportFile \subseteq Runs
      /\ pdfFile \subseteq Runs /\ faults \in 0 .. MaxFaults
  BY DEF IInv, TypeOK, TableType
<1>2. rows' \in Seq(Row)
  BY StepEffect DEF Effect
<1>3. faults' \in 0 .. MaxFaults
  <2>1. CASE UNCHANGED faults
    BY <1>1, <2>1
  <2>2. CASE faults < MaxFaults /\ faults' = faults + 1
    BY <1>1, <2>2, TimeAssumption
  <2> QED
    BY <2>1, <2>2 DEF Step, Ingest, Reconcile, Create, EnterStage, LeaveStage, TriageRaises,
     WriteReport, StartReplay, IngestCore, IngestFails, InsertFindings, ClaimCorrelated,
     RefuseGroup, CommitEnrichment, EnterPdf, RenderPdf, RenderFails, MarkPdf, LeavePdf,
     Complete, Die, Tell, DbFails
<1>4. samples' \subseteq SampleKeys
  <2>1. CASE Create(r)
    <3>1. SampleOf[r] \in SampleKeys
      BY <2>1, OnlyRuns DEF Create, SampleKeys
    <3> QED
      BY <1>1, <2>1, <3>1 DEF Create, DbFails, tables
  <2>2. CASE IngestCore(r)
    BY <1>1, <2>2, SampleKeyType DEF IngestCore
  <2>3. CASE samples' = samples
    BY <1>1, <2>3
  <2> QED
    BY <2>1, <2>2, <2>3 DEF Step, Ingest, Reconcile, EnterStage, LeaveStage, TriageRaises,
     WriteReport, StartReplay, IngestFails, InsertFindings, ClaimCorrelated, RefuseGroup,
     CommitEnrichment, EnterPdf, RenderPdf, RenderFails, MarkPdf, LeavePdf, Complete, Die,
     Tell, DbFails, tables
<1>5. CASE WriteReport(r)
  BY <1>1, <1>2, <1>3, <1>4, <1>5, OnlyRuns DEF WriteReport, TableType
<1>6. CASE RenderPdf(r)
  BY <1>1, <1>2, <1>3, <1>4, <1>6, OnlyRuns DEF RenderPdf, TableType
<1>7. CASE UNCHANGED disk
  BY <1>1, <1>2, <1>3, <1>4, <1>7 DEF TableType, disk
<1> QED
  BY <1>5, <1>6, <1>7 DEF Step, Ingest, Reconcile, Create, EnterStage, LeaveStage,
     TriageRaises, StartReplay, IngestCore, IngestFails, InsertFindings, ClaimCorrelated,
     RefuseGroup, CommitEnrichment, EnterPdf, RenderFails, MarkPdf, LeavePdf, Complete, Die

\* What rows say stays sound.
LEMMA SoundKept ==
  ASSUME IInv, Effect, pdfFile \subseteq pdfFile'
  PROVE  RowsSound'
<1>1. ASSUME NEW i \in DOMAIN rows
      PROVE  Sound(rows[i])'
  <2>1. Sound(rows[i]) /\ Kept(rows[i], rows'[i])
    BY DEF IInv, RowsSound, Effect
  <2> QED
    BY <2>1 DEF Sound, Kept
<1>2. ASSUME NEW i, i = Len(rows) + 1, NEW r \in Invocations, Added(r, rows'[i])
      PROVE  Sound(rows[i])'
  BY <1>2 DEF Added, Sound
<1> QED
  BY <1>1, <1>2 DEF Effect, RowsSound

\* A claim in an open transaction comes after its findings.
LEMMA TxKept ==
  ASSUME IInv, NEW r \in Invocations, Step(r) \/ Die(r)
  PROVE  TxSound'
<1>1. /\ pc \in [Invocations -> Points]
      /\ tx \in [Invocations -> [findings : BOOLEAN, claimed : BOOLEAN]]
      /\ TxSound
  BY DEF IInv, TypeOK, ProcessType
<1>2. Frame(r)
  BY ProcessFrame
<1>3. (tx'[r].claimed \/ pc'[r] = "claim") => tx'[r].findings
  <2>1. CASE InsertFindings(r)
    BY <1>1, <2>1 DEF InsertFindings
  <2>2. CASE ClaimCorrelated(r)
    <3>1. tx[r].findings /\ tx'[r] = [tx[r] EXCEPT !.claimed = TRUE]
      BY <1>1, <2>2 DEF ClaimCorrelated, TxSound
    <3> QED
      BY <1>1, <3>1
  <2>3. CASE RefuseGroup(r) \/ CommitEnrichment(r) \/ Die(r)
    BY <1>1, <2>3 DEF RefuseGroup, CommitEnrichment, Die, NoTx, Go, AfterIngest
  <2>4. CASE UNCHANGED tx /\ pc'[r] # "claim"
    BY <1>1, <2>4 DEF TxSound
  <2> QED
    BY <1>1, <2>1, <2>2, <2>3, <2>4 DEF Step, Ingest, Reconcile, Create, EnterStage,
     LeaveStage, TriageRaises, WriteReport, StartReplay, IngestCore, IngestFails, EnterPdf,
     RenderPdf, RenderFails, MarkPdf, LeavePdf, Complete, Go, AfterIngest
<1> QED
  BY <1>1, <1>2, <1>3 DEF Frame, TxSound

\* The rows of the other processes keep their ids and their stages.
LEMMA ToldKept ==
  ASSUME IInv, NEW r \in Invocations, Step(r) \/ Die(r)
  PROVE  ToldLast'
<1>1. TypeOK /\ Frame(r) /\ Effect /\ StageEffect(r)
  BY ProcessFrame, StepEffect DEF IInv
<1>2. ASSUME NEW q \in Runs, early'[q] # 0, pc'[q] # "done"
      PROVE  rows'[early'[q]].stage = told'[q]
  <2>1. CASE q = r
    BY <1>1, <1>2, <2>1 DEF StageEffect
  <2>2. CASE q # r
    <3>1. q \in Invocations /\ early'[q] = early[q] /\ pc'[q] = pc[q] /\ told'[q] = told[q]
      BY <1>1, <2>2 DEF Frame, Invocations
    <3>2. /\ early[q] \in DOMAIN rows /\ rows[early[q]].owner = q
          /\ rows[early[q]].stage = told[q]
      BY <1>1, <1>2, <3>1, HeldRow DEF IInv, HoldsOwn, ToldLast
    <3> QED
      BY <1>1, <2>2, <3>1, <3>2 DEF StageEffect
  <2> QED
    BY <2>1, <2>2
<1> QED
  BY <1>2 DEF ToldLast

-----------------------------------------------------------------------------
\* A row is added by the process that takes the step, at its create or at an
\* ingest without a row.
LEMMA AddedByActor ==
  ASSUME IInv, NEW r \in Invocations, Step(r) \/ Die(r), NEW a \in Invocations,
         Create(a) \/ IngestCore(a)
  PROVE  a = r
<1>1. Frame(r) /\ pc \in [Invocations -> Points]
  BY ProcessFrame DEF IInv, TypeOK, ProcessType
<1>2. pc'[a] # pc[a]
  BY <1>1 DEF Create, IngestCore, Go, AfterIngest
<1> QED
  BY <1>1, <1>2 DEF Frame

\* The rows of the processes that take no step are the same ones.
LEMMA OthersRows ==
  ASSUME IInv, NEW r \in Invocations, Step(r) \/ Die(r), NEW q \in Invocations,
         q # r \/ ~(Create(r) \/ (IngestCore(r) /\ early[r] = 0))
  PROVE  RowsOf(q)' = RowsOf(q)
<1>1. Effect
  BY StepEffect
<1>2. \A i \in DOMAIN rows : rows'[i].owner = rows[i].owner
  BY <1>1 DEF Effect, Kept
<1>3. CASE DOMAIN rows' = DOMAIN rows
  BY <1>2, <1>3 DEF RowsOf
<1>4. ASSUME NEW a \in Invocations, Added(a, rows'[Len(rows) + 1]),
             DOMAIN rows' = DOMAIN rows \cup {Len(rows) + 1}
      PROVE  RowsOf(q)' = RowsOf(q)
  <2>1. a = r /\ rows'[Len(rows) + 1].owner = a
    BY <1>4, AddedByActor DEF Added
  <2>2. q # r
    BY <1>4, <2>1 DEF Added
  <2> QED
    BY <1>2, <1>4, <2>1, <2>2 DEF RowsOf
<1> QED
  BY <1>1, <1>3, <1>4 DEF Effect

\* A row once held keeps its owner, and its owner's report.
LEMMA HeldKept ==
  ASSUME Effect, NEW q \in Invocations, NEW i \in DOMAIN rows, rows[i].owner = q
  PROVE  /\ rows'[i].owner = q
         /\ rows[i].report = q => rows'[i].report = q
BY DEF Effect, Kept

\* What a process that takes no step holds is still its own.
LEMMA HoldsOthers ==
  ASSUME IInv, NEW r \in Invocations, Step(r) \/ Die(r), NEW q \in Invocations, q # r
  PROVE  /\ early'[q] # 0 => rows'[early'[q]].owner = q
         /\ id'[q] # 0 => rows'[id'[q]].owner = q /\ rows'[id'[q]].report = q
<1>1. TypeOK /\ Effect /\ early'[q] = early[q] /\ id'[q] = id[q]
  BY StepEffect, ProcessFrame DEF Frame, IInv
<1>2. early[q] # 0 => early[q] \in DOMAIN rows /\ rows[early[q]].owner = q
  BY <1>1, HeldRow DEF IInv, HoldsOwn
<1>3. id[q] # 0 => id[q] \in DOMAIN rows /\ rows[id[q]].owner = q /\ rows[id[q]].report = q
  BY <1>1, HeldRow DEF IInv, HoldsOwn
<1> QED
  BY <1>1, <1>2, <1>3, HeldKept

\* What the process that takes the step holds is its own.
LEMMA HoldsActor ==
  ASSUME IInv, NEW r \in Invocations, Step(r) \/ Die(r)
  PROVE  /\ early'[r] # 0 => rows'[early'[r]].owner = r
         /\ id'[r] # 0 => rows'[id'[r]].owner = r /\ rows'[id'[r]].report = r
<1>1. /\ TypeOK /\ Effect /\ early \in [Invocations -> 0 .. Len(rows)]
      /\ id \in [Invocations -> 0 .. Len(rows)]
  BY StepEffect DEF IInv, TypeOK, ProcessType
<1>2. early[r] # 0 => early[r] \in DOMAIN rows /\ rows[early[r]].owner = r
  BY <1>1, HeldRow DEF IInv, HoldsOwn
<1>3. id[r] # 0 => id[r] \in DOMAIN rows /\ rows[id[r]].owner = r /\ rows[id[r]].report = r
  BY <1>1, HeldRow DEF IInv, HoldsOwn
<1>4. early[r] # 0 => rows'[early[r]].owner = r
  BY <1>1, <1>2, HeldKept
<1>5. id[r] # 0 => rows'[id[r]].owner = r /\ rows'[id[r]].report = r
  BY <1>1, <1>3, HeldKept
<1>6. CASE Create(r)
  <2>1. CASE rows' = Append(rows, NewRow(r)) /\ early' = [early EXCEPT ![r] = Len(rows) + 1]
    <3>1. rows'[Len(rows) + 1] = NewRow(r)
      BY <2>1, <1>1 DEF TypeOK, TableType
    <3> QED
      BY <1>1, <1>5, <1>6, <2>1, <3>1 DEF Create, NewRow
  <2> QED
    BY <1>4, <1>5, <1>6, <2>1 DEF Create
<1>7. CASE IngestCore(r)
  <2>1. CASE UNCHANGED id
    BY <1>4, <1>5, <1>7, <2>1 DEF IngestCore
  <2>2. CASE id' = [id EXCEPT ![r] = IF early[r] = 0 THEN Len(rows) + 1 ELSE early[r]]
    BY <1>1, <1>4, <1>7, <2>2, IngestEffect DEF IngestCore
  <2> QED
    BY <1>7, <2>1, <2>2 DEF IngestCore, Target
<1>8. CASE UNCHANGED <<early, id>>
  BY <1>4, <1>5, <1>8
<1> QED
  BY <1>6, <1>7, <1>8 DEF Step, Ingest, Reconcile, EnterStage, LeaveStage, TriageRaises,
     WriteReport, StartReplay, IngestFails, InsertFindings, ClaimCorrelated, RefuseGroup,
     CommitEnrichment, EnterPdf, RenderPdf, RenderFails, MarkPdf, LeavePdf, Complete, Die

\* Where a process is and what it holds agree.
Placed(r) ==
  /\ r \in Replays => /\ pc[r] \in {"new", "ingest", "insert", "claim", "commit", "done", "dead"}
                      /\ early[r] = 0
  /\ pc[r] \in {"insert", "claim", "commit", "mark"} => id[r] # 0
  /\ pc[r] = "mark" => r \in pdfFile
  /\ r \in Runs /\ pc[r] \in {"new", "create"} => early[r] = 0

\* Where the process that takes a step comes to.
LEMMA PlacedKept ==
  ASSUME IInv, NEW r \in Invocations, Step(r) \/ Die(r)
  PROVE  Placed(r)'
<1>1. /\ pc \in [Invocations -> Points] /\ id \in [Invocations -> 0 .. Len(rows)]
      /\ early \in [Invocations -> 0 .. Len(rows)] /\ Len(rows) \in Nat /\ Placed(r)
  BY DEF IInv, TypeOK, ProcessType, TableType, HoldsOwn, Placed
<1>2. Runs \cap Replays = {} /\ pdfFile \subseteq pdfFile'
  BY RunsAssumption, StepTables
<1>3. CASE IngestCore(r)
  <2>1. early[r] = 0 \/ r \notin Replays
    BY <1>1 DEF Placed
  <2>2. CASE id' = [id EXCEPT ![r] = IF Target(r) = 0 THEN Len(rows) + 1 ELSE Target(r)]
    <3>1. id'[r] # 0
      BY <1>1, <2>2
    <3> QED
      BY <1>1, <1>2, <1>3, <2>1, <3>1 DEF IngestCore, Placed, Go, AfterIngest
  <2>3. CASE AfterIngest(r)
    BY <1>1, <1>2, <1>3, <2>3 DEF IngestCore, Placed, Go, AfterIngest
  <2> QED
    BY <1>3, <2>2, <2>3 DEF IngestCore
<1>4. CASE Create(r)
  BY <1>1, <1>2, <1>4 DEF Create, Placed, Go
<1>5. CASE RenderPdf(r)
  BY <1>1, <1>2, <1>5 DEF RenderPdf, Placed, Go
<1>6. CASE /\ UNCHANGED <<early, id>> /\ Step(r)
           /\ ~Create(r) /\ ~IngestCore(r) /\ ~RenderPdf(r)
  <2>1. pc'[r] \notin {"mark", "insert", "new"} /\ (pc'[r] = "create" => pc[r] = "new")
    BY <1>1, <1>6 DEF Step, Ingest, Reconcile, EnterStage, LeaveStage, TriageRaises, WriteReport,
     StartReplay, IngestFails, InsertFindings, ClaimCorrelated, RefuseGroup,
     CommitEnrichment, EnterPdf, RenderFails, MarkPdf, LeavePdf, Complete, Go, AfterIngest
  <2>2. pc'[r] \in {"claim", "commit"} => pc[r] \in {"insert", "claim"}
    BY <1>1, <1>6 DEF Step, Ingest, Reconcile, EnterStage, LeaveStage, TriageRaises, WriteReport,
     StartReplay, IngestFails, InsertFindings, ClaimCorrelated, RefuseGroup,
     CommitEnrichment, EnterPdf, RenderFails, MarkPdf, LeavePdf, Complete, Go, AfterIngest
  <2>3. r \in Replays => pc'[r] \in {"ingest", "claim", "commit", "done"}
    BY <1>1, <1>2, <1>6 DEF Step, Ingest, Reconcile, EnterStage, LeaveStage, TriageRaises, WriteReport,
     StartReplay, IngestFails, InsertFindings, ClaimCorrelated, RefuseGroup,
     CommitEnrichment, EnterPdf, RenderFails, MarkPdf, LeavePdf, Complete, Go, AfterIngest, Placed
  <2> QED
    BY <1>1, <1>6, <2>1, <2>2, <2>3 DEF Placed
<1>7. CASE Die(r)
  BY <1>1, <1>2, <1>7 DEF Die, Placed, Go, Live
<1> QED
  BY <1>3, <1>4, <1>5, <1>6, <1>7 DEF Step, Ingest, Reconcile, EnterStage, LeaveStage,
     TriageRaises, WriteReport, StartReplay, IngestFails, InsertFindings, ClaimCorrelated,
     RefuseGroup, CommitEnrichment, EnterPdf, RenderFails, MarkPdf, LeavePdf, Complete

\* A run that has not made its row has none.
NoRowYet(r) == r \in Runs /\ pc[r] \in {"new", "create"} => RowsOf(r) = {}

\* HoldsOwn, in the parts the lemmas keep.
LEMMA HoldsOwnParts ==
  HoldsOwn <=>
    \A r \in Invocations :
      /\ Placed(r) /\ NoRowYet(r)
      /\ early[r] # 0 => rows[early[r]].owner = r
      /\ id[r] # 0 => rows[id[r]].owner = r /\ rows[id[r]].report = r
BY DEF HoldsOwn, Placed, NoRowYet

\* A process that takes a step without having a row gets none before its create.
LEMMA NoRowKept ==
  ASSUME IInv, NEW r \in Invocations, Step(r) \/ Die(r), NEW q \in Invocations
  PROVE  NoRowYet(q)'
<1>1. NoRowYet(q) /\ pc \in [Invocations -> Points] /\ Frame(r)
  BY ProcessFrame, HoldsOwnParts DEF IInv, TypeOK, ProcessType
<1>2. CASE q # r
  BY <1>1, <1>2, OthersRows DEF Frame, NoRowYet
<1>3. CASE q = r /\ Reconcile(r)
  <2>1. pc[r] = "new"
    BY <1>3 DEF Reconcile
  <2>2. ~Create(r) /\ ~IngestCore(r)
    BY <2>1 DEF Create, IngestCore
  <2> QED
    BY <1>1, <1>3, <2>1, <2>2, OthersRows DEF NoRowYet
<1>4. CASE q = r /\ ~Reconcile(r)
  <2>1. pc'[r] \notin {"new", "create"}
    BY <1>1, <1>4 DEF Step, Ingest, Create, EnterStage, LeaveStage, TriageRaises,
     WriteReport, StartReplay, IngestCore, IngestFails, InsertFindings, ClaimCorrelated,
     RefuseGroup, CommitEnrichment, EnterPdf, RenderPdf, RenderFails, MarkPdf, LeavePdf,
     Complete, Die, Go, AfterIngest
  <2> QED
    BY <1>4, <2>1 DEF NoRowYet
<1> QED
  BY <1>2, <1>3, <1>4

\* Every process holds rows of its own.
LEMMA HoldsKept ==
  ASSUME IInv, NEW r \in Invocations, Step(r) \/ Die(r)
  PROVE  HoldsOwn'
<1>1. \A q \in Invocations : Placed(q)'
  <2>1. ASSUME NEW q \in Invocations, q # r
        PROVE  Placed(q)'
    <3>1. Placed(q) /\ Frame(r) /\ pdfFile \subseteq pdfFile'
      BY ProcessFrame, StepTables, HoldsOwnParts DEF IInv
    <3> QED
      BY <2>1, <3>1 DEF Frame, Placed
  <2> QED
    BY <2>1, PlacedKept
<1>2. \A q \in Invocations : /\ early'[q] # 0 => rows'[early'[q]].owner = q
                             /\ id'[q] # 0 => /\ rows'[id'[q]].owner = q
                                              /\ rows'[id'[q]].report = q
  BY HoldsActor, HoldsOthers
<1>3. \A q \in Invocations : NoRowYet(q)'
  BY NoRowKept
<1> QED
  BY <1>1, <1>2, <1>3 DEF HoldsOwn, Placed, NoRowYet

\* A run with its row's id has that row only.
LEMMA OneRowKept ==
  ASSUME IInv, NEW r \in Invocations, Step(r) \/ Die(r)
  PROVE  OneRowPerRun'
<1>1. ASSUME NEW q \in Runs, early'[q] # 0
      PROVE  RowsOf(q)' = {early'[q]}
  <2>0. q \in Invocations /\ Frame(r) /\ ProcessType
    BY ProcessFrame DEF Invocations, IInv, TypeOK
  <2>1. CASE early'[q] = early[q]
    <3>1. early[q] # 0 /\ RowsOf(q) = {early[q]}
      BY <1>1, <2>1 DEF IInv, OneRowPerRun
    <3>2. q # r \/ ~Create(r)
      BY <2>0, <3>1 DEF IInv, HoldsOwn, Create
    <3> QED
      BY <2>0, <2>1, <3>1, <3>2, OthersRows
  <2>2. CASE early'[q] # early[q]
    <3>1. q = r
      BY <2>0, <2>2 DEF Frame
    <3>2. Create(r)
      BY <2>2, <3>1 DEF Step, Ingest, Reconcile, EnterStage, LeaveStage, TriageRaises,
       WriteReport, StartReplay, IngestCore, IngestFails, InsertFindings, ClaimCorrelated,
       RefuseGroup, CommitEnrichment, EnterPdf, RenderPdf, RenderFails, MarkPdf, LeavePdf,
       Complete, Die
    <3>3. RowsOf(r) = {}
      BY <3>1, <3>2 DEF IInv, HoldsOwn, Create
    <3>4. rows' = Append(rows, NewRow(r)) /\ early'[r] = Len(rows) + 1
      BY <2>0, <2>2, <3>1, <3>2 DEF Create, ProcessType
    <3>5. rows \in Seq(Row) /\ NewRow(r) \in Row /\ NewRow(r).owner = r
      BY <3>1, NewRowType DEF IInv, TypeOK, TableType, NewRow
    <3> DEFINE entry == NewRow(r)
    <3>6. /\ rows' = Append(rows, entry) /\ entry \in Row /\ entry.owner = r
      BY <3>4, <3>5
    <3> HIDE DEF entry
    <3>7. /\ DOMAIN rows' = DOMAIN rows \cup {Len(rows) + 1}
          /\ \A j \in DOMAIN rows : rows'[j] = rows[j]
          /\ rows'[Len(rows) + 1] = entry
      BY <3>5, <3>6, AddRow
    <3> QED
      BY <3>1, <3>3, <3>4, <3>6, <3>7 DEF RowsOf
  <2> QED
    BY <2>1, <2>2
<1> QED
  BY <1>1 DEF OneRowPerRun

\* A step of no process: a reconciliation by another run, or time passing.
LEMMA OutsideKept ==
  ASSUME IInv, OtherRunStarts \/ Tick
  PROVE  IInv' /\ Effect
<1>1. /\ UNCHANGED <<process, disk, samples, faults>> /\ TypeOK
      /\ Effect /\ \A i \in DOMAIN rows : rows'[i].stage = rows[i].stage
  BY StaleEffect, TickEffect DEF OtherRunStarts, Tick, IInv
<1>2. DOMAIN rows' = DOMAIN rows /\ Len(rows') = Len(rows)
  <2>1. rows \in Seq(Row)
    BY <1>1 DEF TypeOK, TableType
  <2>2. DOMAIN rows' = DOMAIN rows
    BY DEF OtherRunStarts, Tick, MarkStale
  <2>3. rows' \in Seq(Row)
    BY <1>1 DEF Effect
  <2> QED
    BY <2>1, <2>2, <2>3
<1>3. \A i \in DOMAIN rows : rows'[i].owner = rows[i].owner
  BY <1>1 DEF Effect, Kept
<1>4. UNCHANGED <<pc, at, early, id, triageOk, tx, told, reportFile, pdfFile, samples, faults>>
  BY <1>1 DEF process, disk
<1>5. TypeOK'
  BY <1>1, <1>2, <1>4 DEF TypeOK, ProcessType, TableType, Effect
<1>6. \A r \in Invocations : RowsOf(r)' = RowsOf(r)
  BY <1>2, <1>3 DEF RowsOf
<1>7. HoldsOwn'
  <2>1. ASSUME NEW r \in Invocations
        PROVE  /\ early[r] # 0 => rows'[early[r]].owner = r
               /\ id[r] # 0 => rows'[id[r]].owner = r /\ rows'[id[r]].report = r
    BY <1>1, HeldRow, HeldKept DEF IInv, HoldsOwn
  <2> QED
    BY <1>4, <1>6, <2>1 DEF HoldsOwn, IInv
<1>8. RowsSound'
  BY <1>1, <1>4, SoundKept
<1>9. TxSound'
  BY <1>4 DEF TxSound, IInv
<1>10. ToldLast'
  <2>1. ASSUME NEW r \in Runs, early[r] # 0, pc[r] # "done"
        PROVE  rows'[early[r]].stage = told[r]
    <3>1. early[r] \in DOMAIN rows
      BY <1>1, <2>1, HeldRow DEF Invocations
    <3> QED
      BY <1>1, <2>1, <3>1 DEF IInv, ToldLast
  <2> QED
    BY <1>4, <2>1 DEF ToldLast
<1>11. OneRowPerRun'
  BY <1>4, <1>6 DEF OneRowPerRun, IInv, Invocations
<1> QED
  BY <1>1, <1>5, <1>7, <1>8, <1>9, <1>10, <1>11 DEF IInv

\* The invariant holds of an empty table.
LEMMA InitIInv == Init => IInv
<1> SUFFICES ASSUME Init PROVE IInv
  OBVIOUS
<1>0. rows = <<>> /\ Len(rows) = 0 /\ DOMAIN rows = {}
  BY DEF Init
<1>1. ProcessType
  <2>1. NoTx \in [findings : BOOLEAN, claimed : BOOLEAN] /\ "none" \in StageNames
    BY DEF NoTx, StageNames
  <2>2. 1 \in DOMAIN Stages /\ "new" \in Points /\ 0 \in 0 .. Len(rows)
    BY <1>0, StagesAssumption DEF Points
  <2> QED
    BY <2>1, <2>2 DEF Init, ProcessType
<1>2. TableType
  BY <1>0, TimeAssumption DEF Init, TableType
<1>3. HoldsOwn /\ OneRowPerRun /\ RowsSound /\ ToldLast
  BY <1>0, RunsAssumption DEF Init, HoldsOwn, OneRowPerRun, RowsSound, ToldLast, RowsOf,
     Invocations
<1>4. TxSound
  BY DEF Init, TxSound, NoTx
<1> QED
  BY <1>1, <1>2, <1>3, <1>4 DEF IInv, TypeOK

\* Every step keeps it, and changes rows only as Effect says.
LEMMA NextIInv == IInv /\ [Next]_vars => IInv' /\ Effect
<1> SUFFICES ASSUME IInv, [Next]_vars PROVE IInv' /\ Effect
  OBVIOUS
<1>1. CASE OtherRunStarts \/ Tick
  BY <1>1, OutsideKept
<1>2. ASSUME NEW r \in Invocations, Step(r) \/ Die(r)
      PROVE  IInv' /\ Effect
  <2>1. TypeOK'
    BY <1>2, ProcessFrame, StepTables DEF TypeOK
  <2>2. HoldsOwn' /\ OneRowPerRun' /\ ToldLast' /\ TxSound'
    BY <1>2, HoldsKept, OneRowKept, ToldKept, TxKept
  <2>3. RowsSound'
    BY <1>2, StepEffect, StepTables, SoundKept
  <2> QED
    BY <1>2, <2>1, <2>2, <2>3, StepEffect DEF IInv
<1>3. CASE UNCHANGED vars
  <2>1. UNCHANGED <<pc, at, early, id, triageOk, tx, told, reportFile, pdfFile, rows, samples,
                    faults>>
    BY <1>3 DEF vars, process, disk, tables
  <2>2. IInv'
    BY <2>1 DEF IInv, TypeOK, ProcessType, TableType, HoldsOwn, RowsOf, RowsSound, Sound,
       TxSound, ToldLast, OneRowPerRun
  <2> QED
    BY <2>1, <2>2, NoEffect DEF IInv
<1> QED
  BY <1>1, <1>2, <1>3 DEF Next

\* The inductive invariant holds in every state.
THEOREM Invariance == Spec => []IInv
<1>1. IInv /\ [Next]_vars => IInv'
  BY NextIInv
<1> QED
  BY InitIInv, <1>1, PTL DEF Spec
-----------------------------------------------------------------------------
\* Every variable keeps its type, and every id held is the id of a row.
THEOREM TypeCorrect == Spec => []TypeOK
<1>1. IInv => TypeOK
  BY DEF IInv
<1> QED
  BY Invariance, <1>1, PTL

\* create_analysis_row, ingest_to_db: a run that has its row's id has that row
\* only, however calls fail and processes die beside it.
THEOREM RunsHaveOneRow == Spec => []OneRowPerRun
<1>1. IInv => OneRowPerRun
  BY DEF IInv
<1> QED
  BY Invariance, <1>1, PTL

\* The correlations group of ingest_to_db: no row claims findings it lacks.
THEOREM ClaimsAreHonest == Spec => []ClaimHonest
<1>1. IInv => ClaimHonest
  BY DEF IInv, RowsSound, Sound, ClaimHonest
<1> QED
  BY Invariance, <1>1, PTL

\* mark_pdf_generated: the marked row is that of the report the PDF shows.
THEOREM PdfsAreOfTheirRows == Spec => []PdfOfRow
<1>1. IInv => PdfOfRow
  BY DEF IInv, RowsSound, Sound, PdfOfRow
<1> QED
  BY Invariance, <1>1, PTL

\* update_stage: a dead run's row names the last stage it was told.
THEOREM DeathStageIsKept == Spec => []DeathStageKept
<1>1. IInv => DeathStageKept
  BY DEF IInv, ToldLast, DeathStageKept
<1> QED
  BY Invariance, <1>1, PTL

\* run_replay: a report in the database is never replaced by another
\* invocation's.
THEOREM EvidenceIsKept == Spec => EvidenceKept
<1>1. IInv /\ [Next]_vars =>
        [\A i \in DOMAIN rows : rows[i].report # None => rows'[i].report = rows[i].report]_vars
  <2> SUFFICES ASSUME IInv, [Next]_vars, NEW i \in DOMAIN rows, rows[i].report # None
               PROVE  rows'[i].report = rows[i].report
    OBVIOUS
  <2>1. rows[i].report = rows[i].owner
    BY DEF IInv, RowsSound, Sound
  <2>2. Kept(rows[i], rows'[i])
    BY NextIInv DEF Effect
  <2> QED
    BY <2>1, <2>2 DEF Kept
<1> QED
  BY Invariance, <1>1, PTL DEF Spec, EvidenceKept

\* reconcile_stale_running, run_replay: nothing changes the settled row of a
\* process that ended.
THEOREM SettledStays == Spec => Settled
<1>1. IInv /\ [Next]_vars =>
        [\A i \in DOMAIN rows :
           rows[i].status # "running" /\ pc[rows[i].owner] \in {"done", "dead"} =>
             [rows'[i] EXCEPT !.age = 0] = [rows[i] EXCEPT !.age = 0]]_vars
  <2> SUFFICES ASSUME IInv, [Next]_vars, NEW i \in DOMAIN rows, rows[i].status # "running",
                      pc[rows[i].owner] \in {"done", "dead"}
               PROVE  [rows'[i] EXCEPT !.age = 0] = [rows[i] EXCEPT !.age = 0]
    OBVIOUS
  <2>1. Kept(rows[i], rows'[i])
    BY NextIInv DEF Effect
  <2> QED
    BY <2>1 DEF Kept, Ended
<1> QED
  BY Invariance, <1>1, PTL DEF Spec, Settled
-----------------------------------------------------------------------------
(* Enrichment.                                                             *)

LEMMA GroupsAre ==
  /\ Len(Groups) = 11 /\ DOMAIN Groups = 1 .. Len(Groups)
  /\ \A g \in DOMAIN Groups : Groups[g] \in GroupNames
BY DEF Groups, GroupNames

\* Of some of the groups, one comes first.
LEMMA FirstGroup ==
  ASSUME NEW D \in SUBSET (1 .. 11), NEW d \in D
  PROVE  \E m \in D : \A n \in D : m <= n
<1> SUFFICES ASSUME \A m \in D : \E n \in D : n < m PROVE FALSE
  OBVIOUS
<1>1. 1 \notin D /\ 2 \notin D /\ 3 \notin D /\ 4 \notin D
  OBVIOUS
<1>2. 5 \notin D /\ 6 \notin D /\ 7 \notin D /\ 8 \notin D
  BY <1>1
<1>3. 9 \notin D /\ 10 \notin D /\ 11 \notin D
  BY <1>1, <1>2
<1>4. d \in Nat /\ 1 <= d /\ d <= 11
  OBVIOUS
<1> QED
  BY <1>1, <1>2, <1>3, <1>4

\* The groups that do not fit in the list of warnings are among those it counts: before
\* the first of them stand as many entries as the list holds.
LEMMA CappedCounts ==
  ASSUME NEW lost \in SUBSET GroupNames, NEW read \in Nat, NEW cleaned \in Nat
  PROVE  /\ Capped(lost, read, cleaned).named \in SUBSET GroupNames
         /\ Capped(lost, read, cleaned).untold \in Nat
         /\ IsFiniteSet(lost \ Capped(lost, read, cleaned).named)
         /\ Cardinality(lost \ Capped(lost, read, cleaned).named)
              <= Capped(lost, read, cleaned).untold
<1> DEFINE before(h) == {Groups[b] : b \in 1 .. (h - 1)} \cap lost
           within == Capped(lost, read, cleaned).named
           cut == lost \ within
           said == read + Cardinality(lost) + cleaned
<1>1. /\ within = {Groups[g] : g \in {h \in DOMAIN Groups :
                   Groups[h] \in lost /\ read + Cardinality(before(h)) < MaxWarnings}}
      /\ Capped(lost, read, cleaned).untold =
           IF said > MaxWarnings THEN said - MaxWarnings ELSE 0
  BY DEF Capped
<1>2. MaxWarnings \in Nat
  BY EnrichmentAssumption
<1>3. IsFiniteSet(lost)
  <2>1. Groups \in Surjection(1 .. 11, GroupNames)
    BY GroupsAre DEF Surjection, GroupNames, Groups
  <2>2. IsFiniteSet(1 .. 11)
    BY FS_Interval, 1 \in Int, 11 \in Int
  <2> QED
    BY <2>1, <2>2, FS_Surjection, FS_Subset
<1>4. Cardinality(lost) \in Nat /\ IsFiniteSet(cut) /\ Cardinality(cut) \in Nat
  BY <1>3, FS_Subset, FS_CardinalityType
<1>5. within \in SUBSET GroupNames
  BY <1>1, GroupsAre
<1>6. Capped(lost, read, cleaned).untold \in Nat
  BY <1>1, <1>2, <1>4
<1>7. CASE cut = {}
  BY <1>4, <1>5, <1>6, <1>7, FS_EmptySet
<1>8. CASE cut # {}
  <2> DEFINE D == {h \in 1 .. 11 : Groups[h] \in cut}
  <2>1. PICK d \in 1 .. 11 : Groups[d] \in cut
    BY <1>8, GroupsAre DEF GroupNames
  <2>2. PICK h \in D : \A n \in D : h <= n
    BY <2>1, FirstGroup
  <2>3. h \in 1 .. 11 /\ Groups[h] \in lost /\ Groups[h] \notin within
    OBVIOUS
  <2>4. ~(read + Cardinality(before(h)) < MaxWarnings)
    BY <1>1, <2>3, GroupsAre
  <2>5. before(h) \subseteq lost \ cut
    <3>1. ASSUME NEW b \in 1 .. (h - 1) PROVE Groups[b] \notin cut
      <4>1. b \in 1 .. 11 /\ b < h
        BY <2>3
      <4>2. b \notin D
        BY <2>2, <4>1
      <4> QED
        BY <4>1, <4>2
    <3> QED
      BY <3>1
  <2>6. Cardinality(lost \ cut) = Cardinality(lost) - Cardinality(cut) /\ IsFiniteSet(lost \ cut)
    <3>1. lost \cap cut = cut
      OBVIOUS
    <3> HIDE DEF cut
    <3> QED
      BY <1>3, <3>1, FS_Difference
  <2>7. Cardinality(before(h)) <= Cardinality(lost \ cut) /\ Cardinality(before(h)) \in Nat
    <3> HIDE DEF cut, before
    <3> QED
      BY <2>5, <2>6, FS_Subset, FS_CardinalityType
  <2>8. Cardinality(cut) + Cardinality(before(h)) <= Cardinality(lost)
    <3> HIDE DEF cut, before
    <3> QED
      BY <1>4, <2>6, <2>7
  <2>9. Cardinality(cut) <= Capped(lost, read, cleaned).untold
    <3> HIDE DEF cut, before
    <3> QED
      BY <1>1, <1>2, <1>4, <2>4, <2>7, <2>8
  <2> QED
    BY <1>4, <1>5, <1>6, <2>9
<1> QED
  BY <1>7, <1>8

LEMMA EnrichmentInitial == EnrichmentInit => EnrichmentType
<1> SUFFICES ASSUME EnrichmentInit PROVE EnrichmentType
  OBVIOUS
<1>1. Older \subseteq Ingests /\ 1 \in DOMAIN Groups
  BY EnrichmentAssumption, GroupsAre
<1>2. /\ place \in [Ingests -> {"core", "group", "commit", "fetch", "relate", "ended"}]
      /\ group \in [Ingests -> DOMAIN Groups] /\ item \in [Ingests -> Nat \ {0}]
  BY <1>1 DEF EnrichmentInit
<1>3. {failed, pending, landed, named} \subseteq [Ingests -> SUBSET GroupNames]
  BY DEF EnrichmentInit
<1>4. untold \in [Ingests -> Nat] /\ found \in [Ingests -> SUBSET SUBSET Samples]
  BY DEF EnrichmentInit
<1>5. cored \subseteq Ingests /\ row \subseteq Ingests /\ related \subseteq Ingests
  BY <1>1 DEF EnrichmentInit
<1> QED
  BY <1>2, <1>3, <1>4, <1>5 DEF EnrichmentType

\* The edges that an ingest computes are sets of samples.
LEMMA EdgesTyped ==
  ASSUME NEW i \in Ingests
  PROVE  SharedEdges(SampleIn[i]) \in SUBSET SUBSET Samples
BY DEF SharedEdges, Samples

\* A step of the groups: what it changes of its ingest, and that it changes no other.
LEMMA LeaveGroup ==
  ASSUME EnrichmentType, GroupsPassed, NEW i \in Ingests, place[i] = "group", Leave(i),
         NEW g, g = GroupOf(i),
         \/ pending' = [pending EXCEPT ![i] = @ \cup {g}] /\ failed' = failed
         \/ failed' = [failed EXCEPT ![i] = @ \cup {g}] /\ pending' = pending
  PROVE  /\ {failed', pending'} \subseteq [Ingests -> SUBSET GroupNames]
         /\ place' \in [Ingests -> {"core", "group", "commit", "fetch", "relate", "ended"}]
         /\ group' \in [Ingests -> DOMAIN Groups]
         /\ GroupsPassed'
         /\ place' = [place EXCEPT ![i] = place'[i]] /\ place'[i] \in {"group", "commit"}
<1> USE DEF EnrichmentType
<1>1. g \in GroupNames /\ g = Groups[group[i]] /\ group[i] \in 1 .. 11 /\ Len(Groups) = 11
  BY GroupsAre DEF GroupOf
<1>2. /\ {failed', pending'} \subseteq [Ingests -> SUBSET GroupNames]
      /\ pending'[i] \cup failed'[i] = pending[i] \cup failed[i] \cup {g}
      /\ \A j \in Ingests : j # i => pending'[j] = pending[j] /\ failed'[j] = failed[j]
  BY <1>1
<1>3. CASE group[i] < 11
  <2>1. group' = [group EXCEPT ![i] = @ + 1] /\ place' = place
    BY <1>1, <1>3 DEF Leave
  <2>2. group' \in [Ingests -> DOMAIN Groups]
    BY <1>1, <1>3, <2>1, GroupsAre
  <2>3. \A k \in 1 .. (group'[i] - 1) : Groups[k] \in pending'[i] \cup failed'[i]
    <3>1. ASSUME NEW k \in 1 .. (group'[i] - 1)
          PROVE  Groups[k] \in pending[i] \cup failed[i] \cup {g}
      <4>1. k = group[i] \/ k \in 1 .. (group[i] - 1)
        BY <1>1, <2>1, <2>2
      <4> QED
        BY <1>1, <4>1 DEF GroupsPassed
    <3> QED
      BY <1>2, <3>1
  <2>4. ASSUME NEW j \in Ingests, j # i
        PROVE  group'[j] = group[j] /\ place'[j] = place[j]
    BY <2>1, <2>4
  <2>5. GroupsPassed'
    BY <1>2, <2>1, <2>3, <2>4 DEF GroupsPassed
  <2> QED
    BY <1>2, <2>1, <2>2, <2>5
<1>4. CASE ~(group[i] < 11)
  <2>1. place' = [place EXCEPT ![i] = "commit"] /\ group' = group
    BY <1>1, <1>4 DEF Leave
  <2>2. GroupNames \subseteq pending'[i] \cup failed'[i]
    <3>1. ASSUME NEW k \in 1 .. 11 PROVE Groups[k] \in pending[i] \cup failed[i] \cup {g}
      <4>1. k = group[i] \/ k \in 1 .. (group[i] - 1)
        BY <1>1, <1>4
      <4> QED
        BY <1>1, <4>1 DEF GroupsPassed
    <3>2. GroupNames = {Groups[k] : k \in 1 .. 11}
      BY GroupsAre DEF GroupNames
    <3> QED
      BY <1>2, <3>1, <3>2
  <2>3. GroupsPassed'
    BY <1>2, <2>1, <2>2 DEF GroupsPassed
  <2> QED
    BY <1>2, <2>1, <2>3
<1> QED
  BY <1>1, <1>3, <1>4

\* Of two ingests with a rare IOC in common, the edge is found from either side.
LEMMA ShareFound ==
  ASSUME NEW i \in row, NEW j \in row, row \subseteq Ingests, SampleIn[i] # SampleIn[j], Share(i, j)
  PROVE  {SampleIn[i], SampleIn[j]} \in SharedEdges(SampleIn[i])
<1>1. PICK v \in Linked(i) \cap Linked(j) : Cardinality(Ever(v)) <= MaxFreq
  BY DEF Share
<1> DEFINE D == {k \in Ingests : v \in ListedIn(k, Iocs)}
           S == [k \in D |-> SampleIn[k]]
           F == {SampleIn[k] : k \in {l \in row : v \in Linked(l)}}
<1>2. IsFiniteSet(D)
  BY EnrichmentAssumption, FS_Subset
<1>3. S \in Surjection(D, Ever(v))
  BY DEF Surjection, Ever
<1>4. IsFiniteSet(Ever(v))
  BY <1>2, <1>3, FS_Surjection
<1>5. F \subseteq Ever(v)
  BY DEF Linked, Ever
<1>6. Cardinality(F) <= Cardinality(Ever(v)) /\ Cardinality(F) \in Nat /\ Cardinality(Ever(v)) \in Nat
  BY <1>4, <1>5, FS_Subset, FS_CardinalityType
<1>7. Freq(v) <= MaxFreq
  BY <1>1, <1>6, EnrichmentAssumption DEF Freq
<1>8. v \in IocsOf(SampleIn[i]) \cap IocsOf(SampleIn[j])
  BY <1>1 DEF IocsOf
<1>9. SampleIn[j] \in Samples \ {SampleIn[i]}
  BY DEF Samples
<1> QED
  BY <1>7, <1>8, <1>9 DEF SharedEdges

\* However a group fails, it is the group the ingest is in.
LEMMA FailsInGroup ==
  ASSUME NEW i \in Ingests, Refused(i) \/ RefusedOrphan(i) \/ Victim(i)
  PROVE  Fails(i) /\ place[i] = "group"
<1>1. CASE Victim(i)
  <2>1. PICK circle \in SUBSET Ingests : i \in circle /\ {WaitsFor(p) : p \in circle} = circle
    BY <1>1 DEF Victim, Deadlocked
  <2>2. WaitsFor(i) # Nobody
    BY <2>1, EnrichmentAssumption
  <2> QED
    BY <1>1, <2>2 DEF Victim, WaitsFor, Wanted, More
<1> QED
  BY <1>1 DEF Refused, RefusedOrphan, More

\* What a step of an ingest or a deletion does to its own entries: nothing else moves.
\* What a commit leaves in the row of its ingest.
LandsWith(i, kept) ==
  /\ landed' = [landed EXCEPT ![i] = IF i \in row THEN pending[i] ELSE {}]
  /\ named' = [named EXCEPT ![i] = kept.named] /\ untold' = [untold EXCEPT ![i] = kept.untold]
  /\ kept.named \in SUBSET GroupNames /\ kept.untold \in Nat
  /\ i \in row /\ "ingest_warnings" \in pending[i] =>
       /\ IsFiniteSet(failed[i] \ kept.named)
       /\ Cardinality(failed[i] \ kept.named) <= kept.untold

LEMMA LandsKept ==
  ASSUME EnrichmentType, NEW i \in Ingests, Lands(i)
  PROVE  \E kept : LandsWith(i, kept)
<1>1. PICK read \in 0 .. Malformed[i], cleaned \in 0 .. Cleaned[i] :
        LET kept == IF i \in row /\ "ingest_warnings" \in pending[i]
                    THEN Merged(i, read, cleaned) ELSE [named |-> {}, untold |-> 0]
        IN /\ named' = [named EXCEPT ![i] = kept.named]
           /\ untold' = [untold EXCEPT ![i] = kept.untold]
  BY DEF Lands
<1>2. landed' = [landed EXCEPT ![i] = IF i \in row THEN pending[i] ELSE {}]
  BY DEF Lands
<1>3. read \in Nat /\ cleaned \in Nat /\ failed[i] \in SUBSET GroupNames
  BY EnrichmentAssumption DEF EnrichmentType
<1>4. CASE i \in row /\ "ingest_warnings" \in pending[i]
  <2> DEFINE kept == Capped(failed[i], read, cleaned)
  <2>1. named' = [named EXCEPT ![i] = kept.named] /\ untold' = [untold EXCEPT ![i] = kept.untold]
    BY <1>1, <1>4 DEF Merged
  <2>2. /\ kept.named \in SUBSET GroupNames /\ kept.untold \in Nat
        /\ IsFiniteSet(failed[i] \ kept.named) /\ Cardinality(failed[i] \ kept.named) <= kept.untold
    BY <1>3, CappedCounts
  <2> HIDE DEF kept
  <2>3. LandsWith(i, kept)
    BY <1>2, <2>1, <2>2 DEF LandsWith
  <2> QED
    BY <2>3
<1>5. CASE ~(i \in row /\ "ingest_warnings" \in pending[i])
  <2> DEFINE kept == [named |-> {}, untold |-> 0]
  <2>1. LandsWith(i, kept)
    BY <1>1, <1>2, <1>5 DEF LandsWith
  <2> QED
    BY <2>1
<1> QED
  BY <1>4, <1>5

LEMMA GroupsNext ==
  ASSUME EnrichmentType, GroupsPassed, [EnrichmentNext]_enrichment
  PROVE  EnrichmentType' /\ GroupsPassed'
<1> USE DEF EnrichmentType
<1> DEFINE Places == {"core", "group", "commit", "fetch", "relate", "ended"}
<1>1. ASSUME NEW i \in Ingests, CommitCore(i) \/ LoseCore(i) PROVE EnrichmentType' /\ GroupsPassed'
  <2>1. /\ place[i] = "core" /\ cored' \subseteq Ingests
        /\ UNCHANGED <<group, item, failed, pending, landed, named, untold, found, row, related>>
    BY <1>1 DEF CommitCore, LoseCore
  <2>2. CASE CommitCore(i)
    <3>1. place' = [place EXCEPT ![i] = "group"]
      BY <2>2 DEF CommitCore
    <3> QED
      BY <2>1, <3>1 DEF GroupsPassed
  <2>3. CASE LoseCore(i)
    <3>1. place' = [place EXCEPT ![i] = "ended"]
      BY <2>3 DEF LoseCore
    <3> QED
      BY <2>1, <3>1 DEF GroupsPassed
  <2> QED
    BY <1>1, <2>2, <2>3
<1>2. ASSUME NEW i \in Ingests, Upsert(i) PROVE EnrichmentType' /\ GroupsPassed'
  <2>1. /\ item' = [item EXCEPT ![i] = @ + 1]
        /\ UNCHANGED <<place, group, failed, pending, found, cored, row, landed, named, untold, related>>
    BY <1>2 DEF Upsert, shared
  <2> QED
    BY <2>1 DEF GroupsPassed
<1>3. ASSUME NEW i \in Ingests,
             Finish(i) \/ (Fails(i) /\ place[i] = "group")
      PROVE  EnrichmentType' /\ GroupsPassed'
  <2>1. /\ place[i] = "group" /\ Leave(i)
        /\ UNCHANGED <<found, cored, row, landed, named, untold, related>>
    BY <1>3 DEF Finish, Fails, shared
  <2>2. \/ pending' = [pending EXCEPT ![i] = @ \cup {GroupOf(i)}] /\ failed' = failed
        \/ failed' = [failed EXCEPT ![i] = @ \cup {GroupOf(i)}] /\ pending' = pending
    BY <1>3 DEF Finish, Fails
  <2>3. /\ {failed', pending'} \subseteq [Ingests -> SUBSET GroupNames]
        /\ place' \in [Ingests -> Places] /\ group' \in [Ingests -> DOMAIN Groups]
        /\ GroupsPassed'
    BY <2>1, <2>2, LeaveGroup
  <2>4. item' \in [Ingests -> Nat \ {0}]
    <3>1. item' = item \/ item' = [item EXCEPT ![i] = 1]
      BY <2>1 DEF Leave
    <3> QED
      BY <3>1
  <2> QED
    BY <2>1, <2>3, <2>4
<1>4. ASSUME NEW i \in Ingests, Commit(i) \/ Lose(i) PROVE EnrichmentType' /\ GroupsPassed'
  <2>1. /\ \E p \in {"fetch", "ended"} : place' = [place EXCEPT ![i] = p]
        /\ pending' = [pending EXCEPT ![i] = {}]
        /\ UNCHANGED <<group, item, failed, found, cored, row, related>>
    BY <1>4 DEF Commit, Lose, Ends
  <2>2. {landed', named'} \subseteq [Ingests -> SUBSET GroupNames] /\ untold' \in [Ingests -> Nat]
    <3>1. CASE Lands(i)
      <4>1. PICK kept : LandsWith(i, kept)
        BY <3>1, LandsKept
      <4> QED
        BY <4>1 DEF LandsWith
    <3>2. CASE UNCHANGED <<landed, named, untold>>
      BY <3>2
    <3> QED
      BY <1>4, <3>1, <3>2 DEF Commit, Lose
  <2>3. PICK p \in {"fetch", "ended"} : place' = [place EXCEPT ![i] = p]
    BY <2>1
  <2>4. pending' \in [Ingests -> SUBSET GroupNames] /\ place' \in [Ingests -> Places]
    BY <2>1, <2>3
  <2>5. GroupsPassed'
    BY <2>1, <2>3 DEF GroupsPassed
  <2> QED
    BY <2>1, <2>2, <2>4, <2>5
<1>5. ASSUME NEW i \in Ingests, FetchShared(i) PROVE EnrichmentType' /\ GroupsPassed'
  <2>1. /\ place' = [place EXCEPT ![i] = "relate"]
        /\ found' = [found EXCEPT ![i] = SharedEdges(SampleIn[i])]
        /\ UNCHANGED <<group, item, failed, pending, landed, named, untold, cored, row, related>>
    BY <1>5 DEF FetchShared, shared
  <2>2. found' \in [Ingests -> SUBSET SUBSET Samples]
    BY <2>1, EdgesTyped
  <2> QED
    BY <2>1, <2>2 DEF GroupsPassed
<1>6. ASSUME NEW i \in Ingests, Relate(i) \/ RelateFails(i) PROVE EnrichmentType' /\ GroupsPassed'
  <2>1. /\ place' = [place EXCEPT ![i] = "ended"] /\ found' = [found EXCEPT ![i] = {}]
        /\ related' \subseteq related \cup {i}
        /\ UNCHANGED <<group, item, failed, pending, landed, named, untold, cored, row>>
    BY <1>6 DEF Relate, RelateFails, shared
  <2> QED
    BY <2>1 DEF GroupsPassed
<1>7. ASSUME NEW i \in Ingests, DeleteAnalysis(i) PROVE EnrichmentType' /\ GroupsPassed'
  <2>1. /\ landed' = [landed EXCEPT ![i] = {}] /\ named' = [named EXCEPT ![i] = {}]
        /\ untold' = [untold EXCEPT ![i] = 0] /\ row' = row \ {i}
        /\ UNCHANGED <<place, group, item, failed, pending, found, cored, related>>
    BY <1>7 DEF DeleteAnalysis, work
  <2> QED
    BY <2>1 DEF GroupsPassed
<1>8. CASE UNCHANGED enrichment
  BY <1>8 DEF enrichment, work, shared, GroupsPassed
<1> QED
  BY <1>1, <1>2, <1>3, <1>4, <1>5, <1>6, <1>7, <1>8, FailsInGroup
  DEF EnrichmentNext, IngestStep, IngestTrouble

LEMMA AccountedNext ==
  ASSUME EnrichmentType, GroupsPassed, GroupsAccounted, [EnrichmentNext]_enrichment
  PROVE  GroupsAccounted'
<1> USE DEF EnrichmentType, GroupsAccounted
<1>1. CASE UNCHANGED <<landed, named, untold, row>>
  BY <1>1
<1>2. ASSUME NEW i \in Ingests, Commit(i) \/ Lose(i) PROVE GroupsAccounted'
  <2>1. CASE UNCHANGED <<landed, named, untold>>
    BY <1>2, <1>1, <2>1 DEF Commit, Lose, Ends
  <2>2. CASE Lands(i) /\ place[i] = "commit"
    <3>1. PICK kept : LandsWith(i, kept)
      BY <2>2, LandsKept
    <3>2. row' = row
      BY <1>2 DEF Commit, Lose, Ends
    <3>3. ASSUME i \in row, "ingest_warnings" \in pending[i]
          PROVE  Cardinality(GroupNames \ (pending[i] \cup kept.named)) <= kept.untold
      <4>1. GroupNames \ (pending[i] \cup kept.named) \subseteq failed[i] \ kept.named
        BY <2>2 DEF GroupsPassed
      <4>2. /\ IsFiniteSet(failed[i] \ kept.named) /\ kept.untold \in Nat
            /\ Cardinality(failed[i] \ kept.named) <= kept.untold
        BY <3>1, <3>3 DEF LandsWith
      <4>3. /\ Cardinality(GroupNames \ (pending[i] \cup kept.named))
                 <= Cardinality(failed[i] \ kept.named)
            /\ IsFiniteSet(GroupNames \ (pending[i] \cup kept.named))
        BY <4>1, <4>2, FS_Subset
      <4>4. /\ Cardinality(GroupNames \ (pending[i] \cup kept.named)) \in Nat
            /\ Cardinality(failed[i] \ kept.named) \in Nat
        BY <4>2, <4>3, FS_CardinalityType
      <4> QED
        BY <4>2, <4>3, <4>4
    <3>4. /\ landed' = [landed EXCEPT ![i] = IF i \in row THEN pending[i] ELSE {}]
          /\ named' = [named EXCEPT ![i] = kept.named]
          /\ untold' = [untold EXCEPT ![i] = kept.untold]
      BY <3>1 DEF LandsWith
    <3>5. ASSUME NEW j \in row, landed'[j] # {}, "ingest_warnings" \in landed'[j]
          PROVE  Cardinality(GroupNames \ (landed'[j] \cup named'[j])) <= untold'[j]
      <4>1. CASE j = i
        <5>1. landed'[j] = pending[i] /\ named'[j] = kept.named /\ untold'[j] = kept.untold
          BY <3>4, <4>1
        <5> QED
          BY <3>3, <3>5, <4>1, <5>1
      <4>2. CASE j # i
        <5>1. landed'[j] = landed[j] /\ named'[j] = named[j] /\ untold'[j] = untold[j]
          BY <3>4, <4>2
        <5> QED
          BY <3>5, <5>1
      <4> QED
        BY <4>1, <4>2
    <3> QED
      BY <3>2, <3>5
  <2> QED
    BY <1>2, <2>1, <2>2 DEF Commit, Lose
<1>3. ASSUME NEW i \in Ingests, DeleteAnalysis(i) PROVE GroupsAccounted'
  <2>1. \A j \in row' : j \in row /\ landed'[j] = landed[j] /\ named'[j] = named[j] /\ untold'[j] = untold[j]
    BY <1>3 DEF DeleteAnalysis
  <2> QED
    BY <2>1
<1>4. ASSUME NEW i \in Ingests,
             CommitCore(i) \/ LoseCore(i) \/ Upsert(i) \/ Finish(i) \/ RefusedOrphan(i) \/ Victim(i)
             \/ Refused(i) \/ FetchShared(i) \/ Relate(i) \/ RelateFails(i)
      PROVE  UNCHANGED <<landed, named, untold, row>>
  BY <1>4 DEF CommitCore, LoseCore, Upsert, Finish, RefusedOrphan, Victim, Refused, Fails,
     FetchShared, Relate, RelateFails, shared
<1>5. CASE UNCHANGED enrichment
  BY <1>5, <1>1 DEF enrichment, shared
<1> QED
  BY <1>1, <1>2, <1>3, <1>4, <1>5 DEF EnrichmentNext, IngestStep, IngestTrouble

LEMMA InTurnNext ==
  ASSUME EnrichmentType, GroupsPassed, InTurn, [EnrichmentNext]_enrichment
  PROVE  InTurn'
<1> USE DEF EnrichmentType, InTurn
<1>1. CASE UNCHANGED <<place, cored, related, found>>
  BY <1>1
<1>2. ASSUME NEW i \in Ingests, CommitCore(i) PROVE InTurn'
  BY <1>2 DEF CommitCore
<1>3. ASSUME NEW i \in Ingests, LoseCore(i) PROVE InTurn'
  <2>1. /\ place' = [place EXCEPT ![i] = "ended"] /\ place[i] = "core"
        /\ cored \subseteq cored' /\ UNCHANGED <<related, found>>
    BY <1>3 DEF LoseCore
  <2> QED
    BY <2>1
<1>4. ASSUME NEW i \in Ingests, Commit(i) \/ Lose(i) PROVE InTurn'
  <2>1. /\ \E p \in {"fetch", "ended"} : place' = [place EXCEPT ![i] = p]
        /\ place[i] \in {"group", "commit"} /\ UNCHANGED <<cored, related, found>>
    BY <1>4 DEF Commit, Lose, Ends
  <2> QED
    BY <2>1
<1>5. ASSUME NEW i \in Ingests, FetchShared(i) PROVE InTurn'
  BY <1>5 DEF FetchShared, shared
<1>6. ASSUME NEW i \in Ingests, Relate(i) PROVE InTurn'
  BY <1>6 DEF Relate
<1>7. ASSUME NEW i \in Ingests, RelateFails(i) PROVE InTurn'
  BY <1>7 DEF RelateFails, shared
<1>8. ASSUME NEW i \in Ingests, Finish(i) \/ (Fails(i) /\ place[i] = "group") PROVE InTurn'
  <2>1. /\ place[i] = "group" /\ Leave(i) /\ UNCHANGED <<found, cored, related>>
    BY <1>8 DEF Finish, Fails, shared
  <2>2. place' = place \/ place' = [place EXCEPT ![i] = "commit"]
    BY <2>1 DEF Leave
  <2> QED
    BY <2>1, <2>2
<1>9. ASSUME NEW i \in Ingests, Upsert(i) \/ DeleteAnalysis(i)
      PROVE  UNCHANGED <<place, cored, related, found>>
  BY <1>9 DEF Upsert, DeleteAnalysis, shared, work
<1>10. CASE UNCHANGED enrichment
  BY <1>10, <1>1 DEF enrichment, shared, work
<1> QED
  BY <1>1, <1>2, <1>3, <1>4, <1>5, <1>6, <1>7, <1>8, <1>9, <1>10, FailsInGroup
  DEF EnrichmentNext, IngestStep, IngestTrouble

LEMMA ShareSame ==
  ASSUME NEW i, NEW j, landed'[i] = landed[i], landed'[j] = landed[j]
  PROVE  Share(i, j)' <=> Share(i, j)
BY DEF Share, Linked

\* A step after which no more ingests have looked for what they share.
LEMMA CrossedKept ==
  ASSUME Crossed, Fetched' \subseteq Fetched, edges \subseteq edges', related' = related,
         \A i \in Fetched' : landed'[i] = landed[i] /\ found'[i] = found[i]
  PROVE  Crossed'
<1>1. ASSUME NEW i \in Fetched', NEW j \in Fetched', SampleIn[i] # SampleIn[j]
      PROVE  /\ Share(i, j)' => {SampleIn[i], SampleIn[j]} \in edges' \cup found'[i] \cup found'[j]
             /\ {i, j} \subseteq related /\ {SampleIn[i], SampleIn[j]} \in Similar =>
                  {SampleIn[i], SampleIn[j]} \in edges'
  <2>1. Share(i, j)' <=> Share(i, j)
    BY ShareSame
  <2>2. i \in Fetched /\ j \in Fetched /\ found'[i] = found[i] /\ found'[j] = found[j]
    OBVIOUS
  <2> QED
    BY <1>1, <2>1, <2>2 DEF Crossed
<1> QED
  BY <1>1 DEF Crossed

LEMMA CrossedNext ==
  ASSUME EnrichmentType, InTurn, Crossed, [EnrichmentNext]_enrichment
  PROVE  Crossed'
<1> USE DEF EnrichmentType
<1>1. ASSUME NEW i \in Ingests, FetchShared(i) PROVE Crossed'
  <2>1. /\ place[i] = "fetch" /\ place' = [place EXCEPT ![i] = "relate"]
        /\ found' = [found EXCEPT ![i] = SharedEdges(SampleIn[i])]
        /\ UNCHANGED <<row, landed, related, edges>>
    BY <1>1 DEF FetchShared, shared
  <2>2. i \notin related /\ Fetched' \subseteq Fetched \cup {i}
    BY <2>1 DEF InTurn, Fetched
  <2>3. \A k, l : Share(k, l)' <=> Share(k, l)
    BY <2>1, ShareSame
  <2>4. ASSUME NEW k \in Fetched', NEW l \in Fetched', SampleIn[k] # SampleIn[l], Share(k, l)
        PROVE  {SampleIn[k], SampleIn[l]} \in edges \cup found'[k] \cup found'[l]
    <3>1. k \in row /\ l \in row
      BY <2>1 DEF Fetched
    <3>2. CASE k = i
      BY <2>1, <2>4, <3>1, <3>2, ShareFound
    <3>3. CASE l = i
      <4>1. Share(l, k)
        BY <2>4 DEF Share
      <4>2. {SampleIn[l], SampleIn[k]} \in SharedEdges(SampleIn[l])
        BY <2>4, <3>1, <4>1, ShareFound
      <4>3. {SampleIn[l], SampleIn[k]} = {SampleIn[k], SampleIn[l]}
        OBVIOUS
      <4> QED
        BY <2>1, <3>3, <4>2, <4>3
    <3>4. CASE k # i /\ l # i
      <4>1. k \in Fetched /\ l \in Fetched /\ found'[k] = found[k] /\ found'[l] = found[l]
        BY <2>1, <2>2, <3>1, <3>4
      <4> QED
        BY <2>4, <4>1 DEF Crossed
    <3> QED
      BY <3>2, <3>3, <3>4
  <2>5. ASSUME NEW k \in Fetched', NEW l \in Fetched', SampleIn[k] # SampleIn[l],
               {k, l} \subseteq related, {SampleIn[k], SampleIn[l]} \in Similar
        PROVE  {SampleIn[k], SampleIn[l]} \in edges
    BY <2>2, <2>5 DEF Crossed
  <2> QED
    BY <2>1, <2>3, <2>4, <2>5 DEF Crossed
<1>2. ASSUME NEW i \in Ingests, Relate(i) PROVE Crossed'
  <2>1. /\ place[i] = "relate" /\ place' = [place EXCEPT ![i] = "ended"]
        /\ edges' = edges \cup found[i] \cup SimilarEdges(SampleIn[i])
        /\ related' = related \cup {i} /\ found' = [found EXCEPT ![i] = {}]
        /\ UNCHANGED <<row, landed, cored>>
    BY <1>2 DEF Relate
  <2>2. Fetched' \subseteq Fetched
    BY <2>1 DEF Fetched
  <2>3. \A k, l : Share(k, l)' <=> Share(k, l)
    BY <2>1, ShareSame
  <2>4. ASSUME NEW k \in Fetched', NEW l \in Fetched', SampleIn[k] # SampleIn[l], Share(k, l)
        PROVE  {SampleIn[k], SampleIn[l]} \in edges' \cup found'[k] \cup found'[l]
    <3>1. {SampleIn[k], SampleIn[l]} \in edges \cup found[k] \cup found[l] /\ k \in row /\ l \in row
      BY <2>2, <2>4 DEF Crossed, Fetched
    <3>2. \A m \in row : found[m] \subseteq edges' \cup found'[m]
      BY <2>1
    <3> QED
      BY <2>1, <3>1, <3>2
  <2>5. i \in cored /\ related \subseteq cored /\ related \subseteq Ingests
    BY <2>1 DEF InTurn
  <2>6. ASSUME NEW k \in Fetched', NEW l \in Fetched', SampleIn[k] # SampleIn[l],
               k \in related', l \in related', {SampleIn[k], SampleIn[l]} \in Similar
        PROVE  {SampleIn[k], SampleIn[l]} \in edges'
    <3>1. CASE k # i /\ l # i
      BY <2>1, <2>2, <2>6, <3>1 DEF Crossed
    <3>2. CASE k = i \/ l = i
      <4>1. k \in cored /\ l \in cored
        BY <2>1, <2>5, <2>6
      <4> QED
        BY <2>1, <2>6, <3>2, <4>1 DEF SimilarEdges
    <3> QED
      BY <3>1, <3>2
  <2> QED
    BY <2>1, <2>3, <2>4, <2>6 DEF Crossed
<1>3. ASSUME NEW i \in Ingests, RelateFails(i) PROVE Crossed'
  <2>1. /\ place[i] # "ended" /\ place' = [place EXCEPT ![i] = "ended"]
        /\ found' = [found EXCEPT ![i] = {}]
        /\ UNCHANGED <<row, landed, related, edges>>
    BY <1>3 DEF RelateFails, shared
  <2>2. Fetched' \subseteq Fetched \ {i} /\ Fetched \subseteq Ingests
    BY <2>1 DEF Fetched, InTurn
  <2>3. \A k \in Fetched' : landed'[k] = landed[k] /\ found'[k] = found[k]
    BY <2>1, <2>2
  <2> QED
    BY <2>1, <2>2, <2>3, CrossedKept
<1>4. ASSUME NEW i \in Ingests, DeleteAnalysis(i) PROVE Crossed'
  <2>1. /\ row' = row \ {i} /\ landed' = [landed EXCEPT ![i] = {}]
        /\ UNCHANGED <<place, found, related, edges>>
    BY <1>4 DEF DeleteAnalysis, work
  <2>2. Fetched' \subseteq Fetched \ {i} /\ Fetched \subseteq Ingests
    BY <2>1 DEF Fetched
  <2>3. \A k \in Fetched' : landed'[k] = landed[k] /\ found'[k] = found[k]
    BY <2>1, <2>2
  <2> QED
    BY <2>1, <2>2, <2>3, CrossedKept
<1>5. ASSUME NEW i \in Ingests, Commit(i) \/ Lose(i) PROVE Crossed'
  <2>1. /\ \E p \in {"fetch", "ended"} : place' = [place EXCEPT ![i] = p]
        /\ place[i] \in {"group", "commit"}
        /\ \A k \in Ingests \ {i} : landed'[k] = landed[k]
        /\ UNCHANGED <<found, row, related, edges>>
    BY <1>5 DEF Commit, Lose, Ends, Lands
  <2>2. Fetched' \subseteq Fetched \ {i} /\ Fetched \subseteq Ingests
    BY <2>1 DEF Fetched, InTurn
  <2>3. \A k \in Fetched' : landed'[k] = landed[k] /\ found'[k] = found[k]
    BY <2>1, <2>2
  <2> QED
    BY <2>1, <2>2, <2>3, CrossedKept
<1>6. ASSUME NEW i \in Ingests, Finish(i) \/ (Fails(i) /\ place[i] = "group") PROVE Crossed'
  <2>1. /\ place[i] = "group" /\ Leave(i) /\ UNCHANGED <<found, landed, row, related, edges>>
    BY <1>6 DEF Finish, Fails, shared
  <2>2. place' = place \/ place' = [place EXCEPT ![i] = "commit"]
    BY <2>1 DEF Leave
  <2>3. Fetched' \subseteq Fetched
    BY <2>1, <2>2 DEF Fetched
  <2> QED
    BY <2>1, <2>3, CrossedKept
<1>7. ASSUME NEW i \in Ingests, CommitCore(i) \/ LoseCore(i) PROVE Crossed'
  <2>1. /\ \E p \in {"group", "ended"} : place' = [place EXCEPT ![i] = p]
        /\ UNCHANGED <<found, landed, row, related, edges>>
    BY <1>7 DEF CommitCore, LoseCore
  <2>2. Fetched' \subseteq Fetched
    BY <2>1 DEF Fetched
  <2> QED
    BY <2>1, <2>2, CrossedKept
<1>8. CASE UNCHANGED <<place, found, landed, row, related, edges>>
  <2>1. Fetched' = Fetched
    BY <1>8 DEF Fetched
  <2> QED
    BY <1>8, <2>1, CrossedKept
<1>9. ASSUME NEW i \in Ingests, Upsert(i)
      PROVE  UNCHANGED <<place, found, landed, row, related, edges>>
  BY <1>9 DEF Upsert, shared
<1>10. CASE UNCHANGED enrichment
  BY <1>10, <1>8 DEF enrichment, shared, work
<1> QED
  BY <1>1, <1>2, <1>3, <1>4, <1>5, <1>6, <1>7, <1>8, <1>9, <1>10, FailsInGroup
  DEF EnrichmentNext, IngestStep, IngestTrouble

LEMMA EnrichmentInductive == EnrichmentSpec => []EnrichmentIInv
<1>1. EnrichmentInit => EnrichmentIInv
  <2> SUFFICES ASSUME EnrichmentInit PROVE EnrichmentIInv
    OBVIOUS
  <2>1. GroupsPassed
    BY DEF EnrichmentInit, GroupsPassed
  <2>2. GroupsAccounted /\ InTurn
    <3>1. \A i \in Ingests : landed[i] # {} => GroupNames \ (landed[i] \cup named[i]) = {}
      BY DEF EnrichmentInit
    <3>2. \A i \in Ingests : untold[i] = 0
      BY DEF EnrichmentInit
    <3>3. ASSUME NEW i \in row, landed[i] # {}
          PROVE  Cardinality(GroupNames \ (landed[i] \cup named[i])) <= untold[i]
      <4>1. i \in Ingests
        BY DEF EnrichmentInit
      <4>2. Cardinality(GroupNames \ (landed[i] \cup named[i])) = 0
        BY <3>1, <3>3, <4>1, FS_EmptySet
      <4> QED
        BY <3>2, <4>1, <4>2
    <3> QED
      BY <3>3, EnrichmentAssumption DEF EnrichmentInit, GroupsAccounted, InTurn
  <2>3. Crossed
    <3>1. Fetched = Older /\ related = Older /\ row = Ingests /\ Older \subseteq Ingests /\ cored = Older
      BY EnrichmentAssumption DEF EnrichmentInit, Fetched
    <3>2. edges = UNION {SharedEdges(SampleIn[i]) \cup SimilarEdges(SampleIn[i]) : i \in Older}
      BY DEF EnrichmentInit
    <3>3. ASSUME NEW i \in Older, NEW j \in Older, SampleIn[i] # SampleIn[j]
          PROVE  /\ Share(i, j) => {SampleIn[i], SampleIn[j]} \in SharedEdges(SampleIn[i])
                 /\ {SampleIn[i], SampleIn[j]} \in Similar =>
                      {SampleIn[i], SampleIn[j]} \in SimilarEdges(SampleIn[i])
      BY <3>1, <3>3, ShareFound DEF SimilarEdges
    <3>4. ASSUME NEW i \in Older, NEW j \in Older, SampleIn[i] # SampleIn[j],
                 Share(i, j) \/ {SampleIn[i], SampleIn[j]} \in Similar
          PROVE  {SampleIn[i], SampleIn[j]} \in edges
      <4> DEFINE e == {SampleIn[i], SampleIn[j]}
                 found_i == SharedEdges(SampleIn[i]) \cup SimilarEdges(SampleIn[i])
      <4>1. e \in found_i
        BY <3>3, <3>4
      <4>2. found_i \subseteq edges
        BY <3>2
      <4> QED
        BY <4>1, <4>2
    <3> QED
      BY <3>1, <3>4 DEF Crossed
  <2> QED
    BY EnrichmentInitial, <2>1, <2>2, <2>3 DEF EnrichmentIInv
<1>2. EnrichmentIInv /\ [EnrichmentNext]_enrichment => EnrichmentIInv'
  BY GroupsNext, AccountedNext, InTurnNext, CrossedNext DEF EnrichmentIInv
<1> QED
  BY <1>1, <1>2, PTL DEF EnrichmentSpec

\* "Anything refused rolls back that group only, and is recorded": what an enrichment
\* did not land is named beside the report or among the rest that the list counts, for
\* any number of ingests in each other's way, of complaints, and any length of the list.
THEOREM EnrichmentAccounts == EnrichmentSpec => []GroupsAccounted
BY EnrichmentInductive, PTL DEF EnrichmentIInv

\* Of two ingests that got to their relationships, one has seen the other's values:
\* the edge of what the two samples share is there.
THEOREM EdgesAreFound == EnrichmentSpec => []EdgesFound
<1>1. EnrichmentIInv => EdgesFound
  BY DEF EnrichmentIInv, EnrichmentType, InTurn, Crossed, Fetched, EdgesFound
<1> QED
  BY EnrichmentInductive, <1>1, PTL
=============================================================================

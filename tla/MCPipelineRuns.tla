--------------------------- MODULE MCPipelineRuns ---------------------------
(***************************************************************************)
(* An instance of PipelineRuns, a run and the replay of its report; and    *)
(* one of Enrichment: two ingests that name the same IOCs and techniques   *)
(* in opposite orders, beside an older analysis of the first one's sample. *)
(* They meet in one table only, so a behaviour exercises one of them.      *)
(***************************************************************************)
EXTENDS PipelineRuns, Enrichment, TLC

CONSTANTS r1, p1, sha, u, v, w, t1, t2, Parts

OneRun     == {r1}
OneReplay  == {p1}
OfFirst    == p1 :> r1
OneSample  == r1 :> sha
TriageCape == <<"triage", "cape">>

Nothing == [g \in GroupNames |-> <<>>]

Crossing ==
  0 :> [Nothing EXCEPT !["iocs"] = <<u>>] @@
  1 :> [Nothing EXCEPT !["iocs"] = <<u, v>>, !["techniques_ai"] = <<t1>>,
                       !["techniques_cape"] = <<t2>>, !["capabilities"] = <<w>>,
                       !["correlations"] = <<w>>,
                       !["ioc_technique_mappings"] = <<[ioc |-> v, technique |-> t1]>>] @@
  2 :> [Nothing EXCEPT !["iocs"] = <<v, u>>, !["techniques_ai"] = <<t2>>,
                       !["ioc_technique_mappings"] =
                          <<[ioc |-> w, technique |-> t2], [ioc |-> u, technique |-> t1]>>]

Sample == 0 :> 1 @@ 1 :> 1 @@ 2 :> 2

\* The first report can fill the list of warnings before any group is named.
Complaints == 0 :> 0 @@ 1 :> 2 @@ 2 :> 0
Cleanings  == 0 :> 0 @@ 1 :> 0 @@ 2 :> 1

VARIABLE part

MCInit == Init /\ EnrichmentInit /\ part \in Parts

RowsStep(A) == part = "rows" /\ A /\ UNCHANGED <<enrichment, part>>
EnrichStep(A) == part = "enrichment" /\ A /\ UNCHANGED <<vars, part>>

MCNext == RowsStep(Next) \/ EnrichStep(EnrichmentNext)

mcvars == <<vars, enrichment, part>>

\* As in FairSpec, time passes and runs keep being started.  A statement ends, and the
\* deadlock detector finds a circle.
MCSpec ==
  /\ MCInit /\ [][MCNext]_mcvars
  /\ WF_mcvars(RowsStep(Tick)) /\ WF_mcvars(RowsStep(OtherRunStarts))
  /\ \A i \in Ingests : WF_mcvars(EnrichStep(IngestStep(i)))
=============================================================================

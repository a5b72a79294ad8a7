----------------------------- MODULE StageFlow ------------------------------
(***************************************************************************)
(* run_pipeline from the submission to the interpretation: CAPE (Stage 2), *)
(* memory forensics (3), static analysis (4), cross-tool correlation and   *)
(* the choice of what the agent reads (4.5).  One thread goes through them *)
(* in order; beside it run CAPE and the plugins of the memory stage.       *)
(*                                                                         *)
(* Each stage reads what the earlier ones left in the report, so a failure *)
(* shows where its section is read and not where it happened.              *)
(***************************************************************************)
EXTENDS StaticStage

vars == <<capeVars, memVars, corrVars, staticVars>>

Init ==
  /\ sample \in Samples
  /\ CapeInit /\ MemoryInit /\ CorrInit /\ StaticInit

\* Stages 2.5 and 2.7 collect candidates and traffic; of Stage 2 only the
\* report's section and the intelligence are read from here on.
LeaveCape ==
  /\ cpc = "done"
  /\ cpc' = "over"
  /\ task' = "none" /\ startedAt' = Never
  /\ waited' = 0 /\ started' = FALSE /\ errors' = 0
  /\ UNCHANGED <<sample, cape, intel, memVars, corrVars, staticVars>>

\* Stage 4 begins; of Stage 3 only the report's section is read.
LeaveMemory ==
  /\ mpc = "done" /\ spc = "idle"
  /\ spc' = "route"
  /\ clock' = 0 /\ alarm' = "off" /\ busy' = 0 /\ pids' = 0 /\ vad' = "none"
  /\ plug' = [p \in Plugins |-> "none"] /\ left' = [p \in Plugins |-> 0]
  /\ got' = [p \in Plugins |-> "none"]
  /\ UNCHANGED <<capeVars, mpc, vol, corrVars>>
  /\ UNCHANGED <<tool, shell, routed, files, canonical, target>>

\* Correlation runs before the choice: the agent is shown its findings.
Correlate ==
  /\ spc = "correlate"
  /\ CrossCorrelate
  /\ spc' = IF routed THEN "payload" ELSE "wrapper"
  /\ UNCHANGED <<capeVars, memVars>>
  /\ UNCHANGED <<tool, shell, routed, files, canonical, target>>

Cape   == CapeNext /\ UNCHANGED <<memVars, corrVars, staticVars>>
Memory == MemoryNext /\ UNCHANGED <<corrVars, staticVars>>
Static == StaticNext /\ UNCHANGED <<capeVars, memVars, corrVars>>

Next == Cape \/ LeaveCape \/ Memory \/ LeaveMemory \/ Static \/ Correlate

\* The thread goes on: requests, plugins and analysers have timeouts.  CAPE
\* promises nothing.
Pipeline ==
  \/ CapeStage /\ UNCHANGED <<memVars, corrVars, staticVars>>
  \/ LeaveCape \/ Memory \/ LeaveMemory \/ Static \/ Correlate

Spec == Init /\ [][Next]_vars /\ WF_vars(Pipeline)
-----------------------------------------------------------------------------
\* The sections of the report and the stages' own variables stay in shape.
TypeOK ==
  /\ sample \in SampleRecord
  /\ CapeTypeOK /\ MemoryTypeOK /\ CorrTypeOK /\ StaticTypeOK

Correlated == spc \in {"payload", "wrapper", "done"}

\* run-pipeline.py, "No cross-tool findings detected": once Volatility was
\* asked for, an empty correlation_warnings means that every rule had its sources,
\* whatever failed on the way (plugins, the alarm, CAPE's manifest, the reads at the
\* injected addresses, a rule): a rule that still missed something missed it to a
\* loader that passes over a single file or record.
SilenceCovers ==
  Correlated /\ warnings = {} /\ vol.state # "off" => blind \subseteq passed

\* correlation_rules.py, _cape_warnings: the section of a sandbox run that was
\* tried and failed is not read as a clean sample's.
SilenceMeansChecked ==
  Correlated /\ warnings = {} => cape.status \in {"reported", "skipped"}

\* Whatever CAPE, its API, the plugins and the alarm do, the run gets to its
\* interpretation, unless a program vanishes before it is hashed; and a report that CAPE
\* finishes within the window is read, by its last poll too, unless a request failed or
\* the answer was of another shape.
Interpreted ==
  /\ <>(spc \in {"done", "raised"})
  /\ (cpc = "poll" /\ task = "reported" /\ waited < CapeTimeout)
       ~> (cpc = "done" /\ (cape.status \in {"reported", "error"} \/ errors > 0))
-----------------------------------------------------------------------------
(* The inductive invariant.                                                *)

\* One thread: a stage is past its start only when the one before it is over.
InOrder ==
  /\ mpc # "idle" => cpc = "over"
  /\ spc # "idle" => mpc = "done"

\* While every request is answered, a task that runs unseen started since the
\* last answer.
PollInv ==
  /\ task \notin CapeStarted => startedAt = Never
  /\ cpc = "submit" => task = "none" /\ ~started
  /\ cpc = "poll" /\ ~started /\ errors = 0 /\ task \in CapeStarted => startedAt = waited

\* Results are taken of plugins that ended, and the pool is over when the main
\* thread goes on.
PoolInv ==
  /\ \A p \in Plugins : got[p] # "none" => plug[p] \in Finished
  /\ mpc = "idle" => \A p \in Plugins : plug[p] = "none"
  /\ mpc \in {"dump", "vadinfo", "images"} => \A p \in Plugins : plug[p] \in Finished

\* An answer of the verifier is true.  A canonical program is not known to be
\* missing and every success has its host path; without one all are missing.
ChoiceInv ==
  /\ \A p \in DOMAIN files : files[p].probe = "no" => ~files[p].held
  /\ spc \in {"idle", "route"} => DOMAIN files = {}
  /\ spc \in {"idle", "route", "load", "select", "raised"} => canonical = "none" /\ target = "none"
  /\ canonical # "none" =>
       /\ canonical \in Usable /\ ~KnownMissing(canonical)
       /\ \A p \in Successful : files[p].host
  /\ canonical = "none" /\ spc \notin {"idle", "route", "load", "select", "raised"} =>
       \A p \in Successful : KnownMissing(p)

IInv ==
  /\ TypeOK /\ InOrder /\ PollInv /\ PoolInv /\ ChoiceInv
  /\ NeverStartedHonest /\ QuietAfterwards /\ SilenceCovers
  /\ BestProgram /\ ReadableTarget
=============================================================================

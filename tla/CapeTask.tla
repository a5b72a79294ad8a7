------------------------------ MODULE CapeTask ------------------------------
(***************************************************************************)
(* Stage 2 of run_pipeline: a CAPE task submitted, polled until it is      *)
(* reported, fails or the wait runs out, and its report read.              *)
(*                                                                         *)
(* CAPE moves its task on at any moment.  The poll sees it once per        *)
(* interval, and not at all when a request fails.  Time is the poll's own  *)
(* wait, in ticks; it starts with the submission's answer.                 *)
(***************************************************************************)
EXTENDS Naturals

CONSTANTS
  CapeTimeout,    \* CAPE_TIMEOUT
  PollInterval,   \* CAPE_POLL_INTERVAL
  RequestTime,    \* longest request to the API, less than the interval
  MaxErrors,      \* bound: failing requests
  MaxPids         \* bound: processes CAPE saw injection into

ASSUME CapeAssumption ==
  /\ CapeTimeout \in Nat \ {0} /\ PollInterval \in Nat \ {0}
  /\ RequestTime \in Nat /\ MaxErrors \in Nat /\ MaxPids \in Nat

VARIABLES
  sample,           \* what triage found, and the configuration
  task, startedAt,  \* CAPE's task, and when it was started
  cpc,              \* the stage
  waited, started,  \* time since the poll began; started
  errors,           \* requests that failed
  cape,             \* report["cape"]: status, and whether task_id is recorded
  intel             \* what extract_cape_intel read

poll     == <<waited, started, errors>>
capeVars == <<sample, task, startedAt, cpc, poll, cape, intel>>

\* The statuses of failed_analysis, failed_processing and failed_reporting
\* are one; "distributed" and "recovered" are as "running".
CapeFailed  == {"failed"}
TaskStates  == {"none", "pending", "running", "completed", "reported"} \cup CapeFailed
CapeStarted == {"running", "completed", "reported"} \cup CapeFailed

CapeStatuses == {"none", "skipped", "never_started", "timeout", "error",
                 "reported"} \cup CapeFailed

\* Injected pids, buffers CAPE captured, a signature that triggers Volatility.
NoIntel == [pids |-> 0, buffers |-> FALSE, trigger |-> FALSE]
Intels  == [pids : 0 .. MaxPids, buffers : BOOLEAN, trigger : BOOLEAN]

\* When the task was not started.
Never == CapeTimeout + PollInterval + RequestTime

CapeInit ==
  /\ task = "none" /\ startedAt = Never
  /\ cpc = "submit"
  /\ waited = 0 /\ started = FALSE /\ errors = 0
  /\ cape = [status |-> "none", id |-> FALSE] /\ intel = NoIntel
-----------------------------------------------------------------------------
(* CAPE.                                                                   *)

CapeStarts ==
  /\ task = "pending" /\ cpc = "poll"
  /\ task' = "running" /\ startedAt' = waited
  /\ UNCHANGED <<sample, cpc, poll, cape, intel>>

CapeMoves ==
  /\ cpc = "poll"
  /\ \/ task = "running" /\ task' \in {"completed"} \cup CapeFailed
     \/ task = "completed" /\ task' \in {"reported"} \cup CapeFailed
  /\ UNCHANGED <<sample, startedAt, cpc, poll, cape, intel>>
-----------------------------------------------------------------------------
(* The stage.                                                              *)

\* cape_data is {} for every ending without a task id.
Ended(status, id) == cpc' = "done" /\ cape' = [status |-> status, id |-> id]

\* A binary that is not for Windows.
SkipCape ==
  /\ cpc = "submit" /\ ~sample.windows
  /\ Ended("skipped", FALSE)
  /\ UNCHANGED <<sample, task, startedAt, poll, intel>>

\* CapeNotScheduling: storage below the floor of CAPE's scheduler.
RefuseSubmission ==
  /\ cpc = "submit" /\ sample.windows
  /\ Ended("never_started", FALSE)
  /\ UNCHANGED <<sample, task, startedAt, poll, intel>>

SubmitTask ==
  /\ cpc = "submit" /\ sample.windows
  /\ task' = "pending"
  /\ cpc' = "poll"
  /\ UNCHANGED <<sample, startedAt, poll, cape, intel>>

\* No answer, or an answer lost after CAPE accepted the sample.
SubmitFails ==
  /\ cpc = "submit" /\ sample.windows /\ errors < MaxErrors
  /\ errors' = errors + 1
  /\ task' \in {"none", "pending"}
  /\ Ended("error", FALSE)
  /\ UNCHANGED <<sample, startedAt, waited, started, intel>>

\* The request's own time, then the sleep.
Waits == \E d \in 0 .. RequestTime : waited' = waited + d + PollInterval

PollAnswered ==
  /\ cpc = "poll" /\ waited < CapeTimeout
  /\ started' = (started \/ task \in CapeStarted)
  /\ IF task = "reported" THEN cpc' = "extract" /\ UNCHANGED <<waited, cape>>
     ELSE IF task \in CapeFailed THEN Ended(task, TRUE) /\ UNCHANGED waited
     ELSE Waits /\ UNCHANGED <<cpc, cape>>
  /\ UNCHANGED <<sample, task, startedAt, errors, intel>>

\* requests.RequestException: said, and waited out like an answer.
PollFails ==
  /\ cpc = "poll" /\ waited < CapeTimeout /\ errors < MaxErrors
  /\ errors' = errors + 1
  /\ Waits
  /\ UNCHANGED <<sample, task, startedAt, cpc, started, cape, intel>>

\* Mutant of GiveUp: the window closes only on a task that was started.
GiveUpStarted ==
  /\ cpc = "poll" /\ waited >= CapeTimeout /\ started
  /\ Ended("timeout", TRUE)
  /\ UNCHANGED <<sample, task, startedAt, poll, intel>>

\* The wait has run out; the task is not asked for once more.
GiveUp ==
  /\ cpc = "poll" /\ waited >= CapeTimeout
  /\ Ended(IF started THEN "timeout" ELSE "never_started", TRUE)
  /\ UNCHANGED <<sample, task, startedAt, poll, intel>>

\* The status is "reported" whether the report could be read or not: a report
\* that is missing or does not parse leaves no intelligence, and buffers that are not
\* decoded or not written are passed over.
ExtractIntel ==
  /\ cpc = "extract"
  /\ intel' \in {NoIntel, sample.behaviour, [sample.behaviour EXCEPT !.buffers = FALSE]}
  /\ Ended("reported", TRUE)
  /\ UNCHANGED <<sample, task, startedAt, poll>>

\* An answer of another shape, or extract_cape_intel raised: the whole section
\* is replaced, task id and all.
StageRaises ==
  /\ \/ cpc = "poll" /\ waited < CapeTimeout
     \/ cpc = "extract"
  /\ Ended("error", FALSE)
  /\ UNCHANGED <<sample, task, startedAt, poll, intel>>

CapeStage ==
  \/ SkipCape \/ RefuseSubmission \/ SubmitTask \/ SubmitFails
  \/ PollAnswered \/ PollFails \/ GiveUp \/ ExtractIntel \/ StageRaises

CapeNext == CapeStarts \/ CapeMoves \/ CapeStage
-----------------------------------------------------------------------------
CapeTypeOK ==
  /\ task \in TaskStates /\ startedAt \in 0 .. Never
  /\ cpc \in {"submit", "poll", "extract", "done", "over"}
  /\ waited \in 0 .. Never /\ started \in BOOLEAN /\ errors \in 0 .. MaxErrors
  /\ cape \in [status : CapeStatuses, id : BOOLEAN]
  /\ intel \in Intels

\* poll_cape_task, #795: a task that got an id and is reported as never started
\* was not started while the poll could have seen it.  When every request was
\* answered, CAPE took it on within one interval of the window's end, or never.
NeverStartedHonest ==
  cpc = "done" /\ cape.status = "never_started" /\ cape.id /\ errors = 0
    => startedAt + PollInterval + RequestTime >= CapeTimeout
=============================================================================

------------------------------ MODULE Detonate ------------------------------
(***************************************************************************)
(* make detonate: one sample detonated several times by run_batch, one     *)
(* task at a time on one pinned guest, and a scorecard of the runs that    *)
(* may be compared, by tier.                                               *)
(*                                                                         *)
(* A task is the number CAPE gives it.  The deadline of the poll passes    *)
(* when it passes: no clock is needed for what is checked.                 *)
(***************************************************************************)
EXTENDS Naturals, Sequences, FiniteSets

CONSTANTS
  RunsAsked,      \* --runs
  MaxBatches,     \* bound: starts of the unit
  Pinned, Guests, \* --machine, and the guests CAPE has
  Tiers,          \* of detonation_health
  NoGuest

ASSUME DetonateAssumption ==
  /\ RunsAsked \in Nat \ {0} /\ MaxBatches \in Nat
  /\ Pinned \in Guests /\ NoGuest \notin Guests /\ IsFiniteSet(Guests)

Tasks == 1 .. RunsAsked * MaxBatches

Failed    == {"failed_analysis", "failed_processing", "failed_reporting"}
Final     == {"reported"} \cup Failed
\* classify_poll's: a task that failed in reporting is waited for.
TerminalFailures == Failed \ {"failed_reporting"}

VARIABLES
  status, guest,   \* CAPE's tasks: "none" until created; which guest ran it
  newest,          \* the last task created
  batchOf,         \* the batch that created a task
  together,        \* pairs of tasks that were outstanding at one time
  dpc,             \* run_batch: where it is
  runs,            \* result.runs: completed ones, [task, tier]
  aborted,         \* result.aborted
  batches,         \* starts of the unit
  scorecards       \* what was written

cape     == <<status, guest, newest, batchOf, together>>
detonate == <<cape, dpc, runs, aborted, batches, scorecards>>

DetonateInit ==
  /\ status = [t \in Tasks |-> "none"] /\ guest = [t \in Tasks |-> NoGuest]
  /\ newest = 0 /\ batchOf = [t \in Tasks |-> 0] /\ together = {}
  /\ dpc = "off" /\ runs = <<>> /\ aborted = FALSE /\ batches = 0
  /\ scorecards = {}

Outstanding == {t \in Tasks : status[t] \in {"pending", "running", "completed"}}
-----------------------------------------------------------------------------
(* CAPE *)

\* The scheduler hands a task to a guest that is free, the pinned one unless
\* pinning does not hold.
CapeTakes(t) ==
  /\ status[t] = "pending"
  /\ \E g \in Guests :
       /\ \A u \in Tasks : status[u] = "running" => guest[u] # g
       /\ guest' = [guest EXCEPT ![t] = g]
  /\ status' = [status EXCEPT ![t] = "running"]
  /\ UNCHANGED <<newest, batchOf, together, dpc, runs, aborted, batches, scorecards>>

CapeWorks(t) ==
  /\ \/ status[t] = "running"
          /\ status' = [status EXCEPT ![t] = "completed"]
     \/ status[t] = "running"
          /\ status' = [status EXCEPT ![t] = "failed_analysis"]
     \/ status[t] = "completed" /\ \E s \in Final \ {"failed_analysis"} :
          status' = [status EXCEPT ![t] = s]
  /\ UNCHANGED <<guest, newest, batchOf, together, dpc, runs, aborted, batches,
                 scorecards>>

\* A submission: the machine is among its fields, memory never is.
Created ==
  LET t == newest + 1 IN
  /\ newest' = t
  /\ status' = [status EXCEPT ![t] = "pending"]
  /\ batchOf' = [batchOf EXCEPT ![t] = batches]
  /\ together' = together \cup {{t, u} : u \in Outstanding}
  /\ UNCHANGED guest
-----------------------------------------------------------------------------
(* run_batch *)

\* detonate.sh refuses while its own unit is busy.
StartDetonation ==
  /\ dpc = "off" /\ batches < MaxBatches
  /\ batches' = batches + 1
  /\ dpc' = "submit" /\ runs' = <<>> /\ aborted' = FALSE
  /\ UNCHANGED <<cape, scorecards>>

AbortBatch == aborted' = TRUE /\ dpc' = "score"

Submit ==
  /\ dpc = "submit" /\ Created
  /\ dpc' = "poll"
  /\ UNCHANGED <<runs, aborted, batches, scorecards>>

\* Refused, or an answer that did not come within 120 seconds.
SubmitFails ==
  /\ dpc = "submit"
  /\ Created \/ UNCHANGED cape
  /\ AbortBatch
  /\ UNCHANGED <<runs, batches, scorecards>>

PollDone ==
  /\ dpc = "poll" /\ status[newest] = "reported"
  /\ dpc' = "fetch"
  /\ UNCHANGED <<cape, runs, aborted, batches, scorecards>>

PollFailed ==
  /\ dpc = "poll" /\ status[newest] \in TerminalFailures
  /\ AbortBatch
  /\ UNCHANGED <<cape, runs, batches, scorecards>>

NextRun == dpc' = IF Len(runs') < RunsAsked THEN "submit" ELSE "score"

\* Mutant of PollDeadline: the batch skips ahead to its next run.
PollDeadlineSkips ==
  /\ dpc = "poll" /\ status[newest] # "reported" /\ newest < RunsAsked * MaxBatches
  /\ dpc' = "submit"
  /\ UNCHANGED <<cape, runs, aborted, batches, scorecards>>

\* The deadline, whatever the task's state if the last poll got no answer.
PollDeadline ==
  /\ dpc = "poll"
  /\ AbortBatch
  /\ UNCHANGED <<cape, runs, batches, scorecards>>

\* The report names the guest, and it is the pinned one.
RanPinned(t) == guest[t] = Pinned

Fetch ==
  /\ dpc = "fetch" /\ RanPinned(newest)
  /\ \E tier \in Tiers : runs' = Append(runs, [task |-> newest, tier |-> tier])
  /\ NextRun
  /\ UNCHANGED <<cape, aborted, batches, scorecards>>

\* The report cannot be read or does not name the guest; or names another.
FetchFails ==
  /\ dpc = "fetch"
  /\ AbortBatch
  /\ UNCHANGED <<cape, runs, batches, scorecards>>

\* measure is called outside of every try: the batch ends without a scorecard.
MeasureRaises ==
  /\ dpc = "fetch" /\ RanPinned(newest)
  /\ dpc' = "off"
  /\ UNCHANGED <<cape, runs, aborted, batches, scorecards>>

TiersOf(rs) == {rs[i].tier : i \in 1 .. Len(rs)}

\* summarize: the strata, and whether the pooled mean is a measurement.
Score ==
  /\ dpc = "score"
  /\ scorecards' = scorecards \cup
       {[batch |-> batches, runs |-> runs, aborted |-> aborted,
         pooled |-> Cardinality(TiersOf(runs)) <= 1]}
  /\ dpc' = "off"
  /\ UNCHANGED <<cape, runs, aborted, batches>>

\* systemctl stop, or a power loss.
StopDetonation ==
  /\ dpc # "off" /\ dpc' = "off"
  /\ UNCHANGED <<cape, runs, aborted, batches, scorecards>>

DetonateNext ==
  \/ \E t \in Tasks : CapeTakes(t) \/ CapeWorks(t)
  \/ StartDetonation \/ Submit \/ SubmitFails
  \/ PollDone \/ PollFailed \/ PollDeadline
  \/ Fetch \/ FetchFails \/ MeasureRaises \/ Score \/ StopDetonation
-----------------------------------------------------------------------------
\* batch.py, I1 to I4: the runs a scorecard compares were reported, on the pinned
\* guest, each without another run of its batch in flight beside it; a batch that
\* lacks runs says that it was aborted; and a pooled mean is called a
\* measurement only if no two of its runs were taken in different tiers.
ScorecardSound ==
  \A c \in scorecards :
    /\ \A i \in 1 .. Len(c.runs) :
         LET t == c.runs[i].task IN
         /\ status[t] = "reported" /\ guest[t] = Pinned
         /\ \A u \in Tasks \ {t} : {t, u} \in together => batchOf[u] # c.batch
    /\ Len(c.runs) < RunsAsked <=> c.aborted
    /\ c.pooled => \A i, j \in 1 .. Len(c.runs) : c.runs[i].tier = c.runs[j].tier

\* The inductive invariant behind it.
DetonateTypeOK ==
  /\ status \in [Tasks -> {"none", "pending", "running", "completed"} \cup Final]
  /\ guest \in [Tasks -> Guests \cup {NoGuest}] /\ batchOf \in [Tasks -> 0 .. batches]
  /\ dpc \in {"off", "submit", "poll", "fetch", "score"}
  /\ runs \in Seq([task : Tasks, tier : Tiers]) /\ aborted \in BOOLEAN
  /\ batches \in 0 .. MaxBatches /\ newest \in Nat

\* Tasks are created in order, at most RunsAsked by a batch.
TasksCreated ==
  /\ \A t \in Tasks : t > newest <=> status[t] = "none"
  /\ newest <= RunsAsked * batches
  /\ dpc # "off" => batches > 0
  /\ dpc \in {"submit", "poll", "fetch"} =>
       newest <= RunsAsked * (batches - 1) + Len(runs) + (IF dpc = "submit" THEN 0 ELSE 1)
  /\ dpc \in {"poll", "fetch"} =>
       newest > 0 /\ batchOf[newest] = batches
  /\ dpc = "fetch" => status[newest] = "reported"

\* A batch submits when all it has submitted are over.
OneAtATime ==
  /\ dpc \in {"submit", "fetch"} =>
       \A t \in Outstanding : batchOf[t] # batches
  /\ dpc = "poll" => \A t \in Outstanding \ {newest} : batchOf[t] # batches
  /\ \A t, u \in Tasks : t # u /\ {t, u} \in together =>
       t <= newest /\ batchOf[t] # batchOf[u]

RunsReported(rs, b) ==
  \A i \in 1 .. Len(rs) :
    /\ rs[i].task \in Tasks /\ status[rs[i].task] = "reported"
    /\ guest[rs[i].task] = Pinned /\ batchOf[rs[i].task] = b

CardHolds(c) ==
  /\ RunsReported(c.runs, c.batch)
  /\ Len(c.runs) < RunsAsked <=> c.aborted
  /\ c.pooled => \A i, j \in 1 .. Len(c.runs) : c.runs[i].tier = c.runs[j].tier

RunsOfBatch ==
  /\ RunsReported(runs, batches)
  /\ dpc \in {"submit", "poll", "fetch"} => ~aborted /\ Len(runs) < RunsAsked
  /\ dpc = "score" => (Len(runs) < RunsAsked <=> aborted)
  /\ \A c \in scorecards : CardHolds(c)

DetonateIInv == DetonateTypeOK /\ TasksCreated /\ OneAtATime /\ RunsOfBatch

\* batch.py: "never submit while a task is outstanding".
OneInFlight == together = {}
=============================================================================

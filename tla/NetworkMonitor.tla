--------------------------- MODULE NetworkMonitor ---------------------------
(***************************************************************************)
(* network-monitor.sh: a check that cron starts every five minutes.  It    *)
(* asks its questions of the host, queues an alert for each bad answer in  *)
(* a temporary file, and at its end sends what is new and writes what it   *)
(* sent to status.json.  The script runs under errexit and pipefail, so a  *)
(* question whose pipeline fails ends it, and its queue with it.           *)
(*                                                                         *)
(* A condition is a number: 0 when it does not hold, otherwise its details *)
(* (the alert's text, of which status.json keeps a hash).  One check runs  *)
(* at a time.                                                              *)
(***************************************************************************)
EXTENDS Ntfy, FiniteSets

CONSTANTS
  Watched,      \* the conditions that may arise
  MaxDetail,    \* bound: different details of one condition
  MaxChanges,   \* bound: changes of the host's condition
  MaxPackets,   \* bound: packets let through to one network
  MaxCuts,      \* bound: checks killed
  Absent, Torn  \* baseline.json before its first write, and cut in one

Breaches == {"breach_internet", "breach_management"}

\* Questions asked through a pipeline whose failure is the script's: a psql
\* that cannot connect, a grep that finds no address, a find cut by SIGPIPE.
Fragile == {"cape_machines", "inetsim_dns", "sample_exposure"}

AlertKeys ==
  {"air_gap_rules", "qemu_breakout", "proc_cape", "proc_pipeline",
   "proc_autofeeder", "proc_notify", "proc_api", "cape_storage"}
    \cup Breaches \cup Fragile

ASSUME MonitorAssumption ==
  /\ Watched \subseteq AlertKeys /\ Absent # Torn
  /\ MaxDetail \in Nat \ {0} /\ MaxChanges \in Nat
  /\ MaxPackets \in Nat /\ MaxCuts \in Nat

Gaps      == Watched \cap Breaches
Standing  == Watched \ Breaches
Questions == Watched \cap Fragile

\* What touches the PAUSE file on its way to the queue.
Pausing == Breaches \cup {"air_gap_rules", "qemu_breakout"}

Priority(k) == IF k = "proc_api" THEN "critical" ELSE "high"

VARIABLES
  fault, failing,        \* the host: its conditions, and questions that fail
  accepted,              \* the counters of the bridge's ACCEPT rules
  changes,
  mpc,                   \* where the check is
  seen, queued, todo,    \* its counters, its queue, the keys to dispatch
  noted,                 \* the `notified` it is going to write
  baseline,              \* baseline.json
  notified, old,         \* status.json: what was notified; what is due again
  pausedByMonitor,       \* the monitor's PAUSE file
  attempted, told,       \* per condition, what was last sent, and last arrived
  sent, unsure,          \* sent by this check; sent by one that was killed
                         \* before it noted it
  cuts

world  == <<fault, failing, accepted, changes>>
check  == <<mpc, seen, queued, todo, noted>>
files  == <<baseline, notified, old, pausedByMonitor>>
phone  == <<attempted, told, sent, unsure>>
monitor == <<world, check, files, phone, cuts>>

None     == [k \in Watched |-> 0]
NoCount  == [k \in Gaps |-> 0]

MonitorInit ==
  /\ fault = [k \in Standing |-> 0] /\ failing = {} /\ accepted = NoCount
  /\ changes = 0
  /\ mpc = "idle" /\ seen = NoCount /\ queued = None /\ todo = {} /\ noted = None
  /\ baseline = Absent /\ notified = None /\ old = {}
  /\ pausedByMonitor = FALSE
  /\ attempted = None /\ told = None /\ sent = {} /\ unsure = {}
  /\ cuts = 0
-----------------------------------------------------------------------------
(* The host *)

Condition(k) ==
  /\ changes < MaxChanges /\ changes' = changes + 1
  /\ \E d \in 0 .. MaxDetail \ {fault[k]} : fault' = [fault EXCEPT ![k] = d]
  /\ UNCHANGED <<failing, accepted, check, files, phone, cuts>>

QuestionFails(k) ==
  /\ changes < MaxChanges /\ changes' = changes + 1
  /\ failing' = IF k \in failing THEN failing \ {k} ELSE failing \cup {k}
  /\ UNCHANGED <<fault, accepted, check, files, phone, cuts>>

PacketAccepted(k) ==
  /\ accepted[k] < MaxPackets
  /\ accepted' = [accepted EXCEPT ![k] = @ + 1]
  /\ UNCHANGED <<fault, failing, changes, check, files, phone, cuts>>

\* An entry of status.json passes RENOTIFY_SECONDS.
Ages(k) ==
  /\ mpc = "idle" /\ notified[k] # 0 /\ k \notin old
  /\ old' = old \cup {k}
  /\ UNCHANGED <<world, check, baseline, notified, pausedByMonitor, phone, cuts>>

HostNext ==
  \/ \E k \in Standing : Condition(k)
  \/ \E k \in Questions : QuestionFails(k)
  \/ \E k \in Gaps : PacketAccepted(k)
  \/ \E k \in Watched : Ages(k)
-----------------------------------------------------------------------------
(* A check *)

\* The rules are surveyed, the allowlist probed, then the counters are read.
Survey ==
  LET rules == Standing \cap {"air_gap_rules"}
      found == {k \in rules : fault[k] # 0} IN
  /\ mpc = "idle"
  /\ queued' = [k \in Watched |-> IF k \in found THEN fault[k] ELSE 0]
  /\ pausedByMonitor' = (pausedByMonitor \/ found # {})
  /\ seen' = accepted
  /\ mpc' = "compare"
  /\ UNCHANGED <<world, todo, noted, baseline, notified, old, phone, cuts>>

\* The process is gone, and its queue with it.
Over ==
  /\ mpc' = "idle"
  /\ seen' = NoCount /\ queued' = None /\ todo' = {} /\ noted' = None

\* The script dies of errexit; cron starts the next check.
Abort == Over /\ UNCHANGED <<world, files, phone, cuts>>

\* The alert names the number of new packets.
CompareBaseline ==
  LET found == {k \in Gaps : baseline # Absent /\ seen[k] > baseline[k]} IN
  /\ mpc = "compare" /\ baseline # Torn
  /\ queued' = [k \in Watched |->
                  IF k \in found THEN seen[k] - baseline[k] ELSE queued[k]]
  /\ pausedByMonitor' = (pausedByMonitor \/ found # {})
  /\ mpc' = "probe"
  /\ UNCHANGED <<world, seen, todo, noted, baseline, notified, old, phone, cuts>>

\* json.load of a baseline that was cut while it was written.
BaselineUnreadable == mpc = "compare" /\ baseline = Torn /\ Abort

\* Processes, storage, machines, DNS, exposure.  A find that is cut by SIGPIPE
\* may also get through.
ProbeHost ==
  LET asked == Standing \ {"air_gap_rules"}
      found == {k \in asked : fault[k] # 0} IN
  /\ mpc = "probe" /\ failing \subseteq {"sample_exposure"}
  /\ queued' = [k \in Watched |-> IF k \in found THEN fault[k] ELSE queued[k]]
  /\ pausedByMonitor' = (pausedByMonitor \/ found \cap Pausing # {})
  /\ mpc' = "baseline"
  /\ UNCHANGED <<world, seen, todo, noted, baseline, notified, old, phone, cuts>>

\* QEMU's children are looked at first, and a breakout pauses at once; its alert
\* is lost with the queue.
ProbeFails ==
  /\ mpc = "probe" /\ failing # {}
  /\ pausedByMonitor' =
       (pausedByMonitor \/ \E k \in Standing \cap {"qemu_breakout"} : fault[k] # 0)
  /\ Over
  /\ UNCHANGED <<world, baseline, notified, old, phone, cuts>>

\* Both files are truncated first and written after.
TruncateBaseline ==
  /\ mpc = "baseline"
  /\ baseline' = Torn /\ mpc' = "baseline2"
  /\ UNCHANGED <<world, seen, queued, todo, noted, notified, old,
                 pausedByMonitor, phone, cuts>>

WriteBaseline ==
  /\ mpc = "baseline2"
  /\ baseline' = seen
  /\ todo' = {k \in Watched : queued[k] # 0 \/ notified[k] # 0}
  /\ noted' = None /\ mpc' = "dispatch"
  /\ UNCHANGED <<world, seen, queued, notified, old, pausedByMonitor, phone, cuts>>

\* Mutant of IsNew: no reminder.
IsNewOnce(k) == notified[k] = 0 \/ notified[k] # queued[k]

\* Mutant of IsNew: a changed detail is taken for a repeat.
IsNewByKey(k) == notified[k] = 0 \/ k \in old

IsNew(k) == notified[k] = 0 \/ notified[k] # queued[k] \/ k \in old

\* push ignores what became of the message.
Push(k, detail, priority) ==
  /\ sent' = sent \cup {k} /\ UNCHANGED unsure
  /\ attempted' = [attempted EXCEPT ![k] = detail]
  /\ told' = IF Delivers(priority) THEN [told EXCEPT ![k] = detail] ELSE told

Dispatch(k) ==
  /\ mpc = "dispatch" /\ k \in todo
  /\ todo' = todo \ {k}
  /\ noted' = [noted EXCEPT ![k] = queued[k]]
  /\ \/ queued[k] = 0 /\ Push(k, 0, "low")
     \/ queued[k] # 0 /\ IsNew(k) /\ Push(k, queued[k], Priority(k))
     \/ queued[k] # 0 /\ ~IsNew(k) /\ UNCHANGED phone
  /\ UNCHANGED <<world, mpc, seen, queued, files, cuts>>

TruncateStatus ==
  /\ mpc = "dispatch" /\ todo = {}
  /\ notified' = None /\ mpc' = "status2"
  /\ UNCHANGED <<world, seen, queued, todo, noted, baseline, old,
                 pausedByMonitor, phone, cuts>>

WriteStatus ==
  /\ mpc = "status2"
  /\ notified' = noted /\ old' = {}
  /\ unsure' = {k \in unsure \ sent : noted[k] # 0} /\ sent' = {}
  /\ Over
  /\ UNCHANGED <<world, baseline, pausedByMonitor, attempted, told, cuts>>

\* A kill or a power loss; the counters start again with the host.
Cut ==
  /\ mpc # "idle" /\ cuts < MaxCuts
  /\ cuts' = cuts + 1 /\ Over
  /\ accepted' \in {accepted, NoCount}
  /\ unsure' = unsure \cup sent /\ sent' = {}
  /\ UNCHANGED <<fault, failing, changes, files, attempted, told>>

CheckStep ==
  \/ Survey \/ CompareBaseline \/ BaselineUnreadable
  \/ ProbeHost \/ ProbeFails
  \/ TruncateBaseline \/ WriteBaseline
  \/ \E k \in Watched : Dispatch(k)
  \/ TruncateStatus \/ WriteStatus

MonitorNext == CheckStep \/ Cut \/ HostNext
-----------------------------------------------------------------------------
\* A check that gets to its end has sent every condition it found, in the words
\* it found, or the operator was last sent just that; an entry sent by a check
\* that was killed before it wrote status.json is the exception.
AnnouncedOrRepeat ==
  mpc = "status2" =>
    \A k \in Watched : queued[k] # 0 => attempted[k] = queued[k] \/ k \in unsure

\* The inductive invariant behind it.  What status.json says was notified is what
\* was last sent, but for what this check has sent, and what one that was killed
\* may have.
MonitorTypeOK ==
  /\ fault \in [Standing -> 0 .. MaxDetail]
  /\ accepted \in [Gaps -> Nat] /\ seen \in [Gaps -> Nat]
  /\ mpc \in {"idle", "compare", "probe", "baseline", "baseline2", "dispatch", "status2"}
  /\ queued \in [Watched -> Nat] /\ noted \in [Watched -> Nat]
  /\ baseline \in [Gaps -> Nat] \cup {Absent, Torn}
  /\ notified \in [Watched -> Nat] /\ attempted \in [Watched -> Nat]
  /\ todo \subseteq Watched

NotedWasSent ==
  \A k \in Watched \ sent : notified[k] # 0 => attempted[k] = notified[k] \/ k \in unsure

SentInTurn ==
  /\ sent \cap todo = {}
  /\ mpc \notin {"dispatch", "status2"} => sent = {}
  /\ mpc = "status2" => todo = {}

DispatchedSoFar ==
  mpc \in {"dispatch", "status2"} => \A k \in Watched :
    /\ k \in sent => attempted[k] = queued[k] /\ noted[k] = queued[k]
    /\ noted[k] # 0 => noted[k] = queued[k]
    /\ k \notin todo /\ queued[k] # 0 => attempted[k] = queued[k] \/ k \in unsure

MonitorIInv == MonitorTypeOK /\ NotedWasSent /\ SentInTurn /\ DispatchedSoFar

\* A standing condition is not silently forgotten: what the operator was last
\* told comes to be its details, whatever was lost meanwhile, if checks run to
\* their end.  (proc_api has a priority the command line refuses.)
Reminded ==
  \A k \in Standing : Priority(k) \in Priorities =>
    \A d \in 1 .. MaxDetail :
      <>[](/\ fault[k] = d /\ failing = {}
           /\ ~(mpc = "idle" /\ baseline = Torn)) => <>[](told[k] = d)

=============================================================================

----------------------------- MODULE NtfyRelay -----------------------------
(***************************************************************************)
(* Alerts of the pipeline's user, which has no network: ntfy_enqueue.py    *)
(* leaves a file in the drop box, a path unit starts ntfy_relay.py while   *)
(* there is one, and the relay attempts each file once.                    *)
(*                                                                         *)
(* An alert is the number its file's name has in the relay's order.  A     *)
(* draft under its dot-name is seen by nobody and is not modelled.         *)
(***************************************************************************)
EXTENDS Ntfy, FiniteSets, Sequences

CONSTANTS
  MaxAlerts,    \* bound: files queued
  BadNames,     \* files whose name is not the pattern's
  Malformed,    \* files that hold no alert
  MaxPerRun,    \* MAX_PER_RUN
  RelayLimit,   \* the service's start limit
  MaxKills      \* bound: relays killed (TimeoutStartSec, power loss)

ASSUME RelayAssumption ==
  /\ MaxAlerts \in Nat /\ MaxKills \in Nat
  /\ MaxPerRun \in Nat \ {0} /\ RelayLimit \in Nat \ {0}
  /\ BadNames \subseteq 1 .. MaxAlerts /\ Malformed \subseteq 1 .. MaxAlerts

VARIABLES
  lastQueued, box, aside,   \* the drop box, and what was renamed out of the glob
  relayUnit, relayStarts,   \* the path unit; starts within the limit's interval
  rpc, names, taken,        \* the relay: where it is, names to do, names done
  dropped,                  \* removed by this run unsent, and not yet reported
  lost,                     \* ... by a run that was killed before it reported
  attempts, announced,      \* sends of each alert; drops that were reported
  kills

dropBox == <<lastQueued, box, aside>>
path    == <<relayUnit, relayStarts>>
run     == <<rpc, names, taken, dropped>>
record  == <<lost, attempts, announced>>
relay   == <<dropBox, path, run, record, kills>>

Queued == 1 .. lastQueued

RelayInit ==
  /\ lastQueued = 0 /\ box = {} /\ aside = {}
  /\ relayUnit = "watching" /\ relayStarts = 0
  /\ rpc = "idle" /\ names = <<>> /\ taken = 0 /\ dropped = {}
  /\ lost = {} /\ attempts = [a \in 1 .. MaxAlerts |-> 0] /\ announced = {}
  /\ kills = 0
-----------------------------------------------------------------------------
\* enqueue: renamed into place whole.
Enqueue ==
  /\ lastQueued < MaxAlerts
  /\ lastQueued' = lastQueued + 1 /\ box' = box \cup {lastQueued + 1}
  /\ UNCHANGED <<aside, path, run, record, kills>>

TriggerRelay ==
  /\ relayUnit = "watching" /\ rpc = "idle" /\ box # {}
  /\ IF relayStarts < RelayLimit
       THEN /\ relayStarts' = relayStarts + 1 /\ rpc' = "list"
            /\ UNCHANGED relayUnit
       ELSE relayUnit' = "failed" /\ UNCHANGED <<relayStarts, rpc>>
  /\ UNCHANGED <<dropBox, names, taken, dropped, record, kills>>

IntervalPasses ==
  /\ relayStarts > 0 /\ relayUnit = "watching"
  /\ relayStarts' = 0
  /\ UNCHANGED <<dropBox, relayUnit, run, record, kills>>

\* sorted(glob): every name once, in the names' order.
Listing ==
  LET n == Cardinality(box)
  IN  {q \in [1 .. n -> box] : \A i, j \in 1 .. n : i < j => q[i] < q[j]}

ListBox ==
  /\ rpc = "list"
  /\ names' \in Listing /\ taken' = 0 /\ dropped' = {}
  /\ rpc' = "next"
  /\ UNCHANGED <<dropBox, path, record, kills>>

Current == Head(names)
Advance == names' = Tail(names) /\ taken' = taken + 1 /\ rpc' = "next"

IsAlert(a)  == a \notin BadNames \cup Malformed
OverCap     == taken >= MaxPerRun

\* The name is looked at before the cap, the content after it.
SetAside ==
  /\ rpc = "next" /\ names # <<>>
  /\ Current \in BadNames \/ (~OverCap /\ Current \in Malformed)
  /\ box' = box \ {Current} /\ aside' = aside \cup {Current}
  /\ Advance
  /\ UNCHANGED <<lastQueued, path, dropped, record, kills>>

Drop ==
  /\ rpc = "next" /\ names # <<>> /\ OverCap /\ Current \notin BadNames
  /\ box' = box \ {Current} /\ dropped' = dropped \cup {Current}
  /\ Advance
  /\ UNCHANGED <<lastQueued, aside, path, record, kills>>

Send ==
  /\ rpc = "next" /\ names # <<>> /\ ~OverCap /\ IsAlert(Current)
  /\ attempts' = [attempts EXCEPT ![Current] = @ + 1]
  /\ rpc' = "remove"
  /\ UNCHANGED <<dropBox, path, names, taken, dropped, lost, announced, kills>>

\* Delivered or not.
RemoveFile ==
  /\ rpc = "remove"
  /\ box' = box \ {Current}
  /\ Advance
  /\ UNCHANGED <<lastQueued, aside, path, dropped, record, kills>>

\* Mutant of Report: the message goes out only from a run that reached the cap
\* with alerts, not with files it set aside.
ReportFull ==
  /\ rpc = "next" /\ names = <<>>
  /\ announced' = IF Cardinality({a \in Queued : attempts[a] > 0}) < MaxPerRun
                  THEN announced ELSE announced \cup dropped
  /\ dropped' = {} /\ rpc' = "idle" /\ taken' = 0
  /\ UNCHANGED <<dropBox, path, names, lost, attempts, kills>>

\* One message tells how many were dropped.
Report ==
  /\ rpc = "next" /\ names = <<>>
  /\ announced' = announced \cup dropped /\ dropped' = {}
  /\ rpc' = "idle" /\ taken' = 0
  /\ UNCHANGED <<dropBox, path, names, lost, attempts, kills>>

\* More than TimeoutStartSec of requests that time out, or a power loss.
RelayKilled ==
  /\ rpc # "idle" /\ kills < MaxKills
  /\ kills' = kills + 1
  /\ lost' = lost \cup dropped
  /\ rpc' = "idle" /\ names' = <<>> /\ taken' = 0 /\ dropped' = {}
  /\ UNCHANGED <<dropBox, path, attempts, announced>>

RelayStep == ListBox \/ SetAside \/ Drop \/ Send \/ RemoveFile \/ Report

RelayNext ==
  Enqueue \/ TriggerRelay \/ IntervalPasses \/ RelayStep \/ RelayKilled
-----------------------------------------------------------------------------
\* ntfy_relay.py: "Every queued file is removed after one attempt, delivered or
\* not".  More attempts of an alert than one are due to relays that were killed,
\* and no alert leaves the drop box without a trace: it was attempted, or set
\* aside because it is none, or the operator is told that it was dropped, unless
\* the relay was killed before it could.
Accounted ==
  /\ \A a \in Queued : attempts[a] <= 1 + kills
  /\ \A a \in Queued \ box :
       \/ attempts[a] > 0
       \/ a \in aside /\ ~IsAlert(a)
       \/ a \in announced \cup dropped \cup lost

\* The inductive invariant behind it: the relay's names are files still in the
\* drop box, each once, and one beyond its share of attempts is the current one's.
RelayTypeOK ==
  /\ lastQueued \in 0 .. MaxAlerts /\ box \subseteq Queued /\ kills \in Nat
  /\ rpc \in {"idle", "list", "next", "remove"} /\ names \in Seq(1 .. MaxAlerts)
  /\ attempts \in [1 .. MaxAlerts -> Nat]

NamesInBox ==
  /\ \A i \in DOMAIN names : names[i] \in box
  /\ \A i, j \in DOMAIN names : i < j => names[i] < names[j]
  /\ rpc \in {"idle", "list"} => names = <<>> /\ dropped = {}
  /\ rpc = "remove" => names # <<>> /\ attempts[Current] > 0

AttemptsPaid ==
  \A a \in 1 .. MaxAlerts :
    /\ attempts[a] <= 1 + kills
    /\ a > lastQueued => attempts[a] = 0
    /\ a \in box /\ attempts[a] > kills => rpc = "remove" /\ a = Current

RelayIInv == RelayTypeOK /\ NamesInBox /\ AttemptsPaid /\ Accounted
=============================================================================

-------------------------------- MODULE Host --------------------------------
(***************************************************************************)
(* What watches and feeds the host beside the pipeline: the network        *)
(* monitor and the alert relay, which share the ntfy service, the intake   *)
(* of a batch of samples, which the monitor's PAUSE file is meant to stop, *)
(* and the detonation of one sample again and again.                       *)
(***************************************************************************)
EXTENDS NetworkMonitor, NtfyRelay, Intake, Detonate

host == <<monitor, relay, intake, detonate, ntfy>>

Init == MonitorInit /\ RelayInit /\ IntakeInit /\ DetonateInit /\ NtfyInit

MonitorTurn  == UNCHANGED <<relay, intake, detonate, ntfy>>
RelayTurn    == UNCHANGED <<monitor, intake, detonate, ntfy>>
IntakeTurn   == UNCHANGED <<monitor, relay, detonate, ntfy>>
DetonateTurn == UNCHANGED <<monitor, relay, intake, ntfy>>

Monitor == MonitorNext /\ MonitorTurn
Relay   == RelayNext /\ RelayTurn

\* intake.sh refuses while a detonation runs; detonate.sh does not look back.
Feed   == IntakeNext /\ IntakeTurn /\ (StartBatch => dpc = "off")
Repeat == DetonateNext /\ DetonateTurn

Service == NtfyNext /\ UNCHANGED <<monitor, relay, intake, detonate>>

Next == Monitor \/ Relay \/ Feed \/ Repeat \/ Service

Spec == Init /\ [][Next]_host

\* network-monitor.sh: "Creates PAUSE file if air-gap breach detected": while that
\* file exists no sample of a batch is taken up.
BreachPauses == [][TakesUp => ~pausedByMonitor]_host
=============================================================================

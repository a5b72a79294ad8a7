------------------------------- MODULE Ntfy -------------------------------
(***************************************************************************)
(* The one way to the operator's phone: send_alert of ntfy_notify.py and   *)
(* its command line.  What is said is not modelled, only whether it gets   *)
(* there.                                                                  *)
(***************************************************************************)
EXTENDS Naturals

CONSTANT MaxOutages   \* bound: how often the service is lost

ASSUME NtfyAssumption == MaxOutages \in Nat

VARIABLES
  online,    \* the ntfy service answers within the request's timeout
  outages

ntfy == <<online, outages>>

Priorities == {"urgent", "high", "default", "low", "min"}

NtfyInit == online = TRUE /\ outages = 0

\* The command line's choices refuse any other priority before send_alert runs.
Delivers(priority) == priority \in Priorities /\ online

GoesOffline ==
  /\ online /\ outages < MaxOutages
  /\ online' = FALSE /\ outages' = outages + 1

ComesOnline == ~online /\ online' = TRUE /\ UNCHANGED outages

NtfyNext == GoesOffline \/ ComesOnline
=============================================================================

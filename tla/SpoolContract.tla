--------------------------- MODULE SpoolContract ---------------------------
(***************************************************************************)
(* What the upload spool promises of each uploaded sample, without         *)
(* directories, shell variables or systemd: a sample waits until a run of  *)
(* it ends; a run that succeeded is what lets it be deleted, a run that    *)
(* failed is what puts it in quarantine, and only the operator brings it   *)
(* back.  An interrupted run decides nothing.                              *)
(***************************************************************************)
CONSTANT Samples

VARIABLES
  status,    \* absent, queued, done, quarantined or withdrawn
  verdict    \* how the sample's latest run ended, "none" before and during it

Statuses == {"absent", "queued", "done", "quarantined", "withdrawn"}
Verdicts == {"none", "ok", "error", "killed"}

Init ==
  /\ status = [s \in Samples |-> "absent"]
  /\ verdict = [s \in Samples |-> "none"]

Move(s, from, to) ==
  /\ status[s] = from
  /\ status' = [status EXCEPT ![s] = to]
  /\ UNCHANGED verdict

Submit(s)   == Move(s, "absent", "queued")
Delete(s)   == verdict[s] = "ok" /\ Move(s, "queued", "done")
SetAside(s) == verdict[s] = "error" /\ Move(s, "queued", "quarantined")
Requeue(s)  == Move(s, "quarantined", "queued")
Withdraw(s) == Move(s, "queued", "withdrawn")

\* A run starts only on a queued sample; it may outlive a withdrawal.
StartRun(s) ==
  /\ status[s] = "queued"
  /\ verdict' = [verdict EXCEPT ![s] = "none"]
  /\ UNCHANGED status

EndRun(s) ==
  /\ verdict[s] = "none"
  /\ status[s] \in {"queued", "withdrawn"}
  /\ \E v \in Verdicts \ {"none"} : verdict' = [verdict EXCEPT ![s] = v]
  /\ UNCHANGED status

Next == \E s \in Samples :
  \/ Submit(s) \/ Delete(s) \/ SetAside(s) \/ Requeue(s) \/ Withdraw(s)
  \/ StartRun(s) \/ EndRun(s)

Spec == Init /\ [][Next]_<<status, verdict>>
=============================================================================

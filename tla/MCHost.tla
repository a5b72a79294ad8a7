------------------------------- MODULE MCHost -------------------------------
(***************************************************************************)
(* Host instances.  The monitor, the relay, a batch and a detonation share *)
(* nothing but the loss of the ntfy service, and the Ghidra job nothing at *)
(* all, so that a behaviour exercises one of them, chosen in its initial   *)
(* state: the states of the five add up and do not multiply.               *)
(***************************************************************************)
EXTENDS Host, GhidraJob

CONSTANTS x, y, Parts

TwoSamples == <<x, y>>

\* Files, by name and content.
SampleFile == [name |-> "sample", bytes |-> 1]
ItsCopy    == [name |-> "copy", bytes |-> 1]
Dropped    == [name |-> "dump", bytes |-> 2]
Buffer     == [name |-> "dump", bytes |-> 3]
SameBuffer == [name |-> "buffer", bytes |-> 3]
Region(file, large) == [file |-> file, pid |-> 0, at |-> 0, large |-> large]

Given(copy, stored, regions, hashed) ==
  [original |-> SampleFile, copy |-> copy, stored |-> stored, regions |-> regions,
   hashed |-> hashed]

\* A native sample with a copy of itself and regions beside it; an original that is
\* not CAPE's, with more PE files than are loaded; regions of equal content.
ThreeStages ==
  {Given("cape", <<ItsCopy, Dropped>>, <<Region(Dropped, TRUE), Region(Buffer, TRUE)>>, TRUE),
   Given("other", <<Dropped, Buffer, ItsCopy>>, <<Region(Buffer, FALSE)>>, FALSE),
   Given("own", <<>>, <<Region(Buffer, TRUE), Region(SameBuffer, TRUE)>>, FALSE)}

VARIABLE part

Turn(p) == part = p /\ UNCHANGED part

MCInit ==
  /\ Init /\ GhidraInit /\ part \in Parts
  /\ part # "ghidra" => given = CHOOSE g \in Givens : TRUE

MCNext ==
  \/ Turn("monitor") /\ (Monitor \/ Service) /\ UNCHANGED ghidraJob
  \/ Turn("relay") /\ (Relay \/ Service) /\ UNCHANGED ghidraJob
  \/ Turn("intake") /\ Feed /\ UNCHANGED ghidraJob
  \/ Turn("detonate") /\ Repeat /\ UNCHANGED ghidraJob
  \/ Turn("ghidra") /\ GhidraNext /\ UNCHANGED host

mcvars == <<host, ghidraJob, part>>

\* Cron runs the monitor's checks, and an outage ends; an
\* entry of status.json that is kept comes to be due again, however often checks
\* come between.  Nothing is assumed of what an operator starts.
MCSpec ==
  /\ MCInit /\ [][MCNext]_mcvars
  /\ WF_mcvars(Turn("monitor") /\ CheckStep /\ MonitorTurn /\ UNCHANGED ghidraJob)
  /\ \A k \in Watched : SF_mcvars(Turn("monitor") /\ Ages(k) /\ MonitorTurn /\ UNCHANGED ghidraJob)
  /\ WF_mcvars(UNCHANGED part /\ Service /\ ComesOnline /\ UNCHANGED ghidraJob)
=============================================================================

------------------------------- MODULE Intake -------------------------------
(***************************************************************************)
(* make intake: a batch of samples, each downloaded into a directory of    *)
(* its own, run through the pipeline and entered in status.tsv.  The batch *)
(* may be stopped anywhere and started again; it stops by itself at a      *)
(* sample it meets while the PAUSE file of the web interface exists.       *)
(***************************************************************************)
EXTENDS Naturals, Sequences

CONSTANTS
  Batch,           \* the manifest: a sequence of samples
  MaxBatchStarts,  \* bound: starts of the unit
  MaxPauses        \* bound: pauses by the operator

Samples == {Batch[i] : i \in 1 .. Len(Batch)}

ASSUME IntakeAssumption ==
  /\ Batch \in Seq(Samples) /\ MaxBatchStarts \in Nat /\ MaxPauses \in Nat
  /\ \A i, j \in 1 .. Len(Batch) : Batch[i] = Batch[j] => i = j

VARIABLES
  ipc, at, rc,      \* intake_run.sh: where it is, which entry, the exit status
  recorded,         \* status.tsv
  staged,           \* directories that hold a downloaded sample
  ran,              \* how often a sample was given to the pipeline
  paused,           \* /opt/pipeline/control/PAUSE exists
  batchStarts, batchStops, pauses

batch  == <<ipc, at, rc>>
batchBounds == <<batchStarts, batchStops, pauses>>
intake == <<batch, recorded, staged, ran, paused, batchBounds>>

IntakeInit ==
  /\ ipc = "off" /\ at = 1 /\ rc = "none"
  /\ recorded = [s \in Samples |-> "none"] /\ staged = {}
  /\ ran = [s \in Samples |-> 0]
  /\ paused = FALSE
  /\ batchStarts = 0 /\ batchStops = 0 /\ pauses = 0
-----------------------------------------------------------------------------
\* intake.sh refuses while its unit is busy or the PAUSE file exists.
StartBatch ==
  /\ ipc = "off" /\ ~paused /\ batchStarts < MaxBatchStarts
  /\ ipc' = "entry" /\ at' = 1 /\ batchStarts' = batchStarts + 1
  /\ UNCHANGED <<rc, recorded, staged, ran, paused, batchStops, pauses>>

Entry == Batch[at]
AtEntry == ipc = "entry" /\ at <= Len(Batch)
NextEntry == ipc' = "entry" /\ at' = at + 1

SkipRecorded ==
  /\ AtEntry /\ recorded[Entry] # "none"
  /\ NextEntry
  /\ UNCHANGED <<rc, recorded, staged, ran, paused, batchBounds>>

\* status.tsv is looked at before the PAUSE file.
Pending == AtEntry /\ recorded[Entry] = "none"

StopAtPause ==
  /\ Pending /\ paused
  /\ ipc' = "off"
  /\ UNCHANGED <<at, rc, recorded, staged, ran, paused, batchBounds>>

\* Mutant of Download: what an earlier start left is written over.
DownloadAgain ==
  /\ Pending /\ ~paused
  /\ staged' = staged \cup {Entry} /\ ipc' = "downloaded"
  /\ UNCHANGED <<at, rc, recorded, ran, paused, batchBounds>>

\* The sample's file must not exist yet (O_EXCL).
Download ==
  /\ Pending /\ ~paused /\ Entry \notin staged
  /\ staged' = staged \cup {Entry} /\ ipc' = "downloaded"
  /\ UNCHANGED <<at, rc, recorded, ran, paused, batchBounds>>

DownloadFails ==
  /\ Pending /\ ~paused
  /\ recorded' = [recorded EXCEPT ![Entry] = "download_failed"]
  /\ NextEntry
  /\ UNCHANGED <<rc, staged, ran, paused, batchBounds>>

StartRun ==
  /\ ipc = "downloaded"
  /\ ran' = [ran EXCEPT ![Entry] = @ + 1] /\ ipc' = "running"
  /\ UNCHANGED <<at, rc, recorded, staged, paused, batchBounds>>

\* Of itself, or by the timeout of 5400 seconds.
EndRun ==
  /\ ipc = "running"
  /\ rc' \in {"rc=0", "rc=1"} /\ ipc' = "ended"
  /\ UNCHANGED <<at, recorded, staged, ran, paused, batchBounds>>

Record ==
  /\ ipc = "ended"
  /\ recorded' = [recorded EXCEPT ![Entry] = rc] /\ ipc' = "recorded"
  /\ UNCHANGED <<at, rc, staged, ran, paused, batchBounds>>

RemoveStaged ==
  /\ ipc = "recorded"
  /\ staged' = staged \ {Entry} /\ rc' = "none"
  /\ NextEntry
  /\ UNCHANGED <<recorded, ran, paused, batchBounds>>

EndBatch ==
  /\ ipc = "entry" /\ at > Len(Batch)
  /\ ipc' = "off"
  /\ UNCHANGED <<at, rc, recorded, staged, ran, paused, batchBounds>>

\* systemctl stop or a power loss: the runner and the pipeline under it.
StopBatch ==
  /\ ipc # "off"
  /\ ipc' = "off" /\ rc' = "none" /\ batchStops' = batchStops + 1
  /\ UNCHANGED <<at, recorded, staged, ran, paused, batchStarts, pauses>>

\* The feeder's pause and resume in the web interface.
Pause ==
  /\ ~paused /\ pauses < MaxPauses
  /\ paused' = TRUE /\ pauses' = pauses + 1
  /\ UNCHANGED <<batch, recorded, staged, ran, batchStarts, batchStops>>

Resume ==
  /\ paused /\ paused' = FALSE
  /\ UNCHANGED <<batch, recorded, staged, ran, batchBounds>>

TakesUp == Download \/ DownloadFails

IntakeNext ==
  \/ StartBatch \/ SkipRecorded \/ StopAtPause \/ TakesUp
  \/ StartRun \/ EndRun \/ Record \/ RemoveStaged \/ EndBatch
  \/ StopBatch \/ Pause \/ Resume
-----------------------------------------------------------------------------
\* However a batch is stopped and started again, no sample is detonated twice,
\* and status.tsv says of a sample what became of it: with a return code it was
\* run, as a failed download it was not, unless the batch was stopped.
BatchHonest ==
  \A s \in Samples :
    /\ ran[s] <= 1
    /\ recorded[s] \in {"rc=0", "rc=1"} => ran[s] = 1
    /\ recorded[s] = "download_failed" /\ batchStops = 0 => ran[s] = 0

\* The inductive invariant behind it: what the runner's place says of the entry it
\* works on, and that the directory of a sample that was run outlives every stop
\* until its row is written.
IntakeTypeOK ==
  /\ ipc \in {"off", "entry", "downloaded", "running", "ended", "recorded"}
  /\ at \in 1 .. Len(Batch) + 1 /\ rc \in {"none", "rc=0", "rc=1"}
  /\ recorded \in [Samples -> {"none", "download_failed", "rc=0", "rc=1"}]
  /\ ran \in [Samples -> Nat] /\ batchStops \in Nat

AtWork ==
  ipc \in {"downloaded", "running", "ended", "recorded"} =>
    /\ at <= Len(Batch)
    /\ ran[Entry] = IF ipc = "downloaded" THEN 0 ELSE 1
    /\ ipc # "recorded" => recorded[Entry] = "none" /\ Entry \in staged
    /\ ipc = "recorded" => recorded[Entry] \in {"rc=0", "rc=1"}
    /\ ipc = "ended" => rc \in {"rc=0", "rc=1"}

UnrecordedStaged ==
  \A s \in Samples : recorded[s] = "none" /\ ran[s] # 0 =>
    /\ s \in staged
    /\ batchStops = 0 => ipc \in {"running", "ended"} /\ s = Entry

IntakeIInv == IntakeTypeOK /\ AtWork /\ UnrecordedStaged /\ BatchHonest
=============================================================================

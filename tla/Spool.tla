------------------------------- MODULE Spool -------------------------------
(***************************************************************************)
(* The upload spool: api/app/routers/samples.py writes samples into        *)
(* /opt/pipeline/spool, pipeline-spool.path starts pipeline-spool.service  *)
(* while the directory is not empty, and pipeline-spool-run drains it one  *)
(* sample at a time: deleted when its pipeline run exits 0, otherwise      *)
(* moved to the quarantine directory beside a sidecar saying why.          *)
(*                                                                         *)
(* A file is a member of Files; its name in a directory is the pair of its *)
(* NameOf and a copy number, 0 for the name it arrived with and k > 0 for  *)
(* a name that quarantine_dest made unique with a time stamp.  Shell       *)
(* variables of one drain are reset when it ends, so an idle unit has one  *)
(* representation.  What the pipeline does with a sample is module         *)
(* PipelineRuns; here it is an exit status.                                *)
(***************************************************************************)
EXTENDS Naturals, Sequences, FiniteSets

CONSTANTS
  Files,         \* everything that may appear in the spool directory
  Uploads,       \* those the API writes; the others are dropped by hand
  Regular,       \* regular files (not a symlink or a directory)
  Outliving,     \* samples whose run leaves a descendant holding its stdout
  NameOf,        \* file -> the name it is first given
  None,          \* "no current entry", "no sample is being run"
  MaxCopy,       \* bound: renamed copies of one name in the quarantine
  MaxRequeues,   \* bound: times the operator moves a sample back
  MaxFaults,     \* bound: stops, crashes and failing file operations
  StartLimit     \* service starts systemd allows in one window

ASSUME FilesAssumption ==
  /\ IsFiniteSet(Files) /\ None \notin Files
  /\ Uploads \subseteq Regular /\ Regular \subseteq Files
  /\ Outliving \subseteq Files
  /\ NameOf \in [Files -> {NameOf[f] : f \in Files}]
ASSUME UploadNamesUnique ==      \* the submission uuid in front of the name
  \A f \in Uploads, g \in Files : NameOf[f] = NameOf[g] => f = g
ASSUME BoundsAssumption ==
  /\ MaxCopy \in Nat /\ MaxRequeues \in Nat
  /\ MaxFaults \in Nat /\ StartLimit \in Nat

VARIABLES
  where,     \* where the file is now
  copy,      \* copy number of its present name
  upload,    \* progress of the API request that writes it
  created, mtime, clock,   \* arrival times, as find -printf %T@ sees them
  sidecar,   \* the .failure files: name, sample, run, captured runs, status
  runlog,    \* the runs whose output is in $RUNLOG
  pc, queue, cur, rc, stopping, stuck,   \* pipeline-spool-run
  running,   \* the file the current entry named when its run started
  outcome,   \* file -> exit status of its latest run
  sawWhole,  \* file -> its latest run read the complete upload
  runs,      \* file -> runs started
  firstRuns, \* files in the order of their first run
  listed,    \* files this drain listed that have stayed in the spool since
  pathUnit, starts, lastExit,   \* systemd: the path unit and the start limit
  faults, requeues

file  == <<where, copy, upload, created, mtime, clock>>
drain == <<pc, queue, cur, rc, stopping, stuck, running, listed>>
seen  == <<outcome, sawWhole, runs, firstRuns>>
unit  == <<pathUnit, starts, lastExit>>
bound == <<faults, requeues>>
vars  == <<file, sidecar, runlog, drain, seen, unit, bound>>

Names   == {NameOf[f] : f \in Files} \X (0 .. MaxCopy)
Name(f) == <<NameOf[f], copy[f]>>
InSpool == {f \in Files : where[f] = "spool"}

\* [ -e "$f" ] || [ -L "$f" ] for a path of the spool.
Exists(n) == \E f \in InSpool : Name(f) = n
FileAt(n) == CHOOSE f \in InSpool : Name(f) = n

\* Fault budget: every stop, crash and failing system call spends one.
Fault == faults < MaxFaults /\ faults' = faults + 1 /\ UNCHANGED requeues
-----------------------------------------------------------------------------
Init ==
  /\ where = [f \in Files |-> "new"]
  /\ copy = [f \in Files |-> 0]
  /\ upload = [f \in Files |-> "none"]
  /\ created = [f \in Files |-> 0] /\ mtime = [f \in Files |-> 0] /\ clock = 0
  /\ sidecar = {} /\ runlog = {}
  /\ pc = "idle" /\ queue = <<>> /\ cur = None /\ rc = "none"
  /\ stopping = FALSE /\ stuck = FALSE /\ running = None /\ listed = {}
  /\ outcome = [f \in Files |-> "none"]
  /\ sawWhole = [f \in Files |-> FALSE]
  /\ runs = [f \in Files |-> 0] /\ firstRuns = <<>>
  /\ pathUnit = "watching" /\ starts = 0 /\ lastExit = "ok"
  /\ faults = 0 /\ requeues = 0
-----------------------------------------------------------------------------
(* The API: _write_spool_file creates the name, then writes the content.   *)

Appear(f) ==
  /\ where[f] = "new"
  /\ ~Exists(<<NameOf[f], 0>>)              \* O_EXCL
  /\ where' = [where EXCEPT ![f] = "spool"]
  /\ clock' = clock + 1
  /\ created' = [created EXCEPT ![f] = clock + 1]
  /\ mtime' = [mtime EXCEPT ![f] = clock + 1]
  /\ UNCHANGED <<copy, sidecar, runlog, drain, seen, unit, bound>>

BeginUpload(f) ==
  /\ f \in Uploads
  /\ Appear(f)
  /\ upload' = [upload EXCEPT ![f] = "writing"]

\* f.write and close: 200 "submitted".  The descriptor follows the file
\* wherever it was moved, and into nothing once it was deleted.
FinishUpload(f) ==
  /\ upload[f] = "writing"
  /\ upload' = [upload EXCEPT ![f] = "accepted"]
  /\ clock' = clock + 1
  /\ mtime' = [mtime EXCEPT ![f] = clock + 1]
  /\ UNCHANGED <<where, copy, created, sidecar, runlog, drain, seen, unit, bound>>

\* The write failed: path.unlink(), 500.  A file moved meanwhile is not there.
FailUpload(f) ==
  /\ upload[f] = "writing"
  /\ Fault
  /\ upload' = [upload EXCEPT ![f] = "refused"]
  /\ IF where[f] = "spool" /\ copy[f] = 0
       THEN /\ where' = [where EXCEPT ![f] = "gone"]
            /\ listed' = listed \ {f}
       ELSE UNCHANGED <<where, listed>>
  /\ UNCHANGED <<copy, created, mtime, clock, sidecar, runlog, seen, unit,
                 pc, queue, cur, rc, stopping, stuck, running>>
-----------------------------------------------------------------------------
(* The operator.                                                           *)

HandDrop(f) == f \in Files \ Uploads /\ Appear(f) /\ UNCHANGED upload

\* "Consumed since the listing (a manual run, or an operator removed it)."
Remove(f) ==
  /\ where[f] = "spool"
  /\ where' = [where EXCEPT ![f] = "gone"]
  /\ listed' = listed \ {f}
  /\ UNCHANGED <<copy, upload, created, mtime, clock, sidecar, runlog, seen,
                 unit, bound, pc, queue, cur, rc, stopping, stuck, running>>

\* The sidecar's requeue= line: mv the file back under its present name.
Requeue(f) ==
  /\ where[f] = "failed"
  /\ requeues < MaxRequeues
  /\ ~Exists(Name(f))
  /\ requeues' = requeues + 1
  /\ where' = [where EXCEPT ![f] = "spool"]
  /\ UNCHANGED <<copy, upload, created, mtime, clock, sidecar, runlog, drain,
                 seen, unit, faults>>

ResetUnit ==       \* systemctl reset-failed and start of the path unit
  /\ pathUnit = "failed"
  /\ pathUnit' = "watching" /\ starts' = 0
  /\ UNCHANGED <<file, sidecar, runlog, drain, seen, lastExit, bound>>
-----------------------------------------------------------------------------
(* systemd: DirectoryNotEmpty= starts the oneshot service whenever it is   *)
(* inactive and the spool is not empty; a start refused by the service's   *)
(* start limit fails the path unit too.                                    *)

Trigger ==
  /\ pathUnit = "watching" /\ pc = "idle" /\ InSpool # {}
  /\ IF starts < StartLimit
       THEN /\ starts' = starts + 1
            /\ pc' = "list"
            /\ UNCHANGED pathUnit
       ELSE /\ pathUnit' = "failed"
            /\ UNCHANGED <<starts, pc>>
  /\ UNCHANGED <<file, sidecar, runlog, seen, lastExit, bound,
                 queue, cur, rc, stopping, stuck, running, listed>>

WindowPasses ==    \* the start-limit interval goes by
  /\ starts > 0 /\ pathUnit = "watching"
  /\ starts' = 0
  /\ UNCHANGED <<file, sidecar, runlog, drain, seen, pathUnit, lastExit, bound>>

\* SIGTERM to the cgroup: the script notes it, a running pipeline dies of it.
Stop ==
  /\ pc \notin {"idle", "exit"} /\ ~stopping
  /\ Fault
  /\ stopping' = TRUE
  /\ IF pc = "run"
       THEN /\ pc' = "ran" /\ rc' = "killed"
            /\ outcome' = IF running \in Files
                            THEN [outcome EXCEPT ![running] = "killed"] ELSE outcome
       ELSE UNCHANGED <<pc, rc, outcome>>
  /\ UNCHANGED <<file, sidecar, runlog, unit, queue, cur, stuck, running, listed,
                 sawWhole, runs, firstRuns>>

\* Power loss, or SIGKILL after the stop timeout: only the directories survive.
Crash ==
  /\ Fault
  /\ pc' = "idle" /\ queue' = <<>> /\ cur' = None /\ rc' = "none"
  /\ stopping' = FALSE /\ stuck' = FALSE /\ running' = None /\ listed' = {}
  /\ upload' = [f \in Files |-> IF upload[f] = "writing" THEN "aborted" ELSE upload[f]]
  /\ pathUnit' = "watching" /\ starts' = 0
  /\ UNCHANGED <<where, copy, created, mtime, clock, sidecar, runlog, seen, lastExit>>
-----------------------------------------------------------------------------
(* pipeline-spool-run.                                                     *)

\* find ... -printf '%T@\t%p\0' | sort -z -n : the names, oldest first.
\* Mutant of Arrivals: readdir order, no sort.
ArrivalsUnsorted == {q \in [1 .. Cardinality(InSpool) -> {Name(f) : f \in InSpool}] :
                       \A i, j \in DOMAIN q : i # j => q[i] # q[j]}

Arrivals ==
  LET n == Cardinality(InSpool)
  IN  {q \in [1 .. n -> {Name(f) : f \in InSpool}] :
         \A i, j \in 1 .. n : i < j => mtime[FileAt(q[i])] < mtime[FileAt(q[j])]}

List ==
  /\ pc = "list"
  /\ queue' \in Arrivals
  /\ listed' = InSpool
  /\ pc' = "loop"
  /\ UNCHANGED <<file, sidecar, runlog, seen, unit, bound,
                 cur, rc, stopping, stuck, running>>

Done == pc = "loop" /\ (queue = <<>> \/ stopping)

\* [ -e "$f" ] || [ -L "$f" ] || continue
SkipVanished ==
  /\ pc = "loop" /\ ~Done
  /\ ~Exists(Head(queue))
  /\ queue' = Tail(queue)
  /\ UNCHANGED <<file, sidecar, runlog, seen, unit, bound,
                 pc, cur, rc, stopping, stuck, running, listed>>

\* Mutant of SkipIrregular: `continue` alone.
SkipIrregularLeft ==
  /\ pc = "loop" /\ ~Done
  /\ Exists(Head(queue)) /\ FileAt(Head(queue)) \notin Regular
  /\ queue' = Tail(queue)
  /\ UNCHANGED <<file, sidecar, runlog, seen, unit, bound,
                 pc, cur, rc, stopping, stuck, running, listed>>

\* Not a regular file: quarantined without a run, with an empty run log.
SkipIrregular ==
  /\ pc = "loop" /\ ~Done
  /\ Exists(Head(queue)) /\ FileAt(Head(queue)) \notin Regular
  /\ runlog' = {}
  /\ cur' = Head(queue) /\ queue' = Tail(queue)
  /\ running' = FileAt(Head(queue))
  /\ rc' = "none" /\ pc' = "quarantine"
  /\ UNCHANGED <<file, sidecar, seen, unit, bound, stopping, stuck, listed>>

\* Mutant of Tee: tee -a.
TeeAppends(run) == runlog \cup {run}

\* The run log once a run has begun: truncated, then that run's output.
Tee(run) == {run}

StartRun ==
  /\ pc = "loop" /\ ~Done
  /\ Exists(Head(queue)) /\ FileAt(Head(queue)) \in Regular
  /\ LET f == FileAt(Head(queue)) IN
       /\ running' = f
       /\ runs' = [runs EXCEPT ![f] = @ + 1]
       /\ runlog' = Tee(<<f, runs[f] + 1>>)
       /\ outcome' = [outcome EXCEPT ![f] = "none"]
       /\ sawWhole' = [sawWhole EXCEPT ![f] = upload[f] \in {"accepted", "none"}]
       /\ firstRuns' = IF runs[f] = 0 THEN Append(firstRuns, f) ELSE firstRuns
  /\ cur' = Head(queue) /\ queue' = Tail(queue)
  /\ rc' = "none" /\ pc' = "run"
  /\ UNCHANGED <<file, sidecar, unit, bound, stopping, stuck, listed>>

EndRun ==
  /\ pc = "run"
  /\ \E status \in {"ok", "error"} :
       rc' = status /\ outcome' = [outcome EXCEPT ![running] = status]
  /\ pc' = "ran"
  /\ UNCHANGED <<file, sidecar, runlog, unit, bound, queue, cur, stopping, stuck,
                 running, listed, sawWhole, runs, firstRuns>>

\* A descendant that outlived its run still writes to the shared run log.
LateOutput(f) ==
  /\ f \in Outliving /\ runs[f] > 0 /\ f # running
  /\ pc \in {"run", "ran", "quarantine", "sidecar"}
  /\ runlog' = runlog \cup {<<f, runs[f]>>}
  /\ UNCHANGED <<file, sidecar, drain, seen, unit, bound>>

\* Mutants of AfterRun: no stopping check; a status over 128 taken for success;
\* the former `run-pipeline "$f" && rm -f "$f"`, which left failures in place.
AfterRunNoStop ==
  /\ pc = "ran"
  /\ pc' = IF rc = "ok" THEN "remove" ELSE "quarantine"
  /\ UNCHANGED <<file, sidecar, runlog, seen, unit, bound,
                 queue, cur, rc, stopping, stuck, running, listed>>

AfterRunLeave ==
  /\ pc = "ran"
  /\ pc' = IF stopping THEN "exit" ELSE IF rc = "ok" THEN "remove" ELSE "loop"
  /\ UNCHANGED <<file, sidecar, runlog, seen, unit, bound,
                 queue, cur, rc, stopping, stuck, running, listed>>

\* After the run: interrupted samples stay, successes go, failures are moved.
AfterRun ==
  /\ pc = "ran"
  /\ pc' = IF stopping THEN "exit" ELSE IF rc = "ok" THEN "remove" ELSE "quarantine"
  /\ UNCHANGED <<file, sidecar, runlog, seen, unit, bound,
                 queue, cur, rc, stopping, stuck, running, listed>>

NextEntry == pc' = "loop" /\ cur' = None /\ rc' = "none" /\ running' = None

\* rm -f -- "$f": whatever has that name now.
RemoveDone ==
  /\ pc = "remove"
  /\ where' = [f \in Files |->
                 IF where[f] = "spool" /\ Name(f) = cur THEN "consumed" ELSE where[f]]
  /\ listed' = {f \in listed : Name(f) # cur}
  /\ NextEntry
  /\ UNCHANGED <<copy, upload, created, mtime, clock, sidecar, runlog, seen,
                 unit, bound, queue, stopping, stuck>>

RemoveFails ==
  /\ pc = "remove"
  /\ Exists(cur) /\ Fault
  /\ stuck' = TRUE
  /\ NextEntry
  /\ UNCHANGED <<file, sidecar, runlog, seen, unit, queue, stopping, listed>>

\* A destination is taken when the sample or its sidecar is there.
Taken(n) == \/ \E f \in Files : where[f] = "failed" /\ Name(f) = n
            \/ \E s \in sidecar : s.name = n

\* Mutant of QuarantineDest: always the entry's own name.
QuarantineDestOwn(n) == {n}

\* Names quarantine_dest may choose for n: its own, else a fresh stamped one.
QuarantineDest(n) ==
  IF ~Taken(n)
    THEN {n}
    ELSE {<<n[1], k>> : k \in {k \in 1 .. MaxCopy :
            /\ ~Taken(<<n[1], k>>) /\ ~Exists(<<n[1], k>>)
            /\ \A j \in 1 .. (k - 1) : Taken(<<n[1], j>>) \/ Exists(<<n[1], j>>)}}

\* mv: a file already at the destination would be overwritten.
Quarantine ==
  /\ pc = "quarantine" /\ Exists(cur)
  /\ \E d \in QuarantineDest(cur) : LET f == FileAt(cur) IN
       /\ where' = [g \in Files |->
                      IF g = f THEN "failed"
                      ELSE IF where[g] = "failed" /\ Name(g) = d THEN "clobbered"
                      ELSE where[g]]
       /\ copy' = [copy EXCEPT ![f] = d[2]]
       /\ running' = f
       /\ listed' = listed \ {f}
       /\ cur' = d
  /\ pc' = "sidecar"
  /\ UNCHANGED <<upload, created, mtime, clock, sidecar, runlog, seen, unit,
                 bound, queue, rc, stopping, stuck>>

\* mv failed, or the entry vanished during its run: return 1, urgent alert.
QuarantineFails ==
  /\ pc = "quarantine"
  /\ IF Exists(cur) THEN Fault ELSE UNCHANGED bound
  /\ stuck' = TRUE
  /\ NextEntry
  /\ UNCHANGED <<file, sidecar, runlog, seen, unit, queue, stopping, listed>>

\* { printf ...; tail "$RUNLOG"; } > "$dest.failure"
WriteSidecar ==
  /\ pc = "sidecar"
  /\ sidecar' = {s \in sidecar : s.name # cur} \cup
                {[name |-> cur, sample |-> running, run |-> runs[running],
                  tail |-> runlog, status |-> rc]}
  /\ NextEntry
  /\ UNCHANGED <<file, runlog, seen, unit, bound, queue, stopping, stuck, listed>>

\* The redirection failed (a full disk): quarantine still returns 0.
SidecarFails ==
  /\ pc = "sidecar"
  /\ Fault
  /\ NextEntry
  /\ UNCHANGED <<file, sidecar, runlog, seen, unit, queue, stopping, stuck, listed>>

LeaveLoop ==
  /\ Done
  /\ pc' = "exit"
  /\ UNCHANGED <<file, sidecar, runlog, seen, unit, bound,
                 queue, cur, rc, stopping, stuck, running, listed>>

\* rm -f "$RUNLOG"; exit "$stuck"
Exit ==
  /\ pc = "exit"
  /\ runlog' = {}
  /\ lastExit' = IF stuck THEN "stuck" ELSE "ok"
  /\ pc' = "idle" /\ queue' = <<>> /\ cur' = None /\ rc' = "none"
  /\ stopping' = FALSE /\ stuck' = FALSE /\ running' = None /\ listed' = {}
  /\ UNCHANGED <<file, sidecar, seen, pathUnit, starts, bound>>
-----------------------------------------------------------------------------
Drain ==
  \/ List \/ SkipVanished \/ SkipIrregular \/ StartRun \/ EndRun \/ AfterRun
  \/ RemoveDone \/ RemoveFails \/ Quarantine \/ QuarantineFails
  \/ WriteSidecar \/ SidecarFails \/ LeaveLoop \/ Exit

Environment ==
  \/ \E f \in Files : BeginUpload(f) \/ FinishUpload(f) \/ FailUpload(f)
  \/ \E f \in Files : HandDrop(f) \/ Remove(f) \/ Requeue(f) \/ LateOutput(f)
  \/ ResetUnit \/ Trigger \/ WindowPasses \/ Stop \/ Crash

Next == Drain \/ Environment

Spec == Init /\ [][Next]_vars

\* systemd starts the triggered service, and the script keeps running: each
\* of its statements ends.  Nothing is assumed of the API or the operator.
Fairness == WF_vars(Drain) /\ WF_vars(Trigger)

FairSpec == Spec /\ Fairness
-----------------------------------------------------------------------------
(* Properties.                                                             *)

Places   == {"new", "spool", "failed", "consumed", "gone", "clobbered"}
Statuses == {"none", "ok", "error", "killed"}
Records  == [name : Names, sample : Files, run : Nat,
             tail : SUBSET (Files \X Nat), status : Statuses]

FileType ==
  /\ where \in [Files -> Places] /\ copy \in [Files -> 0 .. MaxCopy]
  /\ upload \in [Files -> {"none", "writing", "accepted", "refused", "aborted"}]
  /\ created \in [Files -> Nat] /\ mtime \in [Files -> Nat] /\ clock \in Nat

RecordType == sidecar \subseteq Records /\ runlog \subseteq Files \X Nat

Acting == {"run", "ran", "remove", "quarantine", "sidecar"}

DrainType ==
  /\ pc \in Acting \cup {"idle", "list", "loop", "exit"}
  /\ queue \in Seq(Names) /\ cur \in Names \cup {None} /\ rc \in Statuses
  /\ stopping \in BOOLEAN /\ stuck \in BOOLEAN
  /\ running \in Files \cup {None} /\ listed \subseteq Files
  /\ pc \in Acting => cur \in Names /\ running \in Files

SeenType ==
  /\ outcome \in [Files -> Statuses] /\ sawWhole \in [Files -> BOOLEAN]
  /\ runs \in [Files -> Nat] /\ firstRuns \in Seq(Files)

UnitType ==
  /\ pathUnit \in {"watching", "failed"} /\ starts \in 0 .. StartLimit
  /\ lastExit \in {"ok", "stuck"}
  /\ faults \in 0 .. MaxFaults /\ requeues \in 0 .. MaxRequeues

\* Every variable keeps its type; in particular the loop's current entry is a
\* spool name and a file whenever the script acts on one.
TypeOK == FileType /\ RecordType /\ DrainType /\ SeenType /\ UnitType

\* No sample is lost: an upload is deleted only when its latest run exited 0,
\* whatever stop, crash, requeue or failing rm came in between, and no file
\* in quarantine is ever overwritten by another.
NoSampleLost ==
  \A f \in Files :
    /\ where[f] # "clobbered"
    /\ f \in Uploads /\ where[f] = "consumed" => outcome[f] = "ok"

\* "That is the host going down, not the sample failing": no quarantine record
\* blames a sample for the SIGTERM that stopped the unit.
InterruptedNotBlamed == \A s \in sidecar : s.status # "killed"

\* The inductive invariant behind both: what the script's position says of the
\* sample its current entry named when it was taken from the queue.
RunOpen ==
  pc = "run" => /\ running \in Regular /\ outcome[running] = "none"
                /\ where[running] \in {"spool", "gone"}
RunEnded ==
  pc \in {"ran", "remove"} =>
    /\ running \in Regular
    /\ rc \in {"ok", "error", "killed"} /\ outcome[running] = rc
    /\ rc = "killed" => pc = "ran" /\ stopping
    /\ pc = "remove" => rc = "ok"
ToQuarantine ==
  pc = "quarantine" =>
    IF running \in Regular THEN rc = "error" /\ outcome[running] = rc ELSE rc = "none"
ToRecord ==
  pc = "sidecar" => rc # "killed" /\ \A s \in sidecar : s.name # cur
EntryIsRunning == pc \in Acting \ {"sidecar"} => NameOf[running] = cur[1]

IInv ==
  /\ TypeOK /\ NoSampleLost /\ InterruptedNotBlamed
  /\ RunOpen /\ RunEnded /\ ToQuarantine /\ ToRecord /\ EntryIsRunning

\* "The first failure's record is kept": a sidecar, once written, is never
\* replaced, however often the sample is moved back and fails again.
RecordsKept == [][sidecar \subseteq sidecar']_vars

\* The tail in an upload's sidecar is the output of the run it reports, not of
\* an entry handled earlier, unless a descendant of an earlier run was still
\* writing.  (A file dropped by hand may take the place of one under work.)
TailOwnRun ==
  \A s \in sidecar : s.sample \in Uploads => \A t \in s.tail :
    t = <<s.sample, s.run>> \/ t[1] \in Outliving

\* Uploads are first run in arrival order: across drains, stops and crashes no
\* sample is started before one whose upload had ended when its own began.
ArrivalOrder ==
  \A i, j \in 1 .. Len(firstRuns) :
    i < j /\ {firstRuns[i], firstRuns[j]} \subseteq Uploads =>
      ~(mtime[firstRuns[j]] < created[firstRuns[i]])

\* A sample is not re-detonated in a loop (#534): each run beyond the first is
\* accounted for by an operator's requeue or by a fault.
NoDetonationLoop == \A f \in Files : runs[f] <= 1 + requeues + faults

\* The inductive invariants behind these three.  A run log holds the present run; a
\* file that may be run once more has its next run paid for; and while a drain goes
\* through its list, an upload that has not been run is either on it, behind what
\* arrived before it, or arrived after all that is on it.
LogIsRuns ==
  pc \in Acting /\ running \in Uploads =>
    \A t \in runlog : t = <<running, runs[running]>> \/ t[1] \in Outliving

NamesDiffer ==
  /\ \A f, g \in InSpool : Name(f) = Name(g) => f = g
  /\ \A f \in Files : where[f] = "new" => copy[f] = 0

EntryInPlace ==
  pc \in Acting \ {"sidecar"} =>
    Name(running) = cur /\ where[running] \in {"spool", "gone"}

RunsPaid ==
  \A f \in Files :
    /\ runs[f] <= 1 + requeues + faults
    /\ where[f] = "new" => runs[f] = 0
    /\ \/ runs[f] <= requeues + faults
       \/ where[f] # "spool"
       \/ /\ pc \in Acting \ {"sidecar"} /\ running = f
          /\ stopping => pc \notin {"run", "ran"}

LoopIInv == NamesDiffer /\ EntryInPlace /\ RunsPaid

Waiting == {f \in Uploads : where[f] = "spool" /\ runs[f] = 0}
HasRun  == {f \in Uploads : runs[f] > 0}

ArrivalTimes ==
  /\ \A f \in Files : created[f] <= mtime[f] /\ mtime[f] <= clock
  /\ \A f \in Uploads : where[f] = "new" => runs[f] = 0
  /\ \A f \in Uploads : where[f] = "failed" => runs[f] > 0
  /\ pc \in Acting /\ running \in Uploads => runs[running] > 0

RunBefore ==
  /\ \A i \in DOMAIN firstRuns : runs[firstRuns[i]] > 0
  /\ \A g \in HasRun, f \in Waiting : created[g] <= mtime[f]

OnTheList ==
  /\ listed \subseteq InSpool
  /\ \A f \in listed \cap Waiting : \E i \in DOMAIN queue : queue[i] = Name(f)
  /\ \A i \in DOMAIN queue, g \in Uploads : queue[i][1] = NameOf[g] =>
       where[g] # "new" /\ (g \in Waiting => g \in listed)
  /\ \A i, j \in DOMAIN queue, g, f \in listed : i < j /\ queue[i] = Name(g) /\ queue[j] = Name(f) =>
       created[g] <= mtime[f]
  /\ \A g \in listed, f \in Waiting \ listed : created[g] <= created[f]

ArrivalIInv == ArrivalTimes /\ RunBefore /\ OnTheList /\ ArrivalOrder

\* Where a file is, as the submitter of an upload sees it.
Status(place) ==
  CASE place = "new" -> "absent"
    [] place = "spool" -> "queued"
    [] place = "failed" -> "quarantined"
    [] place = "consumed" -> "done"
    [] OTHER -> "withdrawn"

UploadStatus  == [f \in Uploads |-> Status(where[f])]
UploadVerdict == [f \in Uploads |-> outcome[f]]

\* The spool implements what it promises of each upload.
Contract == INSTANCE SpoolContract WITH
  Samples <- Uploads,
  status <- UploadStatus,
  verdict <- UploadVerdict
ContractSpec == Contract!Spec

\* Whatever is in the spool eventually leaves it, unless systemd's start limit
\* has failed the path unit.
Drains ==
  \A f \in Files :
    where[f] = "spool" ~> (where[f] # "spool" \/ pathUnit = "failed")

\* "read + delete after processing": an accepted upload deleted from the spool
\* was read whole by the run that allowed the deletion.
DeletedAfterProcessing ==
  \A f \in Uploads :
    where[f] = "consumed" /\ upload[f] = "accepted" => sawWhole[f]
=============================================================================

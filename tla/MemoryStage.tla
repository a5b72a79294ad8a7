---------------------------- MODULE MemoryStage -----------------------------
(***************************************************************************)
(* Stage 3 of run_pipeline: run_volatility under a SIGALRM.                *)
(*                                                                         *)
(* Plugins run in a thread pool while the main thread collects their       *)
(* results; then, in the main thread, the targeted malfind dump, vadinfo   *)
(* and one pslist per injected process.  The alarm raises TimeoutError in  *)
(* the main thread wherever it is: most places let it through, two catch   *)
(* it as any exception, and the pool is waited for in every case.          *)
(*                                                                         *)
(* Time is in ticks.  A tick passes only when neither the main thread nor  *)
(* an idle worker can take a step.                                         *)
(***************************************************************************)
EXTENDS Naturals, FiniteSets, CapeTask

CONSTANTS
  NumPlugins,     \* the plugins, in the order they are submitted
  Malfind,        \* the one whose output the dump reads
  Workers,        \* VOLATILITY_PARALLEL_WORKERS
  StageLimit,     \* signal.alarm
  PluginTime,     \* longest plugin of the pool, or pslist
  DumpTime,       \* longest malfind --dump
  VadTime         \* longest vadinfo

ASSUME MemoryAssumption ==
  /\ NumPlugins \in Nat \ {0} /\ Malfind \in 1 .. NumPlugins
  /\ Workers \in Nat \ {0} /\ StageLimit \in Nat \ {0}
  /\ PluginTime \in Nat /\ DumpTime \in Nat /\ VadTime \in Nat

VARIABLES
  mpc,            \* the main thread
  clock, alarm,   \* time since the alarm was set; what became of it
  plug, left,     \* the plugins' futures, and the time a running one takes
  got,            \* the outputs the main thread has stored
  busy,           \* time the main thread's own subprocess takes
  pids,           \* injected processes still to dump
  vad,            \* vadinfo's output
  vol             \* report["volatility"], as far as it is read later

pool    == <<plug, left, got>>
memVars == <<mpc, clock, alarm, pool, busy, pids, vad, vol>>

Plugins  == 1 .. NumPlugins
Finished == {"ok", "failed"}

\* What Stage 3 leaves: state, the plugins with usable rows, vadinfo.
NoVolatility == [state |-> "off", usable |-> {}, vad |-> "none"]
StageError   == [state |-> "error", usable |-> {}, vad |-> "none"]

IdleMemory ==
  /\ clock = 0 /\ alarm = "off"
  /\ plug = [p \in Plugins |-> "none"] /\ left = [p \in Plugins |-> 0]
  /\ got = [p \in Plugins |-> "none"]
  /\ busy = 0 /\ pids = 0 /\ vad = "none"

MemoryInit == mpc = "idle" /\ IdleMemory /\ vol = NoVolatility
-----------------------------------------------------------------------------
\* signal.alarm(0) unless it has come.
MemoryOver(result) == mpc' = "done" /\ busy' = 0 /\ vol' = result

Disarmed == alarm' = IF alarm = "set" THEN "off" ELSE alarm

\* should_run_volatility: no reported task, no container, no trigger.
NotTriggered ==
  /\ mpc = "idle" /\ cpc = "over"
  /\ cape.status # "reported" \/ ~intel.trigger
  /\ MemoryOver(NoVolatility)
  /\ UNCHANGED <<capeVars, clock, alarm, pool, pids, vad>>

Triggered == mpc = "idle" /\ cpc = "over" /\ cape.status = "reported" /\ intel.trigger

\* No dump: an error only when one was requested.
NoDump ==
  /\ Triggered
  /\ MemoryOver(IF sample.dumps THEN StageError ELSE NoVolatility)
  /\ UNCHANGED <<capeVars, clock, alarm, pool, pids, vad>>

\* CAPE writes a dump only when asked for one.
StartPool ==
  /\ Triggered /\ sample.dumps
  /\ mpc' = "pool" /\ alarm' = "set"
  /\ plug' = [p \in Plugins |-> "queued"]
  /\ UNCHANGED <<capeVars, clock, left, got, busy, pids, vad, vol>>

Running == {p \in Plugins : plug[p] = "running"}

\* The executor's queue is first in, first out.
Runnable(p) ==
  /\ plug[p] = "queued" /\ Cardinality(Running) < Workers
  /\ \A q \in 1 .. p - 1 : plug[q] # "queued"

WorkerStart(p) ==
  /\ Runnable(p)
  /\ plug' = [plug EXCEPT ![p] = "running"]
  /\ \E t \in 0 .. PluginTime : left' = [left EXCEPT ![p] = t]
  /\ UNCHANGED <<capeVars, mpc, clock, alarm, got, busy, pids, vad, vol>>

\* Rows, or an error: a timeout, an exit status, output that is not JSON.
WorkerEnd(p) ==
  /\ plug[p] = "running" /\ left[p] = 0
  /\ \E out \in Finished : plug' = [plug EXCEPT ![p] = out]
  /\ UNCHANGED <<capeVars, mpc, clock, alarm, left, got, busy, pids, vad, vol>>

\* One turn of as_completed.
Collect(p) ==
  /\ mpc = "pool" /\ plug[p] \in Finished /\ got[p] = "none"
  /\ got' = [got EXCEPT ![p] = plug[p]]
  /\ UNCHANGED <<capeVars, mpc, clock, alarm, plug, left, busy, pids, vad, vol>>

AllCollected == \A p \in Plugins : got[p] # "none"

\* Malfind's rows and no buffers from CAPE: regions are selected and dumped,
\* when any was and the memory dump is still there.
StartDump ==
  /\ mpc = "pool" /\ AllCollected
  /\ got[Malfind] = "ok" /\ ~intel.buffers
  /\ mpc' = "dump" /\ busy' \in 0 .. DumpTime
  /\ UNCHANGED <<capeVars, clock, alarm, pool, pids, vad, vol>>

Result == [state  |-> "ran",
           usable |-> {p \in Plugins : got[p] = "ok"},
           vad    |-> vad']

\* The targets of vadinfo are the injected processes and those of the buffers.
StartVadinfo ==
  /\ intel.pids > 0 \/ intel.buffers
  /\ mpc' = "vadinfo" /\ busy' \in 0 .. VadTime
  /\ UNCHANGED <<alarm, pids, vad, vol>>

\* Nothing is left to dump, or CAPE's cleanup has removed the memory dump.
Finish == UNCHANGED <<pids, vad>> /\ MemoryOver(Result) /\ Disarmed

AfterDump ==
  /\ \/ mpc = "pool" /\ AllCollected
     \/ mpc = "dump" /\ busy = 0
  /\ StartVadinfo \/ Finish
  /\ UNCHANGED <<capeVars, clock, pool>>

\* Then one image per injected process, if there is any.
VadinfoEnds ==
  /\ mpc = "vadinfo" /\ busy = 0
  /\ vad' \in Finished
  /\ \/ /\ intel.pids > 0
        /\ mpc' = "images" /\ pids' = intel.pids /\ busy' \in 0 .. PluginTime
        /\ UNCHANGED <<alarm, vol>>
     \/ MemoryOver(Result) /\ Disarmed /\ UNCHANGED pids
  /\ UNCHANGED <<capeVars, clock, pool>>

\* The loop goes on with the next process.
NextImage ==
  /\ pids > 1
  /\ pids' = pids - 1 /\ busy' \in 0 .. PluginTime
  /\ UNCHANGED <<mpc, vad, vol>>

ImageEnds ==
  /\ mpc = "images" /\ busy = 0
  /\ \/ NextImage /\ UNCHANGED alarm
     \/ pids = 1 /\ Finish
  /\ UNCHANGED <<capeVars, clock, pool>>
-----------------------------------------------------------------------------
(* The alarm.                                                              *)

Due == alarm = "set" /\ clock >= StageLimit

\* While waiting for a plugin: out of the loop, into the pool's exit.
AlarmInPool ==
  /\ mpc = "pool" /\ Due
  /\ mpc' = "join" /\ alarm' = "raised"
  /\ UNCHANGED <<capeVars, clock, pool, busy, pids, vad, vol>>

\* While reading a result: the exception is taken for that plugin's.
AlarmInResult(p) ==
  /\ mpc = "pool" /\ Due
  /\ plug[p] \in Finished /\ got[p] = "none"
  /\ got' = [got EXCEPT ![p] = "failed"] /\ alarm' = "in_result"
  /\ UNCHANGED <<capeVars, mpc, clock, plug, left, busy, pids, vad, vol>>

\* shutdown(wait=True): what is queued is run as well.
PoolJoined ==
  /\ mpc = "join" /\ \A p \in Plugins : plug[p] \in Finished
  /\ MemoryOver(StageError)
  /\ UNCHANGED <<capeVars, clock, alarm, pool, pids, vad>>

\* The subprocess is killed and the stage ends without its results.
AlarmInDump ==
  /\ mpc \in {"dump", "vadinfo"} /\ Due
  /\ MemoryOver(StageError) /\ alarm' = "raised"
  /\ UNCHANGED <<capeVars, clock, pool, pids, vad>>

\* Mutant of AlarmInImages: the interrupted image is tried again.
AlarmRetried ==
  /\ mpc = "images" /\ Due
  /\ busy' \in 0 .. PluginTime /\ alarm' = "in_images"
  /\ UNCHANGED <<capeVars, mpc, clock, pool, pids, vad, vol>>

\* The loop over the processes catches every exception: the alarm costs one
\* image, and nothing limits the rest.
AlarmInImages ==
  /\ mpc = "images" /\ Due
  /\ alarm' = "in_images"
  /\ \/ NextImage
     \/ pids = 1 /\ UNCHANGED <<pids, vad>> /\ MemoryOver(Result)
  /\ UNCHANGED <<capeVars, clock, pool>>

\* A step that takes no time is still to be taken.
Pending ==
  \/ Due
  \/ \E p \in Plugins : \/ Runnable(p)
                        \/ plug[p] = "running" /\ left[p] = 0
                        \/ mpc = "pool" /\ plug[p] \in Finished /\ got[p] = "none"
  \/ mpc = "pool" /\ AllCollected
  \/ mpc = "join" /\ \A p \in Plugins : plug[p] \in Finished
  \/ mpc \in {"dump", "vadinfo", "images"} /\ busy = 0

Less(n) == IF n > 0 THEN n - 1 ELSE 0

MemoryTick ==
  /\ mpc \notin {"idle", "done"} /\ ~Pending
  /\ clock' = clock + 1
  /\ left' = [p \in Plugins |-> IF plug[p] = "running" THEN Less(left[p]) ELSE left[p]]
  /\ busy' = Less(busy)
  /\ UNCHANGED <<capeVars, mpc, alarm, plug, got, pids, vad, vol>>

MemoryNext ==
  \/ NotTriggered \/ NoDump \/ StartPool
  \/ \E p \in Plugins : WorkerStart(p) \/ WorkerEnd(p) \/ Collect(p) \/ AlarmInResult(p)
  \/ StartDump \/ AfterDump \/ VadinfoEnds \/ ImageEnds
  \/ AlarmInPool \/ PoolJoined \/ AlarmInDump \/ AlarmInImages
  \/ MemoryTick
-----------------------------------------------------------------------------
MemoryTypeOK ==
  /\ mpc \in {"idle", "pool", "join", "dump", "vadinfo", "images", "done"}
  /\ clock \in Nat /\ alarm \in {"off", "set", "raised", "in_result", "in_images"}
  /\ plug \in [Plugins -> {"none", "queued", "running"} \cup Finished]
  /\ left \in [Plugins -> 0 .. PluginTime]
  /\ got \in [Plugins -> {"none"} \cup Finished]
  /\ busy \in Nat /\ pids \in 0 .. MaxPids /\ vad \in {"none"} \cup Finished
  /\ vol \in [state : {"off", "error", "ran"}, usable : SUBSET Plugins,
              vad : {"none"} \cup Finished]

\* run_volatility's pool is read-only on the dump and over with the stage: when
\* run_pipeline goes on, timed out or not, no plugin runs or waits to run.
QuietAfterwards ==
  mpc = "done" => \A p \in Plugins : plug[p] \notin {"queued", "running"}

\* The longest the pool takes: its rounds, each as long as the longest plugin.
PoolTime == ((NumPlugins + Workers - 1) \div Workers) * PluginTime

\* run-pipeline.py, signal.alarm(2700): the stage outlasts its limit only by the
\* pool it waits for, unless the alarm was taken for a plugin's own failure; and
\* when that was an image's, by the images left at that moment.
StageBounded ==
  /\ alarm \notin {"in_result", "in_images"} /\ clock > StageLimit => clock <= PoolTime
  /\ alarm = "in_images" => clock <= StageLimit + (MaxPids - 1) * PluginTime
-----------------------------------------------------------------------------
(* The inductive invariant of StageBounded.                                *)

\* The rounds of the pool that are over before p is started.
Round(p) == (p - 1) \div Workers

\* The queue is what is left of the list, and every plugin starts within its
\* round: no worker idles while one is queued.
PoolOnTime ==
  /\ \A p \in Plugins : plug[p] = "queued" => \A q \in p .. NumPlugins : plug[q] = "queued"
  /\ \A p \in Plugins : plug[p] = "running" =>
       clock + left[p] <= Round(p) * PluginTime + PluginTime
  /\ \A p \in Plugins : plug[p] = "queued" /\ (\A q \in 1 .. p - 1 : plug[q] # "queued") =>
       clock <= Round(p) * PluginTime

\* Where the main thread is tells what has become of the alarm.
AlarmPlace ==
  /\ mpc = "idle" => alarm = "off" /\ clock = 0
  /\ mpc = "pool" => alarm \in {"set", "in_result"}
  /\ mpc = "join" => alarm = "raised"
  /\ mpc \in {"pool", "join"} => \A p \in Plugins : plug[p] # "none"
  /\ mpc \in {"dump", "vadinfo"} => alarm \in {"set", "in_result"}
  /\ mpc = "images" => alarm \in {"set", "in_result", "in_images"} /\ pids >= 1
  /\ alarm = "in_images" => mpc \in {"images", "done"}

\* The alarm is not late, and what it leaves to do is on time.
StageOnTime ==
  /\ alarm \in {"off", "set"} => clock <= StageLimit
  /\ alarm = "raised" => clock <= StageLimit \/ clock <= PoolTime
  /\ alarm = "in_images" =>
       IF mpc = "images"
         THEN clock + busy + (pids - 1) * PluginTime <= StageLimit + (MaxPids - 1) * PluginTime
         ELSE clock <= StageLimit + (MaxPids - 1) * PluginTime

StageIInv == PoolOnTime /\ AlarmPlace /\ StageOnTime
=============================================================================

-------------------------- MODULE StageFlowProofs ---------------------------
(***************************************************************************)
(* Proofs about StageFlow, for all limits, plugins and samples: its types, *)
(* the poll's verdict, the end of the memory stage's threads, what an      *)
(* empty correlation_warnings covers, which program the agent reads, what  *)
(* the flow view draws of a finished run, and how long the memory stage    *)
(* takes.                                                                  *)
(***************************************************************************)
EXTENDS FlowGraph, FiniteSetTheorems, WellFoundedInduction, TLAPS

\* A stage's step leaves the others' variables alone.
LEMMA MemoryFrame == MemoryNext => UNCHANGED capeVars
BY DEF MemoryNext, NotTriggered, NoDump, StartPool, WorkerStart, WorkerEnd, Collect,
   AlarmInResult, StartDump, AfterDump, VadinfoEnds, ImageEnds, AlarmInPool,
   PoolJoined, AlarmInDump, AlarmInImages, MemoryTick

\* A step is one of a stage's, or passes from one to the next.
LEMMA StepCases ==
  ASSUME [Next]_vars
  PROVE  \/ CapeNext /\ UNCHANGED <<memVars, corrVars, staticVars>>
         \/ LeaveCape
         \/ MemoryNext /\ UNCHANGED <<capeVars, corrVars, staticVars>>
         \/ LeaveMemory
         \/ StaticNext /\ UNCHANGED <<capeVars, memVars, corrVars>>
         \/ Correlate
         \/ UNCHANGED vars
BY MemoryFrame DEF Next, Cape, Memory, Static

\* An ending gives the section one of its statuses.
LEMMA EndedType ==
  ASSUME NEW status \in CapeStatuses, NEW known \in BOOLEAN, Ended(status, known)
  PROVE  cpc' = "done" /\ cape' \in [status : CapeStatuses, id : BOOLEAN]
BY DEF Ended

\* The section of the report starts, and is, one of CAPE's.
LEMMA CapeTypeNext ==
  ASSUME CapeTypeOK, sample \in SampleRecord, [Next]_vars
  PROVE  CapeTypeOK'
<1> USE CapeAssumption DEF CapeTypeOK, TaskStates, CapeStatuses, CapeStarted, CapeFailed,
        poll, Never
<1>1. CASE CapeStarts
  BY <1>1 DEF CapeStarts
<1>2. CASE CapeMoves
  BY <1>2 DEF CapeMoves
<1>3. CASE SkipCape \/ RefuseSubmission
  <2>1. Ended("skipped", FALSE) \/ Ended("never_started", FALSE)
    BY <1>3 DEF SkipCape, RefuseSubmission
  <2>2. cpc' = "done" /\ cape' \in [status : CapeStatuses, id : BOOLEAN]
    BY <2>1, EndedType
  <2> QED
    BY <1>3, <2>2 DEF SkipCape, RefuseSubmission
<1>4. CASE SubmitTask
  BY <1>4 DEF SubmitTask
<1>5. CASE SubmitFails
  BY <1>5 DEF SubmitFails, Ended
<1>6. \A d \in 0 .. RequestTime : waited < CapeTimeout => waited + d + PollInterval \in 0 .. Never
  OBVIOUS
<1>7. CASE PollAnswered
  <2>1. waited' \in 0 .. Never
    BY <1>6, <1>7 DEF PollAnswered, Waits, Ended
  <2>2. cape' \in [status : CapeStatuses, id : BOOLEAN] /\ cpc' \in {"poll", "extract", "done"}
    <3>1. CASE task = "reported"
      BY <1>7, <3>1 DEF PollAnswered
    <3>2. CASE task \in CapeFailed
      BY <1>7, <3>2, EndedType DEF PollAnswered
    <3>3. CASE task # "reported" /\ task \notin CapeFailed
      BY <1>7, <3>3 DEF PollAnswered
    <3> QED
      BY <3>1, <3>2, <3>3
  <2> HIDE DEF CapeStatuses, Never
  <2> QED
    BY <1>7, <2>1, <2>2 DEF PollAnswered
<1>8. CASE PollFails
  <2>1. waited' \in 0 .. Never
    BY <1>6, <1>8 DEF PollFails, Waits
  <2> QED
    BY <1>8, <2>1 DEF PollFails
<1>9. CASE GiveUp
  BY <1>9 DEF GiveUp, Ended
<1>10. CASE ExtractIntel
  <2>1. NoIntel \in Intels /\ sample.behaviour \in Intels
    BY DEF NoIntel, Intels, SampleRecord
  <2>2. [sample.behaviour EXCEPT !.buffers = FALSE] \in Intels
    BY <2>1 DEF Intels
  <2>3. intel' \in Intels
    BY <1>10, <2>1, <2>2 DEF ExtractIntel
  <2> QED
    BY <1>10, <2>3 DEF ExtractIntel, Ended
<1>11. CASE StageRaises
  BY <1>11 DEF StageRaises, Ended
<1>12. CASE LeaveCape
  <2>1. 0 \in 0 .. Never /\ Never \in 0 .. Never /\ 0 \in 0 .. MaxErrors
    OBVIOUS
  <2> HIDE DEF Never
  <2> QED
    BY <1>12, <2>1 DEF LeaveCape
<1>13. CASE UNCHANGED capeVars
  BY <1>13 DEF capeVars
<1> QED
  BY <1>1, <1>2, <1>3, <1>4, <1>5, <1>7, <1>8, <1>9, <1>10, <1>11, <1>12, <1>13, StepCases
     DEF CapeNext, CapeStage, LeaveMemory, Correlate, vars

\* What the memory stage leaves for the later ones.
LEMMA ResultType ==
  ASSUME MemoryTypeOK, vad' \in {"none"} \cup Finished
  PROVE  Result \in [state : {"off", "error", "ran"}, usable : SUBSET Plugins,
                     vad : {"none"} \cup Finished]
BY DEF Result

\* The memory stage's variables.
LEMMA MemoryTypeNext ==
  ASSUME MemoryTypeOK, CapeTypeOK, [Next]_vars
  PROVE  MemoryTypeOK'
<1> DEFINE Vols == [state : {"off", "error", "ran"}, usable : SUBSET Plugins,
                    vad : {"none"} \cup Finished]
<1> USE CapeAssumption, MemoryAssumption DEF MemoryTypeOK, Finished, pool
<1>1. NoVolatility \in Vols /\ StageError \in Vols
  BY DEF NoVolatility, StageError
<1>2. ASSUME NEW r \in Vols, MemoryOver(r), alarm' \in {alarm, "off", "raised"},
             UNCHANGED <<clock, plug, left, got, pids, vad>>
      PROVE  MemoryTypeOK'
  BY <1>2 DEF MemoryOver
<1>3. CASE NotTriggered \/ NoDump
  BY <1>1, <1>2, <1>3 DEF NotTriggered, NoDump
<1>4. CASE StartPool
  BY <1>4 DEF StartPool
<1>5. ASSUME NEW p \in Plugins, WorkerStart(p) \/ WorkerEnd(p) PROVE MemoryTypeOK'
  BY <1>5 DEF WorkerStart, WorkerEnd
<1>6. ASSUME NEW p \in Plugins, Collect(p) \/ AlarmInResult(p) PROVE MemoryTypeOK'
  BY <1>6 DEF Collect, AlarmInResult
<1>7. CASE StartDump
  BY <1>7 DEF StartDump
<1>8. ASSUME Finish, UNCHANGED <<clock, plug, left, got>> PROVE MemoryTypeOK'
  <2>1. Result \in Vols
    BY <1>8, ResultType DEF Finish
  <2> QED
    BY <1>2, <1>8, <2>1 DEF Finish, Disarmed
<1>9. CASE AfterDump
  <2>1. CASE StartVadinfo
    BY <1>9, <2>1 DEF AfterDump, StartVadinfo
  <2>2. CASE Finish
    BY <1>8, <1>9, <2>2 DEF AfterDump
  <2> QED
    BY <1>9, <2>1, <2>2 DEF AfterDump
<1>10. CASE VadinfoEnds
  <2>1. UNCHANGED <<clock, plug, left, got>> /\ vad' \in Finished
    BY <1>10 DEF VadinfoEnds
  <2>2. CASE /\ mpc' = "images" /\ pids' = intel.pids /\ busy' \in 0 .. PluginTime
             /\ UNCHANGED <<alarm, vol>>
    BY <2>1, <2>2 DEF CapeTypeOK, Intels
  <2>3. CASE MemoryOver(Result) /\ Disarmed /\ UNCHANGED pids
    BY <2>1, <2>3, ResultType DEF MemoryOver, Disarmed
  <2> QED
    BY <1>10, <2>2, <2>3 DEF VadinfoEnds
<1>11. ASSUME NextImage, alarm' \in {alarm, "in_images"}, UNCHANGED <<clock, plug, left, got>>
       PROVE  MemoryTypeOK'
  BY <1>11 DEF NextImage
<1>12. CASE ImageEnds
  BY <1>8, <1>11, <1>12 DEF ImageEnds
<1>13. CASE AlarmInPool
  BY <1>13 DEF AlarmInPool
<1>14. CASE PoolJoined \/ AlarmInDump
  BY <1>1, <1>2, <1>14 DEF PoolJoined, AlarmInDump
<1>15. CASE AlarmInImages
  <2>1. CASE NextImage
    BY <1>11, <1>15, <2>1 DEF AlarmInImages
  <2>2. CASE UNCHANGED <<pids, vad>> /\ MemoryOver(Result)
    <3>1. Result \in Vols
      BY <2>2, ResultType
    <3> QED
      BY <1>15, <2>2, <3>1 DEF AlarmInImages, MemoryOver
  <2> QED
    BY <1>15, <2>1, <2>2 DEF AlarmInImages
<1>16. CASE MemoryTick
  <2>1. busy' \in Nat
    BY <1>16 DEF MemoryTick, Less
  <2>2. left' \in [Plugins -> 0 .. PluginTime]
    BY <1>16 DEF MemoryTick, Less
  <2> QED
    BY <1>16, <2>1, <2>2 DEF MemoryTick
<1>17. CASE LeaveMemory
  BY <1>17 DEF LeaveMemory
<1>18. CASE UNCHANGED memVars
  BY <1>18 DEF memVars
<1> QED
  BY <1>3, <1>4, <1>5, <1>6, <1>7, <1>9, <1>10, <1>12, <1>13, <1>14, <1>15, <1>16, <1>17,
     <1>18, StepCases DEF MemoryNext, LeaveCape, Correlate, vars

\* What the loaders can lose is some rule's.
LEMMA PassableType == \A e \in Evidence : Passable(e) \subseteq Rules
BY DEF Passable, Named, Rules

\* The warnings and the blind rules are named ones.
LEMMA CorrTypeNext ==
  ASSUME CorrTypeOK, [Next]_vars
  PROVE  CorrTypeOK'
<1>1. CASE CrossCorrelate
  <2>1. PICK e \in Evidence, lost \in SUBSET Rules,
            raised \in {{}} \cup {{r} : r \in Rules}, checked \in BOOLEAN :
          /\ blind' = BlindRules(e) \cup lost \cup raised
          /\ passed' = lost \ (BlindRules(e) \cup raised)
          /\ warnings' = raised
               \cup (IF checked THEN CapeWarning \cup VolatilityWarnings(e) ELSE {"coverage"})
    BY <1>1, PassableType DEF CrossCorrelate
  <2>2. raised \subseteq Rules
    OBVIOUS
  <2>3. BlindRules(e) \subseteq Rules
    BY DEF BlindRules, Named, Rules
  <2>4. CapeWarning \subseteq Warnings /\ VolatilityWarnings(e) \subseteq Warnings
    BY DEF CapeWarning, VolatilityWarnings, Missing, Named, Warnings, Rules
  <2>5. Rules \subseteq Warnings /\ "coverage" \in Warnings
    BY DEF Warnings
  <2> QED
    BY <2>1, <2>2, <2>3, <2>4, <2>5 DEF CorrTypeOK
<1>2. CASE UNCHANGED corrVars
  BY <1>2 DEF corrVars, CorrTypeOK
<1> QED
  BY <1>1, <1>2, StepCases DEF LeaveCape, LeaveMemory, Correlate, vars

\* Rewriting the entries of the programs keeps them entries.
LEMMA RewrittenType ==
  ASSUME StaticTypeOK, NEW s \in SUBSET Usable, NEW a \in [s -> {"yes", "no", "unknown"}],
         NEW p \in DOMAIN files
  PROVE  /\ Rewritten(p, a) \in Entry
         /\ Rewritten(p, a).ok = files[p].ok /\ Rewritten(p, a).held = files[p].held
         /\ Rewritten(p, a).index = files[p].index
         /\ Rewritten(p, a).probe = IF p \in s THEN a[p] ELSE "none"
         /\ Rewritten(p, a).host = (files[p].ok /\ canonical' # "none")
<1>1. files[p] \in Entry /\ DOMAIN a = s
  BY DEF StaticTypeOK
<1>2. p \in s => a[p] \in {"yes", "no", "unknown"}
  OBVIOUS
<1>3. (files[p].ok /\ canonical' # "none") \in BOOLEAN
  BY <1>1 DEF Entry
<1>4. (IF p \in s THEN a[p] ELSE "none") \in {"none", "yes", "no", "unknown"}
  BY <1>2
<1> DEFINE probe == IF p \in s THEN a[p] ELSE "none"
           host  == files[p].ok /\ canonical' # "none"
<1>5. Rewritten(p, a) = [files[p] EXCEPT !.probe = probe, !.host = host]
  BY <1>1 DEF Rewritten
<1> HIDE DEF probe, host
<1>6. probe \in {"none", "yes", "no", "unknown"} /\ host \in BOOLEAN
  BY <1>3, <1>4 DEF probe, host
<1>7. /\ Rewritten(p, a) \in Entry
      /\ Rewritten(p, a).ok = files[p].ok /\ Rewritten(p, a).held = files[p].held
      /\ Rewritten(p, a).index = files[p].index
      /\ Rewritten(p, a).probe = probe /\ Rewritten(p, a).host = host
  BY <1>1, <1>5, <1>6 DEF Entry
<1> QED
  BY <1>7 DEF probe, host

\* What SelectCanonical does to each program.
LEMMA SelectCases ==
  ASSUME StaticTypeOK, SelectCanonical
  PROVE  \E s \in SUBSET Usable : \E a \in [s -> {"yes", "no", "unknown"}] :
           /\ Asked(s, a)
           /\ DOMAIN files' = DOMAIN files
           /\ \A p \in DOMAIN files :
                /\ files'[p] \in Entry
                /\ files'[p].ok = files[p].ok /\ files'[p].held = files[p].held
                /\ files'[p].index = files[p].index
                /\ files'[p].probe = IF p \in s THEN a[p] ELSE "none"
                /\ files'[p].host = (files[p].ok /\ canonical' # "none")
<1>1. PICK s \in SUBSET Usable : \E a \in [s -> {"yes", "no", "unknown"}] :
        Asked(s, a) /\ files' = [p \in DOMAIN files |-> Rewritten(p, a)]
  BY DEF SelectCanonical
<1>2. PICK a \in [s -> {"yes", "no", "unknown"}] :
        Asked(s, a) /\ files' = [p \in DOMAIN files |-> Rewritten(p, a)]
  BY <1>1
<1>3. DOMAIN files' = DOMAIN files /\ \A p \in DOMAIN files : files'[p] = Rewritten(p, a)
  BY <1>2
<1>4. \A p \in DOMAIN files :
        /\ files'[p] \in Entry
        /\ files'[p].ok = files[p].ok /\ files'[p].held = files[p].held
        /\ files'[p].index = files[p].index
        /\ files'[p].probe = IF p \in s THEN a[p] ELSE "none"
        /\ files'[p].host = (files[p].ok /\ canonical' # "none")
  BY <1>3, RewrittenType
<1> QED
  BY <1>2, <1>3, <1>4

\* The programs, and what is chosen of them.
LEMMA StaticTypeNext ==
  ASSUME StaticTypeOK, sample \in SampleRecord, [Next]_vars
  PROVE  StaticTypeOK'
<1> USE DEF StaticTypeOK, Outcomes
<1>1. CASE RunAnalyser
  BY <1>1 DEF RunAnalyser
<1>2. CASE RunGo
  BY <1>2 DEF RunGo
<1>3. CASE RunNative
  BY <1>3 DEF RunNative
<1>4. CASE RunGhidra
  <2>1. PICK s \in SUBSET Programs : files' \in [s -> Loaded]
    BY <1>4 DEF RunGhidra
  <2>2. DOMAIN files' \subseteq Programs /\ \A p \in DOMAIN files' : files'[p] \in Entry
    BY <2>1 DEF Loaded
  <2> QED
    BY <1>4, <2>2 DEF RunGhidra
<1>4a. CASE HashFails
  BY <1>4a DEF HashFails
<1>5. CASE SelectCanonical
  <2>1. PICK s \in SUBSET Usable : \E a \in [s -> {"yes", "no", "unknown"}] : Asked(s, a)
    BY <1>5 DEF SelectCanonical
  <2>2. canonical' \in DOMAIN files \cup {"none"}
    BY <2>1 DEF Asked, Usable, Successful
  <2>3. DOMAIN files' = DOMAIN files /\ \A p \in DOMAIN files : files'[p] \in Entry
    BY <1>5, SelectCases
  <2> QED
    BY <1>5, <2>2, <2>3 DEF SelectCanonical
<1>6. CASE AnalyseShell
  BY <1>6 DEF AnalyseShell
<1>7. CASE PayloadTarget
  <2>1. target' \in Programs \cup {"none", "tool", "shell", "nothing"}
    BY <1>7 DEF PayloadTarget, Payloads, Usable, Successful
  <2> QED
    BY <1>7, <2>1 DEF PayloadTarget
<1>8. CASE WrapperTarget
  <2>1. \A p : NativeTarget(p) => p \in Programs
    BY DEF NativeTarget, Usable, Successful
  <2>2. target' \in Programs \cup {"none", "tool", "shell", "nothing"}
    BY <1>8, <2>1 DEF WrapperTarget
  <2> QED
    BY <1>8, <2>2 DEF WrapperTarget
<1>9. CASE LeaveMemory
  BY <1>9 DEF LeaveMemory
<1>10. CASE Correlate
  BY <1>10 DEF Correlate
<1>11. CASE UNCHANGED staticVars
  BY <1>11 DEF staticVars
<1> QED
  BY <1>1, <1>2, <1>3, <1>4, <1>4a, <1>5, <1>6, <1>7, <1>8, <1>9, <1>10, <1>11, StepCases
     DEF StaticNext, LeaveCape, vars

\* The sample is the same throughout.
LEMMA SampleFixed == [Next]_vars => UNCHANGED sample
<1>1. CapeNext => UNCHANGED sample
  BY DEF CapeNext, CapeStage, CapeStarts, CapeMoves, SkipCape, RefuseSubmission,
     SubmitTask, SubmitFails, PollAnswered, PollFails, GiveUp, ExtractIntel, StageRaises
<1>2. UNCHANGED capeVars => UNCHANGED sample
  BY DEF capeVars
<1> QED
  BY <1>1, <1>2, StepCases DEF LeaveCape, LeaveMemory, Correlate, vars

\* The stages come one after another.
LEMMA InOrderNext ==
  ASSUME InOrder, [Next]_vars
  PROVE  InOrder'
<1> USE DEF InOrder
<1>1. CASE CapeNext /\ UNCHANGED <<memVars, corrVars, staticVars>>
  <2>1. cpc # "over"
    BY <1>1 DEF CapeNext, CapeStage, CapeStarts, CapeMoves, SkipCape, RefuseSubmission,
       SubmitTask, SubmitFails, PollAnswered, PollFails, GiveUp, ExtractIntel, StageRaises
  <2> QED
    BY <1>1, <2>1 DEF memVars, staticVars
<1>2. CASE LeaveCape
  BY <1>2 DEF LeaveCape, memVars, staticVars
<1>3. CASE MemoryNext /\ UNCHANGED <<capeVars, corrVars, staticVars>>
  <2>1. mpc = "done" => mpc' = "done"
    BY <1>3 DEF MemoryNext, NotTriggered, Triggered, NoDump, StartPool, WorkerStart,
       WorkerEnd, Collect, AlarmInResult, StartDump, AfterDump, VadinfoEnds, ImageEnds,
       AlarmInPool, PoolJoined, AlarmInDump, AlarmInImages, MemoryTick
  <2>2. mpc # "idle" \/ mpc' = "idle" \/ cpc = "over"
    BY <1>3 DEF MemoryNext, NotTriggered, Triggered, NoDump, StartPool, WorkerStart,
       WorkerEnd, Collect, AlarmInResult, StartDump, AfterDump, VadinfoEnds, ImageEnds,
       AlarmInPool, PoolJoined, AlarmInDump, AlarmInImages, MemoryTick
  <2> QED
    BY <1>3, <2>1, <2>2 DEF capeVars, staticVars
<1>4. CASE LeaveMemory
  BY <1>4 DEF LeaveMemory, capeVars
<1>5. CASE StaticNext /\ UNCHANGED <<capeVars, memVars, corrVars>>
  <2>1. spc # "idle"
    BY <1>5 DEF StaticNext, RunAnalyser, RunGo, RunNative, RunGhidra, HashFails, SelectCanonical,
       AnalyseShell, PayloadTarget, WrapperTarget
  <2> QED
    BY <1>5, <2>1 DEF capeVars, memVars
<1>6. CASE Correlate
  BY <1>6 DEF Correlate, capeVars, memVars
<1>7. CASE UNCHANGED vars
  BY <1>7 DEF vars, capeVars, memVars, staticVars
<1> QED
  BY <1>1, <1>2, <1>3, <1>4, <1>5, <1>6, <1>7, StepCases

\* poll_cape_task: what the poll knows of the task.
LEMMA PollInvNext ==
  ASSUME CapeTypeOK, PollInv, [Next]_vars
  PROVE  PollInv'
<1> USE CapeAssumption DEF PollInv, CapeStarted, CapeFailed, CapeTypeOK, TaskStates, poll
<1>1. CASE CapeStarts
  BY <1>1 DEF CapeStarts
<1>2. CASE CapeMoves
  BY <1>2 DEF CapeMoves
<1>3. CASE SkipCape \/ RefuseSubmission \/ GiveUp \/ ExtractIntel \/ StageRaises
  BY <1>3 DEF SkipCape, RefuseSubmission, GiveUp, ExtractIntel, StageRaises, Ended
<1>4. CASE SubmitTask \/ SubmitFails
  BY <1>4 DEF SubmitTask, SubmitFails, Ended
<1>5. CASE PollAnswered
  BY <1>5 DEF PollAnswered, Ended
<1>6. CASE PollFails
  BY <1>6 DEF PollFails
<1>7. CASE LeaveCape
  BY <1>7 DEF LeaveCape
<1>8. CASE UNCHANGED capeVars
  BY <1>8 DEF capeVars
<1> QED
  BY <1>1, <1>2, <1>3, <1>4, <1>5, <1>6, <1>7, <1>8, StepCases
     DEF CapeNext, CapeStage, LeaveMemory, Correlate, vars

\* The verdict "never started" is given when the window closes.
LEMMA NeverStartedNext ==
  ASSUME CapeTypeOK, PollInv, NeverStartedHonest, [Next]_vars
  PROVE  NeverStartedHonest'
<1> USE CapeAssumption DEF NeverStartedHonest, CapeTypeOK, poll
<1>1. CASE GiveUp
  <2>1. errors = 0 /\ ~started => startedAt >= CapeTimeout
    BY <1>1 DEF GiveUp, PollInv, Never
  <2>2. UNCHANGED <<errors, startedAt>> /\ (cape'.status = "never_started" => ~started)
    BY <1>1 DEF GiveUp, Ended
  <2> QED
    BY <2>1, <2>2
<1>2. CASE SkipCape \/ RefuseSubmission \/ ExtractIntel \/ StageRaises \/ SubmitFails
  BY <1>2 DEF SkipCape, RefuseSubmission, ExtractIntel, StageRaises, SubmitFails, Ended
<1>3. CASE CapeStarts \/ CapeMoves \/ SubmitTask \/ PollFails
  BY <1>3 DEF CapeStarts, CapeMoves, SubmitTask, PollFails
<1>4. CASE PollAnswered
  BY <1>4 DEF PollAnswered, Ended, CapeFailed
<1>5. CASE LeaveCape
  BY <1>5 DEF LeaveCape
<1>6. CASE UNCHANGED capeVars
  BY <1>6 DEF capeVars
<1> QED
  BY <1>1, <1>2, <1>3, <1>4, <1>5, <1>6, StepCases
     DEF CapeNext, CapeStage, LeaveMemory, Correlate, vars

\* run_volatility's pool: where the main thread is tells how far the plugins are.
LEMMA PoolNext ==
  ASSUME MemoryTypeOK, PoolInv, QuietAfterwards, [Next]_vars
  PROVE  PoolInv' /\ QuietAfterwards'
<1> USE DEF PoolInv, QuietAfterwards, MemoryTypeOK, Finished, pool
<1>1. ASSUME UNCHANGED pool, mpc' \in {"done", "images", "vadinfo", "dump"},
             mpc # "done", mpc = "idle" => mpc' = "done", mpc = "pool" => AllCollected,
             mpc = "join" => \A p \in Plugins : plug[p] \in Finished
      PROVE  PoolInv' /\ QuietAfterwards'
  BY <1>1 DEF AllCollected
<1>2. CASE NotTriggered \/ NoDump
  BY <1>1, <1>2 DEF NotTriggered, NoDump, Triggered, MemoryOver
<1>3. CASE StartPool
  BY <1>3 DEF StartPool, Triggered
<1>4. ASSUME NEW p \in Plugins, WorkerStart(p) PROVE PoolInv' /\ QuietAfterwards'
  BY <1>4 DEF WorkerStart, Runnable
<1>5. ASSUME NEW p \in Plugins, WorkerEnd(p) PROVE PoolInv' /\ QuietAfterwards'
  BY <1>5 DEF WorkerEnd
<1>6. ASSUME NEW p \in Plugins, Collect(p) \/ AlarmInResult(p)
      PROVE  PoolInv' /\ QuietAfterwards'
  BY <1>6 DEF Collect, AlarmInResult
<1>7. CASE StartDump
  BY <1>1, <1>7 DEF StartDump
<1>8. CASE AfterDump
  <2>1. mpc' \in {"vadinfo", "done"}
    BY <1>8 DEF AfterDump, StartVadinfo, Finish, MemoryOver
  <2> QED
    BY <1>1, <1>8, <2>1 DEF AfterDump
<1>9. CASE VadinfoEnds
  BY <1>1, <1>9 DEF VadinfoEnds, MemoryOver
<1>10. CASE ImageEnds \/ AlarmInImages
  <2>1. mpc = "images" /\ mpc' \in {"images", "done"} /\ UNCHANGED pool
    BY <1>10 DEF ImageEnds, AlarmInImages, NextImage, Finish, MemoryOver
  <2> QED
    BY <1>1, <2>1
<1>11. CASE AlarmInPool
  BY <1>11 DEF AlarmInPool
<1>12. CASE PoolJoined \/ AlarmInDump
  BY <1>1, <1>12 DEF PoolJoined, AlarmInDump, MemoryOver
<1>13. CASE MemoryTick
  BY <1>13 DEF MemoryTick
<1>14. CASE LeaveMemory
  BY <1>14 DEF LeaveMemory
<1>15. CASE UNCHANGED memVars
  BY <1>15 DEF memVars
<1> QED
  BY <1>2, <1>3, <1>4, <1>5, <1>6, <1>7, <1>8, <1>9, <1>10, <1>11, <1>12, <1>13, <1>14,
     <1>15, StepCases DEF MemoryNext, LeaveCape, Correlate, vars

\* cross_correlate: a rule without a source is told of once Volatility was asked; what
\* a rule still misses a loader has passed over.
LEMMA WarningsCover ==
  ASSUME CrossCorrelate, warnings' = {}, vol.state \in {"error", "ran"}
  PROVE  blind' \subseteq passed'
<1>1. PICK e \in Evidence, lost \in SUBSET Rules,
          raised \in {{}} \cup {{r} : r \in Rules}, checked \in BOOLEAN :
        /\ blind' = BlindRules(e) \cup lost \cup raised
        /\ passed' = lost \ (BlindRules(e) \cup raised)
        /\ warnings' = raised
             \cup (IF checked THEN CapeWarning \cup VolatilityWarnings(e) ELSE {"coverage"})
  BY PassableType DEF CrossCorrelate
<1>2. raised = {} /\ checked /\ VolatilityWarnings(e) = {}
  BY <1>1
<1>3. vol.state = "ran"
  BY <1>2 DEF VolatilityWarnings, Missing, Named
<1>4. Missing(vol.usable) = {}
  BY <1>2, <1>3 DEF VolatilityWarnings
<1>5. /\ Named("manifest", Dlllist \in vol.usable /\ ~e.manifest) = {}
      /\ Named("vad", intel.buffers /\ e.addresses # "all") = {}
      /\ Named("c2", e.host /\ ~e.regions /\ ~e.image) = {}
  BY <1>2, <1>3 DEF VolatilityWarnings
<1>6. Dlllist \in vol.usable /\ Malfind \in vol.usable /\ Cmdline \in vol.usable
  BY <1>4 DEF Missing, Named
<1>7. BlindRules(e) = {}
  BY <1>5, <1>6 DEF BlindRules, Named
<1> QED
  BY <1>1, <1>2, <1>7

\* Nothing that correlation reads changes after it.
LEMMA SilenceCoversNext ==
  ASSUME TypeOK, InOrder, SilenceCovers, [Next]_vars
  PROVE  SilenceCovers'
<1> USE DEF SilenceCovers, Correlated
<1>1. CASE Correlate
  <2>1. UNCHANGED vol
    BY <1>1 DEF Correlate, memVars
  <2>2. vol.state \in {"off", "error", "ran"}
    BY DEF TypeOK, MemoryTypeOK
  <2> QED
    BY <1>1, <2>1, <2>2, WarningsCover DEF Correlate
<1>2. CASE MemoryNext /\ UNCHANGED <<capeVars, corrVars, staticVars>>
  <2>1. mpc = "done" => UNCHANGED vol
    BY <1>2 DEF MemoryNext, NotTriggered, Triggered, NoDump, StartPool, WorkerStart,
       WorkerEnd, Collect, AlarmInResult, StartDump, AfterDump, VadinfoEnds, ImageEnds,
       AlarmInPool, PoolJoined, AlarmInDump, AlarmInImages, MemoryTick
  <2>2. spc \in {"payload", "wrapper", "done"} => mpc = "done"
    BY DEF InOrder
  <2> QED
    BY <1>2, <2>1, <2>2 DEF corrVars, staticVars
<1>3. CASE StaticNext /\ UNCHANGED <<capeVars, memVars, corrVars>>
  <2>1. Correlated' => Correlated
    BY <1>3 DEF StaticNext, RunAnalyser, RunGo, RunNative, RunGhidra, HashFails, SelectCanonical,
       AnalyseShell, PayloadTarget, WrapperTarget
  <2> QED
    BY <1>3, <2>1 DEF memVars, corrVars
<1>4. CASE LeaveMemory
  BY <1>4 DEF LeaveMemory
<1>5. CASE UNCHANGED <<memVars, corrVars, staticVars>>
  BY <1>5 DEF memVars, corrVars, staticVars
<1> QED
  BY <1>1, <1>2, <1>3, <1>4, <1>5, StepCases DEF LeaveCape, vars

\* select_payload_target, select_native_target: before the choice of a target, or
\* without one.
Choosing == {"idle", "route", "load", "select", "raised"}

\* propagate_project_dir: a canonical program, or the knowledge that there is none.
LEMMA SelectChooses ==
  ASSUME StaticTypeOK, ChoiceInv, SelectCanonical
  PROVE  ChoiceInv' /\ UNCHANGED target /\ target = "none"
<1>1. PICK s \in SUBSET Usable : \E a \in [s -> {"yes", "no", "unknown"}] :
        /\ Asked(s, a)
        /\ DOMAIN files' = DOMAIN files
        /\ \A p \in DOMAIN files :
             /\ files'[p] \in Entry
             /\ files'[p].ok = files[p].ok /\ files'[p].held = files[p].held
             /\ files'[p].index = files[p].index
             /\ files'[p].probe = IF p \in s THEN a[p] ELSE "none"
             /\ files'[p].host = (files[p].ok /\ canonical' # "none")
  BY SelectCases
<1>2. PICK a \in [s -> {"yes", "no", "unknown"}] :
        /\ Asked(s, a)
        /\ DOMAIN files' = DOMAIN files
        /\ \A p \in DOMAIN files :
             /\ files'[p] \in Entry
             /\ files'[p].ok = files[p].ok /\ files'[p].held = files[p].held
             /\ files'[p].index = files[p].index
             /\ files'[p].probe = IF p \in s THEN a[p] ELSE "none"
             /\ files'[p].host = (files[p].ok /\ canonical' # "none")
  BY <1>1
<1>3. spc = "select" /\ spc' = "shell" /\ UNCHANGED target /\ target = "none"
  BY DEF SelectCanonical, ChoiceInv
<1>4. Successful' = Successful /\ Usable' = Usable
  BY <1>2 DEF Successful, Usable
<1>5. \A p \in s : p \in DOMAIN files /\ files[p].ok /\ files[p].index # "no" /\ a[p] \in Answers(p)
  BY <1>2 DEF Asked, Usable, Successful
<1>6. \A p \in DOMAIN files' : files'[p].probe = "no" => ~files'[p].held
  <2>1. \A p \in s : a[p] = "no" => ~files[p].held
    BY <1>5 DEF Answers
  <2> QED
    BY <1>2, <2>1
<1>7. ASSUME canonical' # "none"
      PROVE  /\ (canonical \in Usable)' /\ ~KnownMissing(canonical)'
             /\ \A p \in Successful' : files'[p].host
  <2>1. canonical' \in s /\ a[canonical'] \in {"yes", "unknown"}
    BY <1>2, <1>7 DEF Asked
  <2>2. canonical' \in DOMAIN files /\ files'[canonical'].index # "no" /\ files'[canonical'].probe # "no"
    BY <1>2, <1>5, <2>1
  <2>3. \A p \in Successful' : files'[p].host
    BY <1>2, <1>4, <1>7 DEF Successful
  <2>4. ~KnownMissing(canonical)'
    BY <2>2 DEF KnownMissing
  <2> QED
    BY <1>4, <2>1, <2>3, <2>4
<1>8. ASSUME canonical' = "none"
      PROVE  \A p \in Successful' : KnownMissing(p)'
  <2>1. "none" \notin s
    BY <1>5 DEF StaticTypeOK, Programs, Extracts
  <2>2. s = Usable /\ \A p \in s : a[p] = "no"
    BY <1>2, <1>8, <2>1 DEF Asked
  <2>3. \A p \in Usable : files'[p].probe = "no"
    BY <1>2, <2>2 DEF Usable, Successful
  <2>4. \A p \in Successful : p \notin Usable => files'[p].index = "no"
    BY <1>2 DEF Usable, Successful
  <2> QED
    BY <1>4, <2>3, <2>4 DEF KnownMissing
<1> QED
  BY <1>3, <1>6, <1>7, <1>8 DEF ChoiceInv

\* The choice is made once and its grounds do not change.
LEMMA ChoiceNext ==
  ASSUME StaticTypeOK, ChoiceInv, [Next]_vars
  PROVE  ChoiceInv'
<1>1. CASE RunAnalyser \/ RunGo \/ RunNative \/ HashFails
  BY <1>1 DEF RunAnalyser, RunGo, RunNative, HashFails, ChoiceInv, Successful
<1>2. CASE RunGhidra
  <2>1. PICK s \in SUBSET Programs : files' \in [s -> Loaded]
    BY <1>2 DEF RunGhidra
  <2>2. \A p \in DOMAIN files' : files'[p].probe = "none"
    BY <2>1 DEF Loaded
  <2> QED
    BY <1>2, <2>2 DEF RunGhidra, ChoiceInv
<1>3. CASE SelectCanonical
  BY <1>3, SelectChooses
<1>4. ASSUME UNCHANGED <<files, canonical>>, spc \notin Choosing, spc' \notin Choosing
      PROVE  ChoiceInv'
  BY <1>4 DEF ChoiceInv, Choosing, Usable, Successful, KnownMissing
<1>5. CASE AnalyseShell \/ PayloadTarget \/ WrapperTarget
  BY <1>4, <1>5 DEF AnalyseShell, PayloadTarget, WrapperTarget, Choosing
<1>6. CASE Correlate
  BY <1>4, <1>6 DEF Correlate, Choosing
<1>7. CASE LeaveMemory
  BY <1>7 DEF LeaveMemory, ChoiceInv, Successful
<1>8. CASE UNCHANGED staticVars
  BY <1>8 DEF staticVars, ChoiceInv, Usable, Successful, KnownMissing
<1> QED
  BY <1>1, <1>2, <1>3, <1>5, <1>6, <1>7, <1>8, StepCases DEF StaticNext, LeaveCape, vars

\* What the two properties of the choice say of the program p.
Justified(p) ==
  p \in DOMAIN files /\ (KnownMissing(p) \/ ~files[p].host)
    => \A q \in Successful : KnownMissing(q)

\* The canonical program, a payload that a probe opens, or one of programs of
\* which none can be opened.
LEMMA TargetNext ==
  ASSUME StaticTypeOK, sample \in SampleRecord, ChoiceInv, Justified(target), [Next]_vars
  PROVE  Justified(target)'
<1> USE DEF Justified
<1>0. ASSUME spc \notin Choosing PROVE Justified(canonical)
  BY <1>0 DEF ChoiceInv, Choosing, Usable
<1>1. CASE RunAnalyser \/ RunGo \/ RunNative
  BY <1>1 DEF RunAnalyser, RunGo, RunNative, ChoiceInv
<1>2. CASE RunGhidra \/ SelectCanonical
  <2>1. target' = "none"
    BY <1>2, SelectChooses DEF RunGhidra, ChoiceInv
  <2>2. DOMAIN files' \subseteq Programs
    BY StaticTypeNext DEF StaticTypeOK
  <2> QED
    BY <2>1, <2>2 DEF Programs, Extracts
<1>3. ASSUME UNCHANGED <<files, canonical>>, Justified(target') PROVE Justified(target)'
  BY <1>3 DEF KnownMissing, Successful
<1>4. CASE AnalyseShell \/ HashFails \/ Correlate \/ UNCHANGED staticVars
  BY <1>3, <1>4 DEF AnalyseShell, HashFails, Correlate, staticVars
<1>5. CASE PayloadTarget
  <2>1. CASE "labelled" \in Payloads /\ files["labelled"].held /\ files["labelled"].host /\ target' = "labelled"
    <3>1. ~KnownMissing("labelled")
      BY <2>1 DEF Payloads, Usable, Successful, KnownMissing, ChoiceInv
    <3> QED
      BY <1>3, <1>5, <2>1, <3>1 DEF PayloadTarget
  <2>2. CASE canonical \in Payloads /\ target' = canonical
    BY <1>0, <1>3, <1>5, <2>2 DEF PayloadTarget, Choosing
  <2>3. CASE UNCHANGED target
    BY <1>3, <1>5, <2>3 DEF PayloadTarget
  <2> QED
    BY <1>5, <2>1, <2>2, <2>3 DEF PayloadTarget
<1>6. CASE WrapperTarget
  <2>1. CASE target' \in {"tool", "shell", "nothing"}
    <3>1. target' \notin DOMAIN files
      BY <2>1 DEF StaticTypeOK, Programs, Extracts
    <3> QED
      BY <1>3, <1>6, <3>1 DEF WrapperTarget
  <2>2. ASSUME NEW p \in Successful, NativeTarget(p), target' = p PROVE Justified(target)'
    <3>1. CASE canonical \in Usable
      BY <1>0, <1>3, <1>6, <2>2, <3>1 DEF WrapperTarget, NativeTarget, Choosing
    <3>2. CASE canonical \notin Usable
      <4>1. \A q \in Successful : KnownMissing(q)
        BY <1>6, <3>2 DEF WrapperTarget, ChoiceInv
      <4> QED
        BY <1>3, <1>6, <4>1 DEF WrapperTarget
    <3> QED
      BY <3>1, <3>2
  <2> QED
    BY <1>6, <2>1, <2>2 DEF WrapperTarget
<1>7. CASE LeaveMemory
  BY <1>7 DEF LeaveMemory, KnownMissing, Successful
<1> QED
  BY <1>1, <1>2, <1>4, <1>5, <1>6, <1>7, StepCases DEF StaticNext, LeaveCape, vars

\* The program starts in the invariant.
LEMMA InitIInv == Init => IInv
<1> SUFFICES ASSUME Init PROVE IInv
  OBVIOUS
<1> USE CapeAssumption, MemoryAssumption, SampleAssumption
        DEF Init, CapeInit, MemoryInit, IdleMemory, CorrInit, StaticInit
<1>1. sample \in SampleRecord
  OBVIOUS
<1>2. CapeTypeOK
  <2>1. Never \in 0 .. Never /\ 0 \in 0 .. Never /\ 0 \in 0 .. MaxErrors
    BY DEF Never
  <2>2. NoIntel \in Intels
    BY DEF NoIntel, Intels
  <2>3. cape \in [status : CapeStatuses, id : BOOLEAN]
    BY DEF CapeStatuses
  <2>4. task \in TaskStates
    BY DEF TaskStates
  <2> HIDE DEF Never
  <2> QED
    BY <2>1, <2>2, <2>3, <2>4 DEF CapeTypeOK
<1>3. MemoryTypeOK
  BY DEF MemoryTypeOK, Finished, NoVolatility
<1>4. CorrTypeOK /\ StaticTypeOK
  BY DEF CorrTypeOK, StaticTypeOK, Outcomes
<1>5. InOrder /\ PollInv
  BY DEF InOrder, PollInv, CapeStarted, CapeFailed
<1>6. PoolInv /\ QuietAfterwards
  BY DEF PoolInv, QuietAfterwards
<1>7. ChoiceInv
  BY DEF ChoiceInv
<1>8. NeverStartedHonest /\ SilenceCovers
  BY DEF NeverStartedHonest, SilenceCovers, Correlated
<1>9. BestProgram /\ ReadableTarget
  BY DEF BestProgram, ReadableTarget
<1> QED
  BY <1>1, <1>2, <1>3, <1>4, <1>5, <1>6, <1>7, <1>8, <1>9 DEF IInv, TypeOK

\* Every reachable state satisfies the invariant.
LEMMA Invariance == Spec => []IInv
<1>1. IInv /\ [Next]_vars => IInv'
  <2> SUFFICES ASSUME IInv, [Next]_vars PROVE IInv'
    OBVIOUS
  <2>1. TypeOK /\ Justified(target)
    BY DEF IInv, Justified, BestProgram, ReadableTarget
  <2>2. TypeOK'
    BY <2>1, CapeTypeNext, MemoryTypeNext, CorrTypeNext, StaticTypeNext, SampleFixed DEF TypeOK
  <2>3. InOrder' /\ PollInv' /\ NeverStartedHonest'
    BY <2>1, InOrderNext, PollInvNext, NeverStartedNext DEF IInv, TypeOK
  <2>4. PoolInv' /\ QuietAfterwards' /\ SilenceCovers'
    BY <2>1, PoolNext, SilenceCoversNext DEF IInv, TypeOK
  <2>5. ChoiceInv' /\ Justified(target)'
    BY <2>1, ChoiceNext, TargetNext DEF IInv, TypeOK
  <2>6. BestProgram' /\ ReadableTarget'
    BY <2>5 DEF Justified, BestProgram, ReadableTarget
  <2> QED
    BY <2>2, <2>3, <2>4, <2>5, <2>6 DEF IInv
<1> QED
  BY InitIInv, <1>1, PTL DEF Spec

\* The report's sections and the stages' variables stay in shape.
THEOREM TypeCorrect == Spec => []TypeOK
<1>1. IInv => TypeOK
  BY DEF IInv
<1> QED
  BY Invariance, <1>1, PTL

\* poll_cape_task: with every request answered, a task reported as never started
\* was not started before the last interval of the wait.
THEOREM NeverStartedIsHonest == Spec => []NeverStartedHonest
<1>1. IInv => NeverStartedHonest
  BY DEF IInv
<1> QED
  BY Invariance, <1>1, PTL

\* run_volatility: however the alarm falls, no plugin outlives the stage.
THEOREM MemoryStageEndsQuiet == Spec => []QuietAfterwards
<1>1. IInv => QuietAfterwards
  BY DEF IInv
<1> QED
  BY Invariance, <1>1, PTL

\* cross_correlate: once Volatility was asked for, silence means that every rule ran and
\* had its sources: what a rule still missed, a loader that says nothing passed over, a
\* file or a record at a time.
THEOREM SilenceIsCovered == Spec => []SilenceCovers
<1>1. IInv => SilenceCovers
  BY DEF IInv
<1> QED
  BY Invariance, <1>1, PTL

\* select_native_target, select_payload_target: a program known to be missing
\* from its project is read only if all are.
THEOREM BestProgramIsRead == Spec => []BestProgram
<1>1. IInv => BestProgram
  BY DEF IInv
<1> QED
  BY Invariance, <1>1, PTL

\* propagate_project_dir: the agent's program is named by a path of the host.
THEOREM TargetIsReadable == Spec => []ReadableTarget
<1>1. IInv => ReadableTarget
  BY DEF IInv
<1> QED
  BY Invariance, <1>1, PTL
-----------------------------------------------------------------------------
(* derive_flow: the picture of a finished run.                             *)

\* extract_cape_intel: behaviour comes with a report.
LEMMA IntelNext ==
  ASSUME IntelInv, [Next]_vars
  PROVE  IntelInv'
<1> USE DEF IntelInv
<1>1. CASE CapeStarts \/ CapeMoves \/ SubmitTask \/ PollFails
  BY <1>1 DEF CapeStarts, CapeMoves, SubmitTask, PollFails
<1>2. CASE SkipCape \/ RefuseSubmission \/ SubmitFails \/ GiveUp \/ StageRaises
  BY <1>2 DEF SkipCape, RefuseSubmission, SubmitFails, GiveUp, StageRaises, Ended, NoIntel
<1>3. CASE PollAnswered
  BY <1>3 DEF PollAnswered, Ended, NoIntel
<1>4. CASE ExtractIntel
  BY <1>4 DEF ExtractIntel, Ended
<1>5. CASE LeaveCape
  BY <1>5 DEF LeaveCape
<1>6. CASE UNCHANGED capeVars
  BY <1>6 DEF capeVars
<1> QED
  BY <1>1, <1>2, <1>3, <1>4, <1>5, <1>6, StepCases
     DEF CapeNext, CapeStage, LeaveMemory, Correlate, vars

\* Once static analysis begins, what it reads of the earlier stages is final.
LEMMA SectionsFinal ==
  ASSUME InOrder, spc # "idle", [Next]_vars
  PROVE  UNCHANGED <<cape, intel, vol, sample>>
<1>1. mpc = "done" /\ cpc = "over"
  BY DEF InOrder
<1>2. ~CapeNext /\ ~LeaveCape
  BY <1>1 DEF CapeNext, CapeStage, CapeStarts, CapeMoves, SkipCape, RefuseSubmission,
     SubmitTask, SubmitFails, PollAnswered, PollFails, GiveUp, ExtractIntel, StageRaises,
     LeaveCape
<1>3. MemoryNext => UNCHANGED vol
  BY <1>1 DEF MemoryNext, NotTriggered, Triggered, NoDump, StartPool, WorkerStart,
     WorkerEnd, Collect, AlarmInResult, StartDump, AfterDump, VadinfoEnds, ImageEnds,
     AlarmInPool, PoolJoined, AlarmInDump, AlarmInImages, MemoryTick
<1> QED
  BY <1>2, <1>3, StepCases DEF LeaveMemory, Correlate, vars, capeVars, memVars

\* discover_pe_files: what reaches Ghidra has a section that carried it.
LEMMA LoadedNext ==
  ASSUME StaticTypeOK, sample \in SampleRecord, InOrder, ChoiceInv, LoadedInv, [Next]_vars
  PROVE  LoadedInv'
<1>1. CASE RunGhidra
  <2>1. PICK s \in SUBSET Programs : Loadable(s) /\ files' \in [s -> Loaded]
    BY <1>1 DEF RunGhidra
  <2>2. DOMAIN files' = s /\ UNCHANGED <<cape, intel, vol, sample, routed>>
    BY <1>1, <2>1, SectionsFinal DEF RunGhidra
  <2>3. /\ "original" \in s => ~routed
        /\ \A p \in {"payload", "labelled"} \cap s :
             cape.status = "reported" /\ p \in sample.extracts
        /\ "region" \in s => intel.buffers \/ vol.state = "ran"
    <3>1. s \subseteq (IF routed THEN {} ELSE {"original"}) \cup sample.extracts
      BY <2>1 DEF Loadable
    <3>2. \A p \in {"payload", "labelled"} \cap s : p \in sample.extracts
      BY <3>1
    <3>3. \A p \in {"payload", "labelled"} \cap s : cape.status = "reported"
      BY <2>1 DEF Loadable
    <3>4. "original" \in s => ~routed
      <4>1. "original" \notin sample.extracts
        BY DEF SampleRecord, Extracts
      <4> QED
        BY <3>1, <4>1
    <3> QED
      BY <2>1, <3>2, <3>3, <3>4 DEF Loadable
  <2> QED
    BY <2>2, <2>3 DEF LoadedInv
<1>2. CASE spc \in {"idle", "route"} /\ DOMAIN files' = DOMAIN files
  BY <1>2 DEF LoadedInv, ChoiceInv
<1>3. CASE spc # "idle" /\ DOMAIN files' = DOMAIN files /\ UNCHANGED routed
  BY <1>3, SectionsFinal DEF LoadedInv
<1>4. CASE StaticNext /\ ~RunGhidra
  <2>1. DOMAIN files' = DOMAIN files
    BY <1>4, SelectCases DEF StaticNext, RunAnalyser, RunGo, RunNative, HashFails, AnalyseShell,
       PayloadTarget, WrapperTarget
  <2>2. spc # "idle" /\ (spc = "route" \/ UNCHANGED routed)
    BY <1>4 DEF StaticNext, RunAnalyser, RunGo, RunNative, HashFails, SelectCanonical,
       AnalyseShell, PayloadTarget, WrapperTarget
  <2> QED
    BY <1>2, <1>3, <2>1, <2>2
<1>5. CASE LeaveMemory
  BY <1>2, <1>5 DEF LeaveMemory
<1>6. CASE Correlate
  BY <1>3, <1>6 DEF Correlate
<1>7. CASE UNCHANGED staticVars
  BY <1>2, <1>3, <1>7 DEF staticVars
<1> QED
  BY <1>1, <1>4, <1>5, <1>6, <1>7, StepCases DEF LeaveCape, vars

\* Stage 4.5's chain of elifs: what was chosen still holds when it is drawn.
LEMMA InputNext ==
  ASSUME StaticTypeOK, InputInv, ChoiceInv, [Next]_vars
  PROVE  InputInv'
<1>0. UNCHANGED sample
  BY SampleFixed
<1> USE <1>0 DEF InputInv, ShellFirst
<1>1. CASE RunAnalyser \/ RunGo \/ RunNative \/ HashFails
  BY <1>1 DEF RunAnalyser, RunGo, RunNative, HashFails
<1>2. CASE RunGhidra \/ SelectCanonical \/ AnalyseShell
  BY <1>2 DEF RunGhidra, SelectCanonical, AnalyseShell
<1>3. CASE PayloadTarget
  BY <1>3 DEF PayloadTarget, Payloads, StaticTypeOK, Programs, Extracts
<1>4. CASE WrapperTarget
  <2>1. ASSUME NEW p \in Successful, target' = p PROVE target' \notin {"tool", "shell"}
    BY <2>1 DEF Successful, StaticTypeOK, Programs, Extracts
  <2>2. CASE target' = "tool"
    <3>1. ReadsTool /\ (ShellFirst => shell # "ok")
      BY <1>4, <2>1, <2>2 DEF WrapperTarget
    <3> QED
      BY <1>4, <2>2, <3>1 DEF WrapperTarget, ReadsTool
  <2>3. CASE target' = "shell"
    <3>1. shell = "ok" /\ (ReadsTool => ShellFirst \/ sample.kind = "office")
      BY <1>4, <2>1, <2>3 DEF WrapperTarget
    <3> QED
      BY <1>4, <2>3, <3>1 DEF WrapperTarget, ReadsTool
  <2> QED
    BY <1>4, <2>2, <2>3 DEF WrapperTarget
<1>5. CASE LeaveMemory
  BY <1>5 DEF LeaveMemory
<1>6. CASE Correlate
  BY <1>6 DEF Correlate
<1>7. CASE UNCHANGED staticVars
  BY <1>7 DEF staticVars
<1> QED
  BY <1>1, <1>2, <1>3, <1>4, <1>5, <1>6, <1>7, StepCases DEF StaticNext, LeaveCape, vars

LEMMA PictureInvariance == Spec => []PictureIInv
<1>1. Init => PictureIInv
  BY DEF Init, CapeInit, StaticInit, PictureIInv, IntelInv, LoadedInv, InputInv, NoIntel
<1>2. IInv /\ PictureIInv /\ [Next]_vars => PictureIInv'
  BY IntelNext, LoadedNext, InputNext DEF PictureIInv, IInv, TypeOK
<1> QED
  BY Invariance, <1>1, <1>2, PTL DEF Spec

\* The edge of the hand-off of a broken program is a failed one, whatever source it is
\* recorded with.
LEMMA BrokenIsDrawn ==
  ASSUME IInv, PictureIInv, NEW g \in GhidraSections, NEW mute \in CallsFailed,
         NEW p \in DOMAIN files, ~files[p].ok \/ KnownMissing(p)
  PROVE  IntoGhidra(Section(g), mute)[HandOff(p)] = "failed"
<1>1. Section(g) = "ran" /\ p \in Programs
  BY DEF Section, IInv, TypeOK, StaticTypeOK
<1>2. Item(p) # "loaded"
  BY DEF Item, Lost, Successful
<1>3. \A s : p \in s => ItemsStatus(s) = "failed"
  BY <1>2 DEF ItemsStatus
<1>4. /\ \A m : p \notin m => p \in Carries(HandOff(p), m)
      /\ HandOff(p) = "regions" => p \in Carries("regions", mute)
  BY DEF Carries, Edge
<1>5. CASE p = "original"
  <2>1. HandOff(p) = "sample" /\ ~routed
    BY <1>5 DEF HandOff, PictureIInv, LoadedInv
  <2>2. SampleEdge("ran") = "failed"
    BY <1>3, <1>4, <2>1 DEF SampleEdge
  <2> QED
    BY <1>1, <2>1, <2>2 DEF IntoGhidra
<1>6. CASE p = "dropped"
  <2>1. HandOff(p) = "dropped"
    BY <1>6 DEF HandOff
  <2>2. DroppedEdge("ran") = "failed"
    BY <1>3, <1>4, <2>1 DEF DroppedEdge
  <2> QED
    BY <1>1, <2>1, <2>2 DEF IntoGhidra
<1>7. CASE p \in {"payload", "labelled"}
  <2>1. HandOff(p) = "payloads" /\ cape.status = "reported" /\ p \in sample.extracts
    BY <1>7 DEF HandOff, PictureIInv, LoadedInv
  <2>2. PayloadsEdge("ran", mute) = "failed"
    BY <1>3, <1>7, <2>1 DEF PayloadsEdge, Recorded
  <2> QED
    BY <1>1, <2>1, <2>2 DEF IntoGhidra
<1>8. CASE p = "region" /\ intel.buffers
  <2>1. HandOff(p) = "injections"
    BY <1>8 DEF HandOff
  <2>2. InjectionsEdge("ran", mute) = "failed"
    BY <1>3, <1>8 DEF InjectionsEdge, Recorded
  <2> QED
    BY <1>1, <2>1, <2>2 DEF IntoGhidra
<1>9. CASE p = "region" /\ ~intel.buffers
  <2>1. HandOff(p) = "regions" /\ vol.state = "ran"
    BY <1>9 DEF HandOff, PictureIInv, LoadedInv
  <2>2. RegionsEdge("ran", mute) = "failed"
    BY <1>3, <1>4, <2>1 DEF RegionsEdge
  <2> QED
    BY <1>1, <2>1, <2>2 DEF IntoGhidra
<1> QED
  BY <1>1, <1>5, <1>6, <1>7, <1>8, <1>9 DEF Programs, Extracts

\* The one edge that is drawn as the agent's input is what it read.
LEMMA InputIsDrawn ==
  ASSUME IInv, PictureIInv, NEW macros \in BOOLEAN, MacrosOf(macros),
         target \in {"tool", "shell"} \cup DOMAIN files, ~(target = "tool" /\ DotNet)
  PROVE  Feeds(macros) = {Fed}
<1>1. "tool" \notin DOMAIN files /\ "shell" \notin DOMAIN files /\ target # "nothing"
  BY DEF IInv, TypeOK, StaticTypeOK, Programs, Extracts
<1>2. CASE target \in DOMAIN files
  BY <1>1, <1>2 DEF Feeds, InputRecorded, Fed
<1>3. CASE target \in {"tool", "shell"}
  <2>1. ~InputRecorded /\ Fed = target
    BY <1>1, <1>3 DEF InputRecorded, Fed
  <2>2. Inferred(macros) = target
    BY <1>1, <1>3 DEF Inferred, MacrosOf, PictureIInv, InputInv, ShellFirst
  <2> QED
    BY <1>1, <1>3, <2>1, <2>2 DEF Feeds
<1> QED
  BY <1>2, <1>3

\* derive_flow, "a component silently not feeding the next": what failed or was
\* known to be missing is not drawn as having fed the next, and the agent's input is
\* drawn as what it read.
THEOREM PictureIsHonest == Spec => []PictureHonest
<1>1. IInv /\ PictureIInv => PictureHonest
  <2> SUFFICES ASSUME IInv, PictureIInv, NEW macros \in BOOLEAN, NEW none \in GhidraSections,
                      NEW mute \in CallsFailed, MacrosOf(macros)
               PROVE  LET g == Section(none)
                          into == IntoGhidra(g, mute)
                      IN  /\ \A p \in DOMAIN files :
                               ~files[p].ok \/ KnownMissing(p) => into[HandOff(p)] = "failed"
                          /\ cape.status # "reported" =>
                               "ok" \notin {into.payloads, into.injections,
                                            CorrelationEdges.cape, CapeNode}
                          /\ VolatilityNode = "skipped" => into.regions # "ok"
                          /\ target \in {"tool", "shell"} \cup DOMAIN files
                               /\ ~(target = "tool" /\ DotNet) => Feeds(macros) = {Fed}
    BY DEF PictureHonest
  <2> DEFINE g == Section(none)
  <2>1. \A p \in DOMAIN files :
          ~files[p].ok \/ KnownMissing(p) => IntoGhidra(g, mute)[HandOff(p)] = "failed"
    BY BrokenIsDrawn
  <2>2. ASSUME cape.status # "reported"
        PROVE  "ok" \notin {IntoGhidra(g, mute).payloads, IntoGhidra(g, mute).injections,
                            CorrelationEdges.cape, CapeNode}
    <3>1. ~intel.buffers
      BY <2>2 DEF PictureIInv, IntelInv
    <3>2. PayloadsEdge(g, mute) = "absent" /\ InjectionsEdge(g, mute) = "absent"
      BY <2>2, <3>1 DEF PayloadsEdge, InjectionsEdge, Recorded
    <3> QED
      BY <2>2, <3>2 DEF IntoGhidra, CorrelationEdges, CapeNode
  <2>3. VolatilityNode = "skipped" => IntoGhidra(g, mute).regions # "ok"
    BY DEF VolatilityNode, IntoGhidra, RegionsEdge
  <2>4. target \in {"tool", "shell"} \cup DOMAIN files /\ ~(target = "tool" /\ DotNet)
          => Feeds(macros) = {Fed}
    BY InputIsDrawn
  <2> QED
    BY <2>1, <2>2, <2>3, <2>4
<1> QED
  BY Invariance, PictureInvariance, <1>1, PTL
-----------------------------------------------------------------------------
(* run_volatility: how long the stage takes.                               *)

\* The rounds of a pool of w workers, r the last index of a full one.
LEMMA RoundBounds ==
  ASSUME NEW n \in Nat
  PROVE  /\ n \div Workers \in Nat
         /\ Workers * (n \div Workers) <= n /\ n < Workers * (n \div Workers) + Workers
BY MemoryAssumption

LEMMA RoundMonotone ==
  ASSUME NEW a, NEW b, a \in Nat, b \in Nat, a <= b
  PROVE  a \div Workers <= b \div Workers
<1> DEFINE x == a \div Workers
           y == b \div Workers
<1>1. x \in Nat /\ y \in Nat /\ Workers * x <= a /\ b < Workers * y + Workers
  BY RoundBounds
<1>2. Workers \in Nat \ {0}
  BY MemoryAssumption
<1> HIDE DEF x, y
<1>3. Workers * x < Workers * (y + 1)
  BY <1>1, <1>2
<1>4. x < y + 1
  BY <1>1, <1>2, <1>3
<1> QED
  BY <1>1, <1>4 DEF x, y

\* A round is as many plugins as there are workers.
LEMMA NextRound ==
  ASSUME NEW a \in Nat
  PROVE  (a + Workers) \div Workers = a \div Workers + 1
<1> DEFINE x == a \div Workers
           y == (a + Workers) \div Workers
<1>0. Workers \in Nat \ {0}
  BY MemoryAssumption
<1>1. /\ x \in Nat /\ Workers * x <= a /\ a < Workers * x + Workers
  BY RoundBounds
<1>2. /\ y \in Nat /\ Workers * y <= a + Workers /\ a + Workers < Workers * y + Workers
  BY <1>0, RoundBounds
<1> HIDE DEF x, y
<1>3. Workers * y < Workers * (x + 2) /\ Workers * (x + 1) < Workers * (y + 1)
  BY <1>0, <1>1, <1>2
<1>4. y < x + 2 /\ x + 1 < y + 1
  BY <1>0, <1>1, <1>2, <1>3
<1> QED
  BY <1>1, <1>2, <1>4 DEF x, y

LEMMA TimesMonotone ==
  ASSUME NEW a \in Nat, NEW b \in Nat, a <= b, NEW c \in Nat
  PROVE  a * c \in Nat /\ b * c \in Nat /\ a * c <= b * c
OBVIOUS

\* A plugin that starts no later than p ends within p's round.
LEMMA RoundOf ==
  ASSUME NEW p \in Plugins
  PROVE  /\ Round(p) \in Nat /\ Round(p) * PluginTime \in Nat
         /\ Round(p) * PluginTime + PluginTime <= PoolTime
<1>0. p - 1 \in Nat /\ p - 1 <= NumPlugins - 1 /\ NumPlugins - 1 \in Nat /\ PluginTime \in Nat
  BY MemoryAssumption DEF Plugins
<1> DEFINE x == (p - 1) \div Workers
           y == (NumPlugins - 1) \div Workers
           z == (NumPlugins + Workers - 1) \div Workers
<1>1. x \in Nat /\ y \in Nat /\ x <= y
  BY <1>0, RoundBounds, RoundMonotone
<1>2. z = y + 1
  <2>1. NumPlugins + Workers - 1 = (NumPlugins - 1) + Workers
    BY MemoryAssumption
  <2> QED
    BY <1>0, <2>1, NextRound
<1> HIDE DEF x, y, z
<1>3. x * PluginTime \in Nat /\ x * PluginTime + PluginTime = (x + 1) * PluginTime
  BY <1>0, <1>1
<1>4. (x + 1) * PluginTime <= z * PluginTime
  BY <1>0, <1>1, <1>2, TimesMonotone
<1> QED
  BY <1>1, <1>3, <1>4 DEF Round, PoolTime, x, z

\* A full pool runs one that was a whole round ahead of the first in the queue.
LEMMA RoundAhead ==
  ASSUME MemoryTypeOK, PoolOnTime, NEW p \in Plugins, plug[p] = "queued",
         \A q \in 1 .. p - 1 : plug[q] # "queued", ~Runnable(p)
  PROVE  \E j \in Running : j + Workers <= p
<1>0. Workers \in Nat \ {0} /\ NumPlugins \in Nat
  BY MemoryAssumption
<1>1. IsFiniteSet(Plugins) /\ Running \subseteq Plugins
  BY <1>0, FS_Interval DEF Plugins, Running
<1>2. Cardinality(Running) \in Nat /\ Cardinality(Running) >= Workers
  BY <1>0, <1>1, FS_Subset, FS_CardinalityType DEF Runnable
<1>3. \A j \in Running : j < p
  BY <1>1 DEF PoolOnTime, Running, Plugins
<1> SUFFICES ASSUME \A j \in Running : ~(j + Workers <= p) PROVE FALSE
  OBVIOUS
<1>4. Running \subseteq (p - Workers + 1) .. (p - 1)
  BY <1>0, <1>1, <1>3 DEF Plugins
<1>5. /\ IsFiniteSet((p - Workers + 1) .. (p - 1))
      /\ Cardinality((p - Workers + 1) .. (p - 1)) = Workers - 1
  <2>1. p - Workers + 1 \in Int /\ p - 1 \in Int
    BY <1>0 DEF Plugins
  <2>2. Cardinality((p - Workers + 1) .. (p - 1)) =
          IF p - Workers + 1 > p - 1 THEN 0 ELSE (p - 1) - (p - Workers + 1) + 1
    BY <2>1, FS_Interval
  <2> QED
    BY <1>0, <2>1, <2>2, FS_Interval DEF Plugins
<1>6. Cardinality(Running) <= Cardinality((p - Workers + 1) .. (p - 1))
  <2> DEFINE ahead == (p - Workers + 1) .. (p - 1)
  <2>1. Running \in SUBSET ahead /\ IsFiniteSet(ahead)
    BY <1>4, <1>5
  <2> HIDE DEF ahead
  <2>2. Cardinality(Running) <= Cardinality(ahead)
    BY <2>1, FS_Subset
  <2> QED
    BY <2>2 DEF ahead
<1> QED
  BY <1>0, <1>2, <1>5, <1>6

\* A tick passes only when a whole round is not over for the first in the queue,
\* and some plugin of its round for one that is still waited for.
LEMMA TickInRound ==
  ASSUME MemoryTypeOK, PoolOnTime, MemoryTick, NEW p \in Plugins, plug[p] = "queued",
         \A q \in 1 .. p - 1 : plug[q] # "queued"
  PROVE  clock + 1 <= Round(p) * PluginTime /\ Running # {}
<1>1. PICK j \in Running : j + Workers <= p
  BY RoundAhead DEF MemoryTick, Pending
<1>2. j \in Plugins /\ plug[j] = "running" /\ left[j] # 0
  BY <1>1 DEF Running, MemoryTick, Pending
<1>3. clock + left[j] <= Round(j) * PluginTime + PluginTime /\ left[j] \in Nat /\ clock \in Nat
  BY <1>2 DEF PoolOnTime, MemoryTypeOK
<1>4. Workers \in Nat \ {0} /\ PluginTime \in Nat /\ NumPlugins \in Nat
  BY MemoryAssumption
<1>5. Round(j) \in Nat /\ Round(p) \in Nat /\ Round(j) + 1 <= Round(p)
  <2>1. j - 1 \in Nat /\ p - 1 \in Nat /\ (j - 1) + Workers <= p - 1
    BY <1>1, <1>2, <1>4 DEF Plugins
  <2>2. ((j - 1) + Workers) \div Workers <= (p - 1) \div Workers
    BY <1>4, <2>1, RoundMonotone
  <2> QED
    BY <1>2, <2>1, <2>2, NextRound, RoundOf DEF Round
<1>6. (Round(j) + 1) * PluginTime <= Round(p) * PluginTime
      /\ (Round(j) + 1) * PluginTime \in Nat /\ Round(p) * PluginTime \in Nat
  BY <1>4, <1>5, TimesMonotone
<1>7. (Round(j) + 1) * PluginTime = Round(j) * PluginTime + PluginTime
      /\ Round(j) * PluginTime \in Nat
  BY <1>4, <1>5
<1>8. clock + 1 <= clock + left[j]
  BY <1>2, <1>3
<1> QED
  BY <1>1, <1>2, <1>3, <1>6, <1>7, <1>8

LEMMA LeastOf ==
  ASSUME NEW T, T \subseteq Nat, T # {}
  PROVE  \E i \in T : \A k \in T : i <= k
<1>1. IsWellFoundedOn(OpToRel(<, Nat), Nat)
  BY NatLessThanWellFounded
<1>2. PICK i \in T : \A k \in T : <<k, i>> \notin OpToRel(<, Nat)
  BY <1>1, WFMin
<1>3. \A k \in T : ~(k < i)
  BY <1>2 DEF OpToRel
<1> QED
  BY <1>3

\* The pool's exit waits no longer than its rounds take.
LEMMA TickInJoin ==
  ASSUME MemoryTypeOK, PoolOnTime, AlarmPlace, MemoryTick, mpc = "join"
  PROVE  clock + 1 <= PoolTime
<1>1. Running # {}
  <2>1. PICK p \in Plugins : plug[p] \in {"queued", "running"}
    BY DEF MemoryTick, Pending, AlarmPlace, MemoryTypeOK
  <2>2. CASE plug[p] = "queued"
    <3> DEFINE queue == {q \in Plugins : plug[q] = "queued"}
    <3>1. PICK q \in queue : \A k \in queue : q <= k
      <4>1. queue \subseteq Nat /\ queue # {}
        BY <2>2 DEF Plugins
      <4> QED
        BY <4>1, LeastOf
    <3>2. \A k \in 1 .. q - 1 : plug[k] # "queued"
      <4> SUFFICES ASSUME NEW k \in 1 .. q - 1, plug[k] = "queued" PROVE FALSE
        OBVIOUS
      <4>1. k \in Plugins
        BY <3>1, MemoryAssumption DEF Plugins
      <4> QED
        BY <3>1, <4>1, MemoryAssumption DEF Plugins
    <3> QED
      BY <3>1, <3>2, TickInRound
  <2> QED
    BY <2>1, <2>2 DEF Running
<1>2. PICK j \in Running : TRUE
  BY <1>1
<1>3. j \in Plugins /\ plug[j] = "running" /\ left[j] # 0
  BY <1>2 DEF Running, MemoryTick, Pending
<1>4. clock + left[j] <= Round(j) * PluginTime + PluginTime /\ left[j] \in Nat /\ clock \in Nat
  BY <1>3 DEF PoolOnTime, MemoryTypeOK
<1>5. Round(j) * PluginTime \in Nat /\ Round(j) * PluginTime + PluginTime <= PoolTime
  BY <1>3, RoundOf
<1>6. PluginTime \in Nat /\ PoolTime \in Int
  BY MemoryAssumption, RoundBounds DEF PoolTime
<1> QED
  BY <1>3, <1>4, <1>5, <1>6
\* The pool keeps to its rounds.
LEMMA PoolOnTimeNext ==
  ASSUME MemoryTypeOK, PoolOnTime, PoolInv, AlarmPlace, QuietAfterwards, [Next]_vars
  PROVE  PoolOnTime'
<1>0. /\ clock \in Nat /\ PluginTime \in Nat /\ NumPlugins \in Nat
      /\ plug \in [Plugins -> {"none", "queued", "running"} \cup Finished]
      /\ left \in [Plugins -> 0 .. PluginTime]
  BY MemoryAssumption DEF MemoryTypeOK
<1>1. ASSUME UNCHANGED <<clock, plug, left>> PROVE PoolOnTime'
  BY <1>1 DEF PoolOnTime, Round
<1>2. CASE NotTriggered \/ NoDump \/ StartDump \/ AfterDump \/ VadinfoEnds \/ ImageEnds
             \/ AlarmInPool \/ PoolJoined \/ AlarmInDump \/ AlarmInImages
  BY <1>1, <1>2 DEF NotTriggered, NoDump, StartDump, AfterDump, VadinfoEnds, ImageEnds,
     AlarmInPool, PoolJoined, AlarmInDump, AlarmInImages, pool
<1>3. CASE StartPool
  <2>1. clock' = 0 /\ \A p \in Plugins : plug'[p] = "queued"
    BY <1>3 DEF StartPool, Triggered, AlarmPlace
  <2>2. \A p \in Plugins : 0 <= Round(p) * PluginTime /\ p .. NumPlugins \subseteq Plugins
    BY RoundOf DEF Plugins
  <2> QED
    BY <2>1, <2>2 DEF PoolOnTime, Round
<1>4. ASSUME NEW p \in Plugins, WorkerStart(p) PROVE PoolOnTime'
  <2>1. PICK t \in 0 .. PluginTime : left' = [left EXCEPT ![p] = t]
    BY <1>4 DEF WorkerStart
  <2>2. plug' = [plug EXCEPT ![p] = "running"] /\ clock' = clock
    BY <1>4 DEF WorkerStart
  <2>3. plug[p] = "queued" /\ \A q \in 1 .. p - 1 : plug[q] # "queued"
    BY <1>4 DEF WorkerStart, Runnable
  <2>4. clock <= Round(p) * PluginTime /\ Round(p) * PluginTime \in Nat
    BY <2>3, RoundOf DEF PoolOnTime
  <2>5. ASSUME NEW q \in Plugins, plug'[q] = "queued"
        PROVE  q # p /\ plug[q] = "queued" /\ q > p
               /\ \A k \in q .. NumPlugins : plug'[k] = "queued"
    <3>1. q # p /\ plug[q] = "queued"
      BY <1>0, <2>2, <2>5
    <3>2. q > p
      BY <2>3, <3>1, <1>0 DEF Plugins
    <3>3. ASSUME NEW k \in q .. NumPlugins PROVE plug'[k] = "queued"
      <4>1. k \in Plugins /\ k # p /\ plug[k] = "queued"
        BY <3>1, <3>2, <3>3, <1>0 DEF PoolOnTime, Plugins
      <4> QED
        BY <4>1, <1>0, <2>2
    <3> QED
      BY <3>1, <3>2, <3>3
  <2>6. ASSUME NEW q \in Plugins, plug'[q] = "running"
        PROVE  clock + left'[q] <= Round(q) * PluginTime + PluginTime
    <3>1. CASE q = p
      BY <1>0, <2>1, <2>4, <3>1
    <3>2. CASE q # p
      BY <1>0, <2>1, <2>2, <2>6, <3>2 DEF PoolOnTime
    <3> QED
      BY <3>1, <3>2
  <2>7. ASSUME NEW q \in Plugins, plug'[q] = "queued" PROVE clock <= Round(q) * PluginTime
    <3>1. q > p
      BY <2>5, <2>7
    <3>2. Round(p) <= Round(q)
      <4>1. p - 1 \in Nat /\ q - 1 \in Nat /\ p - 1 <= q - 1
        BY <3>1 DEF Plugins
      <4> QED
        BY <4>1, RoundMonotone DEF Round
    <3>3. Round(p) * PluginTime <= Round(q) * PluginTime /\ Round(q) * PluginTime \in Nat
      BY <1>0, <3>2, RoundOf, TimesMonotone
    <3> QED
      BY <1>0, <2>4, <3>3
  <2> QED
    BY <2>2, <2>5, <2>6, <2>7 DEF PoolOnTime, Round
<1>5. ASSUME NEW p \in Plugins, WorkerEnd(p) PROVE PoolOnTime'
  <2>1. PICK out \in Finished : plug' = [plug EXCEPT ![p] = out]
    BY <1>5 DEF WorkerEnd
  <2>2. UNCHANGED <<clock, left>> /\ plug[p] = "running"
    BY <1>5 DEF WorkerEnd
  <2>3. \A q \in Plugins : plug'[q] \in {"queued", "running"} => plug'[q] = plug[q]
    BY <1>0, <2>1 DEF Finished
  <2>4. \A q \in Plugins : plug[q] = "queued" => plug'[q] = "queued"
    BY <1>0, <2>1, <2>2
  <2>5. \A q \in Plugins : q .. NumPlugins \subseteq Plugins /\ 1 .. q - 1 \subseteq Plugins
    BY <1>0 DEF Plugins
  <2>6. \A q \in Plugins : plug'[q] = "queued" => \A k \in q .. NumPlugins : plug'[k] = "queued"
    BY <2>3, <2>4, <2>5 DEF PoolOnTime
  <2>7. \A q \in Plugins : plug'[q] = "running" =>
          clock' + left'[q] <= Round(q) * PluginTime + PluginTime
    BY <2>2, <2>3 DEF PoolOnTime
  <2>8. \A q \in Plugins : plug'[q] = "queued" /\ (\A k \in 1 .. q - 1 : plug'[k] # "queued")
          => clock' <= Round(q) * PluginTime
    BY <2>2, <2>3, <2>4, <2>5 DEF PoolOnTime
  <2> QED
    BY <2>6, <2>7, <2>8 DEF PoolOnTime, Round
<1>6. ASSUME NEW p \in Plugins, Collect(p) \/ AlarmInResult(p) PROVE PoolOnTime'
  BY <1>1, <1>6 DEF Collect, AlarmInResult
<1>7. CASE MemoryTick
  <2>1. clock' = clock + 1 /\ plug' = plug
    BY <1>7 DEF MemoryTick
  <2>2. ASSUME NEW q \in Plugins, plug[q] = "running"
        PROVE  clock + 1 + left'[q] <= Round(q) * PluginTime + PluginTime
    <3>1. left'[q] = left[q] - 1 /\ left[q] \in Nat
      BY <1>0, <1>7, <2>2 DEF MemoryTick, Pending, Less
    <3>2. clock + left[q] <= Round(q) * PluginTime + PluginTime
      BY <2>2 DEF PoolOnTime
    <3>3. Round(q) * PluginTime \in Nat
      BY RoundOf
    <3> QED
      BY <1>0, <3>1, <3>2, <3>3
  <2>3. \A q \in Plugins : plug[q] = "queued" /\ (\A k \in 1 .. q - 1 : plug[k] # "queued")
          => clock + 1 <= Round(q) * PluginTime
    BY <1>7, TickInRound
  <2> QED
    BY <2>1, <2>2, <2>3 DEF PoolOnTime, Round
<1>8. CASE LeaveMemory
  <2>1. \A p \in Plugins : plug'[p] = "none"
    BY <1>8 DEF LeaveMemory
  <2> QED
    BY <2>1 DEF PoolOnTime
<1>9. CASE UNCHANGED memVars
  BY <1>1, <1>9 DEF memVars, pool
<1> QED
  BY <1>2, <1>3, <1>4, <1>5, <1>6, <1>7, <1>8, <1>9, StepCases
     DEF MemoryNext, LeaveCape, Correlate, vars

\* The alarm is set while the main thread works, and raised for the pool's exit.
LEMMA AlarmPlaceNext ==
  ASSUME CapeTypeOK, MemoryTypeOK, AlarmPlace, [Next]_vars
  PROVE  AlarmPlace'
<1> USE DEF AlarmPlace, pool
<1>1. CASE NotTriggered \/ NoDump \/ StartPool
  BY <1>1 DEF NotTriggered, NoDump, StartPool, Triggered, MemoryOver
<1>2. ASSUME NEW p \in Plugins, WorkerStart(p) \/ WorkerEnd(p) PROVE AlarmPlace'
  <2>1. \A q \in Plugins : plug[q] # "none" => plug'[q] # "none"
    BY <1>2 DEF WorkerStart, WorkerEnd, MemoryTypeOK, Finished
  <2> QED
    BY <1>2, <2>1 DEF WorkerStart, WorkerEnd
<1>3. ASSUME NEW p \in Plugins, Collect(p) \/ AlarmInResult(p) PROVE AlarmPlace'
  BY <1>3 DEF Collect, AlarmInResult
<1>4. CASE StartDump \/ AfterDump
  BY <1>4 DEF StartDump, AfterDump, StartVadinfo, Finish, Disarmed, MemoryOver
<1>5. CASE VadinfoEnds
  BY <1>5 DEF VadinfoEnds, Disarmed, MemoryOver, CapeTypeOK, Intels
<1>6. CASE ImageEnds
  BY <1>6 DEF ImageEnds, NextImage, Finish, Disarmed, MemoryOver, MemoryTypeOK
<1>7. CASE AlarmInPool \/ PoolJoined \/ AlarmInDump
  BY <1>7 DEF AlarmInPool, PoolJoined, AlarmInDump, MemoryOver
<1>8. CASE AlarmInImages
  BY <1>8 DEF AlarmInImages, NextImage, MemoryOver, MemoryTypeOK
<1>9. CASE MemoryTick
  BY <1>9 DEF MemoryTick
<1>10. CASE LeaveMemory
  BY <1>10 DEF LeaveMemory
<1>11. CASE UNCHANGED memVars
  BY <1>11 DEF memVars
<1> QED
  BY <1>1, <1>2, <1>3, <1>4, <1>5, <1>6, <1>7, <1>8, <1>9, <1>10, <1>11, StepCases
     DEF MemoryNext, LeaveCape, Correlate, vars

\* One image fewer is one pslist less.
LEMMA OneImageLess ==
  ASSUME NEW n \in Nat, NEW m \in Nat, n <= m
  PROVE  /\ n * PluginTime \in Nat /\ m * PluginTime \in Nat
         /\ n * PluginTime <= m * PluginTime
         /\ n >= 1 => (n - 1) * PluginTime + PluginTime = n * PluginTime
                      /\ (n - 1) * PluginTime \in Nat
<1>1. PluginTime \in Nat
  BY MemoryAssumption
<1>2. n >= 1 => (n - 1) * PluginTime + PluginTime = n * PluginTime
  BY <1>1
<1>3. n >= 1 => (n - 1) * PluginTime \in Nat
  BY <1>1
<1> QED
  BY <1>1, <1>2, <1>3, TimesMonotone

\* The stage keeps to its limit.
LEMMA StageOnTimeNext ==
  ASSUME CapeTypeOK, MemoryTypeOK, PoolOnTime, AlarmPlace, StageOnTime, [Next]_vars
  PROVE  StageOnTime'
<1>0. /\ clock \in Nat /\ StageLimit \in Nat /\ PluginTime \in Nat /\ MaxPids \in Nat
      /\ PoolTime \in Int /\ busy \in Nat /\ pids \in 0 .. MaxPids
      /\ alarm \in {"off", "set", "raised", "in_result", "in_images"}
  BY MemoryAssumption, CapeAssumption, RoundBounds DEF MemoryTypeOK, PoolTime
<1> USE DEF PoolTime
<1>1. ASSUME UNCHANGED clock, alarm' \in {alarm, "raised", "in_result"},
             alarm # "in_images", alarm' = "raised" => alarm \in {"off", "set", "raised"}
      PROVE  StageOnTime'
  BY <1>0, <1>1 DEF StageOnTime
<1>2. ASSUME UNCHANGED <<clock, alarm, mpc, busy, pids>> PROVE StageOnTime'
  BY <1>2 DEF StageOnTime
<1>3. ASSUME UNCHANGED clock, alarm' = "off", alarm \in {"set", "off"} PROVE StageOnTime'
  BY <1>0, <1>3 DEF StageOnTime
<1> HIDE DEF PoolTime
<1>4. CASE NotTriggered \/ NoDump
  BY <1>3, <1>4 DEF NotTriggered, NoDump, Triggered, AlarmPlace
<1>5. CASE StartPool
  BY <1>0, <1>5 DEF StartPool, Triggered, AlarmPlace, StageOnTime
<1>6. ASSUME NEW p \in Plugins, WorkerStart(p) \/ WorkerEnd(p) \/ Collect(p)
      PROVE  StageOnTime'
  BY <1>2, <1>6 DEF WorkerStart, WorkerEnd, Collect
<1>7. ASSUME NEW p \in Plugins, AlarmInResult(p) PROVE StageOnTime'
  BY <1>1, <1>7 DEF AlarmInResult, AlarmPlace
<1>8. CASE StartDump
  BY <1>1, <1>8 DEF StartDump, AlarmPlace
<1>9. ASSUME Disarmed, UNCHANGED clock, alarm # "in_images" PROVE StageOnTime'
  BY <1>1, <1>3, <1>9 DEF Disarmed
<1>10. CASE AfterDump
  <2>1. alarm # "in_images" /\ UNCHANGED clock
    BY <1>10 DEF AfterDump, AlarmPlace
  <2> QED
    BY <1>1, <1>9, <1>10, <2>1 DEF AfterDump, StartVadinfo, Finish
<1>11. CASE VadinfoEnds
  <2>1. alarm # "in_images" /\ UNCHANGED clock
    BY <1>11 DEF VadinfoEnds, AlarmPlace
  <2> QED
    BY <1>1, <1>9, <1>11, <2>1 DEF VadinfoEnds
<1>12. ASSUME UNCHANGED clock, NextImage, alarm' = "in_images",
              \/ mpc = "images" /\ alarm = "in_images"
              \/ clock <= StageLimit /\ mpc = "images"
       PROVE  StageOnTime'
  <2>1. pids' = pids - 1 /\ pids > 1 /\ busy' \in 0 .. PluginTime /\ mpc' = "images"
    BY <1>12 DEF NextImage
  <2>2. /\ (pids - 1) * PluginTime \in Nat
        /\ (pids - 1) * PluginTime <= (MaxPids - 1) * PluginTime
        /\ (MaxPids - 1) * PluginTime \in Nat
        /\ (pids - 2) * PluginTime + PluginTime = (pids - 1) * PluginTime
        /\ (pids - 2) * PluginTime \in Nat
    <3>1. pids - 1 \in Nat /\ MaxPids - 1 \in Nat /\ pids - 1 <= MaxPids - 1 /\ pids - 1 >= 1
          /\ (pids - 1) - 1 = pids - 2
      BY <1>0, <2>1
    <3> QED
      BY <3>1, OneImageLess
  <2>3. pids' - 1 = pids - 2
    BY <1>0, <2>1
  <2> DEFINE rest == (pids - 2) * PluginTime
             now  == (pids - 1) * PluginTime
             all  == (MaxPids - 1) * PluginTime
  <2>4. clock + now <= StageLimit + all
    <3>1. CASE alarm = "in_images"
      <4>1. clock + busy + now <= StageLimit + all
        BY <1>12, <3>1 DEF StageOnTime
      <4> HIDE DEF now, all
      <4> QED
        BY <1>0, <2>2, <4>1 DEF now, all
    <3>2. CASE clock <= StageLimit
      BY <1>0, <2>2, <3>2
    <3> QED
      BY <1>12, <3>1, <3>2
  <2> HIDE DEF rest, now, all
  <2>5. rest \in Nat /\ now \in Nat /\ all \in Nat /\ rest + PluginTime = now
    BY <2>2 DEF rest, now, all
  <2>6. clock + busy' + rest <= StageLimit + all
    <3>1. busy' \in Nat /\ busy' <= PluginTime
      BY <1>0, <2>1
    <3>2. \A c, b, r, t, n, l, a \in Nat :
            b <= t /\ r + t = n /\ c + n <= l + a => c + b + r <= l + a
      OBVIOUS
    <3> QED
      BY <1>0, <2>4, <2>5, <3>1, <3>2
  <2>7. clock' + busy' + (pids' - 1) * PluginTime <= StageLimit + (MaxPids - 1) * PluginTime
    BY <1>12, <2>3, <2>6 DEF rest, all
  <2> QED
    BY <1>12, <2>1, <2>7 DEF StageOnTime
<1>13. ASSUME UNCHANGED clock, alarm' = "in_images", mpc' = "done", mpc = "images", pids = 1,
              alarm = "in_images" \/ clock <= StageLimit
       PROVE  StageOnTime'
  <2>1. (MaxPids - 1) * PluginTime \in Nat /\ (pids - 1) * PluginTime = 0
    <3>1. MaxPids - 1 \in Nat /\ pids - 1 = 0
      BY <1>0, <1>13
    <3> QED
      BY <1>0, <3>1, OneImageLess
  <2>2. clock <= StageLimit + (MaxPids - 1) * PluginTime
    <3> DEFINE all == (MaxPids - 1) * PluginTime
    <3>1. CASE alarm = "in_images"
      <4>1. clock + busy + (pids - 1) * PluginTime <= StageLimit + all
        BY <1>13, <3>1 DEF StageOnTime
      <4> HIDE DEF all
      <4> QED
        BY <1>0, <2>1, <4>1 DEF all
    <3>2. CASE clock <= StageLimit
      BY <1>0, <2>1, <3>2
    <3> QED
      BY <1>13, <3>1, <3>2
  <2> QED
    BY <1>13, <2>2 DEF StageOnTime
<1>14. CASE ImageEnds
  <2>1. mpc = "images" /\ UNCHANGED clock
    BY <1>14 DEF ImageEnds
  <2>2. CASE alarm # "in_images"
    BY <1>1, <1>9, <1>14, <2>1, <2>2 DEF ImageEnds, NextImage, Finish
  <2>3. CASE alarm = "in_images"
    BY <1>12, <1>13, <1>14, <2>1, <2>3 DEF ImageEnds, NextImage, Finish, Disarmed, MemoryOver
  <2> QED
    BY <2>2, <2>3
<1>15. CASE AlarmInPool \/ AlarmInDump
  BY <1>1, <1>15 DEF AlarmInPool, AlarmInDump, Due
<1>16. CASE PoolJoined
  BY <1>1, <1>16 DEF PoolJoined, AlarmPlace
<1>17. CASE AlarmInImages
  <2>1. mpc = "images" /\ UNCHANGED clock /\ clock <= StageLimit /\ alarm' = "in_images"
    BY <1>17 DEF AlarmInImages, Due, StageOnTime
  <2> QED
    BY <1>12, <1>13, <1>17, <2>1 DEF AlarmInImages, NextImage, MemoryOver
<1>18. CASE MemoryTick
  <2>1. clock' = clock + 1 /\ UNCHANGED <<mpc, alarm, pids>> /\ busy' = Less(busy)
    BY <1>18 DEF MemoryTick
  <2>2. CASE alarm = "set"
    BY <1>0, <1>18, <2>1, <2>2 DEF MemoryTick, Pending, Due, StageOnTime
  <2>3. CASE alarm = "raised"
    <3>1. mpc = "join"
      BY <1>18, <2>3 DEF AlarmPlace, MemoryTick, MemoryTypeOK
    <3> QED
      BY <1>18, <2>1, <2>3, <3>1, TickInJoin DEF StageOnTime, PoolTime
  <2>4. CASE alarm = "in_images"
    <3>1. mpc = "images" /\ busy # 0
      BY <1>18, <2>4 DEF AlarmPlace, MemoryTick, Pending
    <3>2. clock' + busy' = clock + busy
      BY <1>0, <2>1, <3>1 DEF Less
    <3> QED
      BY <2>1, <2>4, <3>1, <3>2 DEF StageOnTime
  <2>5. CASE alarm = "off"
    BY <1>18, <2>5 DEF AlarmPlace, MemoryTick, MemoryTypeOK
  <2>6. CASE alarm = "in_result"
    BY <2>1, <2>6 DEF StageOnTime
  <2> QED
    BY <1>0, <2>2, <2>3, <2>4, <2>5, <2>6
<1>19. CASE LeaveMemory
  BY <1>0, <1>19 DEF LeaveMemory, StageOnTime
<1>20. CASE UNCHANGED memVars
  BY <1>2, <1>20 DEF memVars
<1> QED
  BY <1>4, <1>5, <1>6, <1>7, <1>8, <1>10, <1>11, <1>14, <1>15, <1>16, <1>17, <1>18, <1>19,
     <1>20, StepCases DEF MemoryNext, LeaveCape, Correlate, vars

\* run-pipeline.py, signal.alarm(2700): the memory stage outlasts its limit by no
\* more than its pool takes, or, when the alarm fell among the images, by those left.
THEOREM StageIsBounded == Spec => []StageBounded
<1>1. Init => StageIInv
  BY MemoryAssumption DEF Init, MemoryInit, IdleMemory, StageIInv, PoolOnTime, AlarmPlace,
     StageOnTime
<1>2. IInv /\ StageIInv /\ [Next]_vars => StageIInv'
  BY PoolOnTimeNext, AlarmPlaceNext, StageOnTimeNext DEF StageIInv, IInv, TypeOK
<1>3. IInv /\ StageIInv => StageBounded
  <2> SUFFICES ASSUME IInv, StageIInv PROVE StageBounded
    OBVIOUS
  <2>1. /\ clock \in Nat /\ StageLimit \in Nat
        /\ alarm \in {"off", "set", "raised", "in_result", "in_images"}
    BY MemoryAssumption DEF IInv, TypeOK, MemoryTypeOK
  <2>2. alarm \notin {"in_result", "in_images"} /\ clock > StageLimit => clock <= PoolTime
    BY <2>1 DEF StageIInv, StageOnTime
  <2>3. ASSUME alarm = "in_images"
        PROVE  clock <= StageLimit + (MaxPids - 1) * PluginTime
    <3>1. CASE mpc # "images"
      BY <2>3, <3>1 DEF StageIInv, StageOnTime
    <3>2. CASE mpc = "images"
      <4>1. clock + busy + (pids - 1) * PluginTime <= StageLimit + (MaxPids - 1) * PluginTime
        BY <2>3, <3>2 DEF StageIInv, StageOnTime
      <4>2. busy \in Nat /\ pids - 1 \in Nat /\ MaxPids - 1 \in Nat
        BY <3>2, CapeAssumption DEF IInv, TypeOK, MemoryTypeOK, StageIInv, AlarmPlace
      <4>3. (pids - 1) * PluginTime \in Nat /\ (MaxPids - 1) * PluginTime \in Nat
        BY <4>2, OneImageLess
      <4> DEFINE now == (pids - 1) * PluginTime
                 all == (MaxPids - 1) * PluginTime
      <4> HIDE DEF now, all
      <4> QED
        BY <2>1, <4>1, <4>2, <4>3 DEF now, all
    <3> QED
      BY <3>1, <3>2
  <2> QED
    BY <2>2, <2>3 DEF StageBounded
<1> QED
  BY Invariance, <1>1, <1>2, <1>3, PTL DEF Spec
=============================================================================

-------------------------- MODULE AutoFeederProofs --------------------------
(***************************************************************************)
(* Proofs about AutoFeeder, for every set of hashes and every bound: its   *)
(* types, the failure guardrail under every interleaving of the cycle with *)
(* the API's read-modify-write of state.json, and how often a sample is    *)
(* selected.                                                               *)
(***************************************************************************)
EXTENDS AutoFeeder, TLAPS

\* An empty state.json is one of States.
LEMMA FreshType == Fresh \in States
BY LimitAssumption, CostAssumption DEF Fresh, States

\* The program starts in the invariant.
LEMMA InitIInv == Init => IInv
<1> SUFFICES ASSUME Init PROVE IInv
  OBVIOUS
<1>1. ControlType
  <2>1. pause \in BOOLEAN /\ pausedBy = "nobody"
    BY DEF Init
  <2>2. day \in 1 .. MaxDay /\ crashes \in 0 .. MaxCrashes /\ sessions \in 0 .. MaxCli
    BY LimitAssumption DEF Init
  <2> QED
    BY <2>1, <2>2 DEF ControlType
<1>2. HashesType
  BY LimitAssumption DEF Init, HashesType
<1>3. CycleType
  BY DEF Init, CycleType
<1>4. StateType
  BY FreshType DEF Init, StateType
<1>5. StreakCounted
  BY DEF Init, StreakCounted, Fresh
<1> QED
  BY <1>1, <1>2, <1>3, <1>4, <1>5 DEF IInv, TypeOK

\* Writing a set of hashes over the seen file.
LEMMA WriteHashesType ==
  ASSUME HashesType, NEW S \in SUBSET Hashes, WriteHashes(S)
  PROVE  seen' \subseteq Hashes /\ seenOk' \in BOOLEAN /\ drops' \in [Hashes -> Nat]
<1>1. drops' \in [Hashes -> Nat]
  <2>1. \A h \in Hashes : drops[h] \in Nat /\ drops[h] + 1 \in Nat
    BY DEF HashesType
  <2> QED
    BY <2>1 DEF WriteHashes
<1> QED
  BY <1>1 DEF WriteHashes, Trimmed

\* A state with another cost, below the budget and one run, is a state.
LEMMA CostType ==
  ASSUME NEW st \in States, NEW c \in 0 .. Budget + MaxCost - 1
  PROVE  [st EXCEPT !.cost = c] \in States /\ [st EXCEPT !.cost = c].fails = st.fails
BY DEF States

\* The roll-over to a new day only forgets the cost of the day before.
LEMMA TodayType ==
  ASSUME NEW st \in States, day \in 0 .. MaxDay
  PROVE  Today(st) \in States /\ Today(st).fails = st.fails
<1>1. CASE st.today = day
  BY <1>1 DEF Today
<1>2. CASE st.today # day
  <2> DEFINE rolled == [st EXCEPT !.today = day]
  <2>1. Today(st) = [rolled EXCEPT !.cost = 0]
    BY <1>2 DEF Today
  <2>2. rolled \in States /\ rolled.fails = st.fails
    BY DEF States
  <2>3. 0 \in 0 .. Budget + MaxCost - 1
    BY LimitAssumption, CostAssumption
  <2> HIDE DEF rolled
  <2> QED
    BY <2>1, <2>2, <2>3, CostType
<1> QED
  BY <1>1, <1>2

\* A run that started below both limits takes neither further than by itself.
LEMMA CountedType ==
  ASSUME cst \in States, cst.fails < MaxFailures, cst.cost < Budget, Counted
  PROVE  /\ cst' \in States
         /\ cres = "failed" => cst'.fails = cst.fails + 1 /\ cres' = "failed"
         /\ cres = "ok" => cres' = "ok" \/ (cres' = "late" /\ cst'.fails = 1)
         /\ cres = "download" => cst' = cst /\ cres' = cres
<1>1. CASE cres = "failed" /\ cst' = [cst EXCEPT !.fails = @ + 1] /\ cres' = cres
  BY <1>1, LimitAssumption DEF States
<1>2. CASE cres = "ok" /\ (\E c \in Cost : cst' = [cst EXCEPT !.fails = 0, !.cost = @ + c]) /\ cres' = cres
  <2>1. PICK c \in 0 .. MaxCost : cst' = [cst EXCEPT !.fails = 0, !.cost = @ + c]
    <3>1. Cost \subseteq 0 .. MaxCost
      BY CostAssumption DEF Cost
    <3> QED
      BY <1>2, <3>1
  <2> DEFINE reset == [cst EXCEPT !.fails = 0]
  <2>2. cst' = [reset EXCEPT !.cost = cst.cost + c]
    BY <2>1
  <2>3. reset \in States /\ cst.cost + c \in 0 .. Budget + MaxCost - 1
    BY LimitAssumption, CostAssumption DEF States
  <2> HIDE DEF reset
  <2>4. cst' \in States
    BY <2>2, <2>3, CostType
  <2>5. cres = "ok" /\ cres' = "ok"
    BY <1>2
  <2> QED
    BY <2>4, <2>5
<1>3. CASE cres = "ok" /\ cst' = [cst EXCEPT !.fails = 1] /\ cres' = "late"
  BY <1>3, LimitAssumption DEF States
<1>4. CASE cres = "download" /\ UNCHANGED <<cst, cres>>
  BY <1>4
<1> QED
  BY <1>1, <1>2, <1>3, <1>4 DEF Counted

\* The pause file, the calendar and the bounds: the other steps leave them
\* alone.
LEMMA ControlTypeNext ==
  ASSUME IInv, [Next]_vars
  PROVE  ControlType'
<1> USE LimitAssumption DEF IInv, TypeOK, ControlType
<1>1. CASE GuardDisk
  BY <1>1 DEF GuardDisk, Skip, control, bounds
<1>2. CASE GuardFailures
  BY <1>2 DEF GuardFailures, Skip, TooManyFailures, control, bounds
<1>3. CASE Crash
  BY <1>3 DEF Crash, Idle, control, bounds
<1>4. CASE ApiPause
  BY <1>4 DEF ApiPause, control, bounds
<1>5. CASE ApiResume
  BY <1>5 DEF ApiResume, control, bounds
<1>6. CASE CliStart
  BY <1>6 DEF CliStart, control, bounds
<1>7. CASE CliTears
  BY <1>7 DEF CliTears, control, bounds
<1>8. CASE NextDay
  BY <1>8 DEF NextDay, control, bounds
<1>9. CASE Begin \/ GuardPaused \/ GuardCape \/ GuardBudget \/ GuardBusy \/ GuardClear \/
     NothingToDo \/ (\E h \in Hashes : Select(h)) \/ FetchFails \/ StartPipeline \/ PipelineEnds \/
     ReadSeen \/ ReadSeenTorn \/ WriteSeen \/ SaveState \/ ApiReset \/ ApiRead \/ ApiWrite \/
     ApiUpdateFails \/ ApiAnswer \/ CliRun \/ CliRan \/ CliSave \/ RemoveTorn
  <2>1. UNCHANGED <<control, day, bounds>>
    BY <1>9, Zenon DEF Begin, GuardPaused, Skip, GuardCape, GuardBudget, GuardBusy, GuardClear,
         NothingToDo, Idle, Select, FetchFails, StartPipeline, PipelineEnds, ReadSeen, ReadSeenTorn,
         WriteSeen, WriteHashes, SaveState, Saved, ApiReset, ApiRead, ApiWrite, ApiUpdateFails, ApiAnswer,
         CliRun, CliRan, CliSave, RemoveTorn, control, hashes, cycle, api, cli, ghosts, bounds
  <2> QED
    BY <2>1 DEF control, hashes, cli, bounds
<1>10. CASE UNCHANGED vars
  BY <1>10 DEF vars, control, hashes, cycle, api, cli, ghosts, bounds
<1> QED
  BY <1>1, <1>2, <1>3, <1>4, <1>5, <1>6, <1>7, <1>8, <1>9, <1>10 DEF Next, Cycle, Api

\* The seen file and the sample in hand: written by the cycle and by the
\* command line.
LEMMA HashesTypeNext ==
  ASSUME IInv, [Next]_vars
  PROVE  HashesType'
<1> USE LimitAssumption DEF IInv, TypeOK, HashesType
<1>1. CASE Begin
  BY <1>1 DEF Begin, control, hashes, cycle, api, cli, ghosts, bounds
<1>2. CASE GuardPaused
  BY <1>2 DEF GuardPaused, Skip, control, hashes, cycle, api, cli, ghosts, bounds
<1>3. CASE GuardDisk
  BY <1>3 DEF GuardDisk, Skip, control, hashes, cycle, api, cli, ghosts, bounds
<1>4. CASE GuardCape
  BY <1>4 DEF GuardCape, Skip, control, hashes, cycle, api, cli, ghosts, bounds
<1>5. CASE GuardFailures
  BY <1>5 DEF GuardFailures, Skip, TooManyFailures, control, hashes, cycle, api, cli, ghosts, bounds
<1>6. CASE GuardBudget
  BY <1>6 DEF GuardBudget, Skip, Today, TooManyFailures, control, hashes, cycle, api, cli, ghosts,
       bounds
<1>7. CASE GuardBusy
  BY <1>7 DEF GuardBusy, Skip, Today, TooManyFailures, control, hashes, cycle, api, cli, ghosts,
       bounds
<1>8. CASE GuardClear
  BY <1>8 DEF GuardClear, Today, TooManyFailures, control, hashes, cycle, api, cli, ghosts, bounds
<1>9. CASE NothingToDo
  BY <1>9 DEF NothingToDo, Idle, control, hashes, cycle, api, cli, ghosts, bounds
<1>10. ASSUME NEW h \in Hashes, Select(h) PROVE HashesType'
  BY <1>10 DEF Select, control, hashes, cycle, api, cli, ghosts, bounds
<1>11. CASE FetchFails
  BY <1>11 DEF FetchFails, control, hashes, cycle, api, cli, ghosts, bounds
<1>12. CASE StartPipeline
  BY <1>12 DEF StartPipeline, control, hashes, cycle, api, cli, ghosts, bounds
<1>13. CASE PipelineEnds
  BY <1>13 DEF PipelineEnds, control, hashes, cycle, api, cli, ghosts, bounds
<1>14. CASE ReadSeen
  BY <1>14 DEF ReadSeen, control, hashes, cycle, api, cli, ghosts, bounds
<1>15. CASE ReadSeenTorn
  BY <1>15 DEF ReadSeenTorn, Idle, control, hashes, cycle, api, cli, ghosts, bounds
<1>16. CASE WriteSeen
  <2>1. Marked \in SUBSET Hashes
    BY <1>16 DEF WriteSeen, Marked
  <2>2. seen' \subseteq Hashes /\ seenOk' \in BOOLEAN /\ drops' \in [Hashes -> Nat]
    BY <1>16, <2>1, WriteHashesType DEF WriteSeen
  <2> QED
    BY <1>16, <2>2 DEF WriteSeen, cli
<1>17. CASE SaveState
  BY <1>17 DEF SaveState, Saved, Idle, control, hashes, cycle, api, cli, ghosts, bounds
<1>18. CASE Crash
  BY <1>18 DEF Crash, Idle, control, hashes, cycle, api, cli, ghosts, bounds
<1>19. CASE CliStart
  BY <1>19 DEF CliStart, control, hashes, cycle, api, cli, ghosts, bounds
<1>20. CASE CliRun
  BY <1>20 DEF CliRun, control, hashes, cycle, api, cli, ghosts, bounds
<1>21. CASE CliRan
  BY <1>21 DEF CliRan, control, hashes, cycle, api, cli, ghosts, bounds
<1>22. CASE CliSave
  BY <1>22 DEF CliSave, WriteHashes, Trimmed, control, hashes, cycle, api, cli, ghosts, bounds
<1>23. CASE CliTears
  BY <1>23 DEF CliTears, control, hashes, cycle, api, cli, ghosts, bounds
<1>24. CASE RemoveTorn
  BY <1>24 DEF RemoveTorn, WriteHashes, Trimmed, control, hashes, cycle, api, cli, ghosts, bounds
<1>25. CASE ApiPause \/ ApiResume \/ ApiReset \/ ApiRead \/ ApiWrite \/ ApiUpdateFails \/ ApiAnswer
     \/ NextDay
  <2>1. UNCHANGED <<hashes, cli, csnap, ch, cpc, picks, drops>>
    BY <1>25, Zenon DEF ApiPause, ApiResume, ApiReset, ApiRead, ApiWrite, ApiUpdateFails, ApiAnswer,
         NextDay, control, hashes, cycle, api, cli, ghosts, bounds
  <2> QED
    BY <2>1 DEF control, hashes, cli, bounds
<1>26. CASE UNCHANGED vars
  BY <1>26 DEF vars, control, hashes, cycle, api, cli, ghosts, bounds
<1> QED
  BY <1>1, <1>2, <1>3, <1>4, <1>5, <1>6, <1>7, <1>8, <1>9, <1>10, <1>11, <1>12, <1>13, <1>14, <1>15,
       <1>16, <1>17, <1>18, <1>19, <1>20, <1>21, <1>22, <1>23, <1>24, <1>25, <1>26 DEF Next, Cycle,
       Api

\* The positions of the cycle and of the API: a result exists only once the run
\* ended.
LEMMA CycleTypeNext ==
  ASSUME IInv, [Next]_vars
  PROVE  CycleType'
<1> USE LimitAssumption DEF IInv, TypeOK, CycleType
<1>1. CASE Begin
  BY <1>1 DEF Begin, control, hashes, cycle, api, cli, ghosts, bounds
<1>2. CASE GuardPaused
  BY <1>2 DEF GuardPaused, Skip, control, hashes, cycle, api, cli, ghosts, bounds
<1>3. CASE GuardDisk
  BY <1>3 DEF GuardDisk, Skip, control, hashes, cycle, api, cli, ghosts, bounds
<1>4. CASE GuardCape
  BY <1>4 DEF GuardCape, Skip, control, hashes, cycle, api, cli, ghosts, bounds
<1>5. CASE GuardFailures
  BY <1>5 DEF GuardFailures, Skip, TooManyFailures, control, hashes, cycle, api, cli, ghosts, bounds
<1>6. CASE GuardBudget
  BY <1>6 DEF GuardBudget, Skip, Today, TooManyFailures, control, hashes, cycle, api, cli, ghosts,
       bounds
<1>7. CASE GuardBusy
  BY <1>7 DEF GuardBusy, Skip, Today, TooManyFailures, control, hashes, cycle, api, cli, ghosts,
       bounds
<1>8. CASE GuardClear
  BY <1>8 DEF GuardClear, Today, TooManyFailures, control, hashes, cycle, api, cli, ghosts, bounds
<1>9. CASE NothingToDo
  BY <1>9 DEF NothingToDo, Idle, control, hashes, cycle, api, cli, ghosts, bounds
<1>10. ASSUME NEW h \in Hashes, Select(h) PROVE CycleType'
  BY <1>10 DEF Select, control, hashes, cycle, api, cli, ghosts, bounds
<1>11. CASE FetchFails
  BY <1>11 DEF FetchFails, control, hashes, cycle, api, cli, ghosts, bounds
<1>12. CASE StartPipeline
  BY <1>12 DEF StartPipeline, control, hashes, cycle, api, cli, ghosts, bounds
<1>13. CASE PipelineEnds
  BY <1>13 DEF PipelineEnds, control, hashes, cycle, api, cli, ghosts, bounds
<1>14. CASE ReadSeen
  BY <1>14 DEF ReadSeen, control, hashes, cycle, api, cli, ghosts, bounds
<1>15. CASE ReadSeenTorn
  BY <1>15 DEF ReadSeenTorn, Idle, control, hashes, cycle, api, cli, ghosts, bounds
<1>16. CASE WriteSeen
  BY <1>16 DEF WriteSeen, Counted, Cost, WriteHashes, Marked, Trimmed, control, hashes, cycle, api,
       cli, ghosts, bounds
<1>17. CASE SaveState
  BY <1>17 DEF SaveState, Saved, Idle, control, hashes, cycle, api, cli, ghosts, bounds
<1>18. CASE Crash
  BY <1>18 DEF Crash, Idle, control, hashes, cycle, api, cli, ghosts, bounds
<1>19. CASE ApiPause
  BY <1>19 DEF ApiPause, control, hashes, cycle, api, cli, ghosts, bounds
<1>20. CASE ApiResume
  BY <1>20 DEF ApiResume, control, hashes, cycle, api, cli, ghosts, bounds
<1>21. CASE ApiReset
  BY <1>21 DEF ApiReset, control, hashes, cycle, api, cli, ghosts, bounds
<1>22. CASE ApiRead
  BY <1>22 DEF ApiRead, control, hashes, cycle, api, cli, ghosts, bounds
<1>23. CASE ApiWrite
  BY <1>23 DEF ApiWrite, control, hashes, cycle, api, cli, ghosts, bounds
<1>24. CASE ApiUpdateFails
  BY <1>24 DEF ApiUpdateFails, control, hashes, cycle, api, cli, ghosts, bounds
<1>25. CASE ApiAnswer
  BY <1>25 DEF ApiAnswer, control, hashes, cycle, api, cli, ghosts, bounds
<1>26. CASE CliStart \/ CliRun \/ CliRan \/ CliSave \/ CliTears \/ RemoveTorn \/ NextDay
  <2>1. UNCHANGED <<cpc, cres, apc, aop>>
    BY <1>26, Zenon DEF CliStart, CliRun, CliRan, CliSave, WriteHashes, CliTears, RemoveTorn,
         NextDay, control, hashes, cycle, api, cli, ghosts, bounds
  <2> QED
    BY <2>1 DEF control, hashes, cli, bounds
<1>27. CASE UNCHANGED vars
  BY <1>27 DEF vars, control, hashes, cycle, api, cli, ghosts, bounds
<1> QED
  BY <1>1, <1>2, <1>3, <1>4, <1>5, <1>6, <1>7, <1>8, <1>9, <1>10, <1>11, <1>12, <1>13, <1>14, <1>15,
       <1>16, <1>17, <1>18, <1>19, <1>20, <1>21, <1>22, <1>23, <1>24, <1>25, <1>26, <1>27 DEF Next,
       Cycle, Api

\* The three copies of state.json: a run starts below both limits, and takes the cost
\* over its own by no more than itself.
LEMMA StateTypeNext ==
  ASSUME IInv, [Next]_vars
  PROVE  StateType'
<1> USE LimitAssumption, CostAssumption
    DEF IInv, TypeOK, CycleType, StateType, StreakCounted, States, Fresh, ControlType
<1>1. CASE Begin
  BY <1>1 DEF Begin, control, hashes, cycle, api, cli, ghosts, bounds
<1>2. CASE GuardPaused
  BY <1>2 DEF GuardPaused, Skip, control, hashes, cycle, api, cli, ghosts, bounds
<1>3. CASE GuardDisk
  BY <1>3 DEF GuardDisk, Skip, control, hashes, cycle, api, cli, ghosts, bounds
<1>4. CASE GuardCape
  BY <1>4 DEF GuardCape, Skip, control, hashes, cycle, api, cli, ghosts, bounds
<1>5. CASE GuardFailures
  BY <1>5 DEF GuardFailures, Skip, TooManyFailures, control, hashes, cycle, api, cli, ghosts, bounds
<1>6. CASE GuardBudget
  BY <1>6, TodayType DEF GuardBudget, Skip, TooManyFailures, control, hashes, cycle, api, cli, ghosts,
       bounds
<1>7. CASE GuardBusy
  BY <1>7, TodayType DEF GuardBusy, Skip, TooManyFailures, control, hashes, cycle, api, cli, ghosts,
       bounds
<1>8. CASE GuardClear
  BY <1>8, TodayType DEF GuardClear, TooManyFailures, control, hashes, cycle, api, cli, ghosts, bounds
<1>9. CASE NothingToDo
  BY <1>9 DEF NothingToDo, Idle, control, hashes, cycle, api, cli, ghosts, bounds
<1>10. ASSUME NEW h \in Hashes, Select(h) PROVE StateType'
  BY <1>10 DEF Select, control, hashes, cycle, api, cli, ghosts, bounds
<1>11. CASE FetchFails
  BY <1>11 DEF FetchFails, control, hashes, cycle, api, cli, ghosts, bounds
<1>12. CASE StartPipeline
  BY <1>12 DEF StartPipeline, control, hashes, cycle, api, cli, ghosts, bounds
<1>13. CASE PipelineEnds
  BY <1>13 DEF PipelineEnds, control, hashes, cycle, api, cli, ghosts, bounds
<1>14. CASE ReadSeen
  BY <1>14 DEF ReadSeen, control, hashes, cycle, api, cli, ghosts, bounds
<1>15. CASE ReadSeenTorn
  BY <1>15 DEF ReadSeenTorn, Idle, control, hashes, cycle, api, cli, ghosts, bounds
<1>16. CASE WriteSeen
  <2>1. Counted /\ cst.fails < MaxFailures /\ cst.cost < Budget /\ cres \in {"ok", "failed", "download"}
    BY <1>16 DEF WriteSeen
  <2> QED
    BY <1>16, <2>1, CountedType DEF WriteSeen, api
<1>17. CASE SaveState
  BY <1>17 DEF SaveState, Saved, Idle, control, hashes, cycle, api, cli, ghosts, bounds
<1>18. CASE Crash
  BY <1>18 DEF Crash, Idle, control, hashes, cycle, api, cli, ghosts, bounds
<1>19. CASE ApiRead
  BY <1>19 DEF ApiRead, control, hashes, cycle, api, cli, ghosts, bounds
<1>20. CASE ApiWrite
  BY <1>20 DEF ApiWrite, control, hashes, cycle, api, cli, ghosts, bounds
<1>21. CASE ApiUpdateFails
  BY <1>21 DEF ApiUpdateFails, control, hashes, cycle, api, cli, ghosts, bounds
<1>22. CASE ApiPause \/ ApiResume \/ ApiReset \/ ApiAnswer \/ CliStart \/ CliRun \/ CliRan \/
     CliSave \/ CliTears \/ RemoveTorn \/ NextDay
  <2>1. UNCHANGED <<state, cst, ast, streak>>
    BY <1>22, Zenon DEF ApiPause, ApiResume, ApiReset, ApiAnswer, CliStart, CliRun, CliRan, CliSave,
         WriteHashes, CliTears, RemoveTorn, NextDay, control, hashes, cycle, api, cli, ghosts,
         bounds
  <2> QED
    BY <2>1 DEF control, hashes, cli, bounds
<1>23. CASE UNCHANGED vars
  BY <1>23 DEF vars, control, hashes, cycle, api, cli, ghosts, bounds
<1> QED
  BY <1>1, <1>2, <1>3, <1>4, <1>5, <1>6, <1>7, <1>8, <1>9, <1>10, <1>11, <1>12, <1>13, <1>14, <1>15,
       <1>16, <1>17, <1>18, <1>19, <1>20, <1>21, <1>22, <1>23 DEF Next, Cycle, Api

\* The streak: what a cycle saves counts every failure the file it replaces
\* counted, or an operator's reset did away with them.
LEMMA StreakCountedNext ==
  ASSUME IInv, [Next]_vars
  PROVE  StreakCounted'
<1> USE LimitAssumption DEF IInv, TypeOK, CycleType, StateType, StreakCounted, States, Fresh,
     ControlType
<1>1. CASE Begin
  BY <1>1 DEF Begin, control, hashes, cycle, api, cli, ghosts, bounds
<1>2. CASE GuardPaused
  BY <1>2 DEF GuardPaused, Skip, control, hashes, cycle, api, cli, ghosts, bounds
<1>3. CASE GuardDisk
  BY <1>3 DEF GuardDisk, Skip, control, hashes, cycle, api, cli, ghosts, bounds
<1>4. CASE GuardCape
  BY <1>4 DEF GuardCape, Skip, control, hashes, cycle, api, cli, ghosts, bounds
<1>5. CASE GuardFailures
  BY <1>5 DEF GuardFailures, Skip, TooManyFailures, control, hashes, cycle, api, cli, ghosts, bounds
<1>6. CASE GuardBudget
  BY <1>6, TodayType DEF GuardBudget, Skip, TooManyFailures, control, hashes, cycle, api, cli, ghosts,
       bounds
<1>7. CASE GuardBusy
  BY <1>7, TodayType DEF GuardBusy, Skip, TooManyFailures, control, hashes, cycle, api, cli, ghosts,
       bounds
<1>8. CASE GuardClear
  BY <1>8, TodayType DEF GuardClear, TooManyFailures, control, hashes, cycle, api, cli, ghosts, bounds
<1>9. CASE NothingToDo
  BY <1>9 DEF NothingToDo, Idle, control, hashes, cycle, api, cli, ghosts, bounds
<1>10. ASSUME NEW h \in Hashes, Select(h) PROVE StreakCounted'
  BY <1>10 DEF Select, control, hashes, cycle, api, cli, ghosts, bounds
<1>11. CASE FetchFails
  BY <1>11 DEF FetchFails, control, hashes, cycle, api, cli, ghosts, bounds
<1>12. CASE StartPipeline
  BY <1>12 DEF StartPipeline, control, hashes, cycle, api, cli, ghosts, bounds
<1>13. CASE PipelineEnds
  BY <1>13 DEF PipelineEnds, control, hashes, cycle, api, cli, ghosts, bounds
<1>14. CASE ReadSeen
  BY <1>14 DEF ReadSeen, control, hashes, cycle, api, cli, ghosts, bounds
<1>15. CASE ReadSeenTorn
  BY <1>15 DEF ReadSeenTorn, Idle, control, hashes, cycle, api, cli, ghosts, bounds
<1>16. CASE WriteSeen
  <2>1. Counted /\ cst.fails < MaxFailures /\ cst.cost < Budget /\ cres \in {"ok", "failed", "download"}
    BY <1>16 DEF WriteSeen
  <2> QED
    BY <1>16, <2>1, CountedType DEF WriteSeen, api
<1>17. CASE SaveState
  BY <1>17 DEF SaveState, Saved, Idle, control, hashes, cycle, api, cli, ghosts, bounds
<1>18. CASE Crash
  BY <1>18 DEF Crash, Idle, control, hashes, cycle, api, cli, ghosts, bounds
<1>19. CASE ApiWrite
  BY <1>19 DEF ApiWrite, control, hashes, cycle, api, cli, ghosts, bounds
<1>20. CASE ApiPause \/ ApiResume \/ ApiReset \/ ApiRead \/ ApiUpdateFails \/ ApiAnswer \/ CliStart
     \/ CliRun \/ CliRan \/ CliSave \/ CliTears \/ RemoveTorn \/ NextDay
  <2>1. UNCHANGED <<state, cst, streak, cpc, cres>>
    BY <1>20, Zenon DEF ApiPause, ApiResume, ApiReset, ApiRead, ApiUpdateFails, ApiAnswer, CliStart,
         CliRun, CliRan, CliSave, WriteHashes, CliTears, RemoveTorn, NextDay, control, hashes,
         cycle, api, cli, ghosts, bounds
  <2> QED
    BY <2>1 DEF control, hashes, cli, bounds
<1>21. CASE UNCHANGED vars
  BY <1>21 DEF vars, control, hashes, cycle, api, cli, ghosts, bounds
<1> QED
  BY <1>1, <1>2, <1>3, <1>4, <1>5, <1>6, <1>7, <1>8, <1>9, <1>10, <1>11, <1>12, <1>13, <1>14, <1>15,
       <1>16, <1>17, <1>18, <1>19, <1>20, <1>21 DEF Next, Cycle, Api

\* Every reachable state satisfies the invariant.
LEMMA Inductive == Spec => []IInv
<1>1. IInv /\ [Next]_vars => IInv'
  BY ControlTypeNext, HashesTypeNext, CycleTypeNext, StateTypeNext, StreakCountedNext
  DEF IInv, TypeOK
<1> QED
  BY InitIInv, <1>1, PTL DEF Spec

\* Every reachable state of the feeder is well typed: no copy of state.json ever counts
\* more than MaxFailures failures, and what a copy says was spent exceeds the daily
\* budget by less than the dearest run, whatever the runs cost and whoever wrote last.
THEOREM TypeCorrect == Spec => []TypeOK
BY Inductive, PTL DEF IInv

\* Guardrail 4 holds although the API and the cycle overwrite each other's
\* state.json: never more than MaxFailures failed runs in a row.
THEOREM GuardrailHolds == Spec => []StreakBounded
<1>1. IInv => StreakBounded
  BY LimitAssumption DEF IInv, TypeOK, StateType, States, StreakCounted, StreakBounded
<1> QED
  BY Inductive, <1>1, PTL
-----------------------------------------------------------------------------
(* How often a sample is selected.                                         *)

\* Writing the seen file keeps a hash of either side, or counts its fall.
LEMMA Written ==
  ASSUME HashesType, NEW S, WriteHashes(S), NEW h \in Hashes
  PROVE  /\ drops'[h] \in Nat /\ drops'[h] >= drops[h] /\ seenOk' = TRUE
         /\ h \in seen \cup S => h \in seen' \/ drops'[h] = drops[h] + 1
<1>1. seenOk' = TRUE
  BY DEF WriteHashes
<1>2. drops'[h] = IF h \in (seen \cup S) \ seen' THEN drops[h] + 1 ELSE drops[h]
  BY DEF WriteHashes
<1>3. drops[h] \in Nat
  BY DEF HashesType
<1> QED
  BY <1>1, <1>2, <1>3

LEMMA FeedsPaidNext ==
  ASSUME IInv, FeedsPaid, [Next]_vars
  PROVE  FeedsPaid'
<1>0. /\ HashesType /\ crashes \in Nat
      /\ picks \in [Hashes -> Nat] /\ drops \in [Hashes -> Nat]
      /\ None \notin Hashes
  BY LimitAssumption, HashAssumption DEF IInv, TypeOK, ControlType, HashesType
<1> USE <1>0 DEF FeedsPaid, InHand
<1>1. ASSUME NEW h \in Hashes, Select(h) PROVE FeedsPaid'
  <2>1. /\ picks' = [picks EXCEPT ![h] = @ + 1] /\ ch' = h /\ cpc' = "fetch"
        /\ cpc = "select" /\ seenOk /\ h \notin seen
        /\ UNCHANGED <<seen, seenOk, drops, crashes>>
    BY <1>1 DEF Select, hashes, bounds
  <2> QED
    BY <2>1
<1>2. CASE WriteSeen
  <2>1. /\ WriteHashes(csnap \cup {ch}) /\ cpc' = "save" /\ cpc = "write"
        /\ UNCHANGED <<picks, crashes>>
    BY <1>2 DEF WriteSeen, Marked, bounds
  <2> DEFINE S == csnap \cup {ch}
  <2> HIDE DEF S
  <2>2. WriteHashes(S)
    BY <2>1 DEF S
  <2>3. ASSUME NEW h \in Hashes
        PROVE  /\ picks'[h] <= 1 + crashes' + drops'[h] /\ seenOk' = TRUE
               /\ h \notin seen' => picks'[h] <= crashes' + drops'[h]
    <3>1. /\ drops'[h] \in Nat /\ drops'[h] >= drops[h] /\ seenOk' = TRUE
          /\ h \in seen \cup S => h \in seen' \/ drops'[h] = drops[h] + 1
      BY <2>2, Written
    <3>2. h = ch => h \in S
      BY DEF S
    <3>3. picks[h] \in Nat /\ drops[h] \in Nat /\ picks' = picks /\ crashes' = crashes
      BY <2>1
    <3> QED
      BY <3>1, <3>2, <3>3
  <2> QED
    BY <2>1, <2>3
<1>3. CASE CliSave \/ RemoveTorn
  <2>1. PICK S : WriteHashes(S)
    BY <1>3 DEF CliSave, RemoveTorn
  <2>2. UNCHANGED <<picks, crashes, cpc, ch>>
    BY <1>3 DEF CliSave, RemoveTorn, bounds, cycle
  <2>3. ASSUME NEW h \in Hashes
        PROVE  /\ picks'[h] <= 1 + crashes' + drops'[h] /\ seenOk' = TRUE
               /\ h \notin seen' /\ ~InHand(h)' => picks'[h] <= crashes' + drops'[h]
    <3>1. /\ drops'[h] \in Nat /\ drops'[h] >= drops[h] /\ seenOk' = TRUE
          /\ h \in seen \cup S => h \in seen' \/ drops'[h] = drops[h] + 1
      BY <2>1, Written
    <3>2. picks[h] \in Nat /\ drops[h] \in Nat /\ picks' = picks /\ crashes' = crashes
      BY <2>2
    <3>3. InHand(h)' <=> InHand(h)
      BY <2>2
    <3> QED
      BY <3>1, <3>2, <3>3
  <2> QED
    BY <2>3
<1>4. CASE Crash \/ CliTears
  <2>1. crashes' = crashes + 1 /\ UNCHANGED <<picks, drops, seen>>
    BY <1>4 DEF Crash, CliTears, ghosts
  <2> QED
    BY <2>1
<1>5. CASE ReadSeenTorn
  <2>1. ~seenOk /\ UNCHANGED <<picks, drops, seen, seenOk, crashes>>
    BY <1>5 DEF ReadSeenTorn, ghosts, hashes, bounds
  <2> QED
    BY <2>1
<1>6. CASE UNCHANGED <<picks, drops, seen, seenOk, crashes, ch>> /\
           (cpc \in {"fetch", "run", "mark", "write"} => cpc' \in {"fetch", "run", "mark", "write"})
  BY <1>6
<1>7. CASE NothingToDo \/ SaveState
  <2>1. UNCHANGED <<picks, drops, seen, seenOk, crashes>> /\ cpc \in {"select", "save"}
    BY <1>7 DEF NothingToDo, SaveState, ghosts, hashes, bounds
  <2> QED
    BY <2>1
<1>8. CASE Begin \/ GuardPaused \/ GuardDisk \/ GuardCape \/ GuardFailures \/ GuardBudget \/ GuardBusy
  <2>1. UNCHANGED <<picks, drops, seen, seenOk, crashes, ch>> /\ cpc \in {"idle", "guard"}
    BY <1>8 DEF Begin, GuardPaused, GuardDisk, GuardCape, GuardFailures, GuardBudget, GuardBusy,
       Skip, ghosts, hashes, bounds
  <2> QED
    BY <2>1, <1>6
<1>9. CASE GuardClear \/ FetchFails \/ StartPipeline \/ PipelineEnds \/ ReadSeen
  BY <1>9, <1>6 DEF GuardClear, FetchFails, StartPipeline, PipelineEnds, ReadSeen, ghosts, hashes, bounds
<1>10. CASE ApiPause \/ ApiResume \/ ApiReset \/ ApiRead \/ ApiWrite \/ ApiUpdateFails \/ ApiAnswer
  BY <1>10, <1>6 DEF ApiPause, ApiResume, ApiReset, ApiRead, ApiWrite, ApiUpdateFails, ApiAnswer,
     ghosts, hashes, bounds, cycle
<1>11. CASE CliStart \/ CliRun \/ CliRan \/ NextDay \/ UNCHANGED vars
  BY <1>11, <1>6 DEF CliStart, CliRun, CliRan, NextDay, vars, ghosts, hashes, bounds, cycle
<1> QED
  BY <1>1, <1>2, <1>3, <1>4, <1>5, <1>7, <1>8, <1>9, <1>10, <1>11 DEF Next, Cycle, Api

\* "Don't retry the same sample": each selection of a sample beyond the first is
\* accounted for by a kill or by the hash's fall out of the seen file.
THEOREM FedOnce == Spec => []FedAgainForAReason
<1>1. Init => FeedsPaid
  BY DEF Init, FeedsPaid
<1>2. IInv /\ FeedsPaid /\ [Next]_vars => FeedsPaid'
  BY FeedsPaidNext
<1>3. FeedsPaid => FedAgainForAReason
  BY DEF FeedsPaid, FedAgainForAReason
<1> QED
  BY <1>1, <1>2, <1>3, Inductive, PTL DEF Spec
=============================================================================

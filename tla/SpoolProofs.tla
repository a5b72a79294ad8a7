---------------------------- MODULE SpoolProofs ----------------------------
(***************************************************************************)
(* Proofs about Spool, for every set of files, every naming and every      *)
(* bound: types, "no sample is lost", the records, how often and in which  *)
(* order samples are run, and the refinement of SpoolContract.             *)
(***************************************************************************)
EXTENDS Spool, FiniteSetTheorems, TLAPS

\* The name of a file is one of Names.
LEMMA NameType ==
  ASSUME TypeOK, NEW f \in Files
  PROVE  Name(f) \in Names
<1>1. NameOf[f] \in {NameOf[g] : g \in Files} /\ copy[f] \in 0 .. MaxCopy
  BY DEF TypeOK, FileType
<1> QED
  BY <1>1 DEF Name, Names

\* FileAt returns the file of an existing spool entry.
LEMMA FileAtExists ==
  ASSUME NEW n, Exists(n)
  PROVE  FileAt(n) \in Files /\ where[FileAt(n)] = "spool" /\ Name(FileAt(n)) = n
BY DEF Exists, FileAt, InSpool

\* The directory listing is a sequence of names.
LEMMA ArrivalsType ==
  ASSUME TypeOK, NEW q \in Arrivals
  PROVE  q \in Seq(Names)
<1>1. IsFiniteSet(InSpool)
  BY FilesAssumption, FS_Subset DEF InSpool
<1>2. Cardinality(InSpool) \in Nat
  BY <1>1, FS_CardinalityType
<1>3. {Name(f) : f \in InSpool} \subseteq Names
  BY NameType DEF InSpool
<1>4. q \in [1 .. Cardinality(InSpool) -> {Name(f) : f \in InSpool}]
  BY DEF Arrivals
<1>5. q \in [1 .. Cardinality(InSpool) -> Names]
  BY <1>3, <1>4
<1> QED
  BY <1>2, <1>5

\* quarantine_dest returns a name of the right type that nothing has.
LEMMA DestFree ==
  ASSUME TypeOK, NEW n \in Names, NEW d \in QuarantineDest(n)
  PROVE  d \in Names /\ d[1] = n[1] /\ ~Taken(d)
<1>1. CASE ~Taken(n)
  BY <1>1 DEF QuarantineDest
<1>2. CASE Taken(n)
  <2>1. PICK k \in 1 .. MaxCopy : d = <<n[1], k>> /\ ~Taken(<<n[1], k>>)
    BY <1>2 DEF QuarantineDest
  <2>2. n[1] \in {NameOf[f] : f \in Files}
    BY DEF Names
  <2>3. k \in 0 .. MaxCopy
    BY BoundsAssumption
  <2> QED
    BY <2>1, <2>2, <2>3 DEF Names
<1> QED
  BY <1>1, <1>2

\* Types hold initially.
LEMMA InitTypeOK == Init => TypeOK
<1> SUFFICES ASSUME Init PROVE TypeOK
  OBVIOUS
<1>1. FileType
  BY BoundsAssumption DEF Init, FileType, Places
<1>2. RecordType
  BY DEF Init, RecordType
<1>3. DrainType
  <2>1. queue \in Seq(Names)
    BY DEF Init
  <2>2. /\ pc = "idle" /\ cur = None /\ rc = "none" /\ running = None
        /\ listed = {} /\ stopping \in BOOLEAN /\ stuck \in BOOLEAN
    BY DEF Init
  <2> QED
    BY <2>1, <2>2 DEF DrainType, Acting, Statuses
<1>4. SeenType
  BY DEF Init, SeenType, Statuses
<1>5. UnitType
  BY BoundsAssumption DEF Init, UnitType
<1> QED
  BY <1>1, <1>2, <1>3, <1>4, <1>5 DEF TypeOK

\* The files: moved by the API, the operator, rm and mv.
LEMMA FileTypeNext ==
  ASSUME TypeOK, [Next]_vars
  PROVE  FileType'
<1> USE DEF TypeOK, FileType
<1>1. ASSUME NEW f \in Files, BeginUpload(f) PROVE FileType'
  BY <1>1 DEF BeginUpload, Appear, Places
<1>2. ASSUME NEW f \in Files, FinishUpload(f) PROVE FileType'
  BY <1>2 DEF FinishUpload
<1>3. ASSUME NEW f \in Files, FailUpload(f) PROVE FileType'
  BY <1>3 DEF FailUpload, Places
<1>4. ASSUME NEW f \in Files, HandDrop(f) PROVE FileType'
  BY <1>4 DEF HandDrop, Appear, Places
<1>5. ASSUME NEW f \in Files, Remove(f) PROVE FileType'
  BY <1>5 DEF Remove, Places
<1>6. ASSUME NEW f \in Files, Requeue(f) PROVE FileType'
  BY <1>6 DEF Requeue, Places
<1>7. CASE Crash
  BY <1>7 DEF Crash
<1>8. CASE RemoveDone
  BY <1>8 DEF RemoveDone, Places
<1>9. CASE Quarantine
  <2>1. PICK d \in QuarantineDest(cur) :
          /\ where' = [g \in Files |->
                         IF g = FileAt(cur) THEN "failed"
                         ELSE IF where[g] = "failed" /\ Name(g) = d THEN "clobbered"
                         ELSE where[g]]
          /\ copy' = [copy EXCEPT ![FileAt(cur)] = d[2]]
    BY <1>9 DEF Quarantine
  <2>2. cur \in Names
    BY <1>9 DEF Quarantine, DrainType, Acting
  <2>3. d[2] \in 0 .. MaxCopy
    BY <2>2, DestFree DEF Names
  <2>4. where' \in [Files -> Places]
    BY <2>1 DEF Places
  <2>5. copy' \in [Files -> 0 .. MaxCopy]
    BY <2>1, <2>3
  <2> QED
    BY <1>9, <2>4, <2>5 DEF Quarantine
<1>10. CASE UNCHANGED file
  BY <1>10 DEF file
<1>11. ASSUME NEW f \in Files, LateOutput(f) PROVE UNCHANGED file
  BY <1>11 DEF LateOutput
<1>12. CASE ResetUnit \/ Trigger \/ WindowPasses \/ Stop
  BY <1>12, <1>10 DEF ResetUnit, Trigger, WindowPasses, Stop
<1>13. CASE List \/ SkipVanished \/ SkipIrregular \/ StartRun \/ EndRun \/ AfterRun
  BY <1>13, <1>10 DEF List, SkipVanished, SkipIrregular, StartRun, EndRun, AfterRun
<1>14. CASE RemoveFails \/ QuarantineFails \/ WriteSidecar \/ SidecarFails
            \/ LeaveLoop \/ Exit
  BY <1>14, <1>10 DEF RemoveFails, QuarantineFails, WriteSidecar, SidecarFails,
     LeaveLoop, Exit
<1>15. CASE UNCHANGED vars
  BY <1>15, <1>10 DEF vars
<1> QED
  BY <1>1, <1>2, <1>3, <1>4, <1>5, <1>6, <1>7, <1>8, <1>9, <1>10, <1>11, <1>12,
     <1>13, <1>14, <1>15 DEF Next, Drain, Environment

\* The quarantine records and the run log.
LEMMA RecordTypeNext ==
  ASSUME TypeOK, [Next]_vars
  PROVE  RecordType'
<1> USE DEF RecordType
<1>1. ASSUME NEW f \in Files, LateOutput(f) PROVE RecordType'
  BY <1>1 DEF LateOutput, TypeOK, SeenType
<1>2. CASE StartRun
  <2>1. FileAt(Head(queue)) \in Files
    BY <1>2, FileAtExists DEF StartRun
  <2> QED
    BY <1>2, <2>1 DEF StartRun, Tee, TypeOK, SeenType
<1>3. CASE WriteSidecar
  <2>1. [name |-> cur, sample |-> running, run |-> runs[running],
         tail |-> runlog, status |-> rc] \in Records
    BY <1>3 DEF WriteSidecar, TypeOK, DrainType, SeenType, Acting, Records
  <2> QED
    BY <1>3, <2>1 DEF WriteSidecar, TypeOK
<1>4. CASE SkipIrregular \/ Exit
  BY <1>4 DEF SkipIrregular, Exit, TypeOK
<1>5. CASE UNCHANGED <<sidecar, runlog>>
  BY <1>5 DEF TypeOK
<1>6. ASSUME NEW f \in Files,
             \/ BeginUpload(f) \/ FinishUpload(f) \/ FailUpload(f)
             \/ HandDrop(f) \/ Remove(f) \/ Requeue(f)
      PROVE  UNCHANGED <<sidecar, runlog>>
  BY <1>6 DEF BeginUpload, FinishUpload, FailUpload, HandDrop, Appear, Remove, Requeue
<1>7. CASE ResetUnit \/ Trigger \/ WindowPasses \/ Stop \/ Crash
  BY <1>7, <1>5 DEF ResetUnit, Trigger, WindowPasses, Stop, Crash
<1>8. CASE List \/ SkipVanished \/ EndRun \/ AfterRun \/ RemoveDone \/ RemoveFails
  BY <1>8, <1>5 DEF List, SkipVanished, EndRun, AfterRun, RemoveDone, RemoveFails
<1>9. CASE Quarantine \/ QuarantineFails \/ SidecarFails \/ LeaveLoop
  BY <1>9, <1>5 DEF Quarantine, QuarantineFails, SidecarFails, LeaveLoop
<1>10. CASE UNCHANGED vars
  BY <1>10, <1>5 DEF vars
<1> QED
  BY <1>1, <1>2, <1>3, <1>4, <1>5, <1>6, <1>7, <1>8, <1>9, <1>10
  DEF Next, Drain, Environment

\* The shell variables of pipeline-spool-run.
LEMMA DrainTypeNext ==
  ASSUME TypeOK, [Next]_vars
  PROVE  DrainType'
<1> USE DEF TypeOK, DrainType, Acting
<1>1. CASE List
  <2>1. queue' \in Seq(Names)
    BY <1>1, ArrivalsType DEF List
  <2> QED
    BY <1>1, <2>1 DEF List, InSpool
<1>2. CASE SkipVanished
  BY <1>2 DEF SkipVanished, Done
<1>3. CASE SkipIrregular
  <2>1. FileAt(Head(queue)) \in Files
    BY <1>3, FileAtExists DEF SkipIrregular
  <2>2. Head(queue) \in Names /\ Tail(queue) \in Seq(Names)
    BY <1>3 DEF SkipIrregular, Done
  <2> QED
    BY <1>3, <2>1, <2>2 DEF SkipIrregular, Statuses
<1>4. CASE StartRun
  <2>1. FileAt(Head(queue)) \in Files
    BY <1>4, FileAtExists DEF StartRun
  <2>2. Head(queue) \in Names /\ Tail(queue) \in Seq(Names)
    BY <1>4 DEF StartRun, Done
  <2>3. running' = FileAt(Head(queue))
    BY <1>4 DEF StartRun
  <2> QED
    BY <1>4, <2>1, <2>2, <2>3 DEF StartRun, Statuses
<1>5. CASE EndRun \/ AfterRun \/ Trigger
  BY <1>5 DEF EndRun, AfterRun, Trigger, Statuses
<1>6. CASE Stop
  BY <1>6 DEF Stop, Statuses
<1>7. CASE Crash \/ Exit
  <2>1. queue' = <<>>
    BY <1>7, Zenon DEF Crash, Exit
  <2>2. /\ pc' = "idle" /\ cur' = None /\ rc' = "none" /\ running' = None
        /\ listed' = {} /\ stopping' = FALSE /\ stuck' = FALSE
    BY <1>7, Zenon DEF Crash, Exit
  <2>3. queue' \in Seq(Names)
    BY <2>1
  <2>4. stopping' \in BOOLEAN /\ stuck' \in BOOLEAN
    BY <2>2
  <2> QED
    BY <2>2, <2>3, <2>4 DEF Statuses
<1>8. CASE RemoveDone \/ RemoveFails
  BY <1>8 DEF RemoveDone, RemoveFails, NextEntry, Statuses
<1>9. CASE Quarantine
  <2>1. FileAt(cur) \in Files
    BY <1>9, FileAtExists DEF Quarantine
  <2>2. cur' \in Names
    BY <1>9, DestFree DEF Quarantine
  <2>3. running' = FileAt(cur) /\ listed' = listed \ {FileAt(cur)}
    BY <1>9 DEF Quarantine
  <2> QED
    BY <1>9, <2>1, <2>2, <2>3 DEF Quarantine
<1>10. CASE QuarantineFails \/ WriteSidecar \/ SidecarFails
  BY <1>10 DEF QuarantineFails, WriteSidecar, SidecarFails, NextEntry, Statuses
<1>11. CASE LeaveLoop
  BY <1>11 DEF LeaveLoop, Done
<1>12. ASSUME NEW f \in Files, FailUpload(f) \/ Remove(f) PROVE DrainType'
  BY <1>12 DEF FailUpload, Remove
<1>13. CASE UNCHANGED drain
  BY <1>13 DEF drain
<1>14. ASSUME NEW f \in Files,
              \/ BeginUpload(f) \/ FinishUpload(f) \/ HandDrop(f)
              \/ Requeue(f) \/ LateOutput(f)
       PROVE  UNCHANGED drain
  BY <1>14 DEF BeginUpload, FinishUpload, HandDrop, Appear, Requeue, LateOutput
<1>15. CASE ResetUnit \/ WindowPasses \/ UNCHANGED vars
  BY <1>15, <1>13 DEF ResetUnit, WindowPasses, vars
<1> QED
  BY <1>1, <1>2, <1>3, <1>4, <1>5, <1>6, <1>7, <1>8, <1>9, <1>10, <1>11, <1>12,
     <1>13, <1>14, <1>15 DEF Next, Drain, Environment

\* What is remembered of the runs.
LEMMA SeenTypeNext ==
  ASSUME TypeOK, [Next]_vars
  PROVE  SeenType'
<1> USE DEF TypeOK, SeenType, Statuses
<1>1. CASE StartRun
  <2>1. FileAt(Head(queue)) \in Files
    BY <1>1, FileAtExists DEF StartRun
  <2>2. firstRuns' \in Seq(Files)
    BY <1>1, <2>1 DEF StartRun
  <2>3. runs' \in [Files -> Nat] /\ outcome' \in [Files -> Statuses]
    BY <1>1, <2>1 DEF StartRun
  <2> QED
    BY <1>1, <2>1, <2>2, <2>3 DEF StartRun
<1>2. CASE EndRun \/ Stop
  BY <1>2 DEF EndRun, Stop
<1>3. CASE UNCHANGED seen
  BY <1>3 DEF seen
<1>4. ASSUME NEW f \in Files,
             \/ BeginUpload(f) \/ FinishUpload(f) \/ FailUpload(f) \/ HandDrop(f)
             \/ Remove(f) \/ Requeue(f) \/ LateOutput(f)
      PROVE  UNCHANGED seen
  BY <1>4 DEF BeginUpload, FinishUpload, FailUpload, HandDrop, Appear, Remove,
     Requeue, LateOutput
<1>5. CASE ResetUnit \/ Trigger \/ WindowPasses \/ Crash
  BY <1>5, <1>3 DEF ResetUnit, Trigger, WindowPasses, Crash
<1>6. CASE List \/ SkipVanished \/ SkipIrregular \/ AfterRun \/ RemoveDone \/ RemoveFails
  BY <1>6, <1>3 DEF List, SkipVanished, SkipIrregular, AfterRun, RemoveDone, RemoveFails
<1>7. CASE Quarantine \/ QuarantineFails \/ WriteSidecar \/ SidecarFails
           \/ LeaveLoop \/ Exit
  BY <1>7, <1>3 DEF Quarantine, QuarantineFails, WriteSidecar, SidecarFails,
     LeaveLoop, Exit
<1>8. CASE UNCHANGED vars
  BY <1>8, <1>3 DEF vars
<1> QED
  BY <1>1, <1>2, <1>3, <1>4, <1>5, <1>6, <1>7, <1>8 DEF Next, Drain, Environment

\* systemd's counters and the bounds.
LEMMA UnitTypeNext ==
  ASSUME TypeOK, [Next]_vars
  PROVE  UnitType'
<1> USE BoundsAssumption DEF TypeOK, UnitType, Fault
<1>1. ASSUME NEW f \in Files,
             \/ BeginUpload(f) \/ FinishUpload(f) \/ FailUpload(f) \/ HandDrop(f)
             \/ Remove(f) \/ Requeue(f) \/ LateOutput(f)
      PROVE  UnitType'
  BY <1>1 DEF BeginUpload, FinishUpload, FailUpload, HandDrop, Appear, Remove,
     Requeue, LateOutput, unit, bound
<1>2. CASE ResetUnit \/ Trigger \/ WindowPasses
  BY <1>2 DEF ResetUnit, Trigger, WindowPasses, bound
<1>3. CASE Stop \/ Crash
  BY <1>3 DEF Stop, Crash, unit
<1>4. CASE RemoveFails \/ QuarantineFails \/ SidecarFails
  BY <1>4 DEF RemoveFails, QuarantineFails, SidecarFails, unit, bound
<1>5. CASE Exit
  BY <1>5 DEF Exit, bound
<1>6. CASE UNCHANGED <<unit, bound>>
  BY <1>6 DEF unit, bound
<1>7. CASE List \/ SkipVanished \/ SkipIrregular \/ StartRun \/ EndRun \/ AfterRun
  BY <1>7, <1>6 DEF List, SkipVanished, SkipIrregular, StartRun, EndRun, AfterRun
<1>8. CASE RemoveDone \/ Quarantine \/ WriteSidecar \/ LeaveLoop
  BY <1>8, <1>6 DEF RemoveDone, Quarantine, WriteSidecar, LeaveLoop
<1>9. CASE UNCHANGED vars
  BY <1>9, <1>6 DEF vars
<1> QED
  BY <1>1, <1>2, <1>3, <1>4, <1>5, <1>6, <1>7, <1>8, <1>9 DEF Next, Drain, Environment

\* Types are preserved by every step.
LEMMA NextTypeOK == TypeOK /\ [Next]_vars => TypeOK'
BY FileTypeNext, RecordTypeNext, DrainTypeNext, SeenTypeNext, UnitTypeNext DEF TypeOK

\* Every reachable state is well typed: the current entry of the loop is a
\* spool name and a file whenever the script acts on one.
THEOREM TypeCorrect == Spec => []TypeOK
BY InitTypeOK, NextTypeOK, PTL DEF Spec
-----------------------------------------------------------------------------
\* The spool entry named cur is, if it is an upload, the file the script ran.
LEMMA EntryUnique ==
  ASSUME TypeOK, EntryIsRunning, pc \in Acting \ {"sidecar"},
         NEW f \in Uploads, Name(f) = cur
  PROVE  f = running
<1>1. running \in Files
  BY DEF TypeOK, DrainType
<1>2. NameOf[f] = NameOf[running]
  BY DEF EntryIsRunning, Name
<1> QED
  BY <1>1, <1>2, UploadNamesUnique

\* Where the script is says what the current sample's run came to.
Position == RunOpen /\ RunEnded /\ ToQuarantine /\ EntryIsRunning

LEMMA PositionNext ==
  ASSUME IInv, [Next]_vars
  PROVE  Position'
<1> USE DEF IInv, TypeOK, Position, RunOpen, RunEnded, ToQuarantine, EntryIsRunning,
        Acting, DrainType
<1>1. ASSUME NEW f \in Files,
             \/ BeginUpload(f) \/ HandDrop(f) \/ Remove(f) \/ FailUpload(f) \/ Requeue(f)
      PROVE  Position'
  <2>1. UNCHANGED <<pc, cur, rc, stopping, running, outcome>>
    BY <1>1 DEF BeginUpload, HandDrop, Appear, Remove, FailUpload, Requeue, drain, seen
  <2>2. \A g \in Files : where[g] \in {"spool", "gone"} => where'[g] \in {"spool", "gone"}
    BY <1>1 DEF BeginUpload, HandDrop, Appear, Remove, FailUpload, Requeue, FileType
  <2> QED
    BY <2>1, <2>2
<1>2. CASE Stop
  BY <1>2 DEF Stop, file, SeenType, FileType
<1>3. CASE Trigger \/ Crash \/ List \/ SkipVanished \/ LeaveLoop \/ Exit
  BY <1>3 DEF Trigger, Crash, List, SkipVanished, LeaveLoop, Exit, Done
<1>4. CASE RemoveDone \/ RemoveFails \/ QuarantineFails \/ WriteSidecar \/ SidecarFails
  BY <1>4 DEF RemoveDone, RemoveFails, QuarantineFails, WriteSidecar, SidecarFails, NextEntry
<1>5. CASE SkipIrregular
  <2>1. /\ FileAt(Head(queue)) \in Files \ Regular
        /\ Name(FileAt(Head(queue))) = Head(queue)
    BY <1>5, FileAtExists DEF SkipIrregular
  <2>2. /\ pc' = "quarantine" /\ rc' = "none" /\ cur' = Head(queue)
        /\ running' = FileAt(Head(queue))
    BY <1>5 DEF SkipIrregular
  <2> QED
    BY <2>1, <2>2 DEF Name
<1>6. CASE StartRun
  <2>1. /\ FileAt(Head(queue)) \in Regular /\ FileAt(Head(queue)) \in Files
        /\ where[FileAt(Head(queue))] = "spool"
        /\ Name(FileAt(Head(queue))) = Head(queue)
    BY <1>6, FileAtExists DEF StartRun
  <2>2. /\ pc' = "run" /\ cur' = Head(queue) /\ running' = FileAt(Head(queue))
        /\ where' = where /\ outcome' = [outcome EXCEPT ![FileAt(Head(queue))] = "none"]
    BY <1>6 DEF StartRun, file
  <2> QED
    BY <2>1, <2>2 DEF Name, SeenType
<1>7. CASE EndRun
  BY <1>7 DEF EndRun, SeenType, FilesAssumption
<1>8. CASE AfterRun
  BY <1>8 DEF AfterRun, seen
<1>9. CASE Quarantine
  BY <1>9 DEF Quarantine
<1>10. CASE UNCHANGED <<where, pc, cur, rc, stopping, running, outcome>>
  BY <1>10
<1>11. ASSUME NEW f \in Files, FinishUpload(f) \/ LateOutput(f)
       PROVE  UNCHANGED <<where, pc, cur, rc, stopping, running, outcome>>
  BY <1>11 DEF FinishUpload, LateOutput, file, drain, seen
<1>12. CASE ResetUnit \/ WindowPasses \/ UNCHANGED vars
  BY <1>12, <1>10 DEF ResetUnit, WindowPasses, vars, file, drain, seen
<1> QED
  BY <1>1, <1>2, <1>3, <1>4, <1>5, <1>6, <1>7, <1>8, <1>9, <1>10, <1>11, <1>12
  DEF Next, Drain, Environment

\* No file is overwritten, and an upload is deleted after a run that exited 0.
LEMMA NoSampleLostNext ==
  ASSUME IInv, [Next]_vars
  PROVE  NoSampleLost'
<1> USE DEF IInv, TypeOK, NoSampleLost
<1>0. Uploads \subseteq Files
  BY FilesAssumption
<1>1. ASSUME NEW f \in Files,
             \/ BeginUpload(f) \/ HandDrop(f) \/ Remove(f) \/ FailUpload(f) \/ Requeue(f)
      PROVE  NoSampleLost'
  <2>1. UNCHANGED outcome
    BY <1>1 DEF BeginUpload, HandDrop, Appear, Remove, FailUpload, Requeue, seen
  <2>2. \A g \in Files : where'[g] = where[g] \/ where'[g] \in {"spool", "gone"}
    BY <1>1 DEF BeginUpload, HandDrop, Appear, Remove, FailUpload, Requeue, FileType
  <2> QED
    BY <1>0, <2>1, <2>2
<1>2. CASE Stop
  BY <1>0, <1>2 DEF Stop, file, RunOpen, SeenType
<1>3. CASE StartRun
  <2>1. FileAt(Head(queue)) \in Files /\ where[FileAt(Head(queue))] = "spool"
    BY <1>3, FileAtExists DEF StartRun
  <2>2. where' = where /\ outcome' = [outcome EXCEPT ![FileAt(Head(queue))] = "none"]
    BY <1>3 DEF StartRun, file
  <2> QED
    BY <1>0, <2>1, <2>2 DEF SeenType
<1>4. CASE EndRun
  BY <1>0, <1>4 DEF EndRun, file, RunOpen, SeenType
<1>5. CASE RemoveDone
  <2>1. \A f \in Uploads : Name(f) = cur => outcome[f] = "ok"
    BY <1>5, EntryUnique DEF RemoveDone, RunEnded, Acting
  <2>2. UNCHANGED outcome
    BY <1>5 DEF RemoveDone, seen
  <2> QED
    BY <1>0, <1>5, <2>1, <2>2 DEF RemoveDone
<1>6. CASE Quarantine
  <2>1. cur \in Names
    BY <1>6 DEF Quarantine, DrainType, Acting
  <2>2. PICK d \in QuarantineDest(cur) :
          where' = [g \in Files |->
                      IF g = FileAt(cur) THEN "failed"
                      ELSE IF where[g] = "failed" /\ Name(g) = d THEN "clobbered"
                      ELSE where[g]]
    BY <1>6 DEF Quarantine
  <2>3. \A g \in Files : ~(where[g] = "failed" /\ Name(g) = d)
    BY <2>1, DestFree DEF Taken
  <2>4. UNCHANGED outcome
    BY <1>6 DEF Quarantine, seen
  <2> QED
    BY <1>0, <2>2, <2>3, <2>4
<1>7. CASE UNCHANGED <<where, outcome>>
  BY <1>7
<1>8. ASSUME NEW f \in Files, FinishUpload(f) \/ LateOutput(f)
      PROVE  UNCHANGED <<where, outcome>>
  BY <1>8 DEF FinishUpload, LateOutput, file, seen
<1>9. CASE ResetUnit \/ WindowPasses \/ Trigger \/ Crash \/ UNCHANGED vars
  BY <1>9, <1>7 DEF ResetUnit, WindowPasses, Trigger, Crash, vars, file, seen
<1>10. CASE List \/ SkipVanished \/ SkipIrregular \/ AfterRun \/ RemoveFails
  BY <1>10, <1>7 DEF List, SkipVanished, SkipIrregular, AfterRun, RemoveFails, file, seen
<1>11. CASE QuarantineFails \/ WriteSidecar \/ SidecarFails \/ LeaveLoop \/ Exit
  BY <1>11, <1>7 DEF QuarantineFails, WriteSidecar, SidecarFails, LeaveLoop, Exit, file, seen
<1> QED
  BY <1>1, <1>2, <1>3, <1>4, <1>5, <1>6, <1>7, <1>8, <1>9, <1>10, <1>11
  DEF Next, Drain, Environment

\* No record blames an interrupted sample, and a sidecar gets a name no other has.
LEMMA RecordsNext ==
  ASSUME IInv, [Next]_vars
  PROVE  InterruptedNotBlamed' /\ ToRecord'
<1> USE DEF IInv, TypeOK, InterruptedNotBlamed, ToRecord
<1>1. CASE WriteSidecar
  BY <1>1 DEF WriteSidecar, NextEntry
<1>2. CASE Quarantine
  <2>1. cur \in Names
    BY <1>2 DEF Quarantine, DrainType, Acting
  <2>2. cur' \in QuarantineDest(cur)
    BY <1>2 DEF Quarantine
  <2>3. \A s \in sidecar : s.name # cur'
    BY <2>1, <2>2, DestFree DEF Taken
  <2>4. rc # "killed" /\ UNCHANGED <<rc, sidecar>>
    BY <1>2 DEF Quarantine, ToQuarantine
  <2> QED
    BY <2>3, <2>4
<1>3. CASE sidecar' = sidecar /\ pc' # "sidecar"
  BY <1>3
<1>4. CASE UNCHANGED <<sidecar, pc, cur, rc>>
  BY <1>4
<1>5. ASSUME NEW f \in Files,
             \/ BeginUpload(f) \/ FinishUpload(f) \/ FailUpload(f) \/ HandDrop(f)
             \/ Remove(f) \/ Requeue(f) \/ LateOutput(f)
      PROVE  UNCHANGED <<sidecar, pc, cur, rc>>
  BY <1>5 DEF BeginUpload, FinishUpload, FailUpload, HandDrop, Appear, Remove,
     Requeue, LateOutput, drain
<1>6. CASE Stop
  BY <1>6 DEF Stop
<1>7. CASE ResetUnit \/ WindowPasses \/ UNCHANGED vars
  BY <1>7, <1>4 DEF ResetUnit, WindowPasses, vars, drain
<1>8. CASE Trigger \/ Crash \/ List \/ SkipVanished \/ SkipIrregular \/ StartRun
  BY <1>8, <1>3 DEF Trigger, Crash, List, SkipVanished, SkipIrregular, StartRun
<1>9. CASE EndRun \/ AfterRun \/ RemoveDone \/ RemoveFails \/ QuarantineFails
  BY <1>9, <1>3 DEF EndRun, AfterRun, RemoveDone, RemoveFails, QuarantineFails, NextEntry
<1>10. CASE SidecarFails \/ LeaveLoop \/ Exit
  BY <1>10, <1>3 DEF SidecarFails, LeaveLoop, Exit, NextEntry
<1> QED
  BY <1>1, <1>2, <1>3, <1>4, <1>5, <1>6, <1>7, <1>8, <1>9, <1>10
  DEF Next, Drain, Environment

\* The inductive invariant.
LEMMA Inductive == Spec => []IInv
<1>1. Init => IInv
  BY InitTypeOK DEF Init, IInv, NoSampleLost, InterruptedNotBlamed, RunOpen, RunEnded,
     ToQuarantine, ToRecord, EntryIsRunning, Acting
<1>2. IInv /\ [Next]_vars => IInv'
  BY NextTypeOK, PositionNext, NoSampleLostNext, RecordsNext DEF IInv, Position
<1> QED
  BY <1>1, <1>2, PTL DEF Spec

\* No sample is lost: an upload is deleted only when its latest run exited 0,
\* and no file in quarantine is overwritten.
THEOREM NoSampleIsLost == Spec => []NoSampleLost
BY Inductive, PTL DEF IInv

\* No quarantine record blames a sample for the signal that stopped the unit.
THEOREM InterruptionNotBlamed == Spec => []InterruptedNotBlamed
BY Inductive, PTL DEF IInv

\* A record, once written, stays: a sidecar is written under a name none has.
THEOREM RecordsAreKept == Spec => RecordsKept
<1>1. IInv /\ [Next]_vars => sidecar \subseteq sidecar'
  <2> SUFFICES ASSUME IInv, [Next]_vars PROVE sidecar \subseteq sidecar'
    OBVIOUS
  <2>1. CASE WriteSidecar
    BY <2>1 DEF WriteSidecar, IInv, ToRecord
  <2>2. CASE UNCHANGED sidecar
    BY <2>2
  <2>3. ASSUME NEW f \in Files,
               \/ BeginUpload(f) \/ FinishUpload(f) \/ FailUpload(f) \/ HandDrop(f)
               \/ Remove(f) \/ Requeue(f) \/ LateOutput(f)
        PROVE  UNCHANGED sidecar
    BY <2>3 DEF BeginUpload, FinishUpload, FailUpload, HandDrop, Appear, Remove,
       Requeue, LateOutput
  <2>4. CASE ResetUnit \/ WindowPasses \/ Trigger \/ Stop \/ Crash \/ UNCHANGED vars
    BY <2>4, <2>2 DEF ResetUnit, WindowPasses, Trigger, Stop, Crash, vars
  <2>5. CASE List \/ SkipVanished \/ SkipIrregular \/ StartRun \/ EndRun \/ AfterRun
    BY <2>5, <2>2 DEF List, SkipVanished, SkipIrregular, StartRun, EndRun, AfterRun
  <2>6. CASE RemoveDone \/ RemoveFails \/ Quarantine \/ QuarantineFails
              \/ SidecarFails \/ LeaveLoop \/ Exit
    BY <2>6, <2>2 DEF RemoveDone, RemoveFails, Quarantine, QuarantineFails,
       SidecarFails, LeaveLoop, Exit
  <2> QED
    BY <2>1, <2>2, <2>3, <2>4, <2>5, <2>6 DEF Next, Drain, Environment
<1> QED
  BY <1>1, Inductive, PTL DEF Spec, RecordsKept
-----------------------------------------------------------------------------
(* Whose output a record shows.                                            *)

LEMMA TailNext ==
  ASSUME IInv, LogIsRuns, TailOwnRun, [Next]_vars
  PROVE  LogIsRuns' /\ TailOwnRun'
<1> USE DEF IInv, TypeOK, LogIsRuns, TailOwnRun, Acting
<1>1. CASE pc' \notin Acting /\ UNCHANGED sidecar
  BY <1>1
<1>2. CASE UNCHANGED <<running, runs, runlog, sidecar>> /\ (pc' \in Acting => pc \in Acting)
  BY <1>2
<1>3. CASE SkipIrregular
  BY <1>3 DEF SkipIrregular
<1>4. CASE StartRun
  <2>1. FileAt(Head(queue)) \in Files
    BY <1>4, FileAtExists DEF StartRun
  <2> QED
    BY <1>4, <2>1 DEF StartRun, Tee, SeenType
<1>5. ASSUME NEW f \in Files, LateOutput(f) PROVE LogIsRuns' /\ TailOwnRun'
  BY <1>5 DEF LateOutput, drain, seen
<1>6. CASE Quarantine
  <2>1. running' = FileAt(cur) /\ Name(FileAt(cur)) = cur /\ FileAt(cur) \in Files
    BY <1>6, FileAtExists DEF Quarantine
  <2>2. running' \in Uploads => running' = running
    BY <1>6, <2>1, EntryUnique DEF Quarantine
  <2>3. UNCHANGED <<runs, runlog, sidecar>> /\ pc = "quarantine"
    BY <1>6 DEF Quarantine, seen
  <2> QED
    BY <2>2, <2>3
<1>7. CASE WriteSidecar
  BY <1>7 DEF WriteSidecar, NextEntry
<1>8. ASSUME NEW f \in Files,
             \/ BeginUpload(f) \/ FinishUpload(f) \/ FailUpload(f) \/ HandDrop(f)
             \/ Remove(f) \/ Requeue(f)
      PROVE  UNCHANGED <<running, runs, runlog, sidecar, pc>>
  BY <1>8 DEF BeginUpload, FinishUpload, FailUpload, HandDrop, Appear, Remove, Requeue,
     drain, seen
<1>9. CASE ResetUnit \/ WindowPasses \/ UNCHANGED vars
  BY <1>2, <1>9 DEF ResetUnit, WindowPasses, vars, drain, seen
<1>10. CASE Trigger \/ Crash \/ List \/ SkipVanished \/ LeaveLoop \/ Exit
  BY <1>1, <1>10 DEF Trigger, Crash, List, SkipVanished, LeaveLoop, Exit, Done
<1>11. CASE RemoveDone \/ RemoveFails \/ QuarantineFails \/ SidecarFails
  BY <1>1, <1>11 DEF RemoveDone, RemoveFails, QuarantineFails, SidecarFails, NextEntry
<1>12. CASE Stop \/ EndRun \/ AfterRun
  BY <1>2, <1>12 DEF Stop, EndRun, AfterRun, seen
<1> QED
  BY <1>2, <1>3, <1>4, <1>5, <1>6, <1>7, <1>8, <1>9, <1>10, <1>11, <1>12
  DEF Next, Drain, Environment

\* The tail in an upload's record is of the run that the record is about, but for
\* what descendants of earlier runs still write.
THEOREM TailIsOwn == Spec => []TailOwnRun
<1>1. Init => LogIsRuns /\ TailOwnRun
  BY DEF Init, LogIsRuns, TailOwnRun, Acting
<1>2. IInv /\ LogIsRuns /\ TailOwnRun /\ [Next]_vars => (LogIsRuns /\ TailOwnRun)'
  BY TailNext
<1> QED
  BY <1>1, <1>2, Inductive, PTL DEF Spec
-----------------------------------------------------------------------------
(* How often a sample is run.                                              *)

\* A file that arrives has a name no entry has.
LEMMA Arrives ==
  ASSUME NEW f \in Files, BeginUpload(f) \/ HandDrop(f)
  PROVE  /\ where[f] = "new" /\ where' = [where EXCEPT ![f] = "spool"]
         /\ ~Exists(<<NameOf[f], 0>>)
         /\ clock' = clock + 1 /\ created' = [created EXCEPT ![f] = clock + 1]
         /\ mtime' = [mtime EXCEPT ![f] = clock + 1]
         /\ UNCHANGED <<copy, pc, queue, cur, stopping, running, listed, runs, firstRuns,
                        faults, requeues>>
BY DEF BeginUpload, HandDrop, Appear, drain, seen, bound

\* A file that an operator removes or a request takes back is gone.
LEMMA Withdrawn ==
  ASSUME TypeOK, NEW f \in Files, Remove(f) \/ FailUpload(f)
  PROVE  /\ \/ where' = where /\ listed' = listed
            \/ /\ where[f] = "spool" /\ where' = [where EXCEPT ![f] = "gone"]
               /\ listed' = listed \ {f}
         /\ faults' \in Nat /\ faults' >= faults
         /\ UNCHANGED <<copy, created, mtime, clock, pc, queue, cur, stopping, running, runs,
                        firstRuns, requeues>>
<1>1. faults \in Nat
  BY BoundsAssumption DEF TypeOK, UnitType
<1>2. CASE Remove(f)
  BY <1>1, <1>2 DEF Remove, seen, bound
<1>3. CASE FailUpload(f)
  BY <1>1, <1>3 DEF FailUpload, Fault, seen
<1> QED
  BY <1>2, <1>3

\* No two entries of the spool have one name, and the script's entry is its file,
\* if that is still there.
LEMMA EntriesNext ==
  ASSUME IInv, LoopIInv, [Next]_vars
  PROVE  NamesDiffer' /\ EntryInPlace'
<1>0. /\ where \in [Files -> Places] /\ copy \in [Files -> 0 .. MaxCopy]
      /\ pc \in Acting => running \in Files
  BY DEF IInv, TypeOK, FileType, DrainType
<1> USE <1>0 DEF LoopIInv, NamesDiffer, EntryInPlace, InSpool, Acting, Name, Places
<1>1. ASSUME NEW f \in Files, BeginUpload(f) \/ HandDrop(f) \/ Requeue(f)
      PROVE  NamesDiffer' /\ EntryInPlace'
  <2>1. CASE Requeue(f)
    <3>1. /\ where' = [where EXCEPT ![f] = "spool"] /\ where[f] = "failed" /\ ~Exists(Name(f))
          /\ UNCHANGED <<pc, cur, running, copy>>
      BY <2>1 DEF Requeue, drain
    <3> QED
      BY <3>1 DEF Exists
  <2>2. CASE BeginUpload(f) \/ HandDrop(f)
    <3>1. /\ where[f] = "new" /\ where' = [where EXCEPT ![f] = "spool"]
          /\ ~Exists(<<NameOf[f], 0>>) /\ UNCHANGED <<copy, pc, cur, running>>
      BY <2>2, Arrives
    <3>2. NamesDiffer'
      BY <3>1 DEF Exists
    <3>3. EntryInPlace'
      BY <3>1
    <3> QED
      BY <3>2, <3>3
  <2> QED
    BY <1>1, <2>1, <2>2
<1>2. ASSUME NEW f \in Files, Remove(f) \/ FailUpload(f)
      PROVE  NamesDiffer' /\ EntryInPlace'
  <2>1. \/ where' = where
        \/ where[f] = "spool" /\ where' = [where EXCEPT ![f] = "gone"]
    BY <1>2, Withdrawn DEF IInv
  <2>2. UNCHANGED <<pc, cur, running, copy>>
    BY <1>2, Withdrawn DEF IInv
  <2> QED
    BY <2>1, <2>2
<1>3. CASE SkipIrregular \/ StartRun
  <2>1. /\ Exists(Head(queue)) /\ running' = FileAt(Head(queue)) /\ cur' = Head(queue)
        /\ UNCHANGED <<where, copy>>
    BY <1>3 DEF SkipIrregular, StartRun, file
  <2>2. where[running'] = "spool" /\ Name(running') = cur'
    BY <2>1, FileAtExists
  <2> QED
    BY <2>1, <2>2
<1>4. CASE RemoveDone
  <2>0. where' = [g \in Files |->
                    IF where[g] = "spool" /\ Name(g) = cur THEN "consumed" ELSE where[g]]
    BY <1>4, Zenon DEF RemoveDone
  <2>1. ASSUME NEW g \in Files
        PROVE  where'[g] = where[g] \/ (where'[g] = "consumed" /\ where[g] = "spool")
    BY <2>0
  <2>2. UNCHANGED copy /\ pc' = "loop"
    BY <1>4 DEF RemoveDone, NextEntry
  <2> QED
    BY <2>1, <2>2
<1>5. CASE Quarantine
  <2>1. PICK d \in QuarantineDest(cur) :
          /\ where' = [g \in Files |->
                         IF g = FileAt(cur) THEN "failed"
                         ELSE IF where[g] = "failed" /\ Name(g) = d THEN "clobbered"
                         ELSE where[g]]
          /\ copy' = [copy EXCEPT ![FileAt(cur)] = d[2]]
    BY <1>5 DEF Quarantine
  <2>2. \A g \in Files : where'[g] \in {"spool", "new"} => where'[g] = where[g] /\ copy'[g] = copy[g]
    BY <2>1
  <2>3. pc' = "sidecar"
    BY <1>5 DEF Quarantine
  <2> QED
    BY <2>2, <2>3
<1>6. CASE UNCHANGED <<where, copy>> /\ pc' \notin Acting \ {"sidecar"}
  BY <1>6
<1>7. CASE UNCHANGED <<where, copy, cur, running>> /\ (pc' \in Acting => pc \in Acting \ {"sidecar"} \/ pc' = pc)
  BY <1>7
<1>8. ASSUME NEW f \in Files, FinishUpload(f) \/ LateOutput(f)
      PROVE  UNCHANGED <<where, copy, pc, cur, running>>
  BY <1>8 DEF FinishUpload, LateOutput, file, drain
<1>9. CASE ResetUnit \/ WindowPasses \/ Stop \/ EndRun \/ AfterRun \/ UNCHANGED vars
  BY <1>7, <1>9 DEF ResetUnit, WindowPasses, Stop, EndRun, AfterRun, vars, drain, file
<1>10. CASE Trigger \/ Crash \/ List \/ SkipVanished \/ LeaveLoop \/ Exit
  BY <1>6, <1>10 DEF Trigger, Crash, List, SkipVanished, LeaveLoop, Exit, file, Done
<1>11. CASE RemoveFails \/ QuarantineFails \/ WriteSidecar \/ SidecarFails
  BY <1>6, <1>11 DEF RemoveFails, QuarantineFails, WriteSidecar, SidecarFails, NextEntry, file
<1> QED
  BY <1>1, <1>2, <1>3, <1>4, <1>5, <1>7, <1>8, <1>9, <1>10, <1>11 DEF Next, Drain, Environment

\* Each step that leaves or puts a file in the spool after a run spends a fault or a
\* requeue, but for the end of the run itself.
LEMMA RunsPaidNext ==
  ASSUME IInv, LoopIInv, [Next]_vars
  PROVE  RunsPaid'
<1>0. /\ runs \in [Files -> Nat] /\ where \in [Files -> Places]
      /\ faults \in Nat /\ requeues \in Nat /\ (pc \in Acting => running \in Files)
  BY BoundsAssumption DEF IInv, TypeOK, SeenType, FileType, UnitType, DrainType
<1> USE <1>0 DEF LoopIInv, RunsPaid, Acting
<1>1. ASSUME NEW f \in Files, BeginUpload(f) \/ HandDrop(f)
      PROVE  RunsPaid'
  <2>1. /\ where[f] = "new" /\ where' = [where EXCEPT ![f] = "spool"]
        /\ UNCHANGED <<pc, stopping, running, runs, faults, requeues>>
    BY <1>1, Arrives
  <2> QED
    BY <2>1
<1>2. ASSUME NEW f \in Files, Requeue(f) PROVE RunsPaid'
  <2>1. /\ where' = [where EXCEPT ![f] = "spool"] /\ requeues' = requeues + 1
        /\ UNCHANGED <<pc, stopping, running, runs, faults>>
    BY <1>2 DEF Requeue, drain, seen
  <2> QED
    BY <2>1
<1>3. ASSUME NEW f \in Files, Remove(f) \/ FailUpload(f) PROVE RunsPaid'
  <2>1. \/ where' = where
        \/ where[f] = "spool" /\ where' = [where EXCEPT ![f] = "gone"]
    BY <1>3, Withdrawn DEF IInv
  <2>2. /\ faults' \in Nat /\ faults' >= faults
        /\ UNCHANGED <<pc, stopping, running, runs, requeues>>
    BY <1>3, Withdrawn DEF IInv
  <2> QED
    BY <2>1, <2>2
<1>4. CASE Stop \/ Crash
  <2>1. faults' = faults + 1 /\ UNCHANGED <<where, runs, requeues>>
    BY <1>4 DEF Stop, Crash, Fault, file, seen
  <2> QED
    BY <2>1
<1>5. CASE StartRun
  <2> DEFINE f == FileAt(Head(queue))
  <2>1. f \in Files /\ where[f] = "spool"
    BY <1>5, FileAtExists DEF StartRun
  <2>2. /\ runs' = [runs EXCEPT ![f] = @ + 1] /\ running' = f /\ pc = "loop" /\ pc' = "run"
        /\ ~stopping /\ UNCHANGED <<stopping, where, faults, requeues>>
    BY <1>5 DEF StartRun, Done, file, bound
  <2> HIDE DEF f
  <2> QED
    BY <2>1, <2>2
<1>6. CASE EndRun
  <2>1. /\ UNCHANGED <<where, runs, faults, requeues, stopping, running>>
        /\ pc = "run" /\ pc' = "ran"
    BY <1>6 DEF EndRun, file, bound
  <2> QED
    BY <2>1
<1>16. CASE AfterRun
  <2>1. /\ UNCHANGED <<where, runs, faults, requeues, stopping, running>>
        /\ pc = "ran" /\ IF stopping THEN pc' = "exit" ELSE pc' \in {"remove", "quarantine"}
    BY <1>16 DEF AfterRun, file, seen, bound
  <2> QED
    BY <2>1
<1>7. CASE RemoveDone
  <2>1. /\ UNCHANGED <<runs, faults, requeues>> /\ pc = "remove" /\ pc' = "loop"
    BY <1>7 DEF RemoveDone, NextEntry, seen, bound
  <2>2. where' = [g \in Files |->
                    IF where[g] = "spool" /\ Name(g) = cur THEN "consumed" ELSE where[g]]
    BY <1>7 DEF RemoveDone
  <2>3. where'[running] # "spool" /\ \A g \in Files : where'[g] \in {where[g], "consumed"}
    BY <2>1, <2>2 DEF EntryInPlace
  <2> QED
    BY <2>1, <2>3
<1>8. CASE RemoveFails \/ SidecarFails
  <2>1. faults' = faults + 1 /\ UNCHANGED <<where, runs, requeues>>
    BY <1>8 DEF RemoveFails, SidecarFails, Fault, file, seen
  <2> QED
    BY <2>1
<1>9. CASE Quarantine
  <2>1. FileAt(cur) \in InSpool /\ Name(FileAt(cur)) = cur
    BY <1>9, FileAtExists DEF Quarantine, InSpool
  <2>2. where[running] = "spool" => running = FileAt(cur)
    BY <1>9, <2>1 DEF Quarantine, EntryInPlace, NamesDiffer, InSpool
  <2>3. /\ where'[FileAt(cur)] = "failed" /\ \A g \in Files : where'[g] \in {where[g], "failed", "clobbered"}
        /\ pc = "quarantine" /\ UNCHANGED <<runs, faults, requeues>>
    BY <1>9, <2>1 DEF Quarantine, InSpool, seen, bound
  <2> QED
    BY <2>1, <2>2, <2>3 DEF InSpool
<1>10. CASE QuarantineFails
  <2>1. CASE Exists(cur)
    <3>1. faults' = faults + 1 /\ UNCHANGED <<where, runs, requeues>>
      BY <1>10, <2>1 DEF QuarantineFails, Fault, file, seen
    <3> QED
      BY <3>1
  <2>2. CASE ~Exists(cur)
    <3>1. pc = "quarantine" /\ UNCHANGED <<where, runs, faults, requeues>>
      BY <1>10, <2>2 DEF QuarantineFails, file, seen, bound
    <3>2. where[running] # "spool"
      BY <2>2, <3>1 DEF EntryInPlace, Exists, InSpool
    <3> QED
      BY <3>1, <3>2
  <2> QED
    BY <2>1, <2>2
<1>11. CASE /\ UNCHANGED <<where, runs, faults, requeues>>
            /\ pc \in Acting \ {"sidecar"} => UNCHANGED <<pc, stopping, running>>
  BY <1>11
<1>12. ASSUME NEW f \in Files, FinishUpload(f) \/ LateOutput(f)
       PROVE  UNCHANGED <<where, runs, faults, requeues, pc, stopping, running>>
  BY <1>12 DEF FinishUpload, LateOutput, file, drain, seen, bound
<1>13. CASE ResetUnit \/ WindowPasses \/ UNCHANGED vars
  BY <1>11, <1>13 DEF ResetUnit, WindowPasses, vars, drain, file, seen, bound
<1>14. CASE Trigger \/ List \/ SkipVanished \/ SkipIrregular
  BY <1>11, <1>14 DEF Trigger, List, SkipVanished, SkipIrregular, file, seen, bound
<1>15. CASE WriteSidecar \/ LeaveLoop \/ Exit
  BY <1>11, <1>15 DEF WriteSidecar, LeaveLoop, Exit, Done, file, seen, bound
<1> QED
  BY <1>1, <1>2, <1>3, <1>4, <1>5, <1>6, <1>7, <1>8, <1>9, <1>10, <1>11, <1>12, <1>13, <1>14,
     <1>15, <1>16 DEF Next, Drain, Environment

LEMMA LoopInductive == Spec => []LoopIInv
<1>1. Init => LoopIInv
  BY BoundsAssumption DEF Init, LoopIInv, NamesDiffer, EntryInPlace, RunsPaid, InSpool, Acting
<1>2. IInv /\ LoopIInv /\ [Next]_vars => LoopIInv'
  BY EntriesNext, RunsPaidNext, NextTypeOK DEF IInv, LoopIInv
<1> QED
  BY <1>1, <1>2, Inductive, PTL DEF Spec

\* No sample is detonated in a loop: each run of it beyond the first is accounted for
\* by a requeue or by a fault.
THEOREM NoLoop == Spec => []NoDetonationLoop
<1>1. LoopIInv => NoDetonationLoop
  BY DEF LoopIInv, RunsPaid, NoDetonationLoop
<1> QED
  BY <1>1, LoopInductive, PTL
-----------------------------------------------------------------------------
(* The order of the first runs.                                            *)

\* The typing facts the order is reasoned from.
OrderTypes ==
  /\ where \in [Files -> Places] /\ copy \in [Files -> 0 .. MaxCopy]
  /\ created \in [Files -> Nat] /\ mtime \in [Files -> Nat] /\ clock \in Nat
  /\ runs \in [Files -> Nat] /\ firstRuns \in Seq(Files)
  /\ queue \in Seq(Names) /\ listed \subseteq Files
  /\ Uploads \subseteq Files

LEMMA OrderTyped == TypeOK => OrderTypes
BY FilesAssumption DEF TypeOK, FileType, DrainType, SeenType, OrderTypes

LEMMA FirstRunsTyped ==
  ASSUME OrderTypes
  PROVE  /\ Len(firstRuns) \in Nat /\ DOMAIN firstRuns = 1 .. Len(firstRuns)
         /\ \A i \in 1 .. Len(firstRuns) : firstRuns[i] \in Files
BY DEF OrderTypes

\* The listing names every entry of the spool once, in the order of their times.
LEMMA ListingComplete ==
  ASSUME TypeOK, NamesDiffer, NEW q \in Arrivals
  PROVE  /\ \A i \in DOMAIN q : \E f \in InSpool : q[i] = Name(f)
         /\ \A f \in InSpool : \E i \in DOMAIN q : q[i] = Name(f)
         /\ \A i, j \in DOMAIN q, g, f \in InSpool :
              i < j /\ q[i] = Name(g) /\ q[j] = Name(f) => mtime[g] < mtime[f]
<1> DEFINE n == Cardinality(InSpool)
           S == {Name(f) : f \in InSpool}
           N == [f \in InSpool |-> Name(f)]
<1>1. IsFiniteSet(InSpool) /\ n \in Nat
  BY FilesAssumption, FS_Subset, FS_CardinalityType DEF InSpool
<1>2. q \in [1 .. n -> S]
  BY DEF Arrivals
<1>3. \A i, j \in 1 .. n : i < j => mtime[FileAt(q[i])] < mtime[FileAt(q[j])]
  BY DEF Arrivals
<1>4. \A f \in InSpool : FileAt(Name(f)) = f
  <2>1. ASSUME NEW f \in InSpool PROVE FileAt(Name(f)) = f
    <3>1. FileAt(Name(f)) \in InSpool /\ Name(FileAt(Name(f))) = Name(f)
      BY FileAtExists DEF Exists, InSpool
    <3> QED
      BY <3>1 DEF NamesDiffer
  <2> QED
    BY <2>1
<1>5. ASSUME NEW i \in 1 .. n
      PROVE  FileAt(q[i]) \in InSpool /\ mtime[FileAt(q[i])] \in Nat
  <2>1. PICK f \in InSpool : q[i] = Name(f)
    BY <1>2
  <2>2. FileAt(q[i]) = f
    BY <1>4, <2>1
  <2>3. mtime[f] \in Nat
    BY DEF InSpool, TypeOK, FileType
  <2> QED
    BY <2>2, <2>3
<1>6. N \in Surjection(InSpool, S)
  BY DEF Surjection
<1>7. IsFiniteSet(S) /\ Cardinality(S) <= n
  BY <1>1, <1>6, FS_Surjection
<1>8. Cardinality(1 .. n) = n /\ IsFiniteSet(1 .. n)
  BY <1>1, FS_Interval
<1>9. ASSUME NEW i \in 1 .. n, NEW j \in 1 .. n, q[i] = q[j] PROVE i = j
  BY <1>1, <1>3, <1>5, <1>9
<1>10. q \in Injection(1 .. n, S)
  BY <1>2, <1>9 DEF Injection, IsInjective
<1>11. q \in Surjection(1 .. n, S)
  <2>1. Cardinality(1 .. n) <= Cardinality(S) /\ Cardinality(S) \in Nat
    BY <1>7, <1>10, FS_Injection, FS_CardinalityType
  <2>2. Cardinality(1 .. n) = Cardinality(S)
    BY <1>1, <1>7, <1>8, <2>1
  <2> QED
    BY <1>7, <1>10, <2>2, FS_Injection
<1>12. DOMAIN q = 1 .. n
  BY <1>2
<1>13. \A f \in InSpool : \E i \in 1 .. n : q[i] = Name(f)
  BY <1>11 DEF Surjection
<1>14. \A i, j \in 1 .. n, g, f \in InSpool :
         i < j /\ q[i] = Name(g) /\ q[j] = Name(f) => mtime[g] < mtime[f]
  BY <1>3, <1>4
<1>15. \A i \in 1 .. n : \E f \in InSpool : q[i] = Name(f)
  BY <1>2
<1> QED
  BY <1>12, <1>13, <1>14, <1>15

\* The queue without its head.
LEMMA QueueTail ==
  ASSUME NEW q, q \in Seq(Names), q # <<>>
  PROVE  /\ 1 \in DOMAIN q /\ q[1] = Head(q) /\ DOMAIN q \subseteq Nat
         /\ \A i \in DOMAIN Tail(q) : i \in Nat /\ i + 1 \in DOMAIN q /\ Tail(q)[i] = q[i + 1]
         /\ \A j \in DOMAIN q : j # 1 => j - 1 \in DOMAIN Tail(q) /\ Tail(q)[j - 1] = q[j]
         /\ \A j \in DOMAIN q : j >= 1
<1>1. /\ Len(q) \in Nat /\ Len(q) > 0 /\ DOMAIN q = 1 .. Len(q)
      /\ Tail(q) \in Seq(Names) /\ Len(Tail(q)) = Len(q) - 1
  OBVIOUS
<1>2. DOMAIN Tail(q) = 1 .. (Len(q) - 1)
  BY <1>1
<1>3. \A i \in 1 .. (Len(q) - 1) : Tail(q)[i] = q[i + 1]
  BY <1>1
<1> QED
  BY <1>1, <1>2, <1>3

\* A step that leaves the files, the first runs and the list alone, or empties the list.
LEMMA OrderStill ==
  ASSUME ArrivalIInv, UNCHANGED <<where, copy, created, mtime, clock, runs, firstRuns>>,
         UNCHANGED <<queue, listed>> \/ (queue' = <<>> /\ listed' = {}),
         pc' \in Acting => pc \in Acting /\ running' = running
  PROVE  ArrivalIInv'
<1>1. UNCHANGED <<Waiting, HasRun, InSpool>> /\ \A f : Name(f)' = Name(f)
  BY DEF Waiting, HasRun, InSpool, Name
<1>2. ArrivalTimes' /\ RunBefore' /\ ArrivalOrder'
  BY <1>1 DEF ArrivalIInv, ArrivalTimes, RunBefore, ArrivalOrder
<1>3. CASE UNCHANGED <<queue, listed>>
  <2>1. OnTheList'
    BY <1>1, <1>3 DEF ArrivalIInv, OnTheList
  <2> QED
    BY <1>2, <2>1 DEF ArrivalIInv
<1>4. CASE queue' = <<>> /\ listed' = {}
  <2>1. OnTheList'
    BY <1>4 DEF OnTheList
  <2> QED
    BY <1>2, <2>1 DEF ArrivalIInv
<1> QED
  BY <1>3, <1>4

\* A step in which files leave the spool.
LEMMA OrderLeaves ==
  ASSUME OrderTypes, ArrivalIInv,
         UNCHANGED <<created, mtime, clock, runs, firstRuns, queue>>,
         \A g \in Files : where'[g] = where[g] \/ where'[g] \in {"gone", "consumed", "failed"},
         \A g \in Files : where'[g] = "spool" => copy'[g] = copy[g],
         \A g \in Uploads : where'[g] = "failed" => runs[g] > 0,
         listed' = {g \in listed : where'[g] = "spool"},
         pc' \in Acting /\ running' \in Uploads => runs[running'] > 0
  PROVE  ArrivalIInv'
<1> USE DEF OrderTypes
<1>1. Waiting' \subseteq Waiting /\ HasRun' = HasRun
  BY DEF Waiting, HasRun
<1>2. \A g \in listed' : g \in listed /\ Name(g)' = Name(g)
  BY DEF Name
<1>3. Waiting' \ listed' \subseteq Waiting \ listed
  BY <1>1 DEF Waiting
<1>4. ArrivalTimes'
  BY DEF ArrivalIInv, ArrivalTimes
<1>5. RunBefore'
  BY <1>1 DEF ArrivalIInv, RunBefore
<1>6. OnTheList'
  <2>1. listed' \subseteq InSpool'
    BY DEF InSpool
  <2>2. \A f \in (listed \cap Waiting)' : \E i \in DOMAIN queue' : queue'[i] = Name(f)'
    BY <1>1, <1>2 DEF ArrivalIInv, OnTheList
  <2>3. \A i \in DOMAIN queue', g \in Uploads : queue'[i][1] = NameOf[g] =>
          where'[g] # "new" /\ (g \in Waiting' => g \in listed')
    BY <1>3 DEF ArrivalIInv, OnTheList
  <2>4. \A i, j \in DOMAIN queue', g, f \in listed' :
          i < j /\ queue'[i] = Name(g)' /\ queue'[j] = Name(f)' => created'[g] <= mtime'[f]
    BY <1>2 DEF ArrivalIInv, OnTheList
  <2>5. \A g \in listed', f \in Waiting' \ listed' : created'[g] <= created'[f]
    BY <1>2, <1>3 DEF ArrivalIInv, OnTheList
  <2> QED
    BY <2>1, <2>2, <2>3, <2>4, <2>5 DEF OnTheList
<1>7. ArrivalOrder'
  BY DEF ArrivalIInv, ArrivalOrder
<1> QED
  BY <1>4, <1>5, <1>6, <1>7 DEF ArrivalIInv

\* A file arrives: it arrives last, and under a name that is not on the list.
LEMMA OrderArrives ==
  ASSUME OrderTypes, ArrivalIInv, NEW f \in Files, where[f] = "new",
         where' = [where EXCEPT ![f] = "spool"], clock' = clock + 1,
         created' = [created EXCEPT ![f] = clock + 1], mtime' = [mtime EXCEPT ![f] = clock + 1],
         UNCHANGED <<copy, pc, queue, running, listed, runs, firstRuns>>
  PROVE  ArrivalIInv'
<1> USE DEF OrderTypes
<1>1. Waiting' \subseteq Waiting \cup {f} /\ HasRun' = HasRun /\ f \notin listed
  BY DEF Waiting, HasRun, ArrivalIInv, OnTheList, InSpool
<1>2. \A g : Name(g)' = Name(g)
  BY DEF Name
<1>3. ArrivalTimes'
  BY DEF ArrivalIInv, ArrivalTimes
<1>4. f \in Uploads => runs[f] = 0
  BY DEF ArrivalIInv, ArrivalTimes
<1>5. RunBefore'
  <2>1. \A g \in HasRun : created'[g] = created[g] /\ created[g] <= clock
    BY <1>4 DEF HasRun, ArrivalIInv, ArrivalTimes
  <2>2. ASSUME NEW g \in HasRun, NEW h \in Waiting' PROVE created'[g] <= mtime'[h]
    <3>1. g \in Files /\ created[g] \in Nat /\ created'[g] = created[g] /\ created[g] <= clock
      BY <2>1 DEF HasRun
    <3>2. CASE h = f
      BY <3>1, <3>2
    <3>3. CASE h # f
      <4>1. h \in Waiting /\ mtime'[h] = mtime[h]
        BY <1>1, <3>3 DEF Waiting
      <4> QED
        BY <3>1, <4>1 DEF ArrivalIInv, RunBefore
    <3> QED
      BY <3>2, <3>3
  <2> QED
    BY <1>1, <2>2 DEF RunBefore, ArrivalIInv
<1>6. OnTheList'
  <2>1. listed' \subseteq InSpool'
    BY DEF InSpool, ArrivalIInv, OnTheList
  <2>2. \A h \in (listed \cap Waiting)' : \E i \in DOMAIN queue' : queue'[i] = Name(h)'
    BY <1>1, <1>2 DEF ArrivalIInv, OnTheList
  <2>3. \A i \in DOMAIN queue', g \in Uploads : queue'[i][1] = NameOf[g] =>
          where'[g] # "new" /\ (g \in Waiting' => g \in listed')
    BY <1>1 DEF ArrivalIInv, OnTheList
  <2>4. \A i, j \in DOMAIN queue', g, h \in listed' :
          i < j /\ queue'[i] = Name(g)' /\ queue'[j] = Name(h)' => created'[g] <= mtime'[h]
    BY <1>1, <1>2 DEF ArrivalIInv, OnTheList
  <2>5. \A g \in listed : created[g] <= clock
    BY DEF ArrivalIInv, ArrivalTimes
  <2>6. \A g \in listed', h \in Waiting' \ listed' : created'[g] <= created'[h]
    BY <1>1, <2>5 DEF ArrivalIInv, OnTheList, Waiting
  <2> QED
    BY <2>1, <2>2, <2>3, <2>4, <2>6 DEF OnTheList
<1>7. ArrivalOrder'
  <2>1. \A i \in 1 .. Len(firstRuns) : runs[firstRuns[i]] > 0
    BY FirstRunsTyped DEF ArrivalIInv, RunBefore
  <2>2. ASSUME NEW i \in 1 .. Len(firstRuns), firstRuns[i] \in Uploads
        PROVE  /\ created'[firstRuns[i]] = created[firstRuns[i]]
               /\ mtime'[firstRuns[i]] = mtime[firstRuns[i]]
    <3> DEFINE g == firstRuns[i]
    <3>1. g \in Files /\ g \in Uploads /\ runs[g] > 0
      BY <2>1, <2>2, FirstRunsTyped
    <3> HIDE DEF g
    <3>2. g # f
      BY <1>4, <3>1
    <3>3. created'[g] = created[g] /\ mtime'[g] = mtime[g]
      BY <3>1, <3>2
    <3> QED
      BY <3>3 DEF g
  <2> QED
    BY <2>2 DEF ArrivalIInv, ArrivalOrder
<1> QED
  BY <1>3, <1>5, <1>6, <1>7 DEF ArrivalIInv

\* The end of an upload's writing: its time only grows.
LEMMA OrderWritten ==
  ASSUME OrderTypes, ArrivalIInv, NEW f \in Files, clock' = clock + 1,
         mtime' = [mtime EXCEPT ![f] = clock + 1],
         UNCHANGED <<where, copy, created, pc, queue, running, listed, runs, firstRuns>>
  PROVE  ArrivalIInv'
<1> USE DEF OrderTypes
<1>1. UNCHANGED <<Waiting, HasRun, InSpool>> /\ \A g : Name(g)' = Name(g)
  BY DEF Waiting, HasRun, InSpool, Name
<1>2. \A g \in Files : mtime[g] <= mtime'[g] /\ mtime'[g] <= clock'
  BY DEF ArrivalIInv, ArrivalTimes
<1>3. \A g \in Files : created[g] <= clock
  BY DEF ArrivalIInv, ArrivalTimes
<1>4. ArrivalTimes'
  BY <1>2 DEF ArrivalIInv, ArrivalTimes
<1>5. RunBefore'
  BY <1>1, <1>2 DEF ArrivalIInv, RunBefore, HasRun, Waiting
<1>6. OnTheList'
  <2>1. \A i, j \in DOMAIN queue, g, h \in listed :
          i < j /\ queue[i] = Name(g) /\ queue[j] = Name(h) => created[g] <= mtime'[h]
    BY <1>2 DEF ArrivalIInv, OnTheList
  <2> QED
    BY <1>1, <2>1 DEF ArrivalIInv, OnTheList
<1>7. ArrivalOrder'
  <2>1. ASSUME NEW i \in 1 .. Len(firstRuns), NEW j \in 1 .. Len(firstRuns), i < j,
               {firstRuns[i], firstRuns[j]} \subseteq Uploads
        PROVE  ~(mtime'[firstRuns[j]] < created[firstRuns[i]])
    <3> DEFINE a == firstRuns[i]
               b == firstRuns[j]
    <3>1. ~(mtime[b] < created[a]) /\ a \in Files /\ b \in Files
      BY <2>1, FirstRunsTyped DEF ArrivalIInv, ArrivalOrder
    <3> HIDE DEF a, b
    <3>4. mtime[b] \in Nat /\ created[a] \in Nat
      BY <3>1
    <3>5. mtime' \in [Files -> Nat]
      OBVIOUS
    <3>2. mtime'[b] \in Nat /\ mtime[b] <= mtime'[b]
      BY <1>2, <3>1, <3>5
    <3>3. ~(mtime'[b] < created[a])
      BY <3>1, <3>2, <3>4
    <3> QED
      BY <3>3 DEF a, b
  <2> QED
    BY <2>1 DEF ArrivalOrder
<1> QED
  BY <1>4, <1>5, <1>6, <1>7 DEF ArrivalIInv

\* A quarantined file is moved back: an upload among them has been run.
LEMMA OrderBack ==
  ASSUME OrderTypes, ArrivalIInv, NEW f \in Files, where[f] = "failed",
         where' = [where EXCEPT ![f] = "spool"],
         UNCHANGED <<copy, created, mtime, clock, pc, queue, running, listed, runs, firstRuns>>
  PROVE  ArrivalIInv'
<1> USE DEF OrderTypes
<1>1. Waiting' = Waiting
  BY DEF Waiting, ArrivalIInv, ArrivalTimes
<1>2. HasRun' = HasRun /\ \A g : Name(g)' = Name(g)
  BY DEF HasRun, Name
<1>3. ArrivalTimes' /\ RunBefore' /\ ArrivalOrder'
  BY <1>1, <1>2 DEF ArrivalIInv, ArrivalTimes, RunBefore, ArrivalOrder
<1>4. OnTheList'
  BY <1>1, <1>2 DEF ArrivalIInv, OnTheList, InSpool
<1> QED
  BY <1>3, <1>4 DEF ArrivalIInv

\* The next name is taken from the list; what waits under it is no longer waiting.
LEMMA ListShrinks ==
  ASSUME OrderTypes, OnTheList, queue # <<>>, queue' = Tail(queue),
         UNCHANGED <<where, copy, created, mtime, listed>>,
         Waiting' \subseteq Waiting, \A f \in listed \cap Waiting' : Name(f) # Head(queue)
  PROVE  OnTheList'
<1> USE DEF OrderTypes
<1>1. \A g : Name(g)' = Name(g)
  BY DEF Name
<1>2. /\ queue[1] = Head(queue)
      /\ \A i \in DOMAIN queue' : i \in Nat /\ i + 1 \in DOMAIN queue /\ queue'[i] = queue[i + 1]
      /\ \A j \in DOMAIN queue : j # 1 => j - 1 \in DOMAIN queue' /\ queue'[j - 1] = queue[j]
  BY QueueTail
<1>3. listed' \subseteq InSpool'
  BY DEF OnTheList, InSpool
<1>4. \A f \in (listed \cap Waiting)' : \E i \in DOMAIN queue' : queue'[i] = Name(f)'
  <2>1. ASSUME NEW f \in (listed \cap Waiting)'
        PROVE  \E i \in DOMAIN queue' : queue'[i] = Name(f)'
    <3>1. PICK j \in DOMAIN queue : queue[j] = Name(f)
      BY <2>1 DEF OnTheList
    <3>2. j # 1
      BY <1>2, <2>1, <3>1
    <3>3. j - 1 \in DOMAIN queue' /\ queue'[j - 1] = queue[j]
      BY <1>2, <3>2
    <3>4. queue'[j - 1] = Name(f)'
      BY <1>1, <3>1, <3>3
    <3> QED
      BY <3>3, <3>4
  <2> QED
    BY <2>1
<1>5. \A i \in DOMAIN queue', g \in Uploads : queue'[i][1] = NameOf[g] =>
        where'[g] # "new" /\ (g \in Waiting' => g \in listed')
  BY <1>2 DEF OnTheList
<1>6. \A i, j \in DOMAIN queue', g, f \in listed' :
        i < j /\ queue'[i] = Name(g)' /\ queue'[j] = Name(f)' => created'[g] <= mtime'[f]
  BY <1>1, <1>2 DEF OnTheList
<1>7. \A g \in listed', f \in Waiting' \ listed' : created'[g] <= created'[f]
  BY DEF OnTheList
<1> QED
  BY <1>3, <1>4, <1>5, <1>6, <1>7 DEF OnTheList

\* The first run of an upload: it was the head of the list, and waits behind nothing.
LEMMA OrderStarts ==
  ASSUME IInv, NamesDiffer, ArrivalIInv, StartRun
  PROVE  ArrivalIInv'
<1> DEFINE g == FileAt(Head(queue))
<1>1. g \in Files /\ g \in InSpool /\ Name(g) = Head(queue)
  BY FileAtExists DEF StartRun, InSpool
<1>2. /\ runs' = [runs EXCEPT ![g] = @ + 1] /\ running' = g /\ pc' = "run"
      /\ firstRuns' = IF runs[g] = 0 THEN Append(firstRuns, g) ELSE firstRuns
      /\ queue # <<>> /\ queue' = Tail(queue)
      /\ UNCHANGED <<where, copy, created, mtime, clock, listed>>
  BY DEF StartRun, Done, file
<1> HIDE DEF g
<1>3. OrderTypes
  BY OrderTyped DEF IInv
<1> USE <1>3 DEF OrderTypes
<1>4. Waiting' \subseteq Waiting \ {g}
  BY <1>2 DEF Waiting
<1>5. /\ 1 \in DOMAIN queue /\ queue[1] = Head(queue) /\ \A j \in DOMAIN queue : j \in Nat /\ j >= 1
  BY <1>2, QueueTail
<1>6. ASSUME g \in Waiting, NEW f \in Waiting, f # g
      PROVE  created[g] <= mtime[f]
  <2>1. g \in listed
    BY <1>1, <1>5, <1>6 DEF ArrivalIInv, OnTheList, Name, Waiting
  <2>2. CASE f \in listed
    <3>1. PICK j \in DOMAIN queue : queue[j] = Name(f)
      BY <1>6, <2>2 DEF ArrivalIInv, OnTheList
    <3>2. Name(f) # Name(g)
      BY <1>1, <1>6 DEF NamesDiffer, Waiting, InSpool
    <3>3. 1 < j
      BY <1>1, <1>5, <3>1, <3>2
    <3> QED
      BY <1>1, <1>5, <2>1, <2>2, <3>1, <3>3 DEF ArrivalIInv, OnTheList
  <2>3. CASE f \notin listed
    <3>1. created[g] <= created[f] /\ created[f] <= mtime[f] /\ f \in Files
      BY <1>6, <2>1, <2>3 DEF ArrivalIInv, OnTheList, ArrivalTimes, Waiting
    <3> QED
      BY <1>1, <3>1
  <2> QED
    BY <2>2, <2>3
<1>7. ArrivalTimes'
  BY <1>1, <1>2 DEF ArrivalIInv, ArrivalTimes, InSpool
<1>8. RunBefore'
  <2>1. \A i \in DOMAIN firstRuns' : runs'[firstRuns'[i]] > 0
    <3>0. \A h \in Files : runs[h] > 0 => runs'[h] > 0
      BY <1>1, <1>2
    <3>3. \A i \in 1 .. Len(firstRuns) : firstRuns[i] \in Files /\ runs[firstRuns[i]] > 0
      BY <1>3, FirstRunsTyped DEF ArrivalIInv, RunBefore
    <3>1. CASE runs[g] = 0
      <4>1. /\ DOMAIN firstRuns' = 1 .. (Len(firstRuns) + 1) /\ Len(firstRuns) \in Nat
            /\ firstRuns'[Len(firstRuns) + 1] = g
            /\ \A i \in 1 .. Len(firstRuns) : firstRuns'[i] = firstRuns[i]
        BY <1>1, <1>2, <3>1
      <4>2. runs'[g] > 0
        BY <1>1, <1>2
      <4>3. ASSUME NEW i \in DOMAIN firstRuns' PROVE runs'[firstRuns'[i]] > 0
        <5>1. i = Len(firstRuns) + 1 \/ i \in 1 .. Len(firstRuns)
          BY <4>1
        <5> QED
          BY <3>0, <3>3, <4>1, <4>2, <5>1
      <4> QED
        BY <4>3
    <3>2. CASE runs[g] # 0
      BY <1>2, <1>3, <3>0, <3>2, <3>3, FirstRunsTyped
    <3> QED
      BY <3>1, <3>2
  <2>2. ASSUME NEW h \in HasRun', NEW f \in Waiting' PROVE created[h] <= mtime[f]
    <3>1. f \in Waiting /\ f # g
      BY <1>4
    <3>2. CASE h \in HasRun
      BY <3>1, <3>2 DEF ArrivalIInv, RunBefore
    <3>3. CASE h \notin HasRun
      <4>1. h = g /\ g \in Waiting
        BY <1>1, <1>2, <3>3 DEF HasRun, Waiting, InSpool
      <4> QED
        BY <1>6, <3>1, <4>1
    <3> QED
      BY <3>2, <3>3
  <2> QED
    BY <1>2, <2>1, <2>2 DEF RunBefore
<1>9. OnTheList'
  <2>1. \A f \in listed \cap Waiting' : Name(f) # Head(queue)
    BY <1>1, <1>4 DEF NamesDiffer, Waiting, InSpool
  <2> QED
    BY <1>2, <1>4, <2>1, ListShrinks DEF ArrivalIInv
<1>10. ArrivalOrder'
  <2>1. CASE runs[g] # 0
    BY <1>2, <2>1 DEF ArrivalIInv, ArrivalOrder
  <2>2. CASE runs[g] = 0
    <3>1. /\ Len(firstRuns') = Len(firstRuns) + 1 /\ firstRuns'[Len(firstRuns) + 1] = g
          /\ \A i \in 1 .. Len(firstRuns) : firstRuns'[i] = firstRuns[i]
          /\ Len(firstRuns) \in Nat
      BY <1>1, <1>2, <2>2
    <3>2. ASSUME NEW i \in 1 .. Len(firstRuns), firstRuns[i] \in Uploads, g \in Uploads
          PROVE  ~(mtime[g] < created[firstRuns[i]])
      <4>0. i \in DOMAIN firstRuns
        BY <1>3, FirstRunsTyped
      <4>1. firstRuns[i] \in HasRun /\ g \in Waiting /\ firstRuns[i] \in Files
        BY <1>1, <2>2, <3>2, <4>0 DEF ArrivalIInv, RunBefore, HasRun, Waiting, InSpool
      <4>2. created[firstRuns[i]] <= mtime[g]
        BY <4>1 DEF ArrivalIInv, RunBefore
      <4> QED
        BY <1>1, <4>1, <4>2
    <3>3. ASSUME NEW i \in 1 .. Len(firstRuns'), NEW j \in 1 .. Len(firstRuns'), i < j,
                 {firstRuns'[i], firstRuns'[j]} \subseteq Uploads
          PROVE  ~(mtime[firstRuns'[j]] < created[firstRuns'[i]])
      <4> DEFINE L == Len(firstRuns)
                 M == Len(firstRuns')
      <4>3. L \in Nat /\ M = L + 1 /\ i \in 1 .. M /\ j \in 1 .. M /\ i < j
        BY <3>1, <3>3
      <4> HIDE DEF L, M
      <4>4. i \in 1 .. L /\ (j = L + 1 \/ j \in 1 .. L)
        BY <4>3
      <4> USE DEF L
      <4>0. i \in 1 .. Len(firstRuns) /\ firstRuns'[i] = firstRuns[i]
        BY <3>1, <4>4
      <4>1. CASE j = Len(firstRuns) + 1
        BY <3>1, <3>2, <3>3, <4>0, <4>1
      <4>2. CASE j # Len(firstRuns) + 1
        <5>1. j \in 1 .. Len(firstRuns) /\ firstRuns'[j] = firstRuns[j]
          BY <3>1, <4>2, <4>4
        <5> QED
          BY <3>3, <4>0, <5>1 DEF ArrivalIInv, ArrivalOrder
      <4> QED
        BY <4>1, <4>2
    <3> QED
      BY <1>2, <3>3 DEF ArrivalOrder
  <2> QED
    BY <2>1, <2>2
<1> QED
  BY <1>7, <1>8, <1>9, <1>10 DEF ArrivalIInv

\* A new listing: what waits is on it.
LEMMA OrderListed ==
  ASSUME IInv, NamesDiffer, ArrivalIInv, List
  PROVE  ArrivalIInv'
<1>1. /\ queue' \in Arrivals /\ listed' = InSpool /\ pc' = "loop"
      /\ UNCHANGED <<where, copy, created, mtime, clock, runs, firstRuns, running>>
  BY DEF List, file, seen
<1>2. OrderTypes
  BY OrderTyped DEF IInv
<1>3. UNCHANGED <<Waiting, HasRun, InSpool>> /\ \A f : Name(f)' = Name(f)
  BY <1>1 DEF Waiting, HasRun, InSpool, Name
<1>4. ArrivalTimes' /\ RunBefore' /\ ArrivalOrder'
  BY <1>1, <1>3 DEF ArrivalIInv, ArrivalTimes, RunBefore, ArrivalOrder, Acting
<1>5. /\ \A i \in DOMAIN queue' : \E f \in InSpool : queue'[i] = Name(f)
      /\ \A f \in InSpool : \E i \in DOMAIN queue' : queue'[i] = Name(f)
      /\ \A i, j \in DOMAIN queue', g, f \in InSpool :
           i < j /\ queue'[i] = Name(g) /\ queue'[j] = Name(f) => mtime[g] < mtime[f]
  BY <1>1, ListingComplete DEF IInv
<1>6. OnTheList'
  <2>1. \A i \in DOMAIN queue', g \in Uploads : queue'[i][1] = NameOf[g] => g \in InSpool
    BY <1>5, UploadNamesUnique DEF Name, InSpool
  <2>2. \A g \in InSpool : where[g] # "new"
    BY DEF InSpool
  <2>3. \A g, f \in InSpool : mtime[g] < mtime[f] => created[g] <= mtime[f]
    BY <1>2 DEF OrderTypes, InSpool, ArrivalIInv, ArrivalTimes
  <2>4. \A f \in (listed \cap Waiting)' : \E i \in DOMAIN queue' : queue'[i] = Name(f)'
    BY <1>1, <1>3, <1>5
  <2>5. \A i, j \in DOMAIN queue', g, f \in listed' :
          i < j /\ queue'[i] = Name(g)' /\ queue'[j] = Name(f)' => created'[g] <= mtime'[f]
    BY <1>1, <1>3, <1>5, <2>3
  <2>6. Waiting' \ listed' = {}
    BY <1>1, <1>2, <1>3 DEF Waiting, InSpool, OrderTypes
  <2> QED
    BY <1>1, <1>3, <2>1, <2>2, <2>4, <2>5, <2>6 DEF OnTheList
<1> QED
  BY <1>4, <1>6 DEF ArrivalIInv

LEMMA OrderNext ==
  ASSUME IInv, LoopIInv, ArrivalIInv, [Next]_vars
  PROVE  ArrivalIInv'
<1>0. TypeOK /\ TypeOK' /\ OrderTypes /\ NamesDiffer
  BY OrderTyped, NextTypeOK DEF IInv, LoopIInv
<1> USE <1>0
<1>1. ASSUME NEW f \in Files, BeginUpload(f) \/ HandDrop(f)
      PROVE  ArrivalIInv'
  BY <1>1, Arrives, OrderArrives
<1>2. ASSUME NEW f \in Files, FinishUpload(f) PROVE ArrivalIInv'
  BY <1>2, OrderWritten DEF FinishUpload, drain, seen
<1>3. ASSUME NEW f \in Files, Requeue(f) PROVE ArrivalIInv'
  BY <1>3, OrderBack DEF Requeue, drain, seen
<1>4. ASSUME NEW f \in Files, Remove(f) \/ FailUpload(f)
      PROVE  ArrivalIInv'
  <2>1. /\ \/ where' = where /\ listed' = listed
           \/ /\ where[f] = "spool" /\ where' = [where EXCEPT ![f] = "gone"]
              /\ listed' = listed \ {f}
        /\ UNCHANGED <<copy, created, mtime, clock, pc, queue, running, runs, firstRuns>>
    BY <1>4, Withdrawn
  <2>2. CASE where' = where /\ listed' = listed
    BY <2>1, <2>2, OrderStill
  <2>3. CASE /\ where[f] = "spool" /\ where' = [where EXCEPT ![f] = "gone"]
             /\ listed' = listed \ {f}
    <3>1. listed' = {g \in listed : where'[g] = "spool"}
      BY <2>3 DEF OrderTypes, ArrivalIInv, OnTheList, InSpool
    <3>2. \A g \in Files : where'[g] = where[g] \/ where'[g] \in {"gone", "consumed", "failed"}
      BY <2>3 DEF OrderTypes
    <3>3. \A g \in Uploads : where'[g] = "failed" => runs[g] > 0
      BY <2>3 DEF OrderTypes, ArrivalIInv, ArrivalTimes
    <3>4. pc' \in Acting /\ running' \in Uploads => runs[running'] > 0
      BY <2>1 DEF ArrivalIInv, ArrivalTimes
    <3> QED
      BY <2>1, <3>1, <3>2, <3>3, <3>4, OrderLeaves
  <2> QED
    BY <2>1, <2>2, <2>3
<1>5. CASE RemoveDone
  <2>1. /\ where' = [f \in Files |->
                       IF where[f] = "spool" /\ Name(f) = cur THEN "consumed" ELSE where[f]]
        /\ listed' = {f \in listed : Name(f) # cur}
        /\ UNCHANGED <<copy, created, mtime, clock, queue, runs, firstRuns>>
        /\ pc' \notin Acting
    BY <1>5 DEF RemoveDone, NextEntry, seen, Acting
  <2>2. listed' = {g \in listed : where'[g] = "spool"}
    BY <2>1 DEF OrderTypes, ArrivalIInv, OnTheList, InSpool
  <2>3. \A g \in Files : where'[g] = where[g] \/ where'[g] = "consumed"
    BY <2>1
  <2>4. \A g \in Uploads : where'[g] = "failed" => runs[g] > 0
    BY <2>3 DEF OrderTypes, ArrivalIInv, ArrivalTimes
  <2> QED
    BY <2>1, <2>2, <2>3, <2>4, OrderLeaves
<1>6. CASE Quarantine
  <2>0. FileAt(cur) \in Files /\ where[FileAt(cur)] = "spool" /\ Name(FileAt(cur)) = cur
    BY <1>6, FileAtExists DEF Quarantine
  <2>1. PICK d \in QuarantineDest(cur) :
          /\ where' = [g \in Files |->
                         IF g = FileAt(cur) THEN "failed"
                         ELSE IF where[g] = "failed" /\ Name(g) = d THEN "clobbered"
                         ELSE where[g]]
          /\ copy' = [copy EXCEPT ![FileAt(cur)] = d[2]]
    BY <1>6 DEF Quarantine
  <2>2. /\ listed' = listed \ {FileAt(cur)} /\ running' = FileAt(cur) /\ pc = "quarantine"
        /\ UNCHANGED <<created, mtime, clock, queue, runs, firstRuns>>
    BY <1>6 DEF Quarantine, seen
  <2>3. cur \in Names
    BY <1>6 DEF Quarantine, TypeOK, DrainType, Acting
  <2>4. \A g \in Files : ~(where[g] = "failed" /\ Name(g) = d)
    BY <2>3, DestFree DEF Taken
  <2>5. \A g \in Files : where'[g] = IF g = FileAt(cur) THEN "failed" ELSE where[g]
    BY <2>1, <2>4
  <2>6. FileAt(cur) \in Uploads => runs[FileAt(cur)] > 0
    <3>1. FileAt(cur) \in Uploads => FileAt(cur) = running
      BY <1>6, <2>0, EntryUnique DEF Quarantine, Acting, IInv
    <3> QED
      BY <2>2, <3>1 DEF ArrivalIInv, ArrivalTimes, Acting
  <2>7. listed' = {g \in listed : where'[g] = "spool"}
    BY <2>2, <2>5 DEF OrderTypes, ArrivalIInv, OnTheList, InSpool
  <2>8. \A g \in Files : where'[g] = "spool" => copy'[g] = copy[g]
    BY <2>1, <2>5 DEF OrderTypes
  <2>9. \A g \in Uploads : where'[g] = "failed" => runs[g] > 0
    BY <2>5, <2>6 DEF OrderTypes, ArrivalIInv, ArrivalTimes
  <2> QED
    BY <2>2, <2>5, <2>6, <2>7, <2>8, <2>9, OrderLeaves
<1>7. CASE SkipVanished \/ SkipIrregular
  <2>1. /\ queue # <<>> /\ queue' = Tail(queue)
        /\ UNCHANGED <<where, copy, created, mtime, clock, runs, firstRuns, listed>>
    BY <1>7 DEF SkipVanished, SkipIrregular, Done, file, seen
  <2>2. UNCHANGED <<Waiting, HasRun>>
    BY <2>1 DEF Waiting, HasRun
  <2>3. \A f \in listed \cap Waiting : Name(f) # Head(queue)
    <3>1. CASE SkipVanished
      BY <3>1 DEF SkipVanished, Exists, InSpool, ArrivalIInv, OnTheList
    <3>2. CASE SkipIrregular
      <4>1. FileAt(Head(queue)) \in InSpool /\ Name(FileAt(Head(queue))) = Head(queue)
        BY <3>2, FileAtExists DEF SkipIrregular, InSpool
      <4>2. FileAt(Head(queue)) \notin Uploads
        BY <3>2, FilesAssumption DEF SkipIrregular
      <4> QED
        BY <4>1, <4>2 DEF NamesDiffer, Waiting, ArrivalIInv, OnTheList
    <3> QED
      BY <1>7, <3>1, <3>2
  <2>4. pc' \in Acting => running' \notin Uploads
    <3>1. CASE SkipVanished
      BY <3>1 DEF SkipVanished, Acting
    <3>2. CASE SkipIrregular
      BY <3>2, FilesAssumption DEF SkipIrregular
    <3> QED
      BY <1>7, <3>1, <3>2
  <2>5. OnTheList'
    BY <2>1, <2>2, <2>3, ListShrinks DEF ArrivalIInv
  <2>6. ArrivalTimes' /\ RunBefore' /\ ArrivalOrder'
    BY <2>1, <2>2, <2>4 DEF ArrivalIInv, ArrivalTimes, RunBefore, ArrivalOrder
  <2> QED
    BY <2>5, <2>6 DEF ArrivalIInv
<1>8. CASE StartRun
  BY <1>8, OrderStarts
<1>9. CASE List
  BY <1>9, OrderListed
<1>10. CASE /\ UNCHANGED <<file, runs, firstRuns, queue, listed>>
            /\ pc' \in Acting => pc \in Acting /\ running' = running
  BY <1>10, OrderStill DEF file
<1>11. CASE Crash \/ Exit
  BY <1>11, OrderStill DEF Crash, Exit, file, seen, Acting
<1>12. ASSUME NEW f \in Files, LateOutput(f) PROVE ArrivalIInv'
  BY <1>12, <1>10 DEF LateOutput, drain, seen
<1>13. CASE ResetUnit \/ Trigger \/ WindowPasses \/ UNCHANGED vars
  BY <1>13, <1>10 DEF ResetUnit, Trigger, WindowPasses, vars, drain, seen, Acting
<1>14. CASE Stop \/ EndRun \/ AfterRun
  BY <1>14, <1>10 DEF Stop, EndRun, AfterRun, seen, Acting
<1>15. CASE RemoveFails \/ QuarantineFails \/ WriteSidecar \/ SidecarFails
  BY <1>15, <1>10 DEF RemoveFails, QuarantineFails, WriteSidecar, SidecarFails, NextEntry, seen, Acting
<1>16. CASE LeaveLoop
  BY <1>16, <1>10 DEF LeaveLoop, seen, Acting
<1> QED
  BY <1>1, <1>2, <1>3, <1>4, <1>5, <1>6, <1>7, <1>8, <1>9, <1>11, <1>12, <1>13, <1>14, <1>15,
     <1>16 DEF Next, Drain, Environment

\* Uploads are first run in the order they arrived, across drains, stops and crashes:
\* none is started before one whose upload had ended when its own began.
THEOREM ArrivalsInOrder == Spec => []ArrivalOrder
<1>1. Init => ArrivalIInv
  <2> SUFFICES ASSUME Init PROVE ArrivalIInv
    OBVIOUS
  <2>1. HasRun = {} /\ Waiting = {} /\ firstRuns = <<>> /\ queue = <<>> /\ listed = {}
    BY FilesAssumption DEF Init, HasRun, Waiting
  <2>2. ArrivalTimes
    BY FilesAssumption DEF Init, ArrivalTimes, Acting
  <2>3. RunBefore /\ OnTheList /\ ArrivalOrder
    BY <2>1 DEF RunBefore, OnTheList, ArrivalOrder
  <2> QED
    BY <2>2, <2>3 DEF ArrivalIInv
<1>2. IInv /\ LoopIInv /\ ArrivalIInv /\ [Next]_vars => ArrivalIInv'
  BY OrderNext
<1>3. ArrivalIInv => ArrivalOrder
  BY DEF ArrivalIInv
<1> QED
  BY <1>1, <1>2, <1>3, Inductive, LoopInductive, PTL DEF Spec
-----------------------------------------------------------------------------
(* Refinement of SpoolContract.                                            *)

\* When a step changes the place of one upload only, the contract sees one
\* status change.
LEMMA OneMoves ==
  ASSUME TypeOK, NEW f \in Uploads, NEW place,
         \A g \in Uploads : where'[g] = IF g = f THEN place ELSE where[g]
  PROVE  UploadStatus' = [UploadStatus EXCEPT ![f] = Status(place)]
BY DEF UploadStatus

\* Likewise for the exit statuses.
LEMMA OneEnds ==
  ASSUME TypeOK, NEW f \in Uploads, NEW v,
         \A g \in Uploads : outcome'[g] = IF g = f THEN v ELSE outcome[g]
  PROVE  UploadVerdict' = [UploadVerdict EXCEPT ![f] = v]
BY DEF UploadVerdict

Sees == <<UploadStatus, UploadVerdict>>

\* A move of one upload along an edge of the contract is a contract step.
LEMMA MoveStep ==
  ASSUME TypeOK, NEW f \in Uploads, NEW place, UNCHANGED outcome,
         \A g \in Uploads : where'[g] = IF g = f THEN place ELSE where[g],
         \/ where[f] = "new" /\ place = "spool"
         \/ where[f] = "failed" /\ place = "spool"
         \/ where[f] = "spool" /\ place = "gone"
         \/ where[f] = "spool" /\ place = "consumed" /\ outcome[f] = "ok"
         \/ where[f] = "spool" /\ place = "failed" /\ outcome[f] = "error"
  PROVE  Contract!Next
<1>1. /\ UploadStatus' = [UploadStatus EXCEPT ![f] = Status(place)]
      /\ UNCHANGED UploadVerdict
  BY OneMoves DEF UploadVerdict
<1> USE DEF UploadStatus, UploadVerdict
<1>2. CASE where[f] = "new" /\ place = "spool"
  BY <1>1, <1>2 DEF Contract!Next, Contract!Submit, Contract!Move, Status
<1>3. CASE where[f] = "failed" /\ place = "spool"
  BY <1>1, <1>3 DEF Contract!Next, Contract!Requeue, Contract!Move, Status
<1>4. CASE where[f] = "spool" /\ place = "gone"
  BY <1>1, <1>4 DEF Contract!Next, Contract!Withdraw, Contract!Move, Status
<1>5. CASE where[f] = "spool" /\ place = "consumed" /\ outcome[f] = "ok"
  BY <1>1, <1>5 DEF Contract!Next, Contract!Delete, Contract!Move, Status
<1>6. CASE where[f] = "spool" /\ place = "failed" /\ outcome[f] = "error"
  BY <1>1, <1>6 DEF Contract!Next, Contract!SetAside, Contract!Move, Status
<1> QED
  BY <1>2, <1>3, <1>4, <1>5, <1>6

\* The end of an upload's run is a contract step.
LEMMA EndStep ==
  ASSUME TypeOK, NEW f \in Uploads, UNCHANGED where,
         NEW v \in {"ok", "error", "killed"},
         outcome[f] = "none", where[f] \in {"spool", "gone"},
         \A g \in Uploads : outcome'[g] = IF g = f THEN v ELSE outcome[g]
  PROVE  Contract!Next
<1>1. /\ UploadVerdict' = [UploadVerdict EXCEPT ![f] = v]
      /\ UNCHANGED UploadStatus
  BY OneEnds DEF UploadStatus
<1>2. Contract!EndRun(f)
  BY <1>1 DEF Contract!EndRun, Contract!Verdicts, Status, UploadStatus, UploadVerdict
<1> QED
  BY <1>2 DEF Contract!Next

\* The start of an upload's run is a contract step.
LEMMA StartStep ==
  ASSUME TypeOK, NEW f \in Uploads, UNCHANGED where, where[f] = "spool",
         \A g \in Uploads : outcome'[g] = IF g = f THEN "none" ELSE outcome[g]
  PROVE  Contract!Next
<1>1. /\ UploadVerdict' = [UploadVerdict EXCEPT ![f] = "none"]
      /\ UNCHANGED UploadStatus
  BY OneEnds DEF UploadStatus
<1>2. Contract!StartRun(f)
  BY <1>1 DEF Contract!StartRun, Status, UploadStatus
<1> QED
  BY <1>2 DEF Contract!Next

LEMMA StepSimulation ==
  ASSUME IInv, [Next]_vars
  PROVE  Contract!Next \/ UNCHANGED Sees
<1> USE DEF IInv
<1>0. Uploads \subseteq Files /\ Uploads \subseteq Regular
  BY FilesAssumption
<1>1. CASE UNCHANGED <<where, outcome>>
  BY <1>1 DEF Sees, UploadStatus, UploadVerdict
<1>2. ASSUME NEW f \in Files, BeginUpload(f) PROVE Contract!Next
  <2>1. f \in Uploads /\ where[f] = "new" /\ UNCHANGED outcome
    BY <1>2 DEF BeginUpload, Appear, seen
  <2>2. \A g \in Uploads : where'[g] = IF g = f THEN "spool" ELSE where[g]
    BY <1>0, <1>2 DEF BeginUpload, Appear, TypeOK, FileType
  <2> QED
    BY <2>1, <2>2, MoveStep
<1>3. ASSUME NEW f \in Files, FailUpload(f) \/ Remove(f) \/ Requeue(f) \/ HandDrop(f)
      PROVE  Contract!Next \/ UNCHANGED Sees
  <2>1. UNCHANGED outcome
    BY <1>3 DEF FailUpload, Remove, Requeue, HandDrop, Appear, seen
  <2>2. CASE f \in Uploads /\ where' # where
    <3>1. PICK place \in {"spool", "gone"} :
            /\ where' = [where EXCEPT ![f] = place]
            /\ where[f] = IF place = "gone" THEN "spool" ELSE "failed"
      BY <1>3, <2>2 DEF FailUpload, Remove, Requeue, HandDrop
    <3>2. \A g \in Uploads : where'[g] = IF g = f THEN place ELSE where[g]
      BY <3>1, <1>0 DEF TypeOK, FileType
    <3> QED
      BY <2>1, <2>2, <3>1, <3>2, MoveStep
  <2>3. CASE f \notin Uploads \/ where' = where
    <3>1. \A g \in Uploads : where'[g] = where[g]
      BY <1>0, <1>3, <2>3 DEF FailUpload, Remove, Requeue, HandDrop, Appear, TypeOK, FileType
    <3> QED
      BY <2>1, <3>1 DEF Sees, UploadStatus, UploadVerdict
  <2> QED
    BY <2>2, <2>3
<1>4. CASE StartRun
  <2> DEFINE f == FileAt(Head(queue))
  <2>1. f \in Files /\ where[f] = "spool"
    BY <1>4, FileAtExists DEF StartRun
  <2>2. where' = where /\ outcome' = [outcome EXCEPT ![f] = "none"]
    BY <1>4 DEF StartRun, file
  <2> HIDE DEF f
  <2>3. \A g \in Uploads : outcome'[g] = IF g = f THEN "none" ELSE outcome[g]
    BY <1>0, <2>1, <2>2 DEF TypeOK, SeenType
  <2>4. CASE f \in Uploads
    BY <2>1, <2>2, <2>3, <2>4, StartStep
  <2>5. CASE f \notin Uploads
    BY <2>2, <2>3, <2>5 DEF Sees, UploadStatus, UploadVerdict
  <2> QED
    BY <2>4, <2>5
<1>5. CASE EndRun \/ Stop
  <2>1. UNCHANGED where
    BY <1>5 DEF EndRun, Stop, file
  <2>2. CASE outcome' # outcome
    <3>1. pc = "run" /\ running \in Files
      BY <1>5, <2>2 DEF EndRun, Stop, TypeOK, DrainType, Acting
    <3>2. PICK v \in {"ok", "error", "killed"} :
            outcome' = [outcome EXCEPT ![running] = v]
      BY <1>5, <2>2 DEF EndRun, Stop
    <3>3. \A g \in Uploads : outcome'[g] = IF g = running THEN v ELSE outcome[g]
      BY <1>0, <3>1, <3>2 DEF TypeOK, SeenType
    <3>4. CASE running \in Uploads
      BY <2>1, <3>1, <3>3, <3>4, EndStep DEF RunOpen
    <3>5. CASE running \notin Uploads
      BY <2>1, <3>3, <3>5 DEF Sees, UploadStatus, UploadVerdict
    <3> QED
      BY <3>4, <3>5
  <2> QED
    BY <1>1, <2>1, <2>2
<1>6. CASE RemoveDone
  <2>1. UNCHANGED outcome
    BY <1>6 DEF RemoveDone, seen
  <2>2. \A g \in Uploads : Name(g) = cur => g = running
    BY <1>6, EntryUnique DEF RemoveDone, Acting
  <2>3. \A g \in Uploads :
          where'[g] = IF where[g] = "spool" /\ Name(g) = cur THEN "consumed" ELSE where[g]
    BY <1>0, <1>6 DEF RemoveDone
  <2>4. CASE running \in Uploads /\ where[running] = "spool" /\ Name(running) = cur
    <3>1. \A g \in Uploads : where'[g] = IF g = running THEN "consumed" ELSE where[g]
      BY <2>2, <2>3, <2>4
    <3>2. outcome[running] = "ok"
      BY <1>6 DEF RemoveDone, RunEnded
    <3> QED
      BY <2>1, <2>4, <3>1, <3>2, MoveStep
  <2>5. CASE ~(running \in Uploads /\ where[running] = "spool" /\ Name(running) = cur)
    <3>1. \A g \in Uploads : where'[g] = where[g]
      BY <2>2, <2>3, <2>5
    <3> QED
      BY <2>1, <3>1 DEF Sees, UploadStatus, UploadVerdict
  <2> QED
    BY <2>4, <2>5
<1>7. CASE Quarantine
  <2>1. UNCHANGED outcome
    BY <1>7 DEF Quarantine, seen
  <2>2. cur \in Names /\ pc \in Acting \ {"sidecar"}
    BY <1>7 DEF Quarantine, TypeOK, DrainType, Acting
  <2>3. PICK d \in QuarantineDest(cur) :
          where' = [g \in Files |->
                      IF g = FileAt(cur) THEN "failed"
                      ELSE IF where[g] = "failed" /\ Name(g) = d THEN "clobbered"
                      ELSE where[g]]
    BY <1>7 DEF Quarantine
  <2>4. \A g \in Files : ~(where[g] = "failed" /\ Name(g) = d)
    BY <2>2, DestFree DEF Taken
  <2>5. \A g \in Uploads : where'[g] = IF g = FileAt(cur) THEN "failed" ELSE where[g]
    BY <1>0, <2>3, <2>4
  <2>6. FileAt(cur) \in Files /\ where[FileAt(cur)] = "spool" /\ Name(FileAt(cur)) = cur
    BY <1>7, FileAtExists DEF Quarantine
  <2>7. CASE FileAt(cur) \in Uploads
    <3>1. FileAt(cur) = running
      BY <2>2, <2>6, <2>7, EntryUnique
    <3>2. outcome[running] = "error"
      BY <1>0, <1>7, <2>7, <3>1 DEF Quarantine, ToQuarantine
    <3> QED
      BY <2>1, <2>5, <2>6, <2>7, <3>1, <3>2, MoveStep
  <2>8. CASE FileAt(cur) \notin Uploads
    BY <2>1, <2>5, <2>8 DEF Sees, UploadStatus, UploadVerdict
  <2> QED
    BY <2>7, <2>8
<1>8. ASSUME NEW f \in Files, FinishUpload(f) \/ LateOutput(f)
      PROVE  UNCHANGED <<where, outcome>>
  BY <1>8 DEF FinishUpload, LateOutput, file, seen
<1>9. CASE ResetUnit \/ WindowPasses \/ Trigger \/ Crash \/ UNCHANGED vars
  BY <1>9, <1>1 DEF ResetUnit, WindowPasses, Trigger, Crash, vars, file, seen
<1>10. CASE List \/ SkipVanished \/ SkipIrregular \/ AfterRun \/ RemoveFails
  BY <1>10, <1>1 DEF List, SkipVanished, SkipIrregular, AfterRun, RemoveFails, file, seen
<1>11. CASE QuarantineFails \/ WriteSidecar \/ SidecarFails \/ LeaveLoop \/ Exit
  BY <1>11, <1>1 DEF QuarantineFails, WriteSidecar, SidecarFails, LeaveLoop, Exit, file, seen
<1> QED
  BY <1>1, <1>2, <1>3, <1>4, <1>5, <1>6, <1>7, <1>8, <1>9, <1>10, <1>11
  DEF Next, Drain, Environment

\* The spool implements its contract: in particular an interrupted run neither
\* deletes nor quarantines its sample, and only a failed run quarantines one.
THEOREM SpoolImplementsContract == Spec => ContractSpec
<1>1. Init => Contract!Init
  BY FilesAssumption DEF Init, Contract!Init, Status, UploadStatus, UploadVerdict
<1>2. IInv /\ [Next]_vars => [Contract!Next]_Sees
  BY StepSimulation
<1> QED
  BY <1>1, <1>2, Inductive, PTL DEF Spec, ContractSpec, Contract!Spec, Sees
=============================================================================

----------------------------- MODULE HostProofs -----------------------------
(***************************************************************************)
(* Proofs about Host and GhidraJob, for all bounds, conditions, batches    *)
(* and guests: what each of the monitor, the relay, the intake and the     *)
(* detonation promises, and that the agent reads its program.              *)
(***************************************************************************)
EXTENDS Host, GhidraJob, FiniteSetTheorems, SequenceTheorems,
        WellFoundedInduction, TLAPS

\* A step of the host is, for each part, a step of it or none.
LEMMA HostStep ==
  ASSUME [Next]_host
  PROVE  /\ [MonitorNext]_monitor
         /\ [RelayNext]_relay
         /\ [IntakeNext]_intake
         /\ [DetonateNext]_detonate
BY DEF Next, Monitor, Relay, Feed, Repeat, Service, MonitorTurn, RelayTurn, IntakeTurn,
   DetonateTurn, host
-----------------------------------------------------------------------------
(* The network monitor *)

LEMMA MonitorInitInv == MonitorInit => MonitorIInv
BY MonitorAssumption DEF MonitorInit, MonitorIInv, MonitorTypeOK, NotedWasSent, SentInTurn,
   DispatchedSoFar, None, NoCount, Standing, Gaps

\* What a check's end leaves.
LEMMA OverType ==
  ASSUME Over
  PROVE  /\ mpc' = "idle" /\ todo' = {}
         /\ seen' \in [Gaps -> Nat] /\ queued' \in [Watched -> Nat]
         /\ noted' \in [Watched -> Nat]
BY DEF Over, NoCount, None

\* Types of the monitor, with who moves them.
LEMMA MonitorTypeNext ==
  ASSUME MonitorTypeOK, [MonitorNext]_monitor
  PROVE  MonitorTypeOK'
<1> USE MonitorAssumption DEF MonitorTypeOK
<1>1. ASSUME NEW k \in Standing, Condition(k) PROVE MonitorTypeOK'
  BY <1>1 DEF Condition, check, files, phone
<1>2. ASSUME NEW k \in Questions, QuestionFails(k) PROVE MonitorTypeOK'
  BY <1>2 DEF QuestionFails, check, files, phone
<1>3. ASSUME NEW k \in Gaps, PacketAccepted(k) PROVE MonitorTypeOK'
  BY <1>3 DEF PacketAccepted, check, files, phone
<1>4. ASSUME NEW k \in Watched, Ages(k) PROVE MonitorTypeOK'
  BY <1>4 DEF Ages, world, check, phone
<1>5. CASE Survey
  BY <1>5 DEF Survey, world, phone, Standing
<1>6. CASE CompareBaseline
  <2>1. \A k \in Gaps : baseline # Absent /\ seen[k] > baseline[k] => seen[k] - baseline[k] \in Nat
    BY <1>6 DEF CompareBaseline
  <2> QED
    BY <1>6, <2>1 DEF CompareBaseline, world, phone
<1>7. CASE BaselineUnreadable \/ ProbeFails
  BY <1>7, OverType DEF BaselineUnreadable, ProbeFails, Abort, world, files, phone
<1>8. CASE ProbeHost
  BY <1>8 DEF ProbeHost, world, phone, Standing
<1>9. CASE TruncateBaseline
  BY <1>9 DEF TruncateBaseline, world, phone
<1>10. CASE WriteBaseline
  BY <1>10 DEF WriteBaseline, world, phone, None
<1>11. ASSUME NEW k \in Watched, Dispatch(k) PROVE MonitorTypeOK'
  <2>1. attempted' \in [Watched -> Nat]
    BY <1>11 DEF Dispatch, Push, phone
  <2> QED
    BY <1>11, <2>1 DEF Dispatch, world, files
<1>12. CASE TruncateStatus
  BY <1>12 DEF TruncateStatus, world, phone, None
<1>13. CASE WriteStatus
  BY <1>13, OverType DEF WriteStatus, world
<1>14. CASE Cut
  BY <1>14, OverType DEF Cut, files, NoCount
<1>15. CASE UNCHANGED monitor
  BY <1>15 DEF monitor, world, check, files, phone
<1> QED
  BY <1>1, <1>2, <1>3, <1>4, <1>5, <1>6, <1>7, <1>8, <1>9, <1>10, <1>11, <1>12, <1>13,
     <1>14, <1>15
     DEF MonitorNext, HostNext, CheckStep

\* What was sent, noted and is still to do, step by step.
LEMMA MonitorInvNext ==
  ASSUME MonitorIInv, [MonitorNext]_monitor
  PROVE  MonitorIInv'
<1>1. MonitorTypeOK'
  BY MonitorTypeNext DEF MonitorIInv
<1> DEFINE Kept == NotedWasSent' /\ SentInTurn' /\ DispatchedSoFar'
<1> SUFFICES Kept
  BY <1>1 DEF MonitorIInv
<1> USE DEF MonitorIInv, MonitorTypeOK, NotedWasSent, SentInTurn, DispatchedSoFar
<1>2. ASSUME UNCHANGED <<check, notified, phone>> PROVE Kept
  BY <1>2 DEF check, phone
<1>3. CASE HostNext
  <2>1. UNCHANGED <<check, notified, phone>>
    BY <1>3 DEF HostNext, Condition, QuestionFails, PacketAccepted, Ages, files
  <2> QED
    BY <1>2, <2>1
<1>4. CASE Survey \/ CompareBaseline \/ ProbeHost \/ TruncateBaseline
  <2>1. mpc \notin {"dispatch", "status2"} /\ mpc' \notin {"dispatch", "status2"}
    BY <1>4 DEF Survey, CompareBaseline, ProbeHost, TruncateBaseline
  <2>2. UNCHANGED <<todo, notified, phone>>
    BY <1>4 DEF Survey, CompareBaseline, ProbeHost, TruncateBaseline
  <2> QED
    BY <2>1, <2>2 DEF phone
<1>5. CASE BaselineUnreadable \/ ProbeFails
  <2>1. mpc' = "idle" /\ todo' = {} /\ sent = {} /\ UNCHANGED <<notified, phone>>
    BY <1>5, OverType DEF BaselineUnreadable, ProbeFails, Abort, files
  <2> QED
    BY <2>1 DEF phone
<1>6. CASE WriteBaseline
  <2>1. /\ mpc' = "dispatch" /\ sent = {} /\ UNCHANGED <<queued, notified, phone>>
        /\ todo' = {k \in Watched : queued[k] # 0 \/ notified[k] # 0}
        /\ \A k \in Watched : noted'[k] = 0
    BY <1>6 DEF WriteBaseline, None
  <2> QED
    BY <2>1 DEF phone
<1>7. ASSUME NEW k \in Watched, Dispatch(k) PROVE Kept
  <2>1. /\ mpc = "dispatch" /\ k \in todo /\ k \notin sent /\ todo' = todo \ {k}
        /\ UNCHANGED <<mpc, queued, notified>>
        /\ noted' = [noted EXCEPT ![k] = queued[k]]
    BY <1>7 DEF Dispatch, files
  <2>2. CASE /\ sent' = sent \cup {k} /\ unsure' = unsure
             /\ attempted' = [attempted EXCEPT ![k] = queued[k]]
    <3> USE <2>1, <2>2
    <3>1. NotedWasSent'
      OBVIOUS
    <3>2. SentInTurn'
      OBVIOUS
    <3>3. DispatchedSoFar'
      OBVIOUS
    <3> QED
      BY <3>1, <3>2, <3>3
  <2>3. CASE queued[k] # 0 /\ ~IsNew(k) /\ UNCHANGED phone
    <3> USE <2>1, <2>3
    <3>1. attempted[k] = queued[k] \/ k \in unsure
      BY DEF IsNew
    <3>2. NotedWasSent' /\ SentInTurn'
      BY DEF phone
    <3>3. DispatchedSoFar'
      BY <3>1 DEF phone
    <3> QED
      BY <3>2, <3>3
  <2> QED
    BY <1>7, <2>2, <2>3 DEF Dispatch, Push
<1>8. CASE TruncateStatus
  <2>1. /\ mpc = "dispatch" /\ mpc' = "status2" /\ todo = {} /\ UNCHANGED <<queued, todo, noted, phone>>
        /\ \A k \in Watched : notified'[k] = 0
    BY <1>8 DEF TruncateStatus, None
  <2> QED
    BY <2>1 DEF phone
<1>9. CASE WriteStatus
  <2>1. /\ mpc = "status2" /\ notified' = noted /\ UNCHANGED attempted
        /\ unsure' = {k \in unsure \ sent : noted[k] # 0} /\ sent' = {}
        /\ mpc' = "idle" /\ todo' = {}
    BY <1>9, OverType DEF WriteStatus
  <2> QED
    BY <2>1
<1>10. CASE Cut
  <2>1. /\ unsure' = unsure \cup sent /\ sent' = {} /\ UNCHANGED <<notified, attempted>>
        /\ mpc' = "idle" /\ todo' = {}
    BY <1>10, OverType DEF Cut, files
  <2> QED
    BY <2>1
<1>11. CASE UNCHANGED monitor
  <2>1. UNCHANGED <<check, notified, phone>>
    BY <1>11 DEF monitor, files
  <2> QED
    BY <1>2, <2>1
<1> QED
  BY <1>3, <1>4, <1>5, <1>6, <1>7, <1>8, <1>9, <1>10, <1>11
     DEF MonitorNext, CheckStep

LEMMA MonitorInv == Spec => []MonitorIInv
<1>1. Init => MonitorIInv
  BY MonitorInitInv DEF Init
<1>2. MonitorIInv /\ [Next]_host => MonitorIInv'
  BY MonitorInvNext, HostStep
<1> QED
  BY <1>1, <1>2, PTL DEF Spec

\* However checks are killed and die between, one that gets to its end has sent
\* every condition it found, or the operator was last sent just that.
THEOREM FoundIsAnnounced == Spec => []AnnouncedOrRepeat
<1>1. MonitorIInv => AnnouncedOrRepeat
  BY DEF MonitorIInv, SentInTurn, DispatchedSoFar, AnnouncedOrRepeat
<1> QED
  BY <1>1, MonitorInv, PTL
-----------------------------------------------------------------------------
(* The alert relay *)

LEMMA RelayInitInv == RelayInit => RelayIInv
BY RelayAssumption DEF RelayInit, RelayIInv, RelayTypeOK, NamesInBox, AttemptsPaid, Accounted,
   Queued

\* The listing of the drop box is a sequence of its files.
LEMMA ListingType ==
  ASSUME RelayTypeOK, NEW q \in Listing
  PROVE  /\ q \in Seq(1 .. MaxAlerts)
         /\ \A i \in DOMAIN q : q[i] \in box
         /\ \A i, j \in DOMAIN q : i < j => q[i] < q[j]
<1>1. box \subseteq 1 .. MaxAlerts
  BY RelayAssumption DEF RelayTypeOK, Queued
<1>2. IsFiniteSet(box)
  <2>1. IsFiniteSet(1 .. MaxAlerts)
    BY FS_Interval, RelayAssumption
  <2> QED
    BY <1>1, <2>1, FS_Subset
<1>3. Cardinality(box) \in Nat
  BY <1>2, FS_CardinalityType
<1>4. q \in [1 .. Cardinality(box) -> box]
  BY DEF Listing
<1>5. q \in [1 .. Cardinality(box) -> 1 .. MaxAlerts]
  BY <1>1, <1>4
<1>6. q \in Seq(1 .. MaxAlerts) /\ DOMAIN q = 1 .. Cardinality(box)
  BY <1>3, <1>5, SeqDef
<1>7. \A i, j \in 1 .. Cardinality(box) : i < j => q[i] < q[j]
  BY DEF Listing
<1> QED
  BY <1>4, <1>6, <1>7

\* What is left of a sequence without its first.
LEMMA RestOf ==
  ASSUME NEW S, NEW s \in Seq(S), s # <<>>
  PROVE  /\ Head(s) = s[1] /\ 1 \in DOMAIN s /\ Tail(s) \in Seq(S)
         /\ \A i \in DOMAIN Tail(s) : i + 1 \in DOMAIN s /\ Tail(s)[i] = s[i + 1]
BY HeadTailProperties, LenProperties, EmptySeq

\* Types of the relay.
LEMMA RelayTypeNext ==
  ASSUME RelayTypeOK, NamesInBox, [RelayNext]_relay
  PROVE  RelayTypeOK'
<1> USE RelayAssumption DEF RelayTypeOK, Queued
<1>0. names # <<>> => Tail(names) \in Seq(1 .. MaxAlerts)
  BY RestOf
<1>1. CASE Enqueue
  BY <1>1 DEF Enqueue, run, record
<1>2. CASE TriggerRelay
  BY <1>2 DEF TriggerRelay, dropBox, record
<1>3. CASE IntervalPasses
  BY <1>3 DEF IntervalPasses, dropBox, run, record
<1>4. CASE ListBox
  BY <1>4, ListingType DEF ListBox, dropBox, record
<1>5. CASE SetAside
  BY <1>0, <1>5 DEF SetAside, Advance, record
<1>6. CASE Drop
  BY <1>0, <1>6 DEF Drop, Advance, record
<1>7. CASE Send
  <2>1. Current \in 1 .. MaxAlerts
    BY <1>7, RestOf, ElementOfSeq, HeadTailProperties DEF Send, Current
  <2>2. attempts' \in [1 .. MaxAlerts -> Nat]
    BY <1>7, <2>1 DEF Send
  <2> QED
    BY <1>7, <2>2 DEF Send, dropBox
<1>8. CASE RemoveFile
  BY <1>0, <1>8 DEF RemoveFile, NamesInBox, Advance, record
<1>9. CASE Report
  BY <1>9 DEF Report, dropBox
<1>10. CASE RelayKilled
  BY <1>10 DEF RelayKilled, dropBox
<1>11. CASE UNCHANGED relay
  BY <1>11 DEF relay, dropBox, run, record
<1> QED
  BY <1>1, <1>2, <1>3, <1>4, <1>5, <1>6, <1>7, <1>8, <1>9, <1>10, <1>11 DEF RelayNext, RelayStep

\* The names are files of the box; who removes one takes it off the names.
LEMMA NamesNext ==
  ASSUME RelayIInv, [RelayNext]_relay
  PROVE  NamesInBox'
<1> USE DEF RelayIInv, RelayTypeOK, NamesInBox
<1>0. ASSUME names # <<>>, Advance, box \ {Current} \subseteq box'
      PROVE  NamesInBox'
  <2>1. \A i \in DOMAIN names' : i + 1 \in DOMAIN names /\ names'[i] = names[i + 1]
    BY <1>0, RestOf DEF Advance
  <2>2. Current = names[1] /\ 1 \in DOMAIN names
    BY <1>0, RestOf DEF Current
  <2>3. \A i \in DOMAIN names' : i \in Nat \ {0}
    BY <1>0, RestOf, LenProperties DEF Advance
  <2>4. \A i \in DOMAIN names : names[i] \in Nat
    BY LenProperties, RelayAssumption
  <2>5. \A i \in DOMAIN names' : names'[i] \in box'
    BY <1>0, <2>1, <2>2, <2>3, <2>4
  <2>6. \A i, j \in DOMAIN names' : i < j => names'[i] < names'[j]
    BY <2>1, <2>3
  <2> QED
    BY <1>0, <2>5, <2>6 DEF Advance
<1>1. CASE Enqueue
  BY <1>1 DEF Enqueue, run, record, Current
<1>2. CASE TriggerRelay
  BY <1>2 DEF TriggerRelay, dropBox, record
<1>3. CASE IntervalPasses
  BY <1>3 DEF IntervalPasses, dropBox, run, record, Current
<1>4. CASE ListBox
  BY <1>4, ListingType DEF ListBox, dropBox
<1>5. CASE SetAside
  BY <1>0, <1>5 DEF SetAside
<1>6. CASE Drop
  BY <1>0, <1>6 DEF Drop
<1>7. CASE Send
  <2>1. Current \in 1 .. MaxAlerts
    BY <1>7, HeadTailProperties DEF Send, Current
  <2>2. attempts'[Current] > 0
    BY <1>7, <2>1 DEF Send
  <2> QED
    BY <1>7, <2>2 DEF Send, dropBox, Current
<1>8. CASE RemoveFile
  BY <1>0, <1>8 DEF RemoveFile
<1>9. CASE Report
  BY <1>9 DEF Report, dropBox
<1>10. CASE RelayKilled
  BY <1>10 DEF RelayKilled, dropBox
<1>11. CASE UNCHANGED relay
  BY <1>11 DEF relay, dropBox, run, record, Current
<1> QED
  BY <1>1, <1>2, <1>3, <1>4, <1>5, <1>6, <1>7, <1>8, <1>9, <1>10, <1>11 DEF RelayNext, RelayStep

\* An attempt beyond the kills is the one the current file is removed for, and what
\* leaves the box leaves a trace.
LEMMA AccountNext ==
  ASSUME RelayIInv, RelayTypeOK', [RelayNext]_relay
  PROVE  AttemptsPaid' /\ Accounted'
<1> USE RelayAssumption DEF RelayIInv, RelayTypeOK, AttemptsPaid, Accounted, Queued
<1>0. names # <<>> => Current \in 1 .. MaxAlerts /\ Current \in box
  BY RestOf, HeadTailProperties DEF Current, NamesInBox
<1>1. CASE Enqueue
  <2>1. /\ lastQueued' = lastQueued + 1 /\ box' = box \cup {lastQueued + 1}
        /\ UNCHANGED <<rpc, names, attempts, kills, aside, dropped, lost, announced>>
    BY <1>1 DEF Enqueue, run, record
  <2>2. AttemptsPaid'
    BY <2>1 DEF Current
  <2>3. Accounted'
    BY <2>1
  <2> QED
    BY <2>2, <2>3
<1>2. CASE TriggerRelay \/ IntervalPasses
  BY <1>2 DEF TriggerRelay, IntervalPasses, dropBox, run, record, Current
<1>3. CASE ListBox
  BY <1>3 DEF ListBox, dropBox, record, NamesInBox
<1>4. CASE SetAside
  <2>1. /\ box' = box \ {Current} /\ aside' = aside \cup {Current} /\ names # <<>>
        /\ ~IsAlert(Current) /\ rpc = "next"
        /\ UNCHANGED <<lastQueued, attempts, kills, dropped, lost, announced>>
    BY <1>4 DEF SetAside, record, IsAlert
  <2> QED
    BY <1>0, <2>1
<1>5. CASE Drop
  <2>1. /\ box' = box \ {Current} /\ dropped' = dropped \cup {Current} /\ names # <<>>
        /\ rpc = "next"
        /\ UNCHANGED <<lastQueued, attempts, kills, aside, lost, announced>>
    BY <1>5 DEF Drop, record
  <2> QED
    BY <1>0, <2>1
<1>6. CASE Send
  <2>1. /\ attempts' = [attempts EXCEPT ![Current] = @ + 1]
        /\ rpc = "next" /\ rpc' = "remove" /\ names # <<>> /\ Current' = Current
        /\ UNCHANGED <<lastQueued, box, kills, aside, dropped, lost, announced>>
    BY <1>6 DEF Send, dropBox, Current
  <2>2. attempts[Current] <= kills
    BY <1>0, <2>1
  <2>3. AttemptsPaid'
    BY <1>0, <2>1, <2>2
  <2>4. \A a \in Queued : attempts'[a] = IF a = Current THEN attempts[a] + 1 ELSE attempts[a]
    BY <2>1
  <2>5. ASSUME NEW a \in Queued
        PROVE  attempts'[a] <= 1 + kills /\ (attempts[a] > 0 => attempts'[a] > 0)
    <3>1. attempts[a] \in Nat /\ kills \in Nat /\ attempts[a] <= 1 + kills
      OBVIOUS
    <3>2. CASE a = Current
      BY <2>2, <2>4, <3>1, <3>2
    <3>3. CASE a # Current
      BY <2>4, <3>1, <3>3
    <3> QED
      BY <3>2, <3>3
  <2>6. Accounted'
    BY <2>1, <2>5
  <2> QED
    BY <2>3, <2>6
<1>7. CASE RemoveFile
  <2>1. /\ box' = box \ {Current} /\ names # <<>> /\ rpc = "remove" /\ attempts[Current] > 0
        /\ UNCHANGED <<lastQueued, attempts, kills, aside, dropped, lost, announced>>
    BY <1>7 DEF RemoveFile, record, NamesInBox
  <2> QED
    BY <1>0, <2>1
<1>8. CASE Report
  BY <1>8 DEF Report, dropBox
<1>9. CASE RelayKilled
  BY <1>9 DEF RelayKilled, dropBox
<1>10. CASE UNCHANGED relay
  BY <1>10 DEF relay, dropBox, run, record, Current
<1> QED
  BY <1>1, <1>2, <1>3, <1>4, <1>5, <1>6, <1>7, <1>8, <1>9, <1>10 DEF RelayNext, RelayStep

LEMMA RelayInv == Spec => []RelayIInv
<1>1. Init => RelayIInv
  BY RelayInitInv DEF Init
<1>2. RelayIInv /\ [Next]_host => RelayIInv'
  BY HostStep, RelayTypeNext, NamesNext, AccountNext DEF RelayIInv
<1> QED
  BY <1>1, <1>2, PTL DEF Spec

\* An alert is attempted more than once only for relays that were killed, and none
\* leaves the drop box without a trace.
THEOREM AlertsAccounted == Spec => []Accounted
<1>1. RelayIInv => Accounted
  BY DEF RelayIInv
<1> QED
  BY <1>1, RelayInv, PTL
-----------------------------------------------------------------------------
(* The intake *)

\* The entry at work is a sample.
LEMMA EntryIsSample ==
  ASSUME IntakeTypeOK, at <= Len(Batch)
  PROVE  Entry \in Samples /\ at \in 1 .. Len(Batch) /\ at + 1 \in 1 .. Len(Batch) + 1
BY IntakeAssumption, LenProperties DEF IntakeTypeOK, Entry, Samples

LEMMA IntakeInitInv == IntakeInit => IntakeIInv
<1>1. Len(Batch) \in Nat
  BY IntakeAssumption, LenProperties
<1> QED
  BY <1>1 DEF IntakeInit, IntakeIInv, IntakeTypeOK, AtWork, UnrecordedStaged, BatchHonest

\* No sample is run again, and what status.tsv says of it stays true.
LEMMA IntakeInvNext ==
  ASSUME IntakeIInv, [IntakeNext]_intake
  PROVE  IntakeIInv'
<1> USE DEF IntakeIInv, IntakeTypeOK, AtWork, UnrecordedStaged, BatchHonest
<1>0. Len(Batch) \in Nat
  BY IntakeAssumption, LenProperties
<1>1. CASE StartBatch
  BY <1>0, <1>1 DEF StartBatch
<1>2. CASE SkipRecorded
  BY <1>2, EntryIsSample DEF SkipRecorded, AtEntry, NextEntry, batchBounds
<1>3. CASE StopAtPause \/ EndBatch
  BY <1>3 DEF StopAtPause, EndBatch, Pending, AtEntry, batchBounds
<1>4. CASE Download
  BY <1>4, EntryIsSample DEF Download, Pending, AtEntry, batchBounds, Entry
<1>5. CASE DownloadFails
  BY <1>5, EntryIsSample DEF DownloadFails, Pending, AtEntry, NextEntry, batchBounds
<1>6. CASE StartRun
  BY <1>6, EntryIsSample DEF StartRun, batchBounds, Entry
<1>7. CASE EndRun
  BY <1>7, EntryIsSample DEF EndRun, batchBounds, Entry
<1>8. CASE Record
  BY <1>8, EntryIsSample DEF Record, batchBounds, Entry
<1>9. CASE RemoveStaged
  BY <1>9, EntryIsSample DEF RemoveStaged, NextEntry, batchBounds
<1>10. CASE StopBatch
  BY <1>10 DEF StopBatch
<1>11. CASE Pause \/ Resume \/ UNCHANGED intake
  BY <1>11 DEF Pause, Resume, intake, batch, batchBounds, Entry
<1> QED
  BY <1>1, <1>2, <1>3, <1>4, <1>5, <1>6, <1>7, <1>8, <1>9, <1>10, <1>11 DEF IntakeNext, TakesUp

\* However a batch is stopped and started again, no sample is detonated twice, and
\* its row of status.tsv says what became of it.
THEOREM BatchIsHonest == Spec => []BatchHonest
<1>1. Init => IntakeIInv
  BY IntakeInitInv DEF Init
<1>2. IntakeIInv /\ [Next]_host => IntakeIInv'
  BY HostStep, IntakeInvNext
<1>3. IntakeIInv => BatchHonest
  BY DEF IntakeIInv
<1> QED
  BY <1>1, <1>2, <1>3, PTL DEF Spec
-----------------------------------------------------------------------------
(* The detonation *)

\* The tasks of the batches that have begun are tasks.
LEMMA RoomForTasks ==
  ASSUME NEW b \in 1 .. MaxBatches
  PROVE  /\ RunsAsked * b \in Nat /\ RunsAsked * (b - 1) \in Nat
         /\ RunsAsked * (b - 1) + RunsAsked = RunsAsked * b
         /\ RunsAsked * b <= RunsAsked * MaxBatches
BY DetonateAssumption

LEMMA DetonateInitInv == DetonateInit => DetonateIInv
<1>1. Tasks \subseteq Nat \ {0}
  BY DetonateAssumption DEF Tasks
<1>2. RunsAsked * 0 = 0
  BY DetonateAssumption
<1>3. <<>> \in Seq([task : Tasks, tier : Tiers]) /\ Len(<<>>) = 0
  BY EmptySeq
<1> SUFFICES ASSUME DetonateInit PROVE DetonateIInv
  OBVIOUS
<1> USE <1>1, <1>2, <1>3, DetonateAssumption DEF DetonateInit
<1>4. DetonateTypeOK
  <2>1. runs \in Seq([task : Tasks, tier : Tiers])
    OBVIOUS
  <2>2. batchOf \in [Tasks -> 0 .. batches] /\ batches \in 0 .. MaxBatches /\ newest \in Nat
    OBVIOUS
  <2>3. status \in [Tasks -> {"none", "pending", "running", "completed"} \cup Final]
    OBVIOUS
  <2> QED
    BY <2>1, <2>2, <2>3 DEF DetonateTypeOK
<1>5. TasksCreated
  BY DEF TasksCreated
<1>6. OneAtATime /\ RunsOfBatch
  BY DEF OneAtATime, RunsOfBatch, RunsReported
<1> QED
  BY <1>4, <1>5, <1>6 DEF DetonateIInv

\* The task of a batch that submits or polls.
LEMMA NewestIsTask ==
  ASSUME DetonateIInv
  PROVE  /\ dpc = "submit" => newest + 1 \in Tasks
         /\ dpc \in {"poll", "fetch"} => newest \in Tasks
<1>1. CASE dpc \in {"submit", "poll", "fetch"}
  <2>1. batches \in 1 .. MaxBatches
    BY <1>1 DEF DetonateIInv, DetonateTypeOK, TasksCreated
  <2>2. newest + (IF dpc = "submit" THEN 1 ELSE 0) <= RunsAsked * (batches - 1) + Len(runs) + 1
    BY <1>1, <2>1, RoomForTasks, LenProperties
       DEF DetonateIInv, DetonateTypeOK, TasksCreated
  <2>3. Len(runs) \in Nat /\ Len(runs) + 1 <= RunsAsked
    BY <1>1, LenProperties, DetonateAssumption
       DEF DetonateIInv, DetonateTypeOK, RunsOfBatch
  <2>4. newest + (IF dpc = "submit" THEN 1 ELSE 0) <= RunsAsked * MaxBatches
    <3>1. RunsAsked * (batches - 1) + RunsAsked <= RunsAsked * MaxBatches
      BY <2>1, RoomForTasks
    <3>2. RunsAsked * (batches - 1) \in Nat /\ RunsAsked * MaxBatches \in Nat /\ RunsAsked \in Nat
      BY <2>1, RoomForTasks, DetonateAssumption
    <3>3. newest \in Nat
      BY DEF DetonateIInv, DetonateTypeOK
    <3> DEFINE before == RunsAsked * (batches - 1)
               room == RunsAsked * MaxBatches
    <3> HIDE DEF before, room
    <3> QED
      BY <2>2, <2>3, <3>1, <3>2, <3>3 DEF before, room
  <2> QED
    BY <1>1, <2>4, DetonateAssumption
       DEF Tasks, DetonateIInv, DetonateTypeOK, TasksCreated
<1> QED
  BY <1>1

\* Two elements are two.
LEMMA TwoElements ==
  ASSUME NEW a, NEW b, a # b
  PROVE  Cardinality({a, b}) = 2
<1>1. IsFiniteSet({a}) /\ Cardinality({a}) = 1
  BY FS_Singleton
<1>2. Cardinality({a} \cup {b}) = 2
  BY <1>1, FS_AddElement
<1>3. {a} \cup {b} = {a, b}
  OBVIOUS
<1> QED
  BY <1>2, <1>3

\* At most one tier: the runs were taken in the same one.
LEMMA PooledAlike ==
  ASSUME DetonateTypeOK, Cardinality(TiersOf(runs)) <= 1,
         NEW i \in 1 .. Len(runs), NEW j \in 1 .. Len(runs)
  PROVE  runs[i].tier = runs[j].tier
<1>1. Len(runs) \in Nat
  BY LenProperties DEF DetonateTypeOK
<1> DEFINE T == TiersOf(runs)
           f == [k \in 1 .. Len(runs) |-> runs[k].tier]
<1>2. IsFiniteSet(T) /\ Cardinality(T) <= 1
  <2>1. f \in Surjection(1 .. Len(runs), T)
    BY DEF TiersOf, Surjection
  <2>2. IsFiniteSet(1 .. Len(runs))
    BY <1>1, FS_Interval
  <2> QED
    BY <2>1, <2>2, FS_Surjection
<1>3. SUFFICES ASSUME runs[i].tier # runs[j].tier PROVE FALSE
  OBVIOUS
<1>4. Cardinality({runs[i].tier, runs[j].tier}) = 2
  BY <1>3, TwoElements
<1>5. {runs[i].tier, runs[j].tier} \subseteq T
  BY DEF TiersOf
<1>6. Cardinality({runs[i].tier, runs[j].tier}) <= Cardinality(T)
  BY <1>2, <1>5, FS_Subset
<1>7. Cardinality(T) \in Nat
  BY <1>2, FS_CardinalityType
<1> QED
  BY <1>2, <1>4, <1>6, <1>7

\* What CAPE does to a task.
LEMMA WorkFacts ==
  ASSUME NEW t \in Tasks, CapeWorks(t)
  PROVE  /\ \E s \in Final \cup {"completed"} : status' = [status EXCEPT ![t] = s]
         /\ status[t] \in {"running", "completed"}
         /\ UNCHANGED <<guest, newest, batchOf, together, dpc, runs, aborted, batches, scorecards>>
BY DEF CapeWorks, Final, Failed

\* Types of the detonation.
LEMMA DetonateTypeNext ==
  ASSUME DetonateIInv, [DetonateNext]_detonate
  PROVE  DetonateTypeOK'
<1> USE DetonateAssumption DEF DetonateIInv, DetonateTypeOK, Final
<1>1. ASSUME NEW t \in Tasks, CapeTakes(t) PROVE DetonateTypeOK'
  BY <1>1 DEF CapeTakes
<1>2. ASSUME NEW t \in Tasks, CapeWorks(t) PROVE DetonateTypeOK'
  BY <1>2, WorkFacts
<1>3. CASE StartDetonation
  <2>1. <<>> \in Seq([task : Tasks, tier : Tiers])
    BY EmptySeq
  <2>2. batches' \in 0 .. MaxBatches /\ 0 .. batches \subseteq 0 .. batches'
    BY <1>3 DEF StartDetonation
  <2>3. batchOf' \in [Tasks -> 0 .. batches']
    BY <1>3, <2>2 DEF StartDetonation, cape
  <2> QED
    BY <1>3, <2>1, <2>2, <2>3 DEF StartDetonation, cape
<1>4. ASSUME Created, UNCHANGED batches
      PROVE  /\ newest' \in Nat /\ UNCHANGED guest
             /\ status' \in [Tasks -> {"none", "pending", "running", "completed"} \cup Final]
             /\ batchOf' \in [Tasks -> 0 .. batches']
  <2>1. batches \in 0 .. batches
    OBVIOUS
  <2>2. batchOf' \in [Tasks -> 0 .. batches]
    BY <1>4, <2>1 DEF Created
  <2> QED
    BY <1>4, <2>2 DEF Created
<1>5. CASE Submit
  BY <1>4, <1>5 DEF Submit
<1>6. CASE SubmitFails
  BY <1>4, <1>6 DEF SubmitFails, AbortBatch, cape
<1>7. CASE PollDone \/ PollFailed \/ PollDeadline \/ FetchFails
  BY <1>7 DEF PollDone, PollFailed, PollDeadline, FetchFails, AbortBatch, cape
<1>8. CASE Fetch
  <2>1. PICK tier \in Tiers : runs' = Append(runs, [task |-> newest, tier |-> tier])
    BY <1>8 DEF Fetch
  <2>2. newest \in Tasks
    BY <1>8, NewestIsTask DEF Fetch
  <2>3. runs' \in Seq([task : Tasks, tier : Tiers])
    BY <2>1, <2>2, AppendProperties
  <2> QED
    BY <1>8, <2>3 DEF Fetch, NextRun, cape
<1>9. CASE MeasureRaises \/ Score \/ StopDetonation \/ UNCHANGED detonate
  BY <1>9 DEF MeasureRaises, Score, StopDetonation, detonate, cape
<1> QED
  BY <1>1, <1>2, <1>3, <1>5, <1>6, <1>7, <1>8, <1>9 DEF DetonateNext

\* What a submission does to the tasks.
LEMMA CreatedFacts ==
  ASSUME DetonateIInv, Created, dpc = "submit"
  PROVE  /\ newest' = newest + 1 /\ newest' \in Tasks /\ status[newest'] = "none"
         /\ status' = [status EXCEPT ![newest'] = "pending"]
         /\ batchOf' = [batchOf EXCEPT ![newest'] = batches]
         /\ together' = together \cup {{newest', u} : u \in Outstanding}
         /\ UNCHANGED guest
<1>1. newest + 1 \in Tasks /\ newest + 1 > newest
  BY NewestIsTask DEF DetonateIInv, DetonateTypeOK
<1> QED
  BY <1>1 DEF Created, DetonateIInv, TasksCreated

\* Tasks are created in order, each of the batch that creates it.
LEMMA TasksCreatedNext ==
  ASSUME DetonateIInv, DetonateTypeOK', [DetonateNext]_detonate
  PROVE  TasksCreated'
<1> USE DetonateAssumption DEF DetonateIInv, DetonateTypeOK, TasksCreated, Final
<1>0. Tasks \subseteq Nat \ {0} /\ Len(runs) \in Nat
  BY LenProperties DEF Tasks
<1>1. ASSUME NEW t \in Tasks, CapeTakes(t) PROVE TasksCreated'
  BY <1>1 DEF CapeTakes
<1>2. ASSUME NEW t \in Tasks, CapeWorks(t) PROVE TasksCreated'
  <2>1. PICK s \in Final \cup {"completed"} : status' = [status EXCEPT ![t] = s]
    BY <1>2, WorkFacts
  <2>2. s # "none" /\ status[t] # "none"
    BY <1>2, WorkFacts DEF Failed
  <2>3. \A u \in Tasks : status'[u] = IF u = t THEN s ELSE status[u]
    BY <2>1
  <2>4. dpc = "fetch" => newest \in Tasks /\ newest # t
    BY <1>2, WorkFacts, NewestIsTask
  <2>5. UNCHANGED <<newest, batchOf, dpc, runs, batches>>
    BY <1>2, WorkFacts
  <2>6. \A u \in Tasks : status'[u] = "none" <=> status[u] = "none"
    BY <2>2, <2>3
  <2> QED
    BY <2>3, <2>4, <2>5, <2>6
<1>3. CASE StartDetonation
  <2>1. /\ batches' = batches + 1 /\ batches' \in 1 .. MaxBatches /\ dpc' = "submit"
        /\ Len(runs') = 0 /\ UNCHANGED <<status, newest, batchOf>>
    BY <1>3, EmptySeq DEF StartDetonation, cape
  <2>2. RunsAsked * (batches' - 1) = RunsAsked * batches
    BY <2>1
  <2>3. RunsAsked * (batches' - 1) <= RunsAsked * batches' /\ RunsAsked * batches' \in Nat
        /\ RunsAsked * batches \in Nat
    BY <2>1, <2>2, RoomForTasks
  <2>4. newest' <= RunsAsked * batches' /\ newest' <= RunsAsked * (batches' - 1) + Len(runs')
    BY <2>1, <2>2, <2>3
  <2> QED
    BY <2>1, <2>4
<1>4. ASSUME Created, dpc = "submit", UNCHANGED <<runs, batches>>
      PROVE  /\ \A t \in Tasks : t > newest' <=> status'[t] = "none"
             /\ newest' <= RunsAsked * batches'
             /\ newest' <= RunsAsked * (batches' - 1) + Len(runs') + 1
             /\ newest' > 0 /\ batchOf'[newest'] = batches'
  <2>1. \A t \in Tasks : t > newest' <=> status'[t] = "none"
    BY <1>0, <1>4, CreatedFacts
  <2>2. batches \in 1 .. MaxBatches
    BY <1>4
  <2>3. newest' <= RunsAsked * (batches - 1) + Len(runs) + 1
    BY <1>0, <1>4, <2>2, CreatedFacts, RoomForTasks
  <2>4. Len(runs) + 1 <= RunsAsked
    BY <1>0, <1>4 DEF RunsOfBatch
  <2>5. newest' <= RunsAsked * (batches - 1) + RunsAsked
    BY <1>0, <2>2, <2>3, <2>4, RoomForTasks
  <2> QED
    BY <1>0, <1>4, <2>1, <2>2, <2>3, <2>5, CreatedFacts, RoomForTasks
<1>5. CASE Submit
  BY <1>4, <1>5 DEF Submit
<1>6. CASE SubmitFails
  BY <1>4, <1>6 DEF SubmitFails, AbortBatch, cape
<1>7. CASE PollDone \/ PollFailed \/ PollDeadline \/ FetchFails
  BY <1>7 DEF PollDone, PollFailed, PollDeadline, FetchFails, AbortBatch, cape
<1>8. CASE Fetch
  <2>1. Len(runs') = Len(runs) + 1 /\ dpc' \in {"submit", "score"} /\ dpc = "fetch"
        /\ UNCHANGED <<cape, batches>>
    BY <1>8, <1>0, NewestIsTask, AppendProperties DEF Fetch, NextRun
  <2>2. batches \in 1 .. MaxBatches
    BY <2>1
  <2> QED
    BY <1>0, <2>1, <2>2, RoomForTasks DEF cape
<1>9. CASE MeasureRaises \/ Score \/ StopDetonation \/ UNCHANGED detonate
  BY <1>9 DEF MeasureRaises, Score, StopDetonation, detonate, cape
<1> QED
  BY <1>1, <1>2, <1>3, <1>5, <1>6, <1>7, <1>8, <1>9 DEF DetonateNext

\* A batch never has two tasks in flight.
LEMMA OneAtATimeNext ==
  ASSUME DetonateIInv, [DetonateNext]_detonate
  PROVE  OneAtATime'
<1> USE DEF DetonateIInv, DetonateTypeOK, OneAtATime, Outstanding, Final, Failed
<1>0. Tasks \subseteq Nat \ {0}
  BY DetonateAssumption DEF Tasks
<1>1. ASSUME NEW t \in Tasks, CapeTakes(t) PROVE OneAtATime'
  BY <1>1 DEF CapeTakes
<1>2. ASSUME NEW t \in Tasks, CapeWorks(t) PROVE OneAtATime'
  <2>1. PICK s \in Final \cup {"completed"} : status' = [status EXCEPT ![t] = s]
    BY <1>2, WorkFacts
  <2>2. Outstanding' \subseteq Outstanding
    BY <1>2, <2>1, WorkFacts
  <2>3. UNCHANGED <<newest, batchOf, together, dpc, batches>>
    BY <1>2, WorkFacts
  <2> HIDE DEF Outstanding
  <2> QED
    BY <2>2, <2>3
<1>3. CASE StartDetonation
  <2>1. \A t \in Tasks : batchOf[t] # batches'
    BY <1>3 DEF StartDetonation
  <2> QED
    BY <1>3, <2>1 DEF StartDetonation, cape
<1>4. ASSUME Created, dpc = "submit", UNCHANGED batches
      PROVE  /\ \A t \in Outstanding' \ {newest'} : batchOf'[t] # batches'
             /\ \A t, u \in Tasks : t # u /\ {t, u} \in together' =>
                  t <= newest' /\ batchOf'[t] # batchOf'[u]
  <2>1. \A t \in Outstanding' \ {newest'} : t \in Outstanding /\ batchOf'[t] = batchOf[t]
    BY <1>4, CreatedFacts
  <2>2. newest' \notin Outstanding /\ \A u \in Outstanding : u <= newest
    BY <1>0, <1>4, CreatedFacts DEF TasksCreated
  <2>3. ASSUME NEW t \in Tasks, NEW u \in Tasks, t # u, {t, u} \in together'
        PROVE  t <= newest' /\ batchOf'[t] # batchOf'[u]
    <3>1. CASE {t, u} \in together
      <4>1. {u, t} \in together
        BY <3>1
      <4>2. t <= newest /\ u <= newest
        BY <2>3, <3>1, <4>1
      <4>3. t # newest' /\ u # newest' /\ newest' = newest + 1
        BY <1>0, <4>2, <1>4, CreatedFacts
      <4> QED
        BY <1>0, <1>4, <2>3, <3>1, <4>2, <4>3, CreatedFacts
    <3>2. CASE {t, u} \notin together
      <4>0. {t, u} \in {{newest', w} : w \in Outstanding}
        BY <1>4, <2>3, <3>2, CreatedFacts
      <4>1. PICK w \in Outstanding : {t, u} = {newest', w}
        BY <4>0
      <4>2. (t = newest' /\ u = w) \/ (t = w /\ u = newest')
        BY <2>3, <4>1
      <4>3. w <= newest /\ w # newest' /\ batchOf'[w] = batchOf[w] /\ batchOf[w] # batches
        BY <1>4, <2>2, CreatedFacts
      <4>4. batchOf'[newest'] = batches
        BY <1>4, CreatedFacts
      <4> QED
        BY <1>0, <1>4, <4>2, <4>3, <4>4, CreatedFacts
    <3> QED
      BY <3>1, <3>2
  <2> QED
    BY <1>4, <2>1, <2>3
<1>5. CASE Submit
  BY <1>4, <1>5 DEF Submit
<1>6. CASE SubmitFails
  <2>1. CASE Created
    BY <1>4, <1>6, <2>1 DEF SubmitFails, AbortBatch
  <2>2. CASE UNCHANGED cape
    BY <1>6, <2>2 DEF SubmitFails, AbortBatch, cape
  <2> QED
    BY <1>6, <2>1, <2>2 DEF SubmitFails
<1>7. CASE PollDone
  BY <1>7 DEF PollDone, cape
<1>8. CASE PollFailed \/ PollDeadline \/ FetchFails
  BY <1>8 DEF PollFailed, PollDeadline, FetchFails, AbortBatch, cape
<1>9. CASE Fetch
  BY <1>9 DEF Fetch, NextRun, cape
<1>10. CASE MeasureRaises \/ Score \/ StopDetonation \/ UNCHANGED detonate
  BY <1>10 DEF MeasureRaises, Score, StopDetonation, detonate, cape
<1> QED
  BY <1>1, <1>2, <1>3, <1>5, <1>6, <1>7, <1>8, <1>9, <1>10 DEF DetonateNext

\* What a scorecard rests on does not change any more.
LEMMA ReportedStays ==
  ASSUME DetonateIInv, [DetonateNext]_detonate, NEW rs, NEW b, RunsReported(rs, b)
  PROVE  RunsReported(rs, b)'
<1> SUFFICES ASSUME NEW t \in Tasks, status[t] = "reported"
             PROVE  status'[t] = "reported" /\ guest'[t] = guest[t] /\ batchOf'[t] = batchOf[t]
  BY DEF RunsReported
<1> USE DEF DetonateIInv, DetonateTypeOK
<1>1. ASSUME NEW u \in Tasks, CapeTakes(u) \/ CapeWorks(u)
      PROVE  status'[t] = "reported" /\ guest'[t] = guest[t] /\ batchOf'[t] = batchOf[t]
  BY <1>1, WorkFacts DEF CapeTakes
<1>2. CASE (Submit \/ SubmitFails) /\ Created
  BY <1>2, CreatedFacts DEF Submit, SubmitFails
<1>3. CASE UNCHANGED cape
  BY <1>3 DEF cape
<1> QED
  BY <1>1, <1>2, <1>3
     DEF DetonateNext, StartDetonation, Submit, SubmitFails, PollDone, PollFailed, PollDeadline,
         Fetch, FetchFails, MeasureRaises, Score, StopDetonation, detonate

\* The runs of the batch, and the scorecards.
LEMMA RunsNext ==
  ASSUME DetonateIInv, [DetonateNext]_detonate
  PROVE  RunsOfBatch'
<1> USE DEF DetonateIInv, RunsOfBatch
<1>0. Len(runs) \in Nat /\ RunsAsked \in Nat \ {0}
  BY LenProperties, DetonateAssumption DEF DetonateTypeOK
<1>1. ASSUME NEW c \in scorecards PROVE CardHolds(c)'
  BY <1>1, ReportedStays DEF CardHolds
<1>2. ASSUME UNCHANGED <<runs, batches>> PROVE RunsReported(runs, batches)'
  BY <1>2, ReportedStays DEF RunsReported
<1>3. ASSUME NEW t \in Tasks, CapeTakes(t) \/ CapeWorks(t) PROVE RunsOfBatch'
  BY <1>1, <1>2, <1>3, WorkFacts DEF CapeTakes
<1>4. CASE StartDetonation
  BY <1>0, <1>1, <1>4, EmptySeq DEF StartDetonation, RunsReported
<1>5. CASE Submit \/ SubmitFails
  BY <1>1, <1>2, <1>5 DEF Submit, SubmitFails, AbortBatch
<1>6. CASE PollDone \/ PollFailed \/ PollDeadline \/ FetchFails
  BY <1>1, <1>2, <1>6 DEF PollDone, PollFailed, PollDeadline, FetchFails, AbortBatch
<1>7. CASE Fetch
  <2>1. PICK tier \in Tiers : runs' = Append(runs, [task |-> newest, tier |-> tier])
    BY <1>7 DEF Fetch
  <2>2. newest \in Tasks /\ status[newest] = "reported" /\ batchOf[newest] = batches
        /\ guest[newest] = Pinned
    BY <1>7, NewestIsTask DEF Fetch, TasksCreated, RanPinned
  <2>3. Len(runs') = Len(runs) + 1 /\ runs'[Len(runs) + 1].task = newest
        /\ \A i \in 1 .. Len(runs) : runs'[i] = runs[i]
    BY <2>1, <2>2, AppendProperties DEF DetonateTypeOK
  <2>4. RunsReported(runs, batches)'
    BY <1>0, <1>7, <2>2, <2>3 DEF RunsReported, Fetch, cape
  <2> QED
    BY <1>0, <1>1, <1>7, <2>3, <2>4 DEF Fetch, NextRun
<1>8. CASE Score
  <2>1. PICK c : /\ c = [batch |-> batches, runs |-> runs, aborted |-> aborted,
                         pooled |-> Cardinality(TiersOf(runs)) <= 1]
                 /\ scorecards' = scorecards \cup {c}
    BY <1>8 DEF Score
  <2>2. RunsReported(c.runs, c.batch)'
    BY <1>8, <2>1, ReportedStays DEF Score
  <2>3. c.runs = runs /\ c.aborted = aborted /\ (c.pooled => Cardinality(TiersOf(runs)) <= 1)
    BY <2>1
  <2>4. c.pooled => \A i, j \in 1 .. Len(c.runs) : c.runs[i].tier = c.runs[j].tier
    BY <2>3, PooledAlike
  <2>5. Len(c.runs) < RunsAsked <=> c.aborted
    BY <1>8, <2>3 DEF Score
  <2>6. CardHolds(c)'
    BY <2>2, <2>4, <2>5 DEF CardHolds
  <2> QED
    BY <1>1, <1>2, <1>8, <2>1, <2>6 DEF Score
<1>9. CASE MeasureRaises \/ StopDetonation \/ UNCHANGED detonate
  BY <1>1, <1>2, <1>9 DEF MeasureRaises, StopDetonation, detonate, cape
<1> QED
  BY <1>3, <1>4, <1>5, <1>6, <1>7, <1>8, <1>9 DEF DetonateNext

LEMMA DetonateInv == Spec => []DetonateIInv
<1>1. Init => DetonateIInv
  BY DetonateInitInv DEF Init
<1>2. DetonateIInv /\ [Next]_host => DetonateIInv'
  BY HostStep, DetonateTypeNext, TasksCreatedNext, OneAtATimeNext, RunsNext DEF DetonateIInv
<1> QED
  BY <1>1, <1>2, PTL DEF Spec

\* The runs of a scorecard were reported, on the pinned guest, each alone of its
\* batch in flight; a batch that lacks runs says so; what is pooled is of one tier.
THEOREM ScorecardsAreSound == Spec => []ScorecardSound
<1>1. ASSUME DetonateIInv, NEW c \in scorecards, NEW i \in 1 .. Len(c.runs)
      PROVE  LET t == c.runs[i].task IN
             /\ status[t] = "reported" /\ guest[t] = Pinned
             /\ \A u \in Tasks \ {t} : {t, u} \in together => batchOf[u] # c.batch
  <2>1. c.runs[i].task \in Tasks /\ batchOf[c.runs[i].task] = c.batch
    BY <1>1 DEF DetonateIInv, RunsOfBatch, CardHolds, RunsReported
  <2> QED
    BY <1>1, <2>1 DEF DetonateIInv, RunsOfBatch, CardHolds, RunsReported, OneAtATime
<1>2. DetonateIInv => ScorecardSound
  BY <1>1 DEF ScorecardSound, DetonateIInv, RunsOfBatch, CardHolds
<1> QED
  BY <1>2, DetonateInv, PTL
-----------------------------------------------------------------------------
(* The Ghidra job *)

\* Two jobs with one place have one content and one loader.
LEMMA PlaceTells ==
  ASSUME NEW j, NEW k, Place(j) = Place(k)
  PROVE  j.file.bytes = k.file.bytes /\ (j.loader = "pe" <=> k.loader = "pe")
BY DEF Place

\* A sequence of whatever it holds, and what is appended to it.
LEMMA Appended ==
  ASSUME NEW s, s \in Seq({s[i] : i \in DOMAIN s}), NEW e, NEW t, t = Append(s, e)
  PROVE  /\ t \in Seq({t[i] : i \in DOMAIN t})
         /\ DOMAIN t = 1 .. Len(s) + 1 /\ DOMAIN s = 1 .. Len(s) /\ Len(s) \in Nat
         /\ t[Len(s) + 1] = e /\ \A i \in DOMAIN s : t[i] = s[i]
<1> DEFINE S == {s[i] : i \in DOMAIN s} \cup {e}
<1>1. s \in Seq(S) /\ DOMAIN s = 1 .. Len(s) /\ Len(s) \in Nat
  BY LenProperties, SeqMonotonic
<1>2. t \in Seq(S) /\ Len(t) = Len(s) + 1 /\ t[Len(s) + 1] = e /\ \A i \in 1 .. Len(s) : t[i] = s[i]
  BY <1>1, AppendProperties
<1>3. DOMAIN t = 1 .. Len(t) /\ t \in [1 .. Len(t) -> S]
  BY <1>2, LenProperties
<1>4. t \in [1 .. Len(t) -> {t[i] : i \in DOMAIN t}]
  BY <1>3
<1> HIDE DEF S
<1> QED
  BY <1>1, <1>2, <1>3, <1>4, SeqDef

\* A program stays where jobs of its bytes look for it.
LEMMA StaysInPlace ==
  ASSUME GhidraIInv, NEW d \in DOMAIN projects, NEW j, d = Place(j)
  PROVE  Imported(projects[d], j)
<1>1. PICK i \in DOMAIN Jobs(given) :
         d = Place(Jobs(given)[i]) /\ Imported(projects[d], Jobs(given)[i])
  BY DEF GhidraIInv
<1> QED
  BY <1>1, PlaceTells DEF Imported

\* A set of numbers has a least one.
LEMMA LeastOf ==
  ASSUME NEW T, T \subseteq Nat, T # {}
  PROVE  \E i \in T : \A k \in T : i <= k
<1>1. IsWellFoundedOn(OpToRel(<, Nat), Nat)
  BY NatLessThanWellFounded
<1>2. PICK i \in T : \A k \in T : <<k, i>> \notin OpToRel(<, Nat)
  BY <1>1, WFMin
<1>3. \A k \in T : ~(k < i)
  BY <1>2 DEF OpToRel
<1> QED
  BY <1>3

\* The target is one of the programs with a usable result.
LEMMA TargetUsable ==
  ASSUME GhidraIInv, chosen # 0
  PROVE  Target \in Usable
<1> DEFINE named == {k \in DOMAIN analysed :
                       /\ analysed[k].ok /\ analysed[k].saved /\ analysed[k].index # "no"
                       /\ analysed[k].job.file.name = analysed[chosen].job.file.name}
<1>1. chosen \in named
  BY DEF GhidraIInv, Usable
<1>2. named \subseteq Nat
  BY LenProperties DEF GhidraIInv
<1>3. \E i \in named : \A k \in named : i <= k
  BY <1>1, <1>2, LeastOf
<1>4. Target \in named
  BY <1>3 DEF Target
<1> QED
  BY <1>4 DEF Usable

GhidraSpec == GhidraInit /\ [][GhidraNext]_ghidraJob

LEMMA GhidraInitInv == GhidraInit => GhidraIInv
<1>1. <<>> \in Seq(Usable) /\ DOMAIN <<>> = {} /\ \A S : <<>> \in Seq(S)
  BY EmptySeq
<1> QED
  BY <1>1 DEF GhidraInit, GhidraIInv

\* Nothing has been chosen while jobs are run.
LEMMA BeforeChoice ==
  ASSUME GhidraIInv, gpc \notin {"rank", "read"}, UNCHANGED choice
  PROVE  /\ unverified' = <<>> /\ chosen' = 0 /\ answered' = NoProject
         /\ unverified' \in Seq(Usable')
BY EmptySeq DEF GhidraIInv, choice

\* A call of run-ghidra, to the container's exit.
LEMMA ContainerStep ==
  ASSUME GhidraIInv, HashFails \/ Call \/ ImportPe \/ ImportRaw64 \/ ImportRaw86
  PROVE  GhidraIInv'
<1>1. gpc \in {"next", "first", "second"} /\ UNCHANGED <<given, entry, projects, analysed, orphans, choice>>
  BY DEF HashFails, Call, ImportPe, ImportRaw64, ImportRaw86, job
<1>2. This' = This
  BY <1>1 DEF This
<1>3. /\ gpc' \in {"first", "second", "exited", "died"}
      /\ gpc' \in {"first", "second", "exited"} => entry \in DOMAIN Jobs(given)
  BY DEF HashFails, Call, ImportPe, ImportRaw64, ImportRaw86, GhidraIInv
<1>4. gpc' = "second" => This.loader # "pe" /\ (found'.ok /\ found'.saved => found'.language = "x64")
  <2>1. SUFFICES ASSUME ImportRaw64
                 PROVE  This.loader # "pe" /\ (found'.ok /\ found'.saved => found'.language = "x64")
    BY DEF HashFails, Call, ImportPe, ImportRaw64, ImportRaw86
  <2> QED
    BY <2>1 DEF ImportRaw64, Imports, NoneFound
<1>5. gpc' = "exited" => Imported(inside', This) /\ Reported(found', This)
  <2>1. CASE ImportPe
    <3>1. CASE Imports("pe")
      BY <2>1, <3>1 DEF ImportPe, Imports, NoneFound, Imported, Reported, Program, Empty
    <3>2. CASE FromLog
      BY <2>1, <3>2 DEF ImportPe, FromLog, Imported, Reported, Program, Empty
    <3> QED
      BY <2>1, <3>1, <3>2 DEF ImportPe
  <2>2. CASE ImportRaw86
    <3>1. This.loader # "pe" /\ (found.ok /\ found.saved => found.language = "x64")
      BY <2>2 DEF ImportRaw86, GhidraIInv
    <3>2. inside' \in {Program("x86"), Hollow}
      BY <2>2 DEF ImportRaw86
    <3>3. found'.ok /\ found'.saved => found'.language \in {"x64", "x86"}
      BY <2>2, <3>1 DEF ImportRaw86
    <3> QED
      BY <3>1, <3>2, <3>3 DEF Imported, Reported, Program, Empty
  <2> QED
    BY <2>1, <2>2 DEF HashFails, Call, ImportRaw64
<1>6. \A d \in DOMAIN projects' : \E i \in DOMAIN Jobs(given') :
        d = Place(Jobs(given')[i]) /\ Imported(projects'[d], Jobs(given')[i])
  BY <1>1 DEF GhidraIInv
<1> QED
  BY <1>1, <1>2, <1>3, <1>4, <1>5, <1>6, BeforeChoice DEF GhidraIInv, Imported, Reported

\* The wrapper's end: what it copied is the container's, and the entry is the job's.
LEMMA WrapperStep ==
  ASSUME GhidraIInv, CollectOutput \/ CallFails \/ CallTimesOut
  PROVE  GhidraIInv'
<1>1. /\ gpc \in {"first", "second", "exited"} /\ gpc' = "next"
      /\ UNCHANGED <<given, choice>>
  BY DEF CollectOutput, CallFails, CallTimesOut, Returns
<1>2. \/ UNCHANGED projects
      \/ gpc = "exited" /\ (Copied(inside) \/ Copied(Partial))
  BY DEF CollectOutput, CallFails, CallTimesOut
<1> DEFINE Fields == {"ok", "saved", "functions", "language", "job", "index"}
<1>3. PICK e : analysed' = Append(analysed, e) /\ Reported(e, e.job) /\ DOMAIN e = Fields
  <2>1. Reported(FailedEntry, FailedEntry.job) /\ DOMAIN FailedEntry = Fields
    BY DEF Reported, FailedEntry
  <2>2. CASE CollectOutput
    <3> DEFINE e == [FailedEntry EXCEPT !.ok = found.ok, !.saved = found.saved,
                        !.functions = found.functions, !.language = found.language]
    <3>1. analysed' = Append(analysed, e) /\ gpc = "exited"
      BY <2>2 DEF CollectOutput, Returns
    <3>2. /\ e.ok = found.ok /\ e.saved = found.saved /\ e.language = found.language
          /\ e.job = This /\ DOMAIN e = Fields
      BY DEF FailedEntry
    <3>3. Reported(found, This)
      BY <3>1 DEF GhidraIInv
    <3> QED
      BY <3>1, <3>2, <3>3 DEF Reported
  <2> QED
    BY <2>1, <2>2 DEF CallFails, CallTimesOut, Returns
<1>4. /\ analysed' \in Seq({analysed'[i] : i \in DOMAIN analysed'})
      /\ \A i \in DOMAIN analysed' :
           Reported(analysed'[i], analysed'[i].job) /\ DOMAIN analysed'[i] = Fields
  <2>1. analysed \in Seq({analysed[i] : i \in DOMAIN analysed})
    BY DEF GhidraIInv
  <2>2. /\ analysed' \in Seq({analysed'[i] : i \in DOMAIN analysed'})
        /\ DOMAIN analysed' = 1 .. Len(analysed) + 1 /\ DOMAIN analysed = 1 .. Len(analysed)
        /\ Len(analysed) \in Nat /\ analysed'[Len(analysed) + 1] = e
        /\ \A i \in DOMAIN analysed : analysed'[i] = analysed[i]
    BY <1>3, <2>1, Appended
  <2>3. \A i \in DOMAIN analysed :
          Reported(analysed[i], analysed[i].job) /\ DOMAIN analysed[i] = Fields
    BY DEF GhidraIInv
  <2> QED
    BY <1>3, <2>2, <2>3
<1>5. \A d \in DOMAIN projects' : \E i \in DOMAIN Jobs(given) :
        d = Place(Jobs(given)[i]) /\ Imported(projects'[d], Jobs(given)[i])
  <2>1. CASE UNCHANGED projects
    BY <2>1 DEF GhidraIInv
  <2>2. CASE gpc = "exited" /\ (Copied(inside) \/ Copied(Partial))
    <3>1. entry \in DOMAIN Jobs(given) /\ This = Jobs(given)[entry] /\ Imported(inside, This)
      BY <2>2 DEF GhidraIInv, This
    <3>2. Imported(Partial, This)
      BY DEF Imported, Empty
    <3>3. PICK p : Imported(p, This) /\ Copied(p)
      BY <2>2, <3>1, <3>2
    <3>4. \A d \in DOMAIN projects' :
            \/ d = Place(This) /\ projects'[d] = p
            \/ d \in DOMAIN projects /\ projects'[d] = projects[d]
      BY <3>3 DEF Copied
    <3> QED
      BY <3>1, <3>3, <3>4 DEF GhidraIInv
  <2> QED
    BY <1>2, <2>1, <2>2
<1> QED
  BY <1>1, <1>4, <1>5, BeforeChoice DEF GhidraIInv

\* All jobs are done: the entries learn what the indexes say.
LEMMA PresenceStep ==
  ASSUME GhidraIInv, RecordPresence
  PROVE  GhidraIInv'
<1>1. /\ gpc = "next" /\ gpc' = "rank" /\ UNCHANGED <<given, projects, choice>>
      /\ analysed' = [i \in DOMAIN analysed |->
                        [analysed[i] EXCEPT !.index = IndexSays(analysed[i])]]
  BY DEF RecordPresence
<1>2. DOMAIN analysed = 1 .. Len(analysed) /\ Len(analysed) \in Nat
  BY LenProperties DEF GhidraIInv
<1>3. analysed' \in [1 .. Len(analysed) -> {analysed'[i] : i \in DOMAIN analysed'}]
      /\ DOMAIN analysed' = DOMAIN analysed
  BY <1>1, <1>2
<1>4. analysed' \in Seq({analysed'[i] : i \in DOMAIN analysed'})
  BY <1>2, <1>3, SeqDef
<1> DEFINE Fields == {"ok", "saved", "functions", "language", "job", "index"}
<1>5. ASSUME NEW i \in DOMAIN analysed'
      PROVE  Reported(analysed'[i], analysed'[i].job) /\ DOMAIN analysed'[i] = Fields
  <2>1. Reported(analysed[i], analysed[i].job) /\ DOMAIN analysed[i] = Fields
    BY <1>3 DEF GhidraIInv
  <2>2. /\ analysed'[i].ok = analysed[i].ok /\ analysed'[i].saved = analysed[i].saved
        /\ analysed'[i].language = analysed[i].language /\ analysed'[i].job = analysed[i].job
        /\ DOMAIN analysed'[i] = Fields
    BY <1>1, <1>3, <2>1
  <2> QED
    BY <2>1, <2>2 DEF Reported
<1>6. unverified' = <<>> /\ chosen' = 0 /\ answered' = NoProject /\ unverified' \in Seq(Usable')
  BY <1>1, EmptySeq DEF GhidraIInv, choice
<1>7. \A d \in DOMAIN projects' : \E i \in DOMAIN Jobs(given') :
        d = Place(Jobs(given')[i]) /\ Imported(projects'[d], Jobs(given')[i])
  BY <1>1 DEF GhidraIInv
<1> QED
  BY <1>1, <1>4, <1>5, <1>6, <1>7 DEF GhidraIInv

\* The choice and the calls: only usable results, and only where their program is.
LEMMA ChoiceStep ==
  ASSUME GhidraIInv, OrphanEnds \/ Unverified \/ ToolCall \/ \E i \in DOMAIN analysed : Probe(i)
  PROVE  GhidraIInv'
<1>1. /\ UNCHANGED <<given, entry, inside, found, projects, analysed>>
      /\ gpc' # gpc => gpc = "rank" /\ gpc' = "read"
  BY DEF OrphanEnds, Unverified, ToolCall, Probe, job
<1>2. Usable' = Usable /\ This' = This
  BY <1>1 DEF Usable, This
<1>3. unverified' \in Seq(Usable) /\ chosen' \in Usable \cup {0}
  <2>1. CASE Unverified
    <3>1. unverified # <<>> => unverified[1] \in Usable
      BY HeadTailProperties, LenProperties, EmptySeq, ElementOfSeq DEF GhidraIInv
    <3> QED
      BY <2>1, <3>1 DEF Unverified, GhidraIInv
  <2>2. ASSUME NEW i \in DOMAIN analysed, Probe(i)
        PROVE  unverified' \in Seq(Usable) /\ chosen' \in Usable \cup {0}
    <3>1. i \in Usable
      BY <2>2 DEF Probe, Candidates, Usable
    <3>2. Append(unverified, i) \in Seq(Usable)
      BY <3>1, AppendProperties DEF GhidraIInv
    <3> QED
      BY <2>2, <3>1, <3>2 DEF Probe, GhidraIInv
  <2> QED
    BY <2>1, <2>2 DEF OrphanEnds, ToolCall, GhidraIInv, choice
<1>4. gpc' \notin {"rank", "read"} => unverified' = <<>> /\ chosen' = 0
  BY <1>1 DEF OrphanEnds, Unverified, ToolCall, Probe, GhidraIInv, choice
<1>5. answered' # NoProject =>
        /\ gpc' = "read" /\ chosen' # 0
        /\ answered' = (At(Place(analysed[Target].job)))' /\ answered' \notin Empty
  <2>1. CASE ToolCall
    <3>0. UNCHANGED <<projects, analysed, chosen>>
      BY <1>1, <2>1 DEF ToolCall
    <3>1. Target' = Target /\ (At(Place(analysed[Target].job)))' = At(Place(analysed[Target].job))
      BY <3>0 DEF Target, At, Place
    <3>2. At(Place(analysed[Target].job)) \notin Empty
      BY <2>1 DEF ToolCall, Opens, Holds
    <3> QED
      BY <2>1, <3>1, <3>2 DEF ToolCall
  <2>2. CASE OrphanEnds
    <3>1. Target' = Target /\ (At(Place(analysed[Target].job)))' = At(Place(analysed[Target].job))
      BY <1>1, <2>2 DEF OrphanEnds, choice, Target, At, Place
    <3> QED
      BY <2>2, <3>1 DEF OrphanEnds, choice, GhidraIInv
  <2>3. CASE Unverified \/ \E i \in DOMAIN analysed : Probe(i)
    BY <2>3 DEF Unverified, Probe, GhidraIInv
  <2> QED
    BY <2>1, <2>2, <2>3
<1>6. gpc' \in {"next", "first", "second", "exited", "rank", "read", "died"}
  BY <1>1 DEF GhidraIInv
<1> QED
  BY <1>1, <1>2, <1>3, <1>4, <1>5, <1>6 DEF GhidraIInv, Imported, Reported, At

LEMMA GhidraInv == GhidraSpec => []GhidraIInv
<1>1. GhidraIInv /\ UNCHANGED ghidraJob => GhidraIInv'
  <2> SUFFICES ASSUME GhidraIInv, UNCHANGED ghidraJob PROVE GhidraIInv'
    OBVIOUS
  <2>1. /\ UNCHANGED <<given, gpc, entry, inside, found, projects, analysed>>
        /\ UNCHANGED <<unverified, chosen, answered>>
    BY DEF ghidraJob, job, choice
  <2>2. Usable' = Usable /\ This' = This /\ Target' = Target
    BY <2>1 DEF Usable, This, Target
  <2> QED
    BY <2>1, <2>2 DEF GhidraIInv, At, Imported, Reported
<1>2. GhidraIInv /\ [GhidraNext]_ghidraJob => GhidraIInv'
  BY <1>1, ContainerStep, WrapperStep, PresenceStep, ChoiceStep DEF GhidraNext
<1> QED
  BY <1>2, GhidraInitInv, PTL DEF GhidraSpec

\* Whatever calls failed, were killed or copied half a project, no call is answered
\* from another program's bytes.
THEOREM AgentReadsItsProgram == GhidraSpec => []ReadsItsProgram
<1>1. ASSUME GhidraIInv, answered # NoProject PROVE ReadsItsProgram
  <2> DEFINE e == analysed[Target]
  <2>1. Target \in Usable /\ answered = At(Place(e.job)) /\ answered \notin Empty
    BY <1>1, TargetUsable DEF GhidraIInv
  <2>2. Place(e.job) \in DOMAIN projects /\ answered = projects[Place(e.job)]
    BY <1>1, <2>1 DEF At
  <2>3. Imported(answered, e.job)
    BY <1>1, <2>2, StaysInPlace
  <2>4. Reported(e, e.job) /\ e.ok /\ e.saved
    BY <1>1, <2>1 DEF GhidraIInv, Usable
  <2> QED
    BY <2>1, <2>3, <2>4 DEF ReadsItsProgram, Imported, Reported
<1>2. GhidraIInv => ReadsItsProgram
  BY <1>1 DEF ReadsItsProgram
<1> QED
  BY <1>2, GhidraInv, PTL
=============================================================================

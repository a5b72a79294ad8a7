-------------------------- MODULE InterpretProofs --------------------------
(***************************************************************************)
(* Proofs about the interpret call, for every budget, grace, reserve and   *)
(* limit: the tool protocol stays well-formed whatever crosses in the      *)
(* pipes, a final written in time is used, and the loop ends by its        *)
(* deadlines; about the container, for every deployment: a backend is      *)
(* asked for the models it serves, and the result bills what was used; and *)
(* about the evaluation, for every corpus and number of arms: a listed     *)
(* sample can be opened, and a cell is scored on its own run.              *)
(***************************************************************************)
EXTENDS Interpret, Container, Sweep, FiniteSetTheorems, SequenceTheorems, TLAPS

\* What appending a line to a pipe does to its lines.
LEMMA Appended ==
  ASSUME NEW S, NEW s \in Seq(S), NEW e \in S
  PROVE  /\ Append(s, e) \in Seq(S) /\ Len(Append(s, e)) = Len(s) + 1
         /\ DOMAIN Append(s, e) = 1 .. Len(s) + 1 /\ DOMAIN s = 1 .. Len(s)
         /\ \A i \in 1 .. Len(s) : Append(s, e)[i] = s[i]
         /\ Append(s, e)[Len(s) + 1] = e
OBVIOUS

\* What reading the first line of a pipe leaves.
LEMMA Rest ==
  ASSUME NEW S, NEW s \in Seq(S), s # <<>>
  PROVE  /\ Head(s) \in S /\ Head(s) = s[1] /\ Len(s) > 0 /\ DOMAIN s = 1 .. Len(s)
         /\ Tail(s) \in Seq(S) /\ Len(Tail(s)) = Len(s) - 1
         /\ DOMAIN Tail(s) = 1 .. Len(s) - 1
         /\ \A i \in 1 .. Len(s) - 1 : Tail(s)[i] = s[i + 1]
OBVIOUS

\* Appending a line adds its type and no other.
LEMMA HasAppend ==
  ASSUME NEW S, NEW s \in Seq(S), NEW e \in S, NEW t
  PROVE  Has(Append(s, e), t) <=> Has(s, t) \/ e.type = t
BY Appended DEF Has

\* The types of a pipe's lines are those of the first and of the rest.
LEMMA HasRest ==
  ASSUME NEW S, NEW s \in Seq(S), s # <<>>, NEW t
  PROVE  Has(s, t) <=> Head(s).type = t \/ Has(Tail(s), t)
<1>1. ASSUME Has(s, t), Head(s).type # t PROVE Has(Tail(s), t)
  <2>1. PICK i \in 1 .. Len(s) : s[i].type = t
    BY <1>1, Rest DEF Has
  <2>2. i # 1 /\ i - 1 \in 1 .. Len(s) - 1
    BY <1>1, <2>1, Rest
  <2>3. Tail(s)[i - 1] = s[i]
    BY <2>2, Rest
  <2> QED
    BY <2>1, <2>2, <2>3, Rest DEF Has
<1>2. ASSUME Has(Tail(s), t) PROVE Has(s, t)
  <2>1. PICK i \in 1 .. Len(s) - 1 : Tail(s)[i].type = t
    BY <1>2, Rest DEF Has
  <2>2. i + 1 \in 1 .. Len(s) /\ s[i + 1].type = t
    BY <2>1, Rest
  <2> QED
    BY <2>2, Rest DEF Has
<1>3. ASSUME Head(s).type = t PROVE Has(s, t)
  BY <1>3, Rest DEF Has
<1> QED
  BY <1>1, <1>2, <1>3

\* An empty pipe has no line of any type.
LEMMA HasNone == ASSUME NEW t PROVE ~Has(<<>>, t)
BY DEF Has

\* A pipe that got two lines.
LEMMA Two ==
  ASSUME NEW S, NEW s \in Seq(S), NEW a \in S, NEW b \in S
  PROVE  s \o <<a, b>> = Append(Append(s, a), b)
OBVIOUS

\* The program starts in the invariant.
LEMMA InitIInv == Init => IInv
<1> SUFFICES ASSUME Init PROVE IInv
  OBVIOUS
<1> USE TimeAssumption, LimitAssumption
<1>1. TypeOK
  <2>1. timedOut \in BOOLEAN
    BY Zenon DEF Init
  <2>2. BrokerType
    BY <2>1 DEF Init, BrokerType
  <2>3. ClockType /\ PipeType /\ AgentType
    BY DEF Init, ClockType, PipeType, AgentType, Horizon
  <2> QED
    BY <2>2, <2>3 DEF TypeOK
<1>2. CallPlace
  BY DEF Init, CallPlace, CallFirst, Has
<1>3. CallCount
  BY DEF Init, CallCount, CountHonest, Has
<1>4. TurnKept
  BY DEF Init, TurnKept, WellFormed
<1>5. LineOrder
  BY DEF Init, LineOrder
<1>6. FinalPlace
  BY DEF Init, FinalPlace, FinalUsed, Has
<1>7. ToolClock
  BY DEF Init, ToolClock, TimeBounded
<1> QED
  BY <1>1, <1>2, <1>3, <1>4, <1>5, <1>6, <1>7 DEF IInv

\* The clock, the faults and the time of the final.
LEMMA ClockTypeNext ==
  ASSUME IInv, [Next]_vars
  PROVE  ClockType'
<1> USE TimeAssumption, LimitAssumption DEF IInv, TypeOK, ClockType
<1>1. CASE Tick
  BY <1>1 DEF Tick, Horizon, pipes, turn
<1>2. CASE RequestFinal
  BY <1>2 DEF RequestFinal, EmitFinal, broker, pipes, turn
<1>3. CASE SynthFinal
  BY <1>3 DEF SynthFinal, EmitFinal, broker, pipes, turn
<1>4. CASE SynthDies
  BY <1>4 DEF SynthDies, Fault
<1>5. CASE Die
  BY <1>5 DEF Die, Fault
<1>6. CASE Hang
  BY <1>6 DEF Hang, Fault
<1>7. CASE AuditFails
  BY <1>7 DEF AuditFails, Fault
<1>8. CASE ReadInit \/ RequestUnparsed \/ RequestTools \/ Defer \/ Refuse \/ CallTool \/ ReadResult \/
     ReadForceFinal \/ EndTurn \/ InitFails \/ InitFits \/ BudgetSpent \/ GraceOver \/ TakeEof \/
     TakeFinal \/ IgnoreCall \/ RefuseForReserve \/ RunTool \/ AnswerCall \/ AnswerFails \/ Reader \/
     UNCHANGED vars
  <2>1. UNCHANGED <<now, finalAt, faults>>
    BY <1>8, Zenon DEF ReadInit, RequestUnparsed, RequestTools, Defer, Refuse, CallTool, ReadResult,
         ReadForceFinal, EndTurn, InitFails, InitFits, BudgetSpent, GraceOver, TakeEof, TakeFinal,
         IgnoreCall, RefuseForReserve, RunTool, AnswerCall, AnswerFails, Reader, agent, vars
  <2> QED
    BY <2>1 DEF Horizon
<1> QED
  BY <1>1, <1>2, <1>3, <1>4, <1>5, <1>6, <1>7, <1>8 DEF Next, Agent, Runs, Broker

\* The lines of the protocol.
LEMMA LineType ==
  /\ Eof \in Lines
  /\ \A n \in 0 .. MaxToolCalls :
       /\ [type |-> "tool_call", call |-> n] \in Lines /\ [type |-> "final", call |-> n] \in Lines
       /\ [type |-> "result", call |-> n] \in Answers
  /\ [type |-> "force_final", call |-> 0] \in Answers
BY LimitAssumption DEF Eof, Lines, Answers

\* The two lines an agent writes at its end.
LEMMA FinalLines ==
  ASSUME IInv, EmitFinal
  PROVE  /\ stdout' = Append(Append(stdout, [type |-> "final", call |-> used]), Eof)
         /\ stdout' \in Seq(Lines)
<1>1. stdout \in Seq(Lines) /\ [type |-> "final", call |-> used] \in Lines /\ Eof \in Lines
  BY LineType DEF IInv, TypeOK, PipeType, AgentType
<1>2. stdout' = Append(Append(stdout, [type |-> "final", call |-> used]), Eof)
  BY <1>1, Two DEF EmitFinal
<1> QED
  BY <1>1, <1>2, Appended

\* What crosses in the pipes.
LEMMA PipeTypeNext ==
  ASSUME IInv, [Next]_vars
  PROVE  PipeType'
<1> USE TimeAssumption, LimitAssumption, LineType, Appended, Rest DEF IInv, TypeOK, PipeType
<1>1. CASE RequestFinal
  BY <1>1, FinalLines DEF RequestFinal
<1>2. CASE SynthFinal
  BY <1>2, FinalLines DEF SynthFinal
<1>3. CASE CallTool
  <2>1. used + 1 \in 0 .. MaxToolCalls
    BY <1>3 DEF CallTool, AgentType
  <2>2. [type |-> "tool_call", call |-> used + 1] \in Lines
    BY <2>1, LineType
  <2> QED
    BY <1>3, <2>2 DEF CallTool
<1>4. CASE ReadResult
  BY <1>4 DEF ReadResult
<1>5. CASE ReadForceFinal
  BY <1>5 DEF ReadForceFinal
<1>6. CASE SynthDies
  BY <1>6 DEF SynthDies
<1>7. CASE Die
  BY <1>7 DEF Die
<1>8. CASE BudgetSpent
  <2>1. UNCHANGED <<stdout, queue>>
    BY <1>8 DEF BudgetSpent
  <2>2. stdin' = stdin \/ stdin' = Append(stdin, [type |-> "force_final", call |-> 0])
    BY <1>8 DEF BudgetSpent, SendForceFinal
  <2>3. Append(stdin, [type |-> "force_final", call |-> 0]) \in Seq(Answers)
    <3>1. [type |-> "force_final", call |-> 0] \in Answers /\ stdin \in Seq(Answers)
      BY LineType
    <3> QED
      BY <3>1, Appended
  <2> QED
    BY <2>1, <2>2, <2>3
<1>9. CASE TakeEof \/ TakeFinal \/ AuditFails \/ IgnoreCall \/ RunTool
  <2>1. queue # <<>> /\ queue' = Tail(queue) /\ UNCHANGED <<stdin, stdout>>
    BY <1>9, Zenon DEF TakeEof, TakeFinal, AuditFails, IgnoreCall, RunTool, Line
  <2> QED
    BY <2>1
<1>10. CASE RefuseForReserve
  BY <1>10 DEF RefuseForReserve, SendForceFinal, Line
<1>11. CASE AnswerCall
  BY <1>11 DEF AnswerCall, BrokerType
<1>12. CASE Reader
  BY <1>12 DEF Reader
<1>13. CASE ReadInit \/ RequestUnparsed \/ RequestTools \/ Defer \/ Refuse \/ EndTurn \/ Hang \/
     InitFails \/ InitFits \/ GraceOver \/ AnswerFails \/ Tick \/ UNCHANGED vars
  <2>1. UNCHANGED pipes
    BY <1>13, Zenon DEF ReadInit, RequestUnparsed, RequestTools, Defer, Refuse, EndTurn, Hang,
         InitFails, InitFits, GraceOver, AnswerFails, Tick, vars
  <2> QED
    BY <2>1 DEF pipes
<1> QED
  BY <1>1, <1>2, <1>3, <1>4, <1>5, <1>6, <1>7, <1>8, <1>9, <1>10, <1>11, <1>12, <1>13
     DEF Next, Agent, Runs, Broker

\* The broker's variables.
LEMMA BrokerTypeNext ==
  ASSUME IInv, [Next]_vars
  PROVE  BrokerType'
<1> USE TimeAssumption, LimitAssumption DEF IInv, TypeOK, BrokerType
<1>1. CASE ReadInit
  BY <1>1 DEF ReadInit
<1>2. CASE InitFits
  BY <1>2 DEF InitFits
<1>3. CASE InitFails
  BY <1>3 DEF InitFails
<1>4. CASE BudgetSpent
  BY <1>4 DEF BudgetSpent, SendForceFinal
<1>5. CASE GraceOver \/ TakeEof \/ TakeFinal \/ AuditFails \/ AnswerFails
  BY <1>5 DEF GraceOver, TakeEof, TakeFinal, AuditFails, AnswerFails, Return
<1>6. CASE RefuseForReserve
  BY <1>6 DEF RefuseForReserve, SendForceFinal
<1>7. CASE RunTool
  <2>1. queue # <<>> /\ queue \in Seq(Lines) /\ toolCall' = Head(queue).call
    BY <1>7 DEF RunTool, Line, PipeType
  <2>2. Head(queue) \in Lines
    BY <2>1, Rest
  <2>3. toolCall' \in 0 .. MaxToolCalls
    BY <2>1, <2>2 DEF Lines
  <2> QED
    BY <1>7, <2>3 DEF RunTool
<1>8. CASE AnswerCall
  <2>1. answered' = used /\ used \in 0 .. MaxToolCalls
    BY <1>8 DEF AnswerCall, CallCount, AgentType
  <2> QED
    BY <1>8, <2>1 DEF AnswerCall
<1>9. CASE Tick
  BY <1>9 DEF Tick
<1>10. CASE RequestFinal \/ RequestUnparsed \/ RequestTools \/ Defer \/ Refuse \/ CallTool \/ ReadResult \/
     ReadForceFinal \/ EndTurn \/ SynthFinal \/ SynthDies \/ Die \/ Hang \/ IgnoreCall \/ Reader \/
     UNCHANGED vars
  <2>1. UNCHANGED broker
    BY <1>10, Zenon DEF RequestFinal, RequestUnparsed, RequestTools, Defer, Refuse, CallTool, ReadResult,
         ReadForceFinal, EndTurn, SynthFinal, SynthDies, Die, Hang, IgnoreCall, Reader, vars
  <2> QED
    BY <2>1 DEF broker
<1> QED
  BY <1>1, <1>2, <1>3, <1>4, <1>5, <1>6, <1>7, <1>8, <1>9, <1>10 DEF Next, Agent, Runs, Broker

\* A turn that force_final closes has one result for every block.
LEMMA ClosedType ==
  ASSUME AgentType
  PROVE  /\ Closed \in Seq(Results) /\ Len(Closed) = blocks
         /\ \A i \in 1 .. Len(results) : Closed[i] = results[i]
         /\ \A i \in Len(results) + 1 .. blocks : Closed[i] = [block |-> i, asked |-> 0, got |-> 0]
<1> DEFINE n == blocks - Len(results)
           rest == [i \in 1 .. n |-> [block |-> Len(results) + i, asked |-> 0, got |-> 0]]
<1>1. results \in Seq(Results) /\ Len(results) \in Nat /\ n \in Nat /\ blocks \in 0 .. MaxBlocks
  BY LimitAssumption DEF AgentType
<1>2. ASSUME NEW i \in 1 .. n PROVE rest[i] \in Results
  <2>1. Len(results) + i \in 1 .. MaxBlocks /\ 0 \in 0 .. MaxToolCalls
    BY <1>1, LimitAssumption
  <2> QED
    BY <2>1 DEF Results
<1>3. rest \in Seq(Results) /\ Len(rest) = n
  <2>1. rest \in [1 .. n -> Results]
    BY <1>2
  <2> HIDE DEF rest
  <2>2. n \in Nat
    BY <1>1
  <2> HIDE DEF n
  <2> QED
    BY <2>1, <2>2
<1>4. Closed = results \o rest
  BY DEF Closed
<1> HIDE DEF rest
<1>5. Closed \in Seq(Results) /\ Len(Closed) = blocks
  BY <1>1, <1>3, <1>4
<1>6. \A i \in 1 .. Len(results) : Closed[i] = results[i]
  BY <1>1, <1>3, <1>4
<1>7. \A i \in Len(results) + 1 .. blocks : Closed[i] = rest[i - Len(results)]
  BY <1>1, <1>3, <1>4
<1>8. \A i \in Len(results) + 1 .. blocks : rest[i - Len(results)] = [block |-> i, asked |-> 0, got |-> 0]
  BY <1>1 DEF rest
<1> QED
  BY <1>5, <1>6, <1>7, <1>8

\* The result of the block under work.
LEMMA OwnResult ==
  ASSUME AgentType, Block <= blocks,
         NEW asked \in 0 .. MaxToolCalls, NEW got \in 0 .. MaxToolCalls
  PROVE  /\ Result(asked, got) \in Results /\ Block = Len(results) + 1
         /\ Append(results, Result(asked, got)) \in Seq(Results)
         /\ Len(Append(results, Result(asked, got))) = Block
         /\ \A i \in 1 .. Len(results) : Append(results, Result(asked, got))[i] = results[i]
         /\ Append(results, Result(asked, got))[Block] = [block |-> Block, asked |-> asked, got |-> got]
<1>1. results \in Seq(Results) /\ Block = Len(results) + 1 /\ Block \in 1 .. MaxBlocks
  BY LimitAssumption DEF AgentType, Block
<1>2. Result(asked, got) = [block |-> Block, asked |-> asked, got |-> got]
  BY DEF Result
<1>3. Result(asked, got) \in Results
  BY <1>1, <1>2 DEF Results
<1> QED
  BY <1>1, <1>2, <1>3, Appended

\* A line of the pipe to the agent that names a call.
LEMMA AnswerType ==
  ASSUME IInv, stdin # <<>>
  PROVE  Head(stdin).call \in 0 .. MaxToolCalls /\ Head(stdin).type \in {"result", "force_final"}
<1>1. Head(stdin) \in Answers
  BY Rest DEF IInv, TypeOK, PipeType
<1> QED
  BY <1>1 DEF Answers

\* The agent's variables.
LEMMA AgentTypeNext ==
  ASSUME IInv, [Next]_vars
  PROVE  AgentType'
<1> USE TimeAssumption, LimitAssumption DEF IInv, TypeOK
<1>1. CASE ReadInit
  BY <1>1 DEF ReadInit, Ask, AgentType, turn, Gone
<1>2. CASE RequestFinal
  BY <1>2 DEF RequestFinal, EmitFinal, AgentType, turn, Gone
<1>3. CASE RequestUnparsed
  BY <1>3 DEF RequestUnparsed, AgentType, Gone
<1>4. CASE RequestTools
  BY <1>4 DEF RequestTools, AgentType, Gone
<1>5. CASE Defer
  <2>1. results' \in Seq(Results) /\ Len(results') <= blocks
    <3>1. Block <= blocks /\ results' = Append(results, Result(0, 0)) /\ 0 \in 0 .. MaxToolCalls
      BY <1>5 DEF Defer
    <3> QED
      BY <3>1, OwnResult
  <2> QED
    BY <1>5, <2>1 DEF Defer, AgentType, Gone
<1>6. CASE Refuse
  <2>1. results' \in Seq(Results) /\ Len(results') <= blocks
    <3>1. Block <= blocks /\ results' = Append(results, Result(0, 0)) /\ 0 \in 0 .. MaxToolCalls
      BY <1>6 DEF Refuse
    <3> QED
      BY <3>1, OwnResult
  <2> QED
    BY <1>6, <2>1 DEF Refuse, AgentType, Gone
<1>7. CASE CallTool
  BY <1>7 DEF CallTool, AgentType, Gone
<1>8. CASE ReadResult
  <2>1. Block <= blocks /\ used \in 0 .. MaxToolCalls
    BY <1>8 DEF ReadResult, TurnKept, AgentType, Block
  <2>2. results' \in Seq(Results) /\ Len(results') <= blocks
    BY <1>8, <2>1, OwnResult, AnswerType DEF ReadResult, AgentType
  <2> QED
    BY <1>8, <2>2 DEF ReadResult, AgentType, Gone
<1>9. CASE ReadForceFinal
  <2>1. results' \in Seq(Results) /\ Len(results') <= blocks
    BY <1>9, ClosedType DEF ReadForceFinal, AgentType
  <2> QED
    BY <1>9, <2>1 DEF ReadForceFinal, AgentType, Gone
<1>10. CASE EndTurn
  BY <1>10 DEF EndTurn, Ask, AgentType, turn, Gone
<1>11. CASE SynthFinal
  BY <1>11 DEF SynthFinal, EmitFinal, AgentType, turn, Gone
<1>12. CASE SynthDies \/ Die \/ Hang
  <2>1. apc' \in {"exited", "killed", "hung"} /\ UNCHANGED <<left, synth, used, turn>>
    BY <1>12, Zenon DEF SynthDies, Die, Hang
  <2> QED
    BY <2>1 DEF AgentType, turn, Gone
<1>13. CASE GraceOver \/ TakeEof \/ TakeFinal \/ AuditFails \/ AnswerFails
  <2>1. (apc' = apc \/ apc' = "killed") /\ UNCHANGED <<left, synth, used, turn>>
    BY <1>13, Zenon DEF GraceOver, TakeEof, TakeFinal, AuditFails, AnswerFails, Return
  <2> QED
    BY <2>1 DEF AgentType, turn, Gone
<1>14. CASE Tick
  BY <1>14 DEF Tick, AgentType, turn, Gone
<1>15. CASE InitFails \/ InitFits \/ BudgetSpent \/ IgnoreCall \/ RefuseForReserve \/ RunTool \/ AnswerCall \/
     Reader \/ UNCHANGED vars
  <2>1. UNCHANGED <<apc, left, synth, used, turn>>
    BY <1>15, Zenon DEF InitFails, InitFits, BudgetSpent, IgnoreCall, RefuseForReserve, RunTool,
         AnswerCall, Reader, agent, vars
  <2> QED
    BY <2>1 DEF AgentType, turn
<1> QED
  BY <1>1, <1>2, <1>3, <1>4, <1>5, <1>6, <1>7, <1>8, <1>9, <1>10, <1>11, <1>12, <1>13, <1>14, <1>15
     DEF Next, Agent, Runs, Broker

\* A pipe none of whose lines is of a type any line has is empty.
LEMMA NoLines ==
  ASSUME IInv
  PROVE  /\ apc \notin Gone /\ ~Has(stdout, "tool_call") => stdout = <<>>
         /\ apc \notin Gone /\ ~Has(queue, "tool_call") => queue = <<>>
         /\ ~Has(stdin, "result") /\ ~Has(stdin, "force_final") => stdin = <<>>
<1>1. stdout \in Seq(Lines) /\ queue \in Seq(Lines) /\ stdin \in Seq(Answers)
  BY DEF IInv, TypeOK, PipeType
<1>2. \A a \in Answers : a.type = "result" \/ a.type = "force_final"
  BY DEF Answers
<1>3. stdin # <<>> => Has(stdin, "result") \/ Has(stdin, "force_final")
  BY <1>1, <1>2, Rest DEF Has
<1>4. apc \notin Gone /\ stdout # <<>> => Has(stdout, "tool_call")
  BY <1>1, Rest DEF Has, IInv, LineOrder
<1>5. apc \notin Gone /\ queue # <<>> => Has(queue, "tool_call")
  BY <1>1, Rest DEF Has, IInv, LineOrder
<1> QED
  BY <1>3, <1>4, <1>5

\* A line that is no call leaves the calls of a pipe as they are.
LEMMA NoCallAdded ==
  ASSUME NEW S, NEW s \in Seq(S), NEW e \in S, e.type # "tool_call"
  PROVE  /\ CallFirst(s) => CallFirst(Append(s, e))
         /\ Has(Append(s, e), "tool_call") <=> Has(s, "tool_call")
BY Appended, HasAppend DEF CallFirst

\* The final and the eof leave the calls of stdout as they are.
LEMMA NoCallFinal ==
  ASSUME IInv, EmitFinal
  PROVE  /\ CallFirst(stdout) => CallFirst(stdout')
         /\ Has(stdout', "tool_call") <=> Has(stdout, "tool_call")
<1> DEFINE final == [type |-> "final", call |-> used]
<1>1. stdout \in Seq(Lines) /\ final \in Lines /\ Eof \in Lines
  BY LineType DEF IInv, TypeOK, PipeType, AgentType
<1>2. final.type # "tool_call" /\ Eof.type # "tool_call"
  BY DEF Eof
<1>3. stdout' = Append(Append(stdout, final), Eof)
  BY FinalLines
<1>4. Append(stdout, final) \in Seq(Lines)
  BY <1>1, Appended
<1> HIDE DEF final
<1> QED
  BY <1>1, <1>2, <1>3, <1>4, NoCallAdded

\* Where the call under way is.
LEMMA CallPlaceNext ==
  ASSUME IInv, [Next]_vars
  PROVE  CallPlace'
<1>0. /\ CallPlace /\ stdout \in Seq(Lines) /\ queue \in Seq(Lines) /\ stdin \in Seq(Answers)
      /\ used \in 0 .. MaxToolCalls
  BY DEF IInv, TypeOK, PipeType, AgentType
<1>a. /\ stdout # <<>> => /\ CallFirst(Tail(stdout)) /\ ~Has(Tail(stdout), "tool_call")
                          /\ Has(stdout, "tool_call") => Head(stdout).type = "tool_call"
      /\ queue # <<>> => CallFirst(Tail(queue)) /\ ~Has(Tail(queue), "tool_call")
  BY <1>0, Rest DEF CallPlace, CallFirst, Has
<1>b. stdin # <<>> => ~Has(Tail(stdin), "result")
  BY <1>0, Rest DEF CallPlace, Has
<1>1. CASE ReadInit
  BY <1>0, <1>1 DEF ReadInit, Ask, CallPlace, CallFirst, Asking, pipes, Has
<1>2. CASE RequestFinal
  BY <1>0, <1>2, FinalLines DEF RequestFinal, EmitFinal, CallPlace, CallFirst, Asking, broker, Has, Eof
<1>3. CASE RequestUnparsed \/ RequestTools \/ Defer \/ Refuse \/ EndTurn
  <2>1. Asking /\ UNCHANGED <<broker, pipes, used>>
    BY <1>3 DEF RequestUnparsed, RequestTools, Defer, Refuse, EndTurn, Asking
  <2> QED
    BY <1>0, <2>1 DEF CallPlace, CallFirst, Asking, broker, pipes, Has
<1>4. CASE CallTool
  BY <1>0, <1>4, Appended DEF CallTool, CallPlace, CallFirst, Asking, broker, Has
<1>5. CASE ReadResult
  BY <1>0, <1>b, <1>5, NoLines, Rest DEF ReadResult, CallPlace, CallFirst, Asking, broker, Has, Gone
<1>6. CASE ReadForceFinal
  BY <1>0, <1>b, <1>6, Rest DEF ReadForceFinal, CallPlace, CallFirst, Asking, broker, Has
<1>7. CASE SynthFinal
  <2>1. apc' = "exited" /\ UNCHANGED <<broker, stdin, queue, used>> /\ EmitFinal
    BY <1>7 DEF SynthFinal, EmitFinal
  <2>2. CallFirst(stdout') /\ (Has(stdout', "tool_call") <=> Has(stdout, "tool_call"))
    BY <1>0, <2>1, NoCallFinal DEF CallPlace
  <2> QED
    BY <1>0, <2>1, <2>2 DEF CallPlace, CallFirst, Asking, broker, Has
<1>8. CASE SynthDies \/ Die
  <2>1. /\ apc' \in Gone /\ UNCHANGED <<broker, stdin, queue, used>>
        /\ stdout' = Append(stdout, Eof)
    BY <1>8 DEF SynthDies, Die, Gone
  <2>2. CallFirst(stdout') /\ (Has(stdout', "tool_call") <=> Has(stdout, "tool_call"))
    BY <1>0, <2>1, NoCallAdded, LineType DEF CallPlace, Eof
  <2> QED
    BY <1>0, <2>1, <2>2 DEF CallPlace, CallFirst, Asking, broker, Has, Gone
<1>9. CASE Hang
  BY <1>0, <1>9 DEF Hang, CallPlace, CallFirst, Asking, broker, pipes, Has
<1>10. CASE InitFails \/ InitFits
  BY <1>0, <1>10 DEF InitFails, InitFits, CallPlace, CallFirst, Asking, agent, pipes, Has, Gone
<1>11. CASE BudgetSpent
  <2>1. /\ bpc = "loop" /\ forced' # "no"
        /\ UNCHANGED <<bpc, toolCall, stdout, queue, apc, used>>
    BY <1>11 DEF BudgetSpent, BudgetDue, SendForceFinal, agent
  <2>2. stdin' = stdin \/ stdin' = Append(stdin, [type |-> "force_final", call |-> 0])
    BY <1>11 DEF BudgetSpent, SendForceFinal
  <2>3. CASE stdin' = stdin
    BY <1>0, <2>1, <2>3 DEF CallPlace, CallFirst, Asking, Has
  <2>4. CASE stdin' = Append(stdin, [type |-> "force_final", call |-> 0])
    BY <1>0, <2>1, <2>4, Appended, LineType DEF CallPlace, CallFirst, Asking, Has
  <2> QED
    BY <2>2, <2>3, <2>4
<1>12. CASE GraceOver \/ TakeEof \/ TakeFinal \/ AuditFails \/ AnswerFails
  <2>1. /\ bpc' = "done" /\ apc' \in Gone
        /\ UNCHANGED <<forced, timedOut, toolCall, stdin, stdout, used>>
        /\ queue' = queue \/ (queue # <<>> /\ queue' = Tail(queue))
    BY <1>12 DEF GraceOver, TakeEof, TakeFinal, AuditFails, AnswerFails, Return, Line, Gone, pipes
  <2>2. CallFirst(queue)' /\ (Has(queue', "tool_call") => Has(queue, "tool_call"))
    <3>1. CASE queue' = queue
      BY <1>0, <2>1, <3>1 DEF CallPlace, CallFirst
    <3>2. CASE queue # <<>> /\ queue' = Tail(queue)
      BY <1>a, <2>1, <3>2 DEF CallFirst
    <3> QED
      BY <2>1, <3>1, <3>2
  <2>3. Has(stdout', "tool_call") => queue' = <<>>
    BY <1>0, <2>1 DEF CallPlace
  <2> QED
    BY <1>0, <2>1, <2>2, <2>3 DEF CallPlace, CallFirst, Asking, Has, Gone
<1>13. CASE IgnoreCall
  BY <1>0, <1>a, <1>13 DEF IgnoreCall, Line, CallPlace, CallFirst, Asking, broker, agent, Has
<1>14. CASE RefuseForReserve
  BY <1>0, <1>a, <1>14, Appended, LineType DEF RefuseForReserve, SendForceFinal, Line, CallPlace, CallFirst, Asking, agent, Has
<1>15. CASE RunTool
  BY <1>0, <1>a, <1>15, Rest DEF RunTool, Line, CallPlace, CallFirst, Asking, agent, Has
<1>16. CASE AnswerCall
  BY <1>0, <1>16, NoLines, Appended, LineType DEF AnswerCall, CallPlace, CallFirst, Asking, agent, Has
<1>17. CASE Reader
  BY <1>0, <1>a, <1>17, Appended, Rest DEF Reader, CallPlace, CallFirst, Asking, agent, broker, Has
<1>18. CASE Tick \/ UNCHANGED vars
  BY <1>0, <1>18 DEF Tick, vars, CallPlace, CallFirst, Asking, agent, broker, pipes, turn, Has
<1> QED
  BY <1>1, <1>2, <1>3, <1>4, <1>5, <1>6, <1>7, <1>8, <1>9, <1>10, <1>11, <1>12, <1>13, <1>14, <1>15,
     <1>16, <1>17, <1>18 DEF Next, Agent, Runs, Broker

\* The calls counted by the agent and those answered by the broker.
LEMMA CallCountNext ==
  ASSUME IInv, [Next]_vars
  PROVE  CallCount'
<1>0. /\ CallPlace /\ CallCount /\ CountHonest /\ CallPlace'
      /\ stdout \in Seq(Lines) /\ queue \in Seq(Lines) /\ stdin \in Seq(Answers)
      /\ used \in Nat /\ answered \in Nat
  BY CallPlaceNext DEF IInv, TypeOK, PipeType, AgentType, BrokerType, CallCount
<1>1. CASE ReadInit
  BY <1>0, <1>1 DEF ReadInit, Ask, CallPlace, CallCount, CountHonest, Asking, pipes, Has
<1>2. CASE RequestFinal \/ SynthFinal
  <2>1. EmitFinal /\ apc' = "exited" /\ UNCHANGED <<broker, stdin, queue, used>>
    BY <1>2 DEF RequestFinal, SynthFinal, EmitFinal
  <2> QED
    BY <1>0, <2>1, NoCallFinal DEF CallCount, CountHonest, Asking, broker, Has
<1>3. CASE RequestUnparsed \/ RequestTools \/ Defer \/ Refuse \/ EndTurn
  <2>1. Asking /\ UNCHANGED <<broker, pipes, used>>
    BY <1>3 DEF RequestUnparsed, RequestTools, Defer, Refuse, EndTurn, Asking
  <2> QED
    BY <1>0, <2>1 DEF CallCount, CountHonest, broker, pipes, Has
<1>4. CASE CallTool
  BY <1>0, <1>4 DEF CallTool, CallPlace, CallCount, CountHonest, Asking, broker, Has
<1>5. CASE ReadResult
  <2>1. Has(stdin, "result") /\ UNCHANGED <<broker, stdout, queue, used>>
    BY <1>0, <1>5, Rest DEF ReadResult, Has
  <2> QED
    BY <1>0, <2>1 DEF CallPlace, CallCount, CountHonest, broker, Has
<1>6. CASE ReadForceFinal
  <2>1. /\ apc' = "synth" /\ stdin # <<>> /\ stdin' = Tail(stdin)
        /\ UNCHANGED <<broker, stdout, queue, used>>
    BY <1>6 DEF ReadForceFinal
  <2>2. Has(stdin', "result") => Has(stdin, "result")
    BY <1>0, <2>1, HasRest
  <2> QED
    BY <1>0, <2>1, <2>2 DEF CallCount, CountHonest, Asking, broker, Has
<1>7. CASE SynthDies \/ Die
  <2>1. /\ apc' \in Gone /\ UNCHANGED <<broker, stdin, queue, used>>
        /\ stdout' = Append(stdout, Eof)
    BY <1>7 DEF SynthDies, Die, Gone
  <2>2. Has(stdout', "tool_call") <=> Has(stdout, "tool_call")
    BY <1>0, <2>1, NoCallAdded, LineType DEF Eof
  <2> QED
    BY <1>0, <2>1, <2>2 DEF CallCount, CountHonest, Asking, broker, Has, Gone
<1>8. CASE BudgetSpent \/ RefuseForReserve
  <2>1. /\ UNCHANGED <<bpc, answered, stdout, apc, used>>
        /\ stdin' = stdin \/ stdin' = Append(stdin, [type |-> "force_final", call |-> 0])
        /\ queue' = queue \/ (queue # <<>> /\ queue' = Tail(queue))
    BY <1>8 DEF BudgetSpent, RefuseForReserve, Line, SendForceFinal, agent
  <2>2. Has(stdin', "result") => Has(stdin, "result")
    <3> DEFINE force == [type |-> "force_final", call |-> 0]
    <3>1. force \in Answers /\ force.type # "result"
      BY LineType
    <3> HIDE DEF force
    <3> QED
      BY <1>0, <2>1, <3>1, HasAppend DEF force
  <2>3. Has(queue', "tool_call") => Has(queue, "tool_call")
    BY <1>0, <2>1, HasRest
  <2> QED
    BY <1>0, <2>1, <2>2, <2>3 DEF CallCount, CountHonest, Asking, Has
<1>9. CASE GraceOver \/ TakeEof \/ TakeFinal \/ AuditFails \/ AnswerFails \/ IgnoreCall
  <2>1. /\ apc' = apc \/ apc' \in Gone
        /\ bpc' = bpc \/ bpc' = "done"
        /\ UNCHANGED <<answered, stdin, stdout, used>>
        /\ queue' = queue \/ (queue # <<>> /\ queue' = Tail(queue))
    BY <1>9 DEF GraceOver, TakeEof, TakeFinal, AuditFails, AnswerFails, IgnoreCall, Return, Line, Gone,
       pipes, broker, agent
  <2>2. Has(queue', "tool_call") => Has(queue, "tool_call")
    BY <1>0, <2>1, HasRest
  <2> QED
    BY <1>0, <2>1, <2>2 DEF CallCount, CountHonest, Asking, Has, Gone
<1>10. CASE RunTool
  <2>1. /\ Has(queue, "tool_call") /\ queue # <<>> /\ queue' = Tail(queue)
        /\ UNCHANGED <<answered, stdin, stdout, apc, used>>
    BY <1>0, <1>10, Rest DEF RunTool, Line, Has, agent
  <2> QED
    BY <1>0, <2>1 DEF CallPlace, CallCount, CountHonest, Asking, Has
<1>11. CASE AnswerCall
  <2>1. bpc = "tool" /\ answered' = answered + 1 /\ bpc' = "loop" /\ UNCHANGED <<stdout, queue, apc, used>>
    BY <1>11 DEF AnswerCall, agent
  <2> QED
    BY <1>0, <2>1 DEF CallPlace, CallCount, CountHonest, Asking, Has
<1>12. CASE Reader
  <2>1. /\ stdout # <<>> /\ queue' = Append(queue, Head(stdout)) /\ stdout' = Tail(stdout)
        /\ UNCHANGED <<broker, stdin, apc, used>>
    BY <1>12 DEF Reader, agent
  <2>2. Has(stdout', "tool_call") \/ Has(queue', "tool_call") =>
          Has(stdout, "tool_call") \/ Has(queue, "tool_call")
    <3>1. Head(stdout) \in Lines
      BY <1>0, <2>1, Rest
    <3>2. Has(queue', "tool_call") <=> Has(queue, "tool_call") \/ Head(stdout).type = "tool_call"
      BY <1>0, <2>1, <3>1, HasAppend
    <3>3. Has(stdout, "tool_call") <=> Head(stdout).type = "tool_call" \/ Has(stdout', "tool_call")
      BY <1>0, <2>1, HasRest
    <3> QED
      BY <3>2, <3>3
  <2> QED
    BY <1>0, <2>1, <2>2 DEF CallCount, CountHonest, Asking, broker, Has
<1>13. CASE Hang \/ InitFails \/ InitFits \/ Tick \/ UNCHANGED vars
  <2>1. /\ UNCHANGED <<answered, pipes, used>>
        /\ apc' = apc \/ apc' = "hung"
        /\ bpc' = bpc \/ bpc' \in {"done", "loop"}
    BY <1>13 DEF Hang, InitFails, InitFits, Tick, vars, broker, agent
  <2> QED
    BY <1>0, <2>1 DEF CallCount, CountHonest, Asking, pipes, Has
<1> QED
  BY <1>1, <1>2, <1>3, <1>4, <1>5, <1>6, <1>7, <1>8, <1>9, <1>10, <1>11, <1>12, <1>13
     DEF Next, Agent, Runs, Broker

\* A result that answers its own call keeps the turn well-formed.
LEMMA GoodResult ==
  ASSUME AgentType, WellFormed, Block <= blocks, NEW asked \in 0 .. MaxToolCalls,
         results' = Append(results, Result(asked, asked))
  PROVE  /\ Len(results') = Len(results) + 1
         /\ \A i \in 1 .. Len(results') : results'[i].block = i /\ results'[i].got = results'[i].asked
<1>1. /\ Block = Len(results) + 1 /\ Len(results') = Block /\ Len(results) \in Nat
      /\ \A i \in 1 .. Len(results) : results'[i] = results[i]
      /\ results'[Block] = [block |-> Block, asked |-> asked, got |-> asked]
  BY OwnResult DEF AgentType
<1>2. \A i \in 1 .. Len(results) : results[i].block = i /\ results[i].got = results[i].asked
  BY DEF WellFormed
<1>3. ASSUME NEW i \in 1 .. Len(results')
      PROVE  results'[i].block = i /\ results'[i].got = results'[i].asked
  <2>1. CASE i = Block
    BY <1>1, <2>1
  <2>2. CASE i # Block
    <3>1. i \in 1 .. Len(results)
      BY <1>1, <1>3, <2>2
    <3> QED
      BY <1>1, <1>2, <3>1
  <2> QED
    BY <2>1, <2>2
<1> QED
  BY <1>1, <1>3

\* The results of the turn under work.
LEMMA TurnKeptNext ==
  ASSUME IInv, [Next]_vars
  PROVE  TurnKept'
<1>0. /\ AgentType /\ TurnKept /\ WellFormed
      /\ results \in Seq(Results) /\ blocks \in Nat /\ Len(results) <= blocks /\ Len(results) \in Nat
      /\ 0 \in 0 .. MaxToolCalls /\ used \in 0 .. MaxToolCalls
  BY LimitAssumption DEF IInv, TypeOK, AgentType, TurnKept
<1>1. CASE ReadInit
  BY <1>0, <1>1 DEF ReadInit, Ask, TurnKept, WellFormed, turn
<1>2. CASE RequestUnparsed \/ RequestTools
  BY <1>0, <1>2 DEF RequestUnparsed, RequestTools, TurnKept, WellFormed
<1>3. CASE Defer \/ Refuse
  <2>1. /\ apc' = "turn" /\ Block <= blocks /\ blocks' = blocks
        /\ results' = Append(results, Result(0, 0))
    BY <1>3 DEF Defer, Refuse
  <2>2. \A i \in 1 .. Len(results') : results'[i].block = i /\ results'[i].got = results'[i].asked
    BY <1>0, <2>1, GoodResult
  <2> QED
    BY <2>1, <2>2 DEF TurnKept, WellFormed
<1>4. CASE CallTool
  BY <1>0, <1>4 DEF CallTool, Block, TurnKept, WellFormed
<1>5. CASE ReadResult
  <2>1. /\ apc' = "turn" /\ blocks' = blocks /\ Block <= blocks
        /\ stdin # <<>> /\ Head(stdin).type = "result"
        /\ results' = Append(results, Result(used, Head(stdin).call))
    BY <1>0, <1>5 DEF ReadResult, Block, TurnKept
  <2>2. Head(stdin).call = used
    BY <2>1, Rest DEF IInv, TypeOK, PipeType, CallPlace
  <2>3. results' = Append(results, Result(used, used))
    BY <2>1, <2>2
  <2>4. \A i \in 1 .. Len(results') : results'[i].block = i /\ results'[i].got = results'[i].asked
    BY <1>0, <2>1, <2>3, GoodResult
  <2> QED
    BY <2>1, <2>4 DEF TurnKept, WellFormed
<1>6. CASE ReadForceFinal
  <2>1. apc' = "synth" /\ blocks' = blocks /\ results' = Closed
    BY <1>6 DEF ReadForceFinal
  <2>2. /\ Len(results') = blocks
        /\ \A i \in 1 .. Len(results) : results'[i] = results[i]
        /\ \A i \in Len(results) + 1 .. blocks : results'[i] = [block |-> i, asked |-> 0, got |-> 0]
    BY <1>0, <2>1, ClosedType
  <2>3. \A i \in 1 .. Len(results) : results[i].block = i /\ results[i].got = results[i].asked
    BY <1>0 DEF WellFormed
  <2>4. ASSUME NEW i \in 1 .. Len(results')
        PROVE  results'[i].block = i /\ results'[i].got = results'[i].asked
    <3>1. i \in 1 .. Len(results) \/ i \in Len(results) + 1 .. blocks
      BY <1>0, <2>2, <2>4
    <3>2. CASE i \in 1 .. Len(results)
      BY <2>2, <2>3, <3>2
    <3>3. CASE i \in Len(results) + 1 .. blocks
      <4>1. results'[i] = [block |-> i, asked |-> 0, got |-> 0]
        BY <2>2, <3>3
      <4> QED
        BY <4>1
    <3> QED
      BY <3>1, <3>2, <3>3
  <2> QED
    BY <2>1, <2>2, <2>4 DEF TurnKept, WellFormed
<1>7. CASE EndTurn
  BY <1>0, <1>7 DEF EndTurn, Ask, Block, TurnKept, WellFormed, turn
<1>8. CASE RequestFinal \/ SynthFinal \/ SynthDies \/ Die \/ Hang \/ GraceOver \/ TakeEof \/ TakeFinal \/
     AuditFails \/ AnswerFails
  <2>1. apc' \in {"exited", "killed", "hung"} /\ UNCHANGED turn
    BY <1>8 DEF RequestFinal, SynthFinal, EmitFinal, SynthDies, Die, Hang, GraceOver, TakeEof, TakeFinal,
       AuditFails, AnswerFails, Return, Gone
  <2> QED
    BY <1>0, <2>1 DEF TurnKept, WellFormed, turn
<1>9. CASE InitFails \/ InitFits \/ BudgetSpent \/ IgnoreCall \/ RefuseForReserve \/ RunTool \/ AnswerCall \/
     Reader \/ Tick \/ UNCHANGED vars
  <2>1. UNCHANGED <<apc, turn>>
    BY <1>9, Zenon DEF InitFails, InitFits, BudgetSpent, IgnoreCall, RefuseForReserve, RunTool,
         AnswerCall, Reader, Tick, agent, vars
  <2> QED
    BY <1>0, <2>1 DEF TurnKept, WellFormed, turn
<1> QED
  BY <1>1, <1>2, <1>3, <1>4, <1>5, <1>6, <1>7, <1>8, <1>9 DEF Next, Agent, Runs, Broker

\* Only a program that ended writes eof, and nothing after it.
LEMMA LineOrderNext ==
  ASSUME IInv, [Next]_vars
  PROVE  LineOrder'
<1>0. LineOrder /\ stdout \in Seq(Lines) /\ queue \in Seq(Lines)
  BY DEF IInv, TypeOK, PipeType
<1>1. CASE RequestFinal \/ SynthFinal
  <2> DEFINE final == [type |-> "final", call |-> used]
             some == Append(stdout, final)
  <2>1. apc \notin Gone /\ apc' \in Gone /\ queue' = queue /\ stdout' = Append(some, Eof)
    BY <1>1, FinalLines DEF RequestFinal, SynthFinal, EmitFinal, Gone
  <2>2. final \in Lines /\ Eof \in Lines /\ final.type = "final"
    BY LineType DEF IInv, TypeOK, AgentType
  <2>3. /\ \A i \in DOMAIN stdout : stdout[i].type = "tool_call"
        /\ \A i \in DOMAIN queue : queue[i].type = "tool_call"
    BY <1>0, <2>1 DEF LineOrder
  <2> HIDE DEF final
  <2>4. some \in Seq(Lines) /\ \A i \in DOMAIN some : some[i].type # "eof"
    BY <1>0, <2>2, <2>3, Appended
  <2> HIDE DEF some
  <2>5. \A i \in DOMAIN stdout' : stdout'[i].type = "eof" => i = Len(stdout')
    BY <2>1, <2>2, <2>4, Appended
  <2> QED
    BY <2>1, <2>3, <2>5 DEF LineOrder
<1>2. CASE SynthDies \/ Die
  <2>1. apc \notin Gone /\ apc' \in Gone /\ queue' = queue /\ stdout' = Append(stdout, Eof)
    BY <1>2 DEF SynthDies, Die, Gone
  <2>2. /\ \A i \in DOMAIN stdout : stdout[i].type = "tool_call"
        /\ \A i \in DOMAIN queue : queue[i].type = "tool_call"
    BY <1>0, <2>1 DEF LineOrder
  <2>3. \A i \in DOMAIN stdout' : stdout'[i].type = "eof" => i = Len(stdout')
    BY <1>0, <2>1, <2>2, Appended, LineType
  <2> QED
    BY <2>1, <2>2, <2>3 DEF LineOrder
<1>3. CASE CallTool
  <2>1. /\ apc \notin Gone /\ stdout = <<>> /\ queue = <<>> /\ queue' = queue
        /\ stdout' = <<[type |-> "tool_call", call |-> used + 1]>>
    BY <1>3 DEF CallTool, IInv, CallPlace, Asking, Gone
  <2> QED
    BY <2>1 DEF LineOrder
<1>4. CASE GraceOver \/ TakeEof \/ TakeFinal \/ AuditFails \/ AnswerFails \/ IgnoreCall \/ RefuseForReserve \/
     RunTool
  <2>1. /\ apc' = apc \/ apc' \in Gone
        /\ stdout' = stdout
        /\ queue' = queue \/ (queue # <<>> /\ queue' = Tail(queue))
    BY <1>4 DEF GraceOver, TakeEof, TakeFinal, AuditFails, AnswerFails, IgnoreCall, RefuseForReserve,
       RunTool, Return, Line, Gone, pipes, agent
  <2>2. CASE queue' = queue
    BY <1>0, <2>1, <2>2 DEF LineOrder, Gone
  <2>3. CASE queue # <<>> /\ queue' = Tail(queue)
    BY <1>0, <2>1, <2>3, Rest DEF LineOrder, Gone
  <2> QED
    BY <2>1, <2>2, <2>3
<1>5. CASE Reader
  <2>1. /\ stdout # <<>> /\ queue' = Append(queue, Head(stdout)) /\ stdout' = Tail(stdout)
        /\ apc' = apc
    BY <1>5 DEF Reader, agent
  <2>2. \A i \in DOMAIN queue : queue[i].type # "eof"
    BY <1>0, <2>1 DEF LineOrder
  <2>3. Head(stdout) \in Lines /\ (Head(stdout).type = "eof" => stdout' = <<>>)
    BY <1>0, <2>1, Rest DEF LineOrder
  <2>4. \A i \in DOMAIN queue' : queue'[i].type = "eof" => i = Len(queue') /\ stdout' = <<>>
    BY <1>0, <2>1, <2>2, <2>3, Appended
  <2>5. \A i \in DOMAIN stdout' : stdout'[i].type = "eof" => i = Len(stdout')
    BY <1>0, <2>1, Rest DEF LineOrder
  <2>6. ASSUME apc \notin Gone
        PROVE  /\ \A i \in DOMAIN stdout' : stdout'[i].type = "tool_call"
               /\ \A i \in DOMAIN queue' : queue'[i].type = "tool_call"
    BY <1>0, <2>1, <2>3, <2>6, Rest, Appended DEF LineOrder
  <2> QED
    BY <2>1, <2>4, <2>5, <2>6 DEF LineOrder
<1>6. CASE ReadInit \/ RequestUnparsed \/ RequestTools \/ Defer \/ Refuse \/ ReadResult \/ ReadForceFinal \/
     EndTurn \/ Hang \/ InitFails \/ InitFits \/ BudgetSpent \/ AnswerCall \/ Tick \/ UNCHANGED vars
  <2>1. UNCHANGED <<stdout, queue>> /\ (apc \in Gone => apc' \in Gone)
    BY <1>6 DEF ReadInit, Ask, RequestUnparsed, RequestTools, Defer, Refuse, ReadResult, ReadForceFinal,
       EndTurn, Hang, InitFails, InitFits, BudgetSpent, AnswerCall, Tick, agent, pipes, vars, Gone
  <2> QED
    BY <1>0, <2>1 DEF LineOrder, Gone
<1> QED
  BY <1>1, <1>2, <1>3, <1>4, <1>5, <1>6 DEF Next, Agent, Runs, Broker

\* The final: written once, still in a pipe while the loop runs, and then used.
LEMMA FinalPlaceNext ==
  ASSUME IInv, [Next]_vars
  PROVE  FinalPlace'
<1>0. /\ FinalPlace /\ FinalUsed /\ CallPlace
      /\ stdout \in Seq(Lines) /\ queue \in Seq(Lines) /\ stdin \in Seq(Answers)
  BY DEF IInv, TypeOK, PipeType, FinalPlace
<1>n. finalAt # {} => apc \in Gone /\ bpc \notin {"init", "tool"}
  BY <1>0 DEF FinalPlace
<1>1. CASE RequestFinal \/ SynthFinal
  <2>1. /\ EmitFinal /\ apc \in {"request", "synth"} /\ UNCHANGED <<now, broker, queue, synth>>
        /\ apc' = "exited" /\ finalAt' = {now}
    BY <1>1 DEF RequestFinal, SynthFinal, EmitFinal
  <2>2. bpc = "loop"
    BY <1>0, <2>1 DEF IInv, TypeOK, BrokerType, CallPlace, Asking, FinalPlace, Gone
  <2>3. Has(stdout', "final") /\ (Has(stdout', "tool_call") <=> Has(stdout, "tool_call"))
    <3> DEFINE final == [type |-> "final", call |-> used]
               some == Append(stdout, final)
    <3>1. final \in Lines /\ Eof \in Lines /\ final.type = "final" /\ stdout' = Append(some, Eof)
      BY <2>1, LineType, FinalLines DEF IInv, TypeOK, AgentType
    <3> HIDE DEF final
    <3>2. some \in Seq(Lines) /\ Has(some, "final")
      BY <1>0, <3>1, HasAppend, Appended
    <3> HIDE DEF some
    <3> QED
      BY <2>1, <3>1, <3>2, HasAppend, NoCallFinal
  <2>4. Has(stdout', "tool_call") \/ Has(queue', "tool_call") => forced' # "no"
    BY <1>0, <2>1, <2>3, HasNone DEF CallPlace, Asking, FinalPlace, broker
  <2> QED
    BY <2>1, <2>2, <2>3, <2>4 DEF FinalPlace, FinalUsed, Gone, broker
<1>2. CASE ReadInit
  BY <1>0, <1>2 DEF ReadInit, Ask, FinalPlace, FinalUsed, Gone, pipes, Has
<1>3. CASE RequestUnparsed \/ RequestTools \/ Defer \/ Refuse \/ EndTurn
  <2>1. /\ Asking /\ apc # "starting" /\ UNCHANGED <<now, broker, pipes, finalAt>>
        /\ apc' \in {"synth", "turn", "request"}
    BY <1>3 DEF RequestUnparsed, RequestTools, Defer, Refuse, EndTurn, Ask, Asking
  <2>2. bpc = "loop" /\ finalAt = {} /\ stdout = <<>> /\ queue = <<>>
    BY <1>0, <2>1 DEF IInv, TypeOK, BrokerType, CallPlace, Asking, FinalPlace, Gone
  <2> QED
    BY <2>1, <2>2, HasNone DEF FinalPlace, FinalUsed, Gone, broker, pipes
<1>4. CASE CallTool
  <2>1. /\ apc = "turn" /\ apc' = "wait" /\ UNCHANGED <<now, broker, queue, finalAt>>
        /\ stdout' = <<[type |-> "tool_call", call |-> used + 1]>>
    BY <1>0, <1>4 DEF CallTool, CallPlace, Asking
  <2>2. bpc = "loop" /\ finalAt = {}
    BY <1>0, <2>1 DEF IInv, TypeOK, BrokerType, CallPlace, Asking, FinalPlace, Gone
  <2>3. ~Has(stdout', "final")
    BY <2>1 DEF Has
  <2> QED
    BY <2>1, <2>2, <2>3 DEF FinalPlace, FinalUsed, broker
<1>5. CASE ReadResult
  <2>1. apc = "wait" /\ apc' = "turn" /\ UNCHANGED <<now, broker, stdout, queue, finalAt>>
    BY <1>5 DEF ReadResult
  <2> QED
    BY <1>0, <2>1 DEF FinalPlace, FinalUsed, Gone, broker
<1>6. CASE ReadForceFinal
  <2>1. /\ apc = "wait" /\ apc' = "synth" /\ UNCHANGED <<now, broker, stdout, queue, finalAt>>
        /\ Has(stdin, "force_final")
    BY <1>0, <1>6, Rest DEF ReadForceFinal, Has
  <2>2. forced # "no" /\ bpc = "loop" /\ finalAt = {}
    BY <1>0, <2>1 DEF IInv, TypeOK, BrokerType, CallPlace, FinalPlace, Gone
  <2>3. FinalUsed'
    BY <2>1, <2>2 DEF FinalUsed, broker
  <2>4. bpc' = "loop" /\ forced' # "no" /\ finalAt' = {} /\ ~Has(stdout', "final")
    BY <1>0, <2>1, <2>2 DEF FinalPlace, broker
  <2> QED
    BY <2>3, <2>4 DEF FinalPlace
<1>7. CASE SynthDies \/ Die
  <2>1. /\ apc \notin Gone /\ UNCHANGED <<now, broker, queue, synth, finalAt>>
        /\ stdout' = Append(stdout, Eof)
        /\ (apc' = "killed" \/ (apc = "synth" /\ apc' = "exited"))
    BY <1>7 DEF SynthDies, Die, Gone
  <2>2. finalAt = {}
    BY <1>n, <2>1
  <2>3. Has(stdout', "final") => Has(stdout, "final")
    BY <1>0, <2>1, HasAppend, LineType DEF Eof
  <2> QED
    BY <1>0, <2>1, <2>2, <2>3 DEF FinalPlace, FinalUsed, Gone, broker
<1>8. CASE Hang
  BY <1>0, <1>8 DEF Hang, FinalPlace, FinalUsed, Gone, broker, pipes
<1>9. CASE InitFits \/ InitFails
  <2>1. bpc = "init" /\ bpc' \in {"loop", "done"} /\ UNCHANGED <<now, forced, pipes, agent>>
        /\ (bpc' = "done" => apc \in Gone)
    BY <1>9 DEF InitFits, InitFails
  <2>2. finalAt = {}
    BY <1>n, <2>1
  <2> QED
    BY <1>0, <2>1, <2>2 DEF FinalPlace, FinalUsed, Gone, agent, pipes
<1>10. CASE BudgetSpent
  <2>1. forced' # "no" /\ bpc = "loop"
        /\ UNCHANGED <<now, bpc, outcome, stdout, queue, apc, synth, finalAt>>
    BY <1>10 DEF BudgetSpent, BudgetDue, SendForceFinal, agent
  <2> QED
    BY <1>0, <2>1 DEF FinalPlace, FinalUsed
<1>11. CASE GraceOver \/ TakeEof \/ TakeFinal \/ AuditFails \/ AnswerFails
  <2>1. /\ bpc \in {"loop", "tool"} /\ bpc' = "done"
        /\ UNCHANGED <<now, forced, stdout, synth, finalAt>>
        /\ apc' = IF apc \in Gone THEN apc ELSE "killed"
        /\ queue' = queue \/ (queue # <<>> /\ queue' = Tail(queue))
    BY <1>11 DEF GraceOver, TakeEof, TakeFinal, AuditFails, AnswerFails, Return, Line, pipes
  <2>2. Has(queue', "tool_call") => Has(queue, "tool_call")
    BY <1>0, <2>1, HasRest
  <2>3. FinalUsed'
    <3>1. CASE GraceOver
      <4>1. now >= Budget + Grace /\ ~Has(queue, "final") /\ bpc # "done"
        BY <1>0, <2>1, <3>1, HasNone DEF GraceOver, HardDeadline
      <4>2. finalAt # {} => finalAt = {now}
        BY <1>0, <4>1 DEF FinalPlace
      <4>3. now \in Nat
        BY DEF IInv, TypeOK, ClockType
      <4>4. \A t \in finalAt : ~(t < Budget + Grace)
        BY <4>1, <4>2, <4>3, TimeAssumption
      <4> QED
        BY <2>1, <4>4 DEF FinalUsed
    <3>2. CASE TakeEof
      <4>1. /\ queue # <<>> /\ Head(queue).type = "eof" /\ bpc # "done"
            /\ \A i \in DOMAIN queue : queue[i].type = "eof" => i = Len(queue) /\ stdout = <<>>
        BY <2>1, <3>2 DEF TakeEof, Line, IInv, LineOrder
      <4>a. 1 \in DOMAIN queue /\ queue[1].type = "eof"
        BY <1>0, <4>1, Rest
      <4>2. Len(queue) = 1 /\ stdout = <<>>
        BY <4>1, <4>a
      <4>3. ~Has(queue, "final") /\ ~Has(stdout, "final")
        BY <1>0, <4>1, <4>2, Rest DEF Has
      <4> QED
        BY <1>0, <2>1, <4>1, <4>3 DEF FinalPlace, FinalUsed
    <3>3. CASE TakeFinal \/ AuditFails
      BY <3>3 DEF TakeFinal, AuditFails, Return, FinalUsed
    <3>4. CASE AnswerFails
      BY <1>n, <2>1, <3>4 DEF AnswerFails, FinalUsed
    <3> QED
      BY <1>11, <3>1, <3>2, <3>3, <3>4
  <2> QED
    BY <1>0, <2>1, <2>2, <2>3 DEF FinalPlace, Gone
<1>12. CASE IgnoreCall \/ RefuseForReserve
  <2>1. /\ bpc = "loop" /\ forced' # "no" /\ queue # <<>> /\ queue' = Tail(queue)
        /\ Head(queue).type = "tool_call"
        /\ UNCHANGED <<now, bpc, outcome, stdout, apc, synth, finalAt>>
    BY <1>12 DEF IgnoreCall, RefuseForReserve, Line, SendForceFinal, broker, agent
  <2>2. Has(queue', "final") <=> Has(queue, "final")
    BY <1>0, <2>1, HasRest
  <2> QED
    BY <1>0, <2>1, <2>2 DEF FinalPlace, FinalUsed
<1>13. CASE RunTool
  <2>1. /\ bpc = "loop" /\ bpc' = "tool" /\ forced = "no" /\ queue # <<>>
        /\ Head(queue).type = "tool_call"
        /\ UNCHANGED <<now, outcome, forced, stdout, apc, synth, finalAt>>
    BY <1>13 DEF RunTool, Line, agent
  <2>2. Has(queue, "tool_call")
    BY <1>0, <2>1, HasRest
  <2>3. apc # "synth" /\ finalAt = {}
    BY <1>0, <2>1, <2>2 DEF FinalPlace
  <2> QED
    BY <1>0, <2>1, <2>3 DEF FinalPlace, FinalUsed
<1>14. CASE AnswerCall
  <2>1. /\ bpc = "tool" /\ bpc' = "loop"
        /\ UNCHANGED <<now, outcome, forced, stdout, queue, apc, synth, finalAt>>
    BY <1>14 DEF AnswerCall, agent
  <2> QED
    BY <1>0, <1>n, <2>1 DEF FinalPlace, FinalUsed
<1>15. CASE Reader
  <2>1. /\ stdout # <<>> /\ queue' = Append(queue, Head(stdout)) /\ stdout' = Tail(stdout)
        /\ UNCHANGED <<now, bpc, outcome, forced, apc, synth, finalAt>>
    BY <1>15 DEF Reader, broker, agent
  <2>2. Head(stdout) \in Lines
    BY <1>0, <2>1, Rest
  <2>3. ASSUME NEW t
        PROVE  /\ Has(stdout', t) => Has(stdout, t)
               /\ Has(stdout', t) \/ Has(queue', t) <=> Has(stdout, t) \/ Has(queue, t)
    <3>1. Has(queue', t) <=> Has(queue, t) \/ Head(stdout).type = t
      BY <1>0, <2>1, <2>2, HasAppend
    <3>2. Has(stdout, t) <=> Head(stdout).type = t \/ Has(stdout', t)
      BY <1>0, <2>1, HasRest
    <3> QED
      BY <3>1, <3>2
  <2>4. /\ Has(stdout', "final") => Has(stdout, "final")
        /\ Has(stdout', "final") \/ Has(queue', "final") <=> Has(stdout, "final") \/ Has(queue, "final")
        /\ Has(stdout', "tool_call") \/ Has(queue', "tool_call")
             <=> Has(stdout, "tool_call") \/ Has(queue, "tool_call")
    BY <2>3
  <2> QED
    BY <1>0, <2>1, <2>4 DEF FinalPlace, FinalUsed
<1>16. CASE Tick
  <2>1. stdout = <<>> /\ UNCHANGED <<bpc, outcome, forced, stdout, queue, apc, synth, finalAt>>
    BY <1>16 DEF Tick, Quiet, pipes
  <2> QED
    BY <1>0, <2>1, HasNone DEF FinalPlace, FinalUsed
<1>17. CASE UNCHANGED vars
  BY <1>0, <1>17 DEF vars, FinalPlace, FinalUsed, broker, pipes, agent
<1> QED
  BY <1>1, <1>2, <1>3, <1>4, <1>5, <1>6, <1>7, <1>8, <1>9, <1>10, <1>11, <1>12, <1>13, <1>14, <1>15,
     <1>16, <1>17 DEF Next, Agent, Runs, Broker

\* The clock while a tool runs, and when the init message is read.
LEMMA ToolClockNext ==
  ASSUME IInv, [Next]_vars
  PROVE  ToolClock'
<1>0. /\ ToolClock /\ TimeBounded /\ now \in Nat /\ toolLeft \in 0 .. ToolTime
      /\ bpc \in {"init", "loop", "tool", "done"}
  BY DEF IInv, TypeOK, ClockType, BrokerType, ToolClock
<1> USE TimeAssumption
<1>1. CASE ReadInit \/ InitFits
  <2>1. now = 0 /\ now' = now /\ bpc' = "loop"
    BY <1>0, <1>1 DEF ReadInit, InitFits, ToolClock
  <2> QED
    BY <2>1 DEF ToolClock, TimeBounded
<1>2. CASE RunTool
  <2>1. /\ bpc = "loop" /\ forced = "no" /\ ~BudgetDue /\ ~ReserveReached
        /\ bpc' = "tool" /\ toolLeft' \in 0 .. ToolTime /\ UNCHANGED <<now, apc>>
    BY <1>2 DEF RunTool, Line, agent
  <2>2. now + Reserve < Budget
    BY <1>0, <2>1 DEF BudgetDue, ReserveReached, IInv, CallPlace
  <2>3. now' + toolLeft' + Reserve < Budget + ToolTime /\ now' + Reserve < Budget + ToolTime
    <3>1. /\ now' = now /\ now' \in Nat /\ toolLeft' \in Nat /\ toolLeft' <= ToolTime
          /\ Reserve \in Nat /\ Budget \in Nat /\ ToolTime \in Nat
      BY <1>0, <2>1
    <3>2. \A n, t, r, b, m \in Nat : n + r < b /\ t <= m => n + t + r < b + m /\ n + r < b + m
      OBVIOUS
    <3>3. now' + Reserve < Budget
      BY <2>2, <3>1
    <3> QED
      BY <3>1, <3>2, <3>3
  <2> QED
    BY <1>0, <2>1, <2>3 DEF ToolClock, TimeBounded
<1>3. CASE AnswerCall
  BY <1>0, <1>3 DEF AnswerCall, ToolClock, TimeBounded, agent
<1>4. CASE Tick
  <2>1. /\ apc' = apc /\ apc # "starting" /\ bpc' = bpc /\ now' = now + 1
        /\ (bpc = "loop" => now < Budget + Grace)
        /\ (bpc = "tool" => toolLeft > 0 /\ toolLeft' = toolLeft - 1)
    BY <1>4 DEF Tick, Quiet, HardDeadline, Gone
  <2> QED
    BY <1>0, <2>1 DEF ToolClock, TimeBounded
<1>5. CASE RequestFinal \/ RequestUnparsed \/ RequestTools \/ Defer \/ Refuse \/ CallTool \/ ReadResult \/
     ReadForceFinal \/ EndTurn \/ SynthFinal \/ SynthDies \/ Die \/ Hang \/ InitFails \/ BudgetSpent \/
     GraceOver \/ TakeEof \/ TakeFinal \/ AuditFails \/ IgnoreCall \/ RefuseForReserve \/ AnswerFails \/
     Reader \/ UNCHANGED vars
  <2>1. UNCHANGED <<now, toolLeft>> /\ bpc' \in {bpc, "done"} /\ (apc' = "starting" => apc = "starting")
    BY <1>5 DEF RequestFinal, RequestUnparsed, RequestTools, Defer, Refuse, CallTool, ReadResult,
       ReadForceFinal, EndTurn, Ask, EmitFinal, SynthFinal, SynthDies, Die, Hang, InitFails, BudgetSpent,
       GraceOver, TakeEof, TakeFinal, AuditFails, IgnoreCall, RefuseForReserve, AnswerFails, Return,
       Reader, broker, agent, vars
  <2> QED
    BY <1>0, <2>1 DEF ToolClock, TimeBounded
<1> QED
  BY <1>1, <1>2, <1>3, <1>4, <1>5 DEF Next, Agent, Runs, Broker

\* Every reachable state satisfies the invariant: what is in the pipes, what the
\* agent and the broker count, and how the clock stands hang together whatever
\* the processes' steps cross.
THEOREM Inductive == Spec => []IInv
<1>1. Init => IInv
  BY InitIInv
<1>2. IInv /\ [Next]_vars => IInv'
  <2> SUFFICES ASSUME IInv, [Next]_vars PROVE IInv'
    OBVIOUS
  <2>1. TypeOK'
    BY ClockTypeNext, PipeTypeNext, BrokerTypeNext, AgentTypeNext DEF TypeOK
  <2> QED
    BY <2>1, CallPlaceNext, CallCountNext, TurnKeptNext, LineOrderNext, FinalPlaceNext, ToolClockNext
       DEF IInv
<1> QED
  BY <1>1, <1>2, PTL DEF Spec

\* Every variable of the broker, the agent and the pipes keeps its type.
THEOREM TypeCorrect == Spec => []TypeOK
<1>1. IInv => TypeOK
  BY DEF IInv
<1> QED
  BY <1>1, Inductive, PTL

\* No request reaches the model with a tool_use block that lacks its result, and
\* a call that ran is answered by its own result (results and late_blocks in
\* interpret-ghidra.py, the answers of run_interpret).
THEOREM ProtocolWellFormed == Spec => []WellFormed
<1>1. IInv => WellFormed
  BY DEF IInv, TurnKept
<1> QED
  BY <1>1, Inductive, PTL

\* tool_calls_used, which the report shows, exceeds the calls the broker answered
\* by the call under way at most.
THEOREM CallsCounted == Spec => []CountHonest
<1>1. IInv => CountHonest
  BY DEF IInv, CallCount
<1> QED
  BY <1>1, Inductive, PTL

\* A final written before the hard deadline is what run_interpret returns, also
\* when it arrives in the grace window.
THEOREM FinalIsUsed == Spec => []FinalUsed
<1>1. IInv => FinalUsed
  BY DEF IInv, FinalPlace
<1> QED
  BY <1>1, Inductive, PTL

\* The loop of run_interpret outlives its hard deadline only by a tool call that
\* was granted before the reserve.
THEOREM TimeIsBounded == Spec => []TimeBounded
<1>1. IInv => TimeBounded
  BY DEF IInv, ToolClock
<1> QED
  BY <1>1, Inductive, PTL

\* What takes at most m, begun in time for b, ends in time for b and m.
LEMMA Fits ==
  ASSUME NEW n \in Nat, NEW b \in Nat, NEW m \in Nat, NEW l \in 0 .. m, n + Reserve < b
  PROVE  n + l + Reserve < b + m
BY TimeAssumption

\* The sums of the bounds are numbers, and grow.
LEMMA Sums ==
  /\ Budget + ToolTime \in Nat /\ Reserve \in Nat /\ SynthTime \in Nat /\ RequestTime \in Nat
  /\ Budget + ToolTime + RequestTime \in Nat
  /\ Budget + ToolTime + RequestTime + SynthTime \in Nat
  /\ \A n \in Nat :
       /\ n < Budget => n < Budget + ToolTime
       /\ n < Budget + ToolTime => n < Budget + ToolTime + RequestTime
       /\ n < Budget + ToolTime + RequestTime => n < Budget + ToolTime + RequestTime + SynthTime
BY TimeAssumption

\* A healthy call is not held up anywhere, and what is left of its time covers the rest
\* of the call under way, one request and the synthesis.
LEMMA PaceNext ==
  ASSUME IInv, IInv', Pace, [Next]_vars
  PROVE  Pace'
<1> SUFFICES ASSUME faults' = 0, bpc' # "done"
             PROVE  Pace'
  BY DEF Pace
<1> USE TimeAssumption, LimitAssumption
<1>0. /\ now \in Nat /\ left \in Nat /\ toolLeft \in Nat /\ used \in Nat /\ thisTurn \in Nat
      /\ blocks \in Nat /\ results \in Seq(Results) /\ Len(results) \in Nat
      /\ stdout \in Seq(Lines) /\ queue \in Seq(Lines) /\ stdin \in Seq(Answers)
      /\ faults \in Nat
  BY DEF IInv, TypeOK, ClockType, PipeType, BrokerType, AgentType
<1>1. faults = 0
  BY <1>0 DEF Next, Agent, Runs, Broker, ReadInit, RequestFinal, RequestUnparsed, RequestTools, Defer, Refuse,
     CallTool, ReadResult, ReadForceFinal, EndTurn, SynthFinal, SynthDies, Die, Hang, InitFits, InitFails,
     BudgetSpent, GraceOver, TakeEof, TakeFinal, AuditFails, IgnoreCall, RefuseForReserve, RunTool,
     AnswerCall, AnswerFails, Reader, Tick, Fault, vars
<1>2. bpc # "done"
  BY DEF Next, Agent, Runs, Broker, ReadInit, RequestFinal, RequestUnparsed, RequestTools, Defer, Refuse,
     CallTool, ReadResult, ReadForceFinal, EndTurn, SynthFinal, SynthDies, Die, Hang, InitFits, InitFails,
     BudgetSpent, GraceOver, TakeEof, TakeFinal, AuditFails, IgnoreCall, RefuseForReserve, RunTool,
     AnswerCall, AnswerFails, Reader, Tick, Line, BudgetDue, broker, vars
<1>3. /\ apc \notin {"hung", "killed"} /\ (apc = "exited" => finalAt # {})
      /\ forced # "no" /\ (Asking \/ apc = "wait") => Has(stdin, "force_final")
      /\ apc = "wait" =>
           Has(stdout, "tool_call") \/ Has(queue, "tool_call") \/ bpc = "tool" \/ stdin # <<>>
      /\ apc = "turn" => blocks > 0 /\ (thisTurn > 0 => results # <<>>)
      /\ apc = "request" => now + left + Reserve < Budget + ToolTime + RequestTime
      /\ apc \in {"turn", "wait"} => now + Reserve < Budget + ToolTime + RequestTime
      /\ apc = "turn" /\ results # <<>> /\ used < MaxToolCalls => now + Reserve < Budget + ToolTime
      /\ apc = "wait" /\ Has(stdin, "result") => now + Reserve < Budget + ToolTime
      /\ apc = "synth" => now + left + Reserve < Budget + ToolTime + RequestTime + SynthTime
      /\ now + Reserve < Budget + ToolTime + RequestTime + SynthTime
  BY <1>1, <1>2 DEF Pace
<1>4. CASE ReadInit
  <2>1. /\ apc = "starting" /\ apc' = "request" /\ left' \in 0 .. RequestTime
        /\ now = 0 /\ UNCHANGED <<now, forced, stdin>>
    BY <1>4 DEF ReadInit, Ask, IInv, ToolClock, pipes
  <2>2. /\ now' + left' + Reserve < Budget + ToolTime + RequestTime
        /\ now' + Reserve < Budget + ToolTime + RequestTime + SynthTime
    <3>1. now \in Nat /\ now + Reserve \in Nat /\ now + Reserve < Budget + ToolTime /\ now' = now
      BY <2>1, Sums
    <3>2. now + left' + Reserve < Budget + ToolTime + RequestTime
      BY <2>1, <3>1, Sums, Fits
    <3> QED
      BY <3>1, <3>2, Sums
  <2>3. forced # "no" => Has(stdin, "force_final")'
    BY <1>3, <2>1 DEF Asking, Has
  <2> QED
    BY <2>1, <2>2, <2>3 DEF Pace, Asking
<1>5. CASE RequestFinal \/ SynthFinal
  <2>1. apc' = "exited" /\ finalAt' = {now} /\ UNCHANGED now
    BY <1>5 DEF RequestFinal, SynthFinal, EmitFinal
  <2> QED
    BY <1>3, <2>1 DEF Pace, Asking
<1>6. CASE RequestUnparsed
  <2>1. /\ apc = "request" /\ left = 0 /\ apc' = "synth" /\ left' \in 0 .. SynthTime /\ UNCHANGED now
    BY <1>6 DEF RequestUnparsed
  <2>2. now + Reserve < Budget + ToolTime + RequestTime
    BY <1>0, <1>3, <2>1
  <2>3. now' + left' + Reserve < Budget + ToolTime + RequestTime + SynthTime
    BY <1>0, <2>1, <2>2, Sums, Fits
  <2> QED
    BY <1>3, <2>1, <2>3 DEF Pace, Asking
<1>7. CASE RequestTools
  <2>1. /\ apc = "request" /\ left = 0 /\ apc' = "turn" /\ UNCHANGED <<now, forced, stdin>>
        /\ blocks' > 0 /\ results' = <<>> /\ thisTurn' = 0
    BY <1>7 DEF RequestTools, broker, pipes
  <2> QED
    BY <1>0, <1>3, <2>1 DEF Pace, Asking, Has
<1>8. CASE Defer \/ Refuse
  <2>1. /\ apc = "turn" /\ apc' = "turn" /\ UNCHANGED <<now, forced, stdin, blocks, used>>
        /\ results' # <<>>
    BY <1>0, <1>8 DEF Defer, Refuse, broker, pipes
  <2>2. results = <<>> => used >= MaxToolCalls
    <3>1. CASE Defer
      BY <1>0, <1>3, <3>1 DEF Defer
    <3>2. CASE Refuse
      BY <3>2 DEF Refuse
    <3> QED
      BY <1>8, <3>1, <3>2
  <2>3. MaxToolCalls \in Nat
    OBVIOUS
  <2> QED
    BY <1>0, <1>3, <2>1, <2>2, <2>3 DEF Pace, Asking, Has
<1>9. CASE CallTool
  <2>1. /\ apc = "turn" /\ apc' = "wait" /\ UNCHANGED <<now, forced, stdin>>
        /\ stdout' = Append(stdout, [type |-> "tool_call", call |-> used + 1])
    BY <1>9 DEF CallTool, broker
  <2>2. ~Has(stdin, "result")
    BY <2>1 DEF IInv, CallPlace, Asking
  <2>3. Has(stdout', "tool_call")
    <3>1. used + 1 \in 0 .. MaxToolCalls
      BY <1>0, <1>9 DEF CallTool
    <3>2. [type |-> "tool_call", call |-> used + 1] \in Lines
      BY <3>1, LineType
    <3> QED
      BY <1>0, <2>1, <3>2, HasAppend
  <2> QED
    BY <1>0, <1>3, <2>1, <2>2, <2>3 DEF Pace, Asking, Has
<1>10. CASE ReadResult
  <2>1. /\ apc = "wait" /\ apc' = "turn" /\ UNCHANGED <<now, forced, blocks>>
        /\ stdin # <<>> /\ Head(stdin).type = "result" /\ stdin' = Tail(stdin) /\ results' # <<>>
    BY <1>0, <1>10 DEF ReadResult, broker
  <2>2. Has(stdin, "result") /\ (Has(stdin, "force_final") => Has(stdin', "force_final"))
    BY <1>0, <2>1, HasRest
  <2>3. blocks > 0
    BY <1>0, <2>1 DEF IInv, TurnKept
  <2> QED
    BY <1>0, <1>3, <2>1, <2>2, <2>3 DEF Pace, Asking
<1>11. CASE ReadForceFinal
  <2>1. apc = "wait" /\ apc' = "synth" /\ left' \in 0 .. SynthTime /\ UNCHANGED now
    BY <1>11 DEF ReadForceFinal
  <2>2. now + Reserve < Budget + ToolTime + RequestTime
    BY <1>3, <2>1
  <2>3. now' + left' + Reserve < Budget + ToolTime + RequestTime + SynthTime
    BY <1>0, <2>1, <2>2, Sums, Fits
  <2> QED
    BY <1>3, <2>1, <2>3 DEF Pace, Asking
<1>12. CASE EndTurn
  <2>1. /\ apc = "turn" /\ UNCHANGED <<now, forced, stdin>>
        /\ \/ used >= MaxToolCalls /\ apc' = "synth" /\ left' \in 0 .. SynthTime
           \/ used < MaxToolCalls /\ apc' = "request" /\ left' \in 0 .. RequestTime
    BY <1>0, <1>12 DEF EndTurn, Ask, broker, pipes
  <2>2. results # <<>>
    BY <1>0, <1>3, <1>12, <2>1 DEF EndTurn, Block
  <2>3. CASE used >= MaxToolCalls /\ apc' = "synth" /\ left' \in 0 .. SynthTime
    <3>1. now' + left' + Reserve < Budget + ToolTime + RequestTime + SynthTime
      BY <1>0, <1>3, <2>1, <2>3, Sums, Fits
    <3> QED
      BY <1>3, <2>1, <2>3, <3>1 DEF Pace, Asking
  <2>4. CASE used < MaxToolCalls /\ apc' = "request" /\ left' \in 0 .. RequestTime
    <3>1. now' + left' + Reserve < Budget + ToolTime + RequestTime
      BY <1>0, <1>3, <2>1, <2>2, <2>4, Sums, Fits
    <3>2. forced # "no" => Has(stdin, "force_final")'
      BY <1>3, <2>1 DEF Asking, Has
    <3> QED
      BY <1>3, <2>1, <2>4, <3>1, <3>2 DEF Pace, Asking
  <2> QED
    BY <2>1, <2>3, <2>4
<1>13. CASE SynthDies \/ Die \/ Hang
  BY <1>0, <1>13 DEF SynthDies, Die, Hang, Fault
<1>14. CASE InitFits
  BY <1>3, <1>14 DEF InitFits, Pace, agent, turn, pipes, Asking, Has
<1>15. CASE InitFails \/ GraceOver \/ TakeEof \/ TakeFinal \/ AuditFails \/ AnswerFails
  BY <1>15 DEF InitFails, GraceOver, TakeEof, TakeFinal, AuditFails, AnswerFails, Return
<1>16. CASE BudgetSpent
  <2>1. UNCHANGED <<now, bpc, stdout, queue, apc, left, used, turn, finalAt>>
    BY <1>16 DEF BudgetSpent, agent
  <2>2. \/ UNCHANGED <<forced, stdin>>
        \/ /\ stdin' = IF apc \in Gone THEN stdin
                       ELSE Append(stdin, [type |-> "force_final", call |-> 0])
    BY <1>16 DEF BudgetSpent, SendForceFinal
  <2>3. CASE UNCHANGED <<forced, stdin>>
    BY <1>3, <2>1, <2>3 DEF Pace, turn, Asking, Has
  <2>4. CASE stdin' = IF apc \in Gone THEN stdin
                      ELSE Append(stdin, [type |-> "force_final", call |-> 0])
    <3>1. apc \notin Gone => /\ Has(stdin', "force_final") /\ stdin' # <<>>
                             /\ Has(stdin', "result") => Has(stdin, "result")
      BY <1>0, <2>4, LineType, HasAppend, Appended
    <3>2. apc \in Gone => ~(Asking \/ apc = "wait")
      BY DEF Gone, Asking
    <3> QED
      BY <1>3, <2>1, <3>1, <3>2 DEF Pace, turn, Asking, Has, Gone
  <2> QED
    BY <2>2, <2>3, <2>4
<1>17. CASE RefuseForReserve
  <2>1. /\ UNCHANGED <<now, bpc, stdout, apc, left, used, turn, finalAt>>
        /\ stdin' = IF apc \in Gone THEN stdin
                    ELSE Append(stdin, [type |-> "force_final", call |-> 0])
    BY <1>17 DEF RefuseForReserve, SendForceFinal, agent
  <2>2. apc \notin Gone => /\ Has(stdin', "force_final") /\ stdin' # <<>>
                           /\ Has(stdin', "result") => Has(stdin, "result")
    BY <1>0, <2>1, LineType, HasAppend, Appended
  <2> QED
    BY <1>3, <2>1, <2>2 DEF Pace, turn, Asking, Has, Gone
<1>18. CASE IgnoreCall
  <2>1. /\ UNCHANGED <<now, bpc, forced, stdin, apc, left, used, turn, finalAt>>
        /\ forced # "no"
    BY <1>18 DEF IgnoreCall, broker, agent
  <2>2. apc = "wait" => stdin # <<>>
    BY <1>3, <2>1, HasNone
  <2> QED
    BY <1>3, <2>1, <2>2 DEF Pace, turn, Asking, Has
<1>19. CASE RunTool
  <2>1. /\ UNCHANGED <<now, forced, stdin, apc, left, used, turn, finalAt>> /\ bpc' = "tool"
    BY <1>19 DEF RunTool, agent
  <2> QED
    BY <1>3, <2>1 DEF Pace, turn, Asking, Has
<1>20. CASE AnswerCall
  <2>1. /\ UNCHANGED <<now, forced, apc, left, used, turn, finalAt>>
        /\ bpc = "tool" /\ toolLeft = 0
        /\ stdin' = Append(stdin, [type |-> "result", call |-> toolCall])
    BY <1>20 DEF AnswerCall, agent
  <2>2. now + Reserve < Budget + ToolTime
    BY <1>0, <2>1 DEF IInv, ToolClock
  <2>3. stdin' # <<>> /\ (Has(stdin, "force_final") => Has(stdin', "force_final"))
    <3>1. [type |-> "result", call |-> toolCall] \in Answers
      BY LineType DEF IInv, TypeOK, BrokerType
    <3>2. stdin' \in Seq(Answers) /\ Len(stdin') = Len(stdin) + 1
      BY <1>0, <2>1, <3>1, Appended
    <3>3. stdin' # <<>>
      BY <1>0, <2>1, <3>1, Appended
    <3> QED
      BY <1>0, <2>1, <3>1, <3>3, HasAppend
  <2>4. ~Asking
    BY <2>1 DEF IInv, CallPlace
  <2> QED
    BY <1>0, <1>3, <2>1, <2>2, <2>3, <2>4 DEF Pace, turn, Asking
<1>21. CASE Reader
  <2>1. /\ UNCHANGED <<now, bpc, forced, stdin, apc, left, used, turn, finalAt>>
        /\ stdout # <<>> /\ queue' = Append(queue, Head(stdout)) /\ stdout' = Tail(stdout)
    BY <1>21 DEF Reader, broker, agent
  <2>2. Has(stdout, "tool_call") \/ Has(queue, "tool_call")
          => Has(stdout', "tool_call") \/ Has(queue', "tool_call")
    <3>1. Head(stdout) \in Lines
      BY <1>0, <2>1, Rest
    <3>2. Has(stdout, "tool_call") => Head(stdout).type = "tool_call" \/ Has(stdout', "tool_call")
      BY <1>0, <2>1, HasRest
    <3>3. Has(queue', "tool_call") <=> Has(queue, "tool_call") \/ Head(stdout).type = "tool_call"
      BY <1>0, <2>1, <3>1, HasAppend
    <3> QED
      BY <3>2, <3>3
  <2>3. /\ Has(stdin, "force_final") => Has(stdin, "force_final")'
        /\ Has(stdin, "result")' => Has(stdin, "result")
    BY <2>1 DEF Has
  <2>4. /\ Has(stdout', "tool_call") = Has(stdout, "tool_call")'
        /\ Has(queue', "tool_call") = Has(queue, "tool_call")'
    BY DEF Has
  <2> QED
    BY <1>3, <2>1, <2>2, <2>3, <2>4 DEF Pace, turn, Asking
<1>22. CASE Tick
  <2>1. /\ UNCHANGED <<bpc, forced, pipes, apc, used, turn, finalAt>> /\ now' = now + 1
        /\ left' = IF left > 0 THEN left - 1 ELSE 0
        /\ toolLeft' = IF toolLeft > 0 THEN toolLeft - 1 ELSE 0
        /\ stdout = <<>>
        /\ \/ bpc = "init"
           \/ bpc = "loop" /\ queue = <<>>
           \/ bpc = "tool" /\ toolLeft > 0
        /\ \/ apc \in Gone
           \/ apc \in {"request", "synth"} /\ left > 0
           \/ apc = "wait" /\ stdin = <<>>
    BY <1>3, <1>22 DEF Tick, Quiet
  <2>2. CASE apc \in Gone
    <3>1. finalAt # {}
      BY <1>3, <2>2 DEF Gone
    <3>2. bpc = "loop" /\ queue = <<>> /\ stdout = <<>>
      BY <2>1, <3>1 DEF IInv, FinalPlace
    <3> QED
      BY <1>2, <3>1, <3>2, HasNone DEF IInv, FinalPlace
  <2>3. CASE apc \in {"request", "synth"} /\ left > 0
    BY <1>0, <1>3, <2>1, <2>3 DEF Pace, turn, Asking, Has, pipes
  <2>4. CASE apc = "wait" /\ stdin = <<>>
    <3>1. bpc = "tool" /\ toolLeft > 0
      BY <1>3, <2>1, <2>4, HasNone DEF IInv, FinalPlace
    <3>2. now + toolLeft + Reserve < Budget + ToolTime
      BY <3>1 DEF IInv, ToolClock
    <3>3. now' + Reserve < Budget + ToolTime
      BY <1>0, <2>1, <3>1, <3>2
    <3>4. now' \in Nat /\ bpc' = "tool" /\ apc' = "wait" /\ UNCHANGED <<forced, stdin>>
      BY <1>0, <2>1, <2>4, <3>1 DEF pipes
    <3>5. /\ now' + Reserve < Budget + ToolTime + RequestTime
          /\ now' + Reserve < Budget + ToolTime + RequestTime + SynthTime
      <4>1. \A n \in Nat : n + Reserve \in Nat
        BY Sums
      <4>2. \A n \in Nat : n + Reserve < Budget + ToolTime =>
              /\ n + Reserve < Budget + ToolTime + RequestTime
              /\ n + Reserve < Budget + ToolTime + RequestTime + SynthTime
        BY <4>1, Sums
      <4> QED
        BY <3>3, <3>4, <4>2
    <3>6. forced # "no" => Has(stdin, "force_final")'
      BY <1>3, <2>4, <3>4 DEF Has
    <3> QED
      BY <3>3, <3>4, <3>5, <3>6 DEF Pace, Asking
  <2> QED
    BY <2>1, <2>2, <2>3, <2>4
<1>23. CASE UNCHANGED vars
  BY <1>3, <1>23 DEF vars, broker, pipes, agent, turn, Pace, Asking, Has
<1> QED
  BY <1>4, <1>5, <1>6, <1>7, <1>8, <1>9, <1>10, <1>11, <1>12, <1>13, <1>14, <1>15, <1>16, <1>17, <1>18,
     <1>19, <1>20, <1>21, <1>22, <1>23 DEF Next, Agent, Runs, Broker

\* A healthy call that fits the window returns by its final: the deadline is not reached,
\* the agent is there when it is answered, and its final is read before the end of its
\* output.
LEMMA InTimeNext ==
  ASSUME IInv, Pace, AnsweredInTime, [Next]_vars
  PROVE  AnsweredInTime'
<1> USE TimeAssumption, LimitAssumption
<1> SUFFICES ASSUME ToolTime + RequestTime + SynthTime <= Reserve + Grace,
                    bpc' = "done", faults' = 0
             PROVE  outcome' = "final"
  BY DEF AnsweredInTime
<1>0. /\ now \in Nat /\ faults \in Nat /\ stdout \in Seq(Lines) /\ queue \in Seq(Lines)
  BY DEF IInv, TypeOK, ClockType, PipeType
<1>1. CASE bpc = "done"
  <2>1. faults = 0 /\ outcome' = outcome
    BY <1>0, <1>1 DEF Next, Agent, Runs, Broker, ReadInit, RequestFinal, RequestUnparsed, RequestTools, Defer, Refuse,
     CallTool, ReadResult, ReadForceFinal, EndTurn, SynthFinal, SynthDies, Die, Hang, InitFits, InitFails,
     BudgetSpent, GraceOver, TakeEof, TakeFinal, AuditFails, IgnoreCall, RefuseForReserve, RunTool,
     AnswerCall, AnswerFails, Reader, Tick, Fault, Line, BudgetDue, broker, vars
  <2> QED
    BY <1>1, <2>1 DEF AnsweredInTime
<1>2. CASE bpc # "done"
  <2>1. InitFails \/ GraceOver \/ TakeEof \/ TakeFinal \/ AuditFails \/ AnswerFails
    BY <1>2 DEF Next, Agent, Runs, Broker, ReadInit, RequestFinal, RequestUnparsed, RequestTools, Defer, Refuse,
     CallTool, ReadResult, ReadForceFinal, EndTurn, SynthFinal, SynthDies, Die, Hang, InitFits,
     BudgetSpent, IgnoreCall, RefuseForReserve, RunTool, AnswerCall, Reader, Tick, Line, broker, vars
  <2>2. faults = 0
    BY <1>0, <2>1 DEF InitFails, GraceOver, TakeEof, TakeFinal, AuditFails, AnswerFails, Fault
  <2>3. /\ apc \notin {"hung", "killed"} /\ (apc = "exited" => finalAt # {})
        /\ now + Reserve < Budget + ToolTime + RequestTime + SynthTime
    BY <1>2, <2>2 DEF Pace
  <2>4. apc \in Gone => /\ finalAt # {} /\ bpc \notin {"init", "tool"}
                        /\ Has(stdout, "final") \/ Has(queue, "final")
    BY <1>2, <2>3 DEF Gone, IInv, FinalPlace
  <2>5. ~InitFails /\ ~AnswerFails
    BY <2>4 DEF InitFails, AnswerFails
  <2>6. ~AuditFails
    BY <1>0 DEF AuditFails, Fault
  <2>7. ~GraceOver
    BY <1>0, <2>3 DEF GraceOver, HardDeadline
  <2>8. ASSUME TakeEof PROVE FALSE
    <3>1. queue # <<>> /\ Head(queue).type = "eof"
      BY <2>8 DEF TakeEof, Line
    <3>2. 1 \in DOMAIN queue /\ queue[1].type = "eof" /\ DOMAIN queue = 1 .. Len(queue)
      BY <1>0, <3>1, Rest
    <3>3. Len(queue) = 1 /\ stdout = <<>> /\ apc \in Gone
      BY <3>2 DEF IInv, LineOrder
    <3>4. ~Has(queue, "final") /\ ~Has(stdout, "final")
      BY <3>2, <3>3, HasNone DEF Has
    <3> QED
      BY <2>4, <3>3, <3>4
  <2> QED
    BY <2>1, <2>5, <2>6, <2>7, <2>8 DEF TakeFinal, Return
<1> QED
  BY <1>1, <1>2

\* A healthy run whose tool call, request and synthesis fit into reserve and grace ends
\* with a final.
THEOREM HealthyRunsAnswer == Spec => []AnsweredInTime
<1>1. Init => PaceIInv
  BY TimeAssumption DEF Init, PaceIInv, Pace, AnsweredInTime, Asking, Gone
<1>2. IInv /\ IInv' /\ PaceIInv /\ [Next]_vars => PaceIInv'
  BY PaceNext, InTimeNext DEF PaceIInv
<1>3. PaceIInv => AnsweredInTime
  BY DEF PaceIInv
<1> QED
  BY <1>1, <1>2, <1>3, Inductive, PTL DEF Spec
-----------------------------------------------------------------------------
(* The container, request by request.                                      *)

\* interpret-ghidra.py: a turn's end, and what a request asks next.
LEMMA LegNext ==
  ASSUME LegIInv, [ContainerNext]_container
  PROVE  LegIInv'
<1> USE SettingsAssumption DEF LegIInv, Requests, Shots, IsLocal, Escalated
<1>1. ASSUME UNCHANGED <<setting, client, model>>,
             \/ rpc' \in {rpc, "over"}
             \/ rpc \in Requests \ Shots /\ rpc' = "tools"
             \/ /\ rpc \in (Requests \ Shots) \cup {"tools"} /\ rpc' \in Requests \ Shots
                /\ rpc' \in {"synth_2a", "synth_2b", "synth_legacy"} => IsLocal
      PROVE  LegIInv'
  BY <1>1
<1>2. CASE Dispatch
  <2>1. CASE setting.type = "init" /\ setting.kind = "single"
    BY <1>2, <2>1 DEF Dispatch, ChooseClient
  <2>2. CASE setting.type = "init" /\ setting.kind # "single"
    BY <1>2, <2>2 DEF Dispatch, ChooseClient, AtTop
  <2>3. CASE setting.type # "init"
    BY <1>2, <2>3 DEF Dispatch
  <2> QED
    BY <2>1, <2>2, <2>3
<1>3. CASE TurnOver
  <2>1. rpc = "tools" /\ UNCHANGED <<setting, client>>
    BY <1>3 DEF TurnOver
  <2>2. CASE Conclude("limit", "max_calls_final") /\ UNCHANGED model
    BY <1>1, <2>1, <2>2 DEF Conclude
  <2>3. CASE rpc' = "loop" /\ model' = AtTop(calls')
    BY <2>1, <2>3 DEF AtTop
  <2> QED
    BY <1>3, <2>2, <2>3 DEF TurnOver
<1>4. CASE ForceFinal \/ LoopUnparsed
  BY <1>1, <1>4 DEF ForceFinal, LoopUnparsed, Conclude
<1>5. CASE RefuseMessage \/ ShotAnswered \/ ShotFails \/ ShotNotObject \/ Refused \/ RefusedUnseen
             \/ LoopFails \/ LoopTools \/ PipeClosed \/ LoopAnswered \/ LoopNotObject
  BY <1>1, <1>5 DEF RefuseMessage, ShotAnswered, ShotFails, ShotNotObject, Refused,
     RefusedUnseen, LoopFails, LoopTools, PipeClosed, LoopAnswered, LoopNotObject, Say, Dies
<1>6. CASE Prose \/ NoVisibleText \/ ProseFails
  BY <1>1, <1>6 DEF Prose, NoVisibleText, ProseFails
<1>7. CASE SynthTransport \/ Serialized \/ SerializeFails \/ LegacyAnswered \/ LegacyFails
  BY <1>1, <1>7 DEF SynthTransport, Serialized, SerializeFails, LegacyAnswered, LegacyFails,
     Raises, Say, Dies
<1>8. CASE CloudSynthesize
  BY <1>1, <1>8 DEF CloudSynthesize, RecoverAnswered, RecoverFails, RecoverRejected,
     LastAnswered, LastFails, LastTransport, LastNotObject, Recovering, LastRequests, Say, Dies
<1>9. CASE Store \/ OutOfTime \/ UNCHANGED container
  BY <1>1, <1>9 DEF Store, OutOfTime, container
<1> QED
  BY <1>2, <1>3, <1>4, <1>5, <1>6, <1>7, <1>8, <1>9 DEF ContainerNext, Loop, LocalSynthesize

LEMMA LegInit == ContainerInit => LegIInv
BY DEF ContainerInit, LegIInv, Shots, Requests, IsLocal, Escalated

\* "the passthrough serves no local model": whatever is deployed or evaluated, each
\* request goes over a transport on which its model answers.
THEOREM LegsServe == ContainerSpec => []LegServes
<1>1. LegIInv /\ [ContainerNext]_container => LegIInv'
  BY LegNext
<1>2. LegIInv => LegServes
  <2> SUFFICES ASSUME LegIInv, rpc \in Requests PROVE model \in Known(Leg)
    BY DEF LegServes, Asked
  <2> USE SettingsAssumption, ServedAssumption DEF LegIInv, IsLocal, Escalated
  <2>1. CASE rpc = "single"
    BY <2>1 DEF Leg, Known, Shots
  <2>2. CASE rpc \in {"summary", "plain"}
    BY <2>2 DEF Leg, Known, Shots
  <2>3. CASE rpc = "synth_2b"
    BY <2>3 DEF Leg, Known, Shots
  <2>4. CASE rpc \notin {"single", "summary", "plain", "synth_2b"}
    <3>1. Leg = client /\ rpc \notin Shots
      BY <2>4 DEF Leg, Shots
    <3>2. client = IF setting.backend = "cloud" THEN "passthrough" ELSE "router"
      BY <3>1
    <3> QED
      BY <3>1, <3>2 DEF Known
  <2> QED
    BY <2>1, <2>2, <2>3, <2>4
<1> QED
  BY LegInit, <1>1, <1>2, PTL DEF ContainerSpec

\* A line on stdout is one of the container's results, and not silence.
LEMMA Spoken ==
  ASSUME NEW type \in {"final", "summary", "plain_english"},
         NEW what \in {"analysis", "error", "refused"},
         NEW usage \in Nat \cup {NoUsage}, NEW status, noProse \in BOOLEAN,
         Say(type, what, usage, status)
  PROVE  /\ said' # Silent /\ rpc' = "over" /\ code' = status
         /\ said'.type = type /\ said'.what = what /\ said'.usage = usage
         /\ said'.tagged = noProse
<1>1. said' \in ResultLines
  BY DEF Say, ResultLines
<1> QED
  BY <1>1, SilenceAssumption DEF Say

\* The end of a container: what it says counts every answer, unless there was none.
LEMMA EndsHonest ==
  ASSUME BillIInv, rpc # "over", UNCHANGED <<setting, noProse, stored>>,
         NEW type \in {"final", "summary", "plain_english"},
         NEW what \in {"analysis", "error", "refused"},
         NEW usage \in Nat \cup {NoUsage}, NEW status \in {"0", "1"},
         Say(type, what, usage, status),
         paid' \in Nat, concl' = concl, why' \in {why, "closed"},
         why' = "closed" => status = "1",
         usage # NoUsage => usage = paid',
         usage = NoUsage => paid' = 0 \/ why' = "closed",
         declined' /\ type = "final" => what = "refused"
  PROVE  BillIInv'
<1>1. /\ said' # Silent /\ rpc' = "over" /\ code' = status
      /\ said'.type = type /\ said'.what = what /\ said'.usage = usage
      /\ said'.tagged = noProse
  BY Spoken DEF BillIInv
<1>2. stored' = Silent /\ (concl' = "reasoning" => noProse)
  BY DEF BillIInv, UntilOver
<1>3. ResultHonest'
  BY <1>1, <1>2 DEF ResultHonest
<1>4. OverInv' /\ UntilOver'
  BY <1>1 DEF OverInv, UntilOver, BillIInv
<1> QED
  BY <1>3, <1>4 DEF BillIInv

\* The end of a container that nobody hears of.
LEMMA DiesHonest ==
  ASSUME BillIInv, rpc # "over", UNCHANGED <<setting, noProse, said>>,
         rpc' = "over", code' \in {"died", "killed"}, paid' \in Nat
  PROVE  BillIInv'
BY DEF BillIInv, UntilOver, OverInv, ResultHonest

\* A request that is followed by another.
LEMMA GoesOn ==
  ASSUME BillIInv, rpc # "over", rpc' # "over", UNCHANGED <<setting, said, stored, declined, code>>,
         paid' \in Nat, noProse' \in BOOLEAN, totals' = paid', why' # "closed",
         rpc' \in {"starting"} \cup Shots => paid' = 0,
         rpc' \in Unchecked => setting.type \in {"summarize", "plain_english"},
         concl' = "reasoning" => noProse'
  PROVE  BillIInv'
BY DEF BillIInv, UntilOver, OverInv, ResultHonest

\* Every step keeps the account of what was answered.
LEMMA BillNext ==
  ASSUME BillIInv, [ContainerNext]_container
  PROVE  BillIInv'
<1> DEFINE Kinds3 == {"final", "summary", "plain_english"}
           Same == UNCHANGED <<setting, noProse, stored>>
<1>0. /\ rpc # "over" => /\ totals = paid /\ declined = FALSE /\ why # "closed" /\ said = Silent
                         /\ code = "none" /\ stored = Silent
                         /\ (rpc \in {"starting"} \cup Shots => paid = 0)
                         /\ (rpc \in Unchecked => setting.type \in {"summarize", "plain_english"})
                         /\ (concl = "reasoning" => noProse)
      /\ paid \in Nat /\ noProse \in BOOLEAN
  BY DEF BillIInv, UntilOver
<1>1. ResultType \in Kinds3
  BY DEF ResultType
\* Said with the usage of all, of none, or with none to tell of.
<1>2. ASSUME NEW what \in {"analysis", "error", "refused"}, NEW type \in Kinds3,
             NEW status \in {"0", "1"}, Say(type, what, totals', status),
             rpc # "over", Same, Billed \/ Unbilled, UNCHANGED <<concl, why>>,
             declined' /\ type = "final" => what = "refused"
      PROVE  BillIInv'
  <2>1. paid' \in Nat /\ totals' = paid'
    BY <1>0, <1>2 DEF Billed, Unbilled
  <2>2. totals' # NoUsage /\ totals' \in Nat
    BY <2>1, SilenceAssumption
  <2> QED
    BY <1>0, <1>2, <2>1, <2>2, EndsHonest
<1>3. ASSUME NEW what \in {"analysis", "error", "refused"}, NEW type \in Kinds3,
             NEW status \in {"0", "1"}, Say(type, what, totals, status),
             rpc # "over", Same, Unbilled, UNCHANGED <<concl, why, declined>>
      PROVE  BillIInv'
  <2>1. totals' = totals
    BY <1>3 DEF Unbilled
  <2> QED
    BY <1>0, <1>2, <1>3, <2>1
<1>4. ASSUME NEW type \in Kinds3, NEW status \in {"0", "1"}, Say(type, "error", NoUsage, status),
             rpc # "over", Same, Unbilled, UNCHANGED <<concl, declined>>, why' \in {why, "closed"},
             why' = "closed" => status = "1", paid = 0 \/ why' = "closed"
      PROVE  BillIInv'
  BY <1>0, <1>4, EndsHonest DEF Unbilled
<1>5. ASSUME Dies, rpc # "over", UNCHANGED <<setting, noProse>>, paid' \in {paid, paid + 1}
      PROVE  BillIInv'
  BY <1>0, <1>5, DiesHonest DEF Dies
<1>6. ASSUME rpc \notin {"over"}, rpc' \notin {"over", "starting"} \cup Shots \cup Unchecked,
             UNCHANGED <<setting, said, stored, declined, code>>, Billed \/ Unbilled,
             why' # "closed", noProse' \in BOOLEAN, concl' = "reasoning" => noProse'
      PROVE  BillIInv'
  <2>1. paid' \in Nat /\ totals' = paid'
    BY <1>0, <1>6 DEF Billed, Unbilled
  <2> QED
    BY <1>6, <2>1, GoesOn
<1>7. CASE RefuseMessage
  BY <1>0, <1>4, <1>7 DEF RefuseMessage, Unbilled
<1>8. CASE Dispatch
  <2>1. rpc = "starting" /\ rpc' # "over" /\ UNCHANGED <<setting, said, stored, declined, code,
          paid, totals, noProse, concl, why>>
    BY <1>8 DEF Dispatch, Quietly
  <2>2. rpc' \in Unchecked => setting.type \in {"summarize", "plain_english"}
    BY <1>8, SettingsAssumption DEF Dispatch, Unchecked, BillIInv
  <2> QED
    BY <1>0, <2>1, <2>2, GoesOn
<1>9. CASE ShotAnswered
  <2>1. rpc # "over" /\ ~declined'
    BY <1>0, <1>9 DEF ShotAnswered, Shots
  <2> QED
    BY <1>1, <1>2, <1>9, <2>1 DEF ShotAnswered
<1>10. CASE ShotFails
  <2>1. rpc # "over" /\ paid = 0
    BY <1>0, <1>10 DEF ShotFails, Shots
  <2> QED
    BY <1>0, <1>1, <1>4, <1>10, <2>1 DEF ShotFails
<1>11. CASE ShotNotObject
  BY <1>5, <1>11 DEF ShotNotObject
<1>12. CASE Refused
  <2>1. rpc # "over"
    BY <1>12 DEF Refused, Requests
  <2> QED
    BY <1>2, <1>12, <2>1 DEF Refused
<1>13. CASE RefusedUnseen
  <2>1. rpc # "over" /\ ResultType # "final"
    BY <1>0, <1>13 DEF RefusedUnseen, Unchecked, ResultType
  <2> QED
    BY <1>1, <1>2, <1>13, <2>1 DEF RefusedUnseen
<1>14. CASE LoopFails \/ LastFails \/ RecoverFails \/ LegacyFails
  <2>1. rpc # "over" /\ Same
    BY <1>14 DEF LoopFails, LastFails, RecoverFails, LegacyFails, LastRequests, Recovering
  <2>2. CASE LoopFails
    BY <1>3, <2>1, <2>2 DEF LoopFails
  <2>3. CASE LastFails
    BY <1>3, <2>1, <2>3 DEF LastFails
  <2>4. CASE RecoverFails
    BY <1>3, <2>1, <2>4 DEF RecoverFails
  <2>5. CASE LegacyFails
    BY <1>3, <2>1, <2>5 DEF LegacyFails
  <2> QED
    BY <1>14, <2>2, <2>3, <2>4, <2>5
<1>15. CASE LoopTools
  BY <1>0, <1>6, <1>15 DEF LoopTools, Quietly, Shots, Unchecked
<1>16. CASE TurnOver
  <2>1. rpc' \in {"loop", "synth_2a", "max_calls_final"} /\ why' \in {why, "limit"}
    BY <1>16 DEF TurnOver, Conclude
  <2> QED
    BY <1>0, <1>6, <1>16, <2>1 DEF TurnOver, Quietly, Shots, Unchecked, Unbilled
<1>17. CASE ForceFinal
  BY <1>0, <1>6, <1>17 DEF ForceFinal, Conclude, Quietly, Shots, Unchecked, Unbilled
<1>18. CASE PipeClosed
  <2>1. rpc # "over" /\ Same /\ Unbilled /\ why' = "closed"
    BY <1>18 DEF PipeClosed, Unbilled
  <2> QED
    BY <1>4, <1>18, <2>1 DEF PipeClosed
<1>19. CASE LoopAnswered
  BY <1>0, <1>2, <1>19 DEF LoopAnswered
<1>20. CASE LoopUnparsed
  BY <1>0, <1>6, <1>20 DEF LoopUnparsed, Conclude, Quietly, Shots, Unchecked
<1>21. CASE LoopNotObject \/ LastNotObject
  <2>1. rpc # "over" /\ Dies /\ UNCHANGED <<setting, noProse>> /\ paid' = paid + 1
    BY <1>21 DEF LoopNotObject, LastNotObject, LastRequests, Billed
  <2> QED
    BY <1>5, <2>1
<1>22. CASE Prose \/ NoVisibleText \/ ProseFails
  <2>1. rpc = "synth_2a" /\ rpc' \in {"synth_2b", "synth_legacy"} /\ (Billed \/ Unbilled)
    BY <1>22 DEF Prose, NoVisibleText, ProseFails
  <2>2. UNCHANGED <<setting, said, stored, declined, code, why>>
    BY <1>22 DEF Prose, NoVisibleText, ProseFails, Quietly
  <2>3. noProse' \in BOOLEAN /\ (concl' = "reasoning" => noProse')
    BY <1>0, <1>22, <2>1 DEF Prose, NoVisibleText, ProseFails
  <2> QED
    BY <1>0, <1>6, <2>1, <2>2, <2>3 DEF Shots, Unchecked
\* An exception of local_synthesize, reported or not.
<1>23. ASSUME Raises, rpc # "over", Same, Billed \/ Unbilled, UNCHANGED <<concl, why, declined>>
       PROVE  BillIInv'
  <2>1. CASE why = "forced"
    BY <1>0, <1>2, <1>23, <2>1 DEF Raises
  <2>2. CASE why # "forced"
    BY <1>0, <1>5, <1>23, <2>2 DEF Raises, Billed, Unbilled
  <2> QED
    BY <2>1, <2>2
<1>24. CASE SynthTransport
  <2>1. rpc # "over" /\ Same /\ Unbilled /\ UNCHANGED <<concl, why, declined>> /\ Raises
    BY <1>24 DEF SynthTransport
  <2> QED
    BY <1>23, <2>1
<1>25. CASE Serialized \/ SerializeFails \/ LegacyAnswered
  <2>1. rpc # "over" /\ Same /\ (Billed \/ Unbilled) /\ UNCHANGED <<concl, why, declined>>
    BY <1>25 DEF Serialized, SerializeFails, LegacyAnswered, Unusable
  <2>2. Raises \/ Say("final", "analysis", totals', "0")
    BY <1>25 DEF Serialized, SerializeFails, LegacyAnswered
  <2> QED
    BY <1>0, <1>2, <1>23, <2>1, <2>2
<1>26. CASE RecoverAnswered \/ LastAnswered
  <2>1. rpc # "over" /\ Same /\ Billed /\ UNCHANGED <<concl, why, declined>>
        /\ Say("final", "analysis", totals', "0")
    BY <1>26 DEF RecoverAnswered, LastAnswered, Recovering, LastRequests
  <2> QED
    BY <1>0, <1>2, <2>1
<1>27. CASE RecoverRejected
  BY <1>0, <1>6, <1>27 DEF RecoverRejected, Quietly, Shots, Unchecked, Unbilled
<1>28. CASE LastTransport
  <2>1. rpc # "over" /\ Same /\ Unbilled /\ UNCHANGED <<concl, why, declined>>
    BY <1>28 DEF LastTransport, Recovering, LastRequests
  <2>2. Say("final", "error", totals, "0") \/ Dies
    BY <1>28 DEF LastTransport
  <2> QED
    BY <1>3, <1>5, <2>1, <2>2 DEF Unbilled
<1>29. CASE Store
  <2>1. UNCHANGED <<setting, rpc, paid, noProse, said, code, why, declined, concl>> /\ rpc = "over"
    BY <1>29 DEF Store
  <2>2. stored'.usage = IF said = Silent THEN NoUsage ELSE said.usage
    BY <1>29 DEF Store, Kept
  <2>3. code = "0" /\ paid > 0 => stored'.usage = paid
    <3> SUFFICES ASSUME code = "0", paid > 0 PROVE stored'.usage = paid
      OBVIOUS
    <3>1. said # Silent /\ why # "closed"
      BY <2>1 DEF BillIInv, OverInv
    <3>2. said.usage # NoUsage
      BY <1>0, <3>1 DEF BillIInv, ResultHonest
    <3> QED
      BY <2>2, <3>1, <3>2 DEF BillIInv, ResultHonest
  <2>4. UntilOver' /\ OverInv'
    BY <2>1 DEF UntilOver, OverInv, BillIInv
  <2>5. ResultHonest'
    BY <2>1, <2>3 DEF ResultHonest, BillIInv
  <2> QED
    BY <2>1, <2>4, <2>5 DEF BillIInv
<1>30. CASE OutOfTime
  BY <1>0, <1>30, DiesHonest DEF OutOfTime
<1>31. CASE UNCHANGED container
  BY <1>31 DEF container, BillIInv, UntilOver, OverInv, ResultHonest
<1> QED
  BY <1>7, <1>8, <1>9, <1>10, <1>11, <1>12, <1>13, <1>14, <1>15, <1>16, <1>17, <1>18, <1>19, <1>20,
     <1>21, <1>22, <1>24, <1>25, <1>26, <1>27, <1>28, <1>29, <1>30, <1>31
     DEF ContainerNext, Loop, LocalSynthesize, CloudSynthesize

\* "billed like any turn": a result reports every answered request, refused or useless
\* as it may be, says what it is, and is stored with its usage.
THEOREM ResultsAreHonest == ContainerSpec => []ResultHonest
<1>1. ContainerInit => BillIInv
  <2> SUFFICES ASSUME ContainerInit PROVE BillIInv
    OBVIOUS
  <2>1. UntilOver
    BY DEF ContainerInit, UntilOver, Unchecked
  <2>2. OverInv /\ ResultHonest
    BY DEF ContainerInit, OverInv, ResultHonest
  <2> QED
    BY <2>1, <2>2 DEF ContainerInit, BillIInv
<1>2. BillIInv => ResultHonest
  BY DEF BillIInv
<1> QED
  BY BillNext, <1>1, <1>2, PTL DEF ContainerSpec
-----------------------------------------------------------------------------
(* The corpus and the sweeps over it *)

\* A directory is of a report or a stub, and none is not.
LEMMA DirectoryIsOne ==
  ASSUME NEW r \in Reports \cup {Stub}, NEW projects, NEW cells
  PROVE  /\ Directory(r, projects, cells) # NoDir
         /\ Directory(r, projects, cells).of = r
         /\ Directory(r, projects, cells).holds = projects
         /\ Directory(r, projects, cells).cells = cells
<1>1. r # 0
  BY StubAssumption, ShapesAssumption DEF Reports
<1> QED
  BY <1>1 DEF Directory, NoDir

\* A directory with no cells.
LEMMA NewDirectory ==
  ASSUME NEW r, NEW projects
  PROVE  /\ IsDirectory(Directory(r, projects, <<>>))
         /\ DOMAIN Directory(r, projects, <<>>).cells = {}
<1>1. <<>> = [c \in {} |-> <<>>[c]] /\ DOMAIN <<>> = {}
  OBVIOUS
<1>2. Directory(r, projects, <<>>).cells = <<>>
  BY DEF Directory
<1>3. Directory(r, projects, <<>>) =
        Directory(Directory(r, projects, <<>>).of, Directory(r, projects, <<>>).holds,
                  Directory(r, projects, <<>>).cells)
  BY DEF Directory
<1> QED
  BY <1>1, <1>2, <1>3 DEF IsDirectory

\* What writing below the corpus directory leaves: the directory is of what it was, or
\* of nothing where there was none; the cell has its content, and the others theirs.
LEMMA Written ==
  ASSUME IsDirectory(dest), NEW c, NEW content, IsCell(content)
  PROVE  /\ IsDirectory(Below(c, content)) /\ Below(c, content) # NoDir
         /\ dest # NoDir => /\ Below(c, content).of = dest.of
                            /\ Below(c, content).holds = dest.holds
         /\ DOMAIN Below(c, content).cells =
              (IF dest = NoDir THEN {} ELSE DOMAIN dest.cells) \cup {c}
         /\ Below(c, content).cells[c] = content
         /\ \A e \in DOMAIN dest.cells :
              dest # NoDir /\ e # c => Below(c, content).cells[e] = dest.cells[e]
<1> DEFINE d == IF dest = NoDir THEN Directory(Stub, NoProject, <<>>) ELSE dest
           cells == [e \in DOMAIN d.cells \cup {c} |-> IF e = c THEN content ELSE d.cells[e]]
           new == Directory(d.of, d.holds, cells)
<1>1. IsDirectory(d) /\ (dest = NoDir => DOMAIN d.cells = {})
  BY NewDirectory
<1>2. d = Directory(d.of, d.holds, d.cells)
  BY <1>1 DEF IsDirectory
<1>3. d # NoDir
  BY DirectoryIsOne
<1>4. d.of # 0 \/ d.holds # NoProject \/ d.cells # <<>>
  BY <1>2, <1>3 DEF NoDir
<1>5. c \in DOMAIN cells /\ DOMAIN cells = DOMAIN d.cells \cup {c} /\ cells[c] = content
  OBVIOUS
<1>6. cells # <<>>
  BY <1>5
<1>7. new # NoDir /\ new.of = d.of /\ new.holds = d.holds /\ new.cells = cells
  BY <1>6 DEF Directory, NoDir
<1>8. Below(c, content) = new
  <2>1. Below(c, content) = [d EXCEPT !.cells = cells]
    BY DEF Below
  <2> QED
    BY <2>1, <1>2 DEF Directory
<1>9. \A e \in DOMAIN cells : IsCell(cells[e])
  BY <1>1 DEF IsDirectory
<1>10. IsDirectory(new)
  <2>1. new = Directory(new.of, new.holds, new.cells)
    BY <1>7
  <2>2. new.cells = [e \in DOMAIN new.cells |-> new.cells[e]]
    BY <1>7
  <2>3. \A e \in DOMAIN new.cells : IsCell(new.cells[e])
    BY <1>7, <1>9
  <2> QED
    BY <2>1, <2>2, <2>3 DEF IsDirectory
<1>11. \A e \in DOMAIN d.cells : e # c => cells[e] = d.cells[e]
  OBVIOUS
<1> QED
  BY <1>1, <1>5, <1>7, <1>8, <1>10, <1>11

\* The corpus, as a step of the cleanup, of the agent or of an evaluation that writes
\* nothing leaves it.
CorpusFrame == UNCHANGED <<shape, step, source, staging, aside, cut, dest, archive, listed>>

LEMMA FrameServes ==
  ASSUME CorpusIInv, CorpusFrame
  PROVE  CorpusIInv'
BY DEF CorpusIInv, CorpusFrame, CorpusServes, Opens, Fallback, Serves, InIndex, Reports

\* Serving is a matter of the report and of the projects.
LEMMA ServesSame ==
  ASSUME UNCHANGED shape
  PROVE  /\ \A d : Serves(d) <=> Serves(d)'
         /\ \A d : Opens(d) <=> Opens(d)'
         /\ \A d, e : d.of = e.of /\ d.holds = e.holds /\ e # NoDir /\ Opens(d) => Opens(e)
BY DEF Serves, Opens, InIndex

\* A write of the evaluation keeps what is promised: into the directory that is there,
\* or into a new one, which is noted when it takes the place of one set aside.
LEMMA MadeServes ==
  ASSUME CorpusIInv, IsDirectory(dest), NEW c, NEW content, IsCell(content),
         dest' = Below(c, content), cut \/ (dest = NoDir /\ aside # NoDir) => cut',
         UNCHANGED <<shape, step, source, staging, aside, archive, listed>>
  PROVE  CorpusIInv'
<1>1. cut \/ (dest = NoDir /\ aside # NoDir) => cut'
  OBVIOUS
<1>2. dest' # NoDir /\ (dest # NoDir => dest'.of = dest.of /\ dest'.holds = dest.holds)
  BY <1>1, Written
<1>3. /\ \A d : Serves(d) <=> Serves(d)'
      /\ \A d : Opens(d) <=> Opens(d)'
      /\ \A d, e : d.of = e.of /\ d.holds = e.holds /\ e # NoDir /\ Opens(d) => Opens(e)
  BY ServesSame
<1>4. dest # NoDir => (Opens(dest) => Opens(dest'))
  BY <1>2, <1>3
<1>5. Opens(dest) => dest # NoDir
  BY DEF Opens
<1>6. ~Opens(NoDir)
  BY DEF Opens
<1>7. (source \in Reports)' /\ (step # "place" => aside = NoDir)'
  BY DEF CorpusIInv, Reports
<1>8. (step = "place" => InIndex(shape[source], staging))'
  BY DEF CorpusIInv, InIndex
<1>9. Fallback => Fallback'
  <2>1. cut => cut'
    BY <1>1
  <2>2. archive' = archive
    OBVIOUS
  <2> QED
    BY <2>1, <2>2, <1>3 DEF Fallback
<1>10. (step = "place" /\ listed => Opens(aside) \/ Fallback)'
  BY <1>3, <1>9 DEF CorpusIInv
<1>11. (step = "place" /\ dest # NoDir /\ aside # NoDir => cut)'
  BY <1>1 DEF CorpusIInv
<1>12. (step = "manifest" => Opens(dest))'
  BY <1>3, <1>4, <1>5 DEF CorpusIInv
<1>13. CorpusServes <=> (listed /\ step # "place" => Opens(dest) \/ Fallback)
  BY DEF CorpusServes, Opens, Fallback
<1>14. CorpusServes' <=> (listed /\ step # "place" => Opens(dest) \/ Fallback)'
  BY DEF CorpusServes, Opens, Fallback
<1>15. CorpusServes'
  BY <1>3, <1>4, <1>5, <1>9, <1>13, <1>14 DEF CorpusIInv
<1> QED
  BY <1>7, <1>8, <1>10, <1>11, <1>12, <1>15 DEF CorpusIInv

\* A step of the copy, before the renames, leaves the corpus.
LEMMA CopyServes ==
  ASSUME CorpusIInv, step # "place", step' \notin {"place", "manifest"}, source' \in Reports,
         UNCHANGED <<shape, aside, cut, dest, archive, listed>>
  PROVE  CorpusIInv'
<1>1. aside' = NoDir /\ NoDir' = NoDir
  BY DEF CorpusIInv
<1>2. CorpusServes'
  BY DEF CorpusIInv, CorpusServes, Serves, InIndex
<1>3. (source \in Reports)'
  BY DEF Reports
<1> QED
  BY <1>1, <1>2, <1>3 DEF CorpusIInv

\* Neither the copy nor the two renames leave a listed directory that does not open
\* what it promises with none in the archive.
LEMMA PromotionServes ==
  ASSUME CorpusIInv, Promotion
  PROVE  CorpusIInv'
<1>1. UNCHANGED shape
  BY DEF Promotion, StartPromotion, CopyProject, CopyRefused, IndexRefused, SetAside,
         NothingAside, Place, PlaceFails, ListPromotion, PromotionDies, reports
<1>2. /\ \A d : Serves(d) <=> Serves(d)'
      /\ \A d : Opens(d) <=> Opens(d)'
      /\ ~Opens(NoDir)
  BY <1>1, ServesSame DEF Opens
<1>3. CorpusServes <=> (listed /\ step # "place" => Opens(dest) \/ Fallback)
  BY DEF CorpusServes, Opens, Fallback
<1>4. CorpusServes' <=> (listed /\ step # "place" => Opens(dest) \/ Fallback)'
  BY DEF CorpusServes, Opens, Fallback
<1>5. Fallback => (cut' /\ archive \subseteq archive' => Fallback')
  BY <1>2 DEF Fallback
<1>6. ASSUME NEW r \in Reports, NEW again \in BOOLEAN, StartPromotion(r, again)
      PROVE CorpusIInv'
  BY <1>6, CopyServes DEF StartPromotion, CorpusIInv, kept, reports
<1>7. ASSUME NEW p \in Projects, CopyProject(p)
      PROVE CorpusIInv'
  BY <1>7, CopyServes DEF CopyProject, CorpusIInv, kept, reports
<1>8. ASSUME NEW p \in Projects, CopyRefused(p)
      PROVE CorpusIInv'
  BY <1>8, CopyServes DEF CopyRefused, Abandon, CorpusIInv, kept, reports
<1>9. CASE IndexRefused
  BY <1>9, CopyServes DEF IndexRefused, Abandon, CorpusIInv, kept, reports
<1>10. ASSUME SetAside \/ NothingAside PROVE CorpusIInv'
  <2>1. InIndex(shape[source], staging)'
    BY <1>10, <1>1 DEF SetAside, NothingAside, Copied, InIndex
  <2>2. CASE SetAside
    <3>1. /\ step = "copy" /\ step' = "place" /\ aside' = dest /\ dest' = NoDir
          /\ UNCHANGED <<source, cut, archive, listed>>
      BY <2>2 DEF SetAside
    <3>2. Fallback => Fallback'
      BY <3>1, <1>5 DEF Fallback
    <3>3. listed => Opens(dest) \/ Fallback
      BY <3>1, <1>3 DEF CorpusIInv
    <3>4. (step = "place" /\ listed => Opens(aside) \/ Fallback)'
      BY <3>1, <3>2, <3>3, <1>2
    <3>5. (source \in Reports)'
      BY <3>1 DEF CorpusIInv, Reports
    <3> QED
      BY <2>1, <3>1, <3>4, <3>5, <1>4 DEF CorpusIInv
  <2>3. CASE NothingAside
    <3>1. /\ step = "copy" /\ step' = "place" /\ dest = NoDir
          /\ UNCHANGED <<source, aside, cut, dest, archive, listed>>
      BY <2>3 DEF NothingAside, kept
    <3>2. listed => Fallback
      BY <3>1, <1>2, <1>3 DEF CorpusIInv
    <3>3. (step = "place" /\ listed => Opens(aside) \/ Fallback)'
      BY <3>1, <3>2, <1>5 DEF Fallback
    <3>4. (source \in Reports)'
      BY <3>1 DEF CorpusIInv, Reports
    <3>5. (step = "place" /\ dest # NoDir /\ aside # NoDir => cut)'
      BY <3>1 DEF NoDir, Directory
    <3> QED
      BY <2>1, <3>1, <3>3, <3>4, <3>5, <1>4 DEF CorpusIInv
  <2> QED
    BY <1>10, <2>2, <2>3
<1>11. CASE Place
  <2>1. /\ dest' # NoDir /\ dest'.of = source /\ dest'.holds = staging
        /\ source # Stub /\ source \in Reports
    BY <1>11, DirectoryIsOne, StubAssumption DEF Place, CorpusIInv
  <2>2. InIndex(shape[source], staging)
    BY <1>11 DEF Place, CorpusIInv
  <2>3. Serves(dest')
    BY <2>1, <2>2 DEF Serves
  <2>4. Opens(dest')
    BY <2>1, <2>3 DEF Opens
  <2> QED
    BY <1>11, <2>1, <2>4, <1>2, <1>4 DEF Place, CorpusIInv
<1>12. CASE PlaceFails
  <2>1. step = "place" /\ step' = "off" /\ aside' = NoDir /\ UNCHANGED <<listed, source, cut>>
    BY <1>12 DEF PlaceFails, Abandon
  <2>2. CASE dest = NoDir
    <3>1. dest' = aside /\ archive' = archive
      BY <1>12, <2>2 DEF PlaceFails
    <3>2. listed => Opens(aside) \/ Fallback
      BY <2>1 DEF CorpusIInv
    <3>3. Opens(aside) => Opens(dest)'
      BY <3>1, <1>2
    <3>4. Fallback => Fallback'
      BY <2>1, <3>1, <1>5 DEF Fallback
    <3>5. CorpusServes'
      BY <2>1, <3>2, <3>3, <3>4, <1>4
    <3>6. (source \in Reports)'
      BY <2>1 DEF CorpusIInv, Reports
    <3> QED
      BY <2>1, <3>5, <3>6 DEF CorpusIInv
  <2>3. CASE dest # NoDir
    <3>1. archive \subseteq archive' /\ (aside # NoDir => aside \in archive')
      BY <1>12, <2>3 DEF PlaceFails, Archived
    <3>2. listed => Opens(aside) \/ Fallback
      BY <2>1 DEF CorpusIInv
    <3>3. Opens(aside) => Fallback'
      BY <2>1, <2>3, <3>1, <1>2 DEF CorpusIInv, Fallback, Opens
    <3>4. Fallback => Fallback'
      BY <2>1, <3>1, <1>5 DEF Fallback
    <3>5. CorpusServes'
      BY <2>1, <3>2, <3>3, <3>4, <1>4
    <3>6. (source \in Reports)'
      BY <2>1 DEF CorpusIInv, Reports
    <3> QED
      BY <2>1, <3>5, <3>6 DEF CorpusIInv
  <2> QED
    BY <2>2, <2>3
<1>13. CASE ListPromotion
  BY <1>13, <1>2, <1>3, <1>4, <1>5 DEF ListPromotion, CorpusIInv, reports
<1>14. CASE PromotionDies
  <2>1. /\ step' = "off" /\ aside' = NoDir /\ UNCHANGED <<source, dest, listed>>
        /\ archive \subseteq archive' /\ (aside # NoDir => aside \in archive')
        /\ cut' = (cut \/ (step = "place" /\ aside # NoDir))
    BY <1>14 DEF PromotionDies, Abandon, Archived
  <2>2. Fallback => Fallback'
    BY <2>1, <1>5 DEF Fallback
  <2>3. CASE step = "place"
    <3>1. Opens(aside) => Fallback'
      BY <2>1, <2>3, <1>2 DEF Fallback, Opens
    <3> QED
      BY <2>1, <2>2, <2>3, <3>1, <1>4 DEF CorpusIInv
  <2>4. CASE step # "place"
    BY <2>1, <2>2, <2>4, <1>2, <1>3, <1>4 DEF CorpusIInv
  <2> QED
    BY <2>3, <2>4
<1> QED
  BY <1>6, <1>7, <1>8, <1>9, <1>10, <1>11, <1>12, <1>13, <1>14 DEF Promotion

\* An empty cell has no logs and no result.
LEMMA EmptyIsCell ==
  /\ IsCell(EmptyCell) /\ EmptyCell.result = NoResult /\ LogsOf(EmptyCell) = {}
BY DEF IsCell, EmptyCell, LogsOf

\* A cell as the agent leaves it has the log of its run beside what it had.
LEMMA Logged ==
  ASSUME NEW cell, IsCell(cell), NEW k \in Kinds, NEW r \in Nat
  PROVE  LET new == [cell EXCEPT !.calls[k] = r]
         IN  /\ IsCell(new) /\ new.result = cell.result
             /\ LogsOf(new) \subseteq LogsOf(cell) \cup {r}
<1> DEFINE logs == [cell.calls EXCEPT ![k] = r]
           new == [cell EXCEPT !.calls[k] = r]
<1>1. logs \in [Kinds -> Nat] /\ \A t \in Kinds : logs[t] \in {cell.calls[t], r}
  BY DEF IsCell
<1>2. new = [calls |-> logs, result |-> cell.result]
  BY DEF IsCell
<1>3. IsCell(new) /\ new.result = cell.result /\ new.calls = logs
  BY <1>1, <1>2 DEF IsCell
<1> QED
  BY <1>1, <1>3 DEF LogsOf

\* A cell as its result is kept has the logs it had.
LEMMA Resulted ==
  ASSUME NEW cell, IsCell(cell), NEW r
  PROVE  LET new == [cell EXCEPT !.result = r]
         IN  /\ IsCell(new) /\ new.result = r /\ LogsOf(new) = LogsOf(cell)
BY DEF IsCell, LogsOf

\* A cell of the corpus directory is one.
LEMMA CellOfDest ==
  ASSUME SweepType, NEW c, Exist(c)
  PROVE  IsCell(dest.cells[c]) /\ c \in DOMAIN dest.cells /\ dest # NoDir
BY DEF SweepType, IsDirectory, Exist

\* What the evaluation leaves when it writes no directory.
NothingMade == UNCHANGED <<dest, aside>>

\* The directories of the corpus are typed after each step.
LEMMA DirectoriesTyped ==
  ASSUME CorpusIInv, SweepType, \/ Promotion
                                \/ \E c, content : /\ IsCell(content) /\ UNCHANGED aside
                                                    /\ dest' = Below(c, content)
                                \/ NothingMade
  PROVE  \A d \in {dest', aside'} : IsDirectory(d)
<1>1. IsDirectory(dest) /\ IsDirectory(aside) /\ IsDirectory(NoDir)
  BY NewDirectory DEF SweepType, NoDir
<1>2. ASSUME Promotion
      PROVE  \A d \in {dest', aside'} :
               d \in {dest, aside, NoDir, Directory(source, staging, <<>>)}
  BY <1>2 DEF Promotion, StartPromotion, CopyProject, CopyRefused, IndexRefused, SetAside,
         NothingAside, Place, PlaceFails, ListPromotion, PromotionDies, kept
<1>3. IsDirectory(Directory(source, staging, <<>>))
  BY NewDirectory
<1>4. ASSUME NEW c, NEW content, IsCell(content), dest' = Below(c, content), UNCHANGED aside
      PROVE  \A d \in {dest', aside'} : IsDirectory(d)
  BY <1>1, <1>4, Written
<1> QED
  BY <1>1, <1>2, <1>3, <1>4 DEF NothingMade

\* The directories that a promotion leaves in the corpus are those that were there, but
\* for a new one, which has no cells.
LEMMA PromotionDirectories ==
  ASSUME CorpusIInv, Promotion
  PROVE  /\ \A d \in Current' : d \in Current \/ DOMAIN d.cells = {}
         /\ \A d \in ByPath' : d \in ByPath \/ DOMAIN d.cells = {}
<1>1. DOMAIN Directory(source, staging, <<>>).cells = {}
  BY NewDirectory
<1>2. step # "place" => aside = NoDir
  BY DEF CorpusIInv
<1>3. \/ UNCHANGED <<dest, aside>>
      \/ aside' = dest /\ dest' = NoDir
      \/ aside' = NoDir /\ dest' = Directory(source, staging, <<>>)
      \/ aside' = NoDir /\ dest = NoDir /\ dest' = aside
      \/ aside' = NoDir /\ dest' = dest
  BY DEF Promotion, StartPromotion, CopyProject, CopyRefused, IndexRefused, SetAside,
         NothingAside, Place, PlaceFails, ListPromotion, PromotionDies, kept
<1>4. CASE UNCHANGED <<dest, aside>>
  BY <1>4 DEF Current, ByPath
<1>5. CASE aside' = dest /\ dest' = NoDir
  BY <1>5 DEF Current, ByPath
<1>6. CASE aside' = NoDir /\ dest' = Directory(source, staging, <<>>)
  BY <1>1, <1>6 DEF Current, ByPath
<1>7. CASE aside' = NoDir /\ dest = NoDir /\ dest' = aside
  BY <1>7 DEF Current, ByPath
<1>8. CASE aside' = NoDir /\ dest' = dest
  BY <1>8 DEF Current, ByPath
<1> QED
  BY <1>3, <1>4, <1>5, <1>6, <1>7, <1>8

\* Each step leaves the evaluation where it was, in its cell, or before a run.
Idle == spc' \notin {"run", "score"}

\* A step that leaves every directory keeps the logs with their results.
LEMMA KeptOwn ==
  ASSUME SweepType, SweepIInv, NothingMade, UNCHANGED score,
         Idle \/ (spc \in {"run", "score"} /\ UNCHANGED <<todo, run>>)
  PROVE  SweepIInv'
<1>1. Current' = Current /\ ByPath' = ByPath /\ ScoredOnOwn' = ScoredOnOwn
  BY DEF NothingMade, Current, ByPath, ScoredOnOwn
<1> QED
  BY <1>1 DEF SweepIInv, Idle, Cell, OwnLog, LogsOf

\* Nothing that a promotion does brings a log of another run below the path of a cell.
LEMMA PromotionOwn ==
  ASSUME CorpusIInv, SweepType, SweepIInv, Promotion, UNCHANGED sweep
  PROVE  SweepIInv'
<1>1. /\ \A d \in Current' : d \in Current \/ DOMAIN d.cells = {}
      /\ \A d \in ByPath' : d \in ByPath \/ DOMAIN d.cells = {}
  BY PromotionDirectories
<1>2. \A d \in Current' : \A c \in DOMAIN d.cells : OwnLog(d.cells[c])
  BY <1>1 DEF SweepIInv
<1>3. (\A d \in Current : \A c \in DOMAIN d.cells : OwnLog(d.cells[c]))'
  BY <1>2 DEF OwnLog, LogsOf
<1>4. (spc \in {"run", "score"} =>
         \A d \in ByPath : Cell \in DOMAIN d.cells =>
           d.cells[Cell].result = NoResult /\ LogsOf(d.cells[Cell]) \subseteq {run})'
  BY <1>1 DEF SweepIInv, sweep, Cell, LogsOf
<1>5. ScoredOnOwn'
  BY DEF SweepIInv, ScoredOnOwn, sweep
<1> QED
  BY <1>3, <1>4, <1>5 DEF SweepIInv

\* Writing a cell with its own log leaves all others theirs.
LEMMA WrittenOwn ==
  ASSUME SweepType, SweepIInv, NEW c, NEW content, IsCell(content),
         dest' = Below(c, content), UNCHANGED aside, OwnLog(content)
  PROVE  (\A d \in Current : \A e \in DOMAIN d.cells : OwnLog(d.cells[e]))'
<1>1. IsDirectory(dest)
  BY DEF SweepType
<1>2. /\ dest' # NoDir /\ dest'.cells[c] = content
      /\ DOMAIN dest'.cells = (IF dest = NoDir THEN {} ELSE DOMAIN dest.cells) \cup {c}
      /\ \A e \in DOMAIN dest.cells :
           dest # NoDir /\ e # c => dest'.cells[e] = dest.cells[e]
  BY <1>1, Written
<1>3. \A e \in DOMAIN dest'.cells : OwnLog(dest'.cells[e])
  <2> TAKE e \in DOMAIN dest'.cells
  <2>1. CASE e = c
    BY <1>2, <2>1
  <2>2. CASE e # c
    <3>1. dest # NoDir /\ e \in DOMAIN dest.cells /\ dest'.cells[e] = dest.cells[e]
      BY <1>2, <2>2
    <3> QED
      BY <3>1 DEF SweepIInv, Current
  <2> QED
    BY <2>1, <2>2
<1>4. \A d \in Current' : \A e \in DOMAIN d.cells : OwnLog(d.cells[e])
  BY <1>3 DEF SweepIInv, Current
<1> QED
  BY <1>4 DEF OwnLog, LogsOf

\* A write to the current cell is to the directory that its path names.
LEMMA WrittenHere ==
  ASSUME SweepType, NEW c, NEW content, IsCell(content), dest' = Below(c, content)
  PROVE  ByPath' = {dest'} /\ dest' # NoDir /\ dest'.cells[c] = content
<1>1. IsDirectory(dest)
  BY DEF SweepType
<1>2. dest' # NoDir /\ dest'.cells[c] = content
  BY <1>1, Written
<1> QED
  BY <1>2 DEF ByPath

\* The steps of the evaluation keep the logs with their results, and score a cell
\* against its own.
LEMMA SweepOwn ==
  ASSUME CorpusIInv, SweepType, SweepIInv, SweepNext
  PROVE  SweepIInv' /\ CorpusIInv' /\ SweepType'
<1>0. IsDirectory(dest) /\ input.kind \in Kinds /\ run \in Nat
  BY DEF SweepType
<1>1. ASSUME \/ \E n \in 0 .. MaxVariant : StartSweep(n)
             \/ \E kind \in Kinds : ReadInput(kind)
             \/ Skip \/ InputFails \/ InputNotOrdered \/ AgentDoesNot \/ CellFails \/ SweepDies
      PROVE  SweepIInv' /\ CorpusIInv' /\ SweepType'
  <2>1. /\ spc' \in {"off", "cell", "prepare", "score"} /\ input'.kind \in Kinds
        /\ UNCHANGED <<run, score, corpus>>
        /\ spc' = "score" => spc = "run" /\ UNCHANGED todo
    BY <1>1 DEF StartSweep, ReadInput, Skip, InputFails, InputNotOrdered, AgentDoesNot,
                CellFails, SweepDies, NextCell, SweepType
  <2>2. NothingMade /\ CorpusFrame
    BY <2>1 DEF NothingMade, CorpusFrame, corpus, reports, cleanup, promotion, kept
  <2>3. SweepType'
    BY <2>1, <2>2, DirectoriesTyped DEF SweepType
  <2>4. ASSUME ~Idle PROVE spc \in {"run", "score"} /\ UNCHANGED <<todo, run>>
    <3>1. spc' = "score"
      BY <2>1, <2>4 DEF Idle
    <3> QED
      BY <2>1, <3>1
  <2>5. SweepIInv'
    <3>1. UNCHANGED score
      BY <2>1
    <3>2. CASE Idle
      BY <2>2, <3>1, <3>2, KeptOwn
    <3>3. CASE ~Idle
      BY <2>2, <2>4, <3>1, <3>3, KeptOwn
    <3> QED
      BY <3>2, <3>3
  <2> QED
    BY <2>2, <2>3, <2>5, FrameServes
<1>2. CASE Prepare
  <2>1. /\ dest' = Below(Cell, EmptyCell) /\ Cell' = Cell
        /\ cut \/ (dest = NoDir /\ aside # NoDir) => cut'
        /\ spc' = "run" /\ run' = run + 1
        /\ UNCHANGED <<input, score, shape, step, source, staging, aside, archive, listed>>
    BY <1>2 DEF Prepare, Cleared, Makes, Cell, reports
  <2>2. CorpusIInv'
    BY <1>0, <2>1, EmptyIsCell, MadeServes
  <2>3. SweepType'
    BY <1>0, <2>1, EmptyIsCell, DirectoriesTyped DEF SweepType
  <2>4. (\A d \in Current : \A e \in DOMAIN d.cells : OwnLog(d.cells[e]))'
    BY <2>1, EmptyIsCell, WrittenOwn DEF OwnLog
  <2>5. ByPath' = {dest'} /\ dest'.cells[Cell] = EmptyCell
    BY <2>1, EmptyIsCell, WrittenHere
  <2>6. \A d \in ByPath' : d.cells[Cell] = EmptyCell
    BY <2>5
  <2>7. (\A d \in ByPath : Cell \in DOMAIN d.cells =>
           d.cells[Cell].result = NoResult /\ LogsOf(d.cells[Cell]) \subseteq {run})'
    BY <2>1, <2>6, EmptyIsCell DEF LogsOf
  <2>8. ScoredOnOwn'
    BY <2>1 DEF SweepIInv, ScoredOnOwn
  <2> QED
    BY <2>2, <2>3, <2>4, <2>7, <2>8 DEF SweepIInv
<1>3. CASE AgentAnswers
  <2> DEFINE cell == IF Exist(Cell) THEN dest.cells[Cell] ELSE EmptyCell
             new == [cell EXCEPT !.calls[input.kind] = run]
  <2>1. /\ dest' = Below(Cell, new) /\ Cell' = Cell
        /\ cut \/ (dest = NoDir /\ aside # NoDir) => cut'
        /\ spc' = "score" /\ spc = "run" /\ run' = run
        /\ UNCHANGED <<input, score, shape, step, source, staging, aside, archive, listed>>
    BY <1>3 DEF AgentAnswers, Makes, Cell, reports
  <2>2. IsCell(cell) /\ cell.result = NoResult /\ LogsOf(cell) \subseteq {run}
    <3>1. CASE Exist(Cell)
      <4>1. dest \in ByPath
        BY <3>1 DEF ByPath, Exist
      <4>2. dest.cells[Cell].result = NoResult /\ LogsOf(dest.cells[Cell]) \subseteq {run}
        BY <2>1, <3>1, <4>1 DEF SweepIInv, Exist
      <4> QED
        BY <3>1, <4>2, CellOfDest
    <3>2. CASE ~Exist(Cell)
      BY <3>2, EmptyIsCell
    <3> QED
      BY <3>1, <3>2
  <2>3. IsCell(new) /\ new.result = NoResult /\ LogsOf(new) \subseteq {run}
    BY <1>0, <2>2, Logged
  <2> HIDE DEF new
  <2>4. CorpusIInv'
    BY <1>0, <2>1, <2>3, MadeServes
  <2>5. SweepType'
    BY <1>0, <2>1, <2>3, DirectoriesTyped DEF SweepType
  <2>6. (\A d \in Current : \A e \in DOMAIN d.cells : OwnLog(d.cells[e]))'
    BY <2>1, <2>3, WrittenOwn DEF OwnLog
  <2>7. ByPath' = {dest'} /\ dest'.cells[Cell] = new
    BY <2>1, <2>3, WrittenHere
  <2>8. \A d \in ByPath' : d.cells[Cell] = new
    BY <2>7
  <2>9. (\A d \in ByPath : Cell \in DOMAIN d.cells =>
           d.cells[Cell].result = NoResult /\ LogsOf(d.cells[Cell]) \subseteq {run})'
    BY <2>1, <2>3, <2>8 DEF LogsOf
  <2>10. ScoredOnOwn'
    BY <2>1 DEF SweepIInv, ScoredOnOwn
  <2> QED
    BY <2>4, <2>5, <2>6, <2>9, <2>10 DEF SweepIInv
<1>4. CASE Score
  <2> DEFINE result == [run |-> run, kind |-> input.kind, of |-> input.of, marked |-> marked]
             new == [dest.cells[Cell] EXCEPT !.result = result]
  <2>1. /\ dest' = Below(Cell, new) /\ Exist(Cell) /\ spc = "score"
        /\ spc' \in {"off", "cell"}
        /\ UNCHANGED <<input, run, shape, step, source, staging, aside, cut, archive, listed>>
    BY <1>4 DEF Score, NextCell, reports, promotion
  <2>2. dest \in ByPath /\ Cell \in DOMAIN dest.cells /\ IsCell(dest.cells[Cell])
    BY <2>1, CellOfDest DEF ByPath, Exist
  <2>3. LogsOf(dest.cells[Cell]) \subseteq {run}
    BY <2>1, <2>2 DEF SweepIInv
  <2>4. IsCell(new) /\ new.result = result /\ LogsOf(new) \subseteq {run}
    BY <2>2, <2>3, Resulted
  <2>5. result.run = run
    OBVIOUS
  <2> HIDE DEF new, result
  <2>6. OwnLog(new)
    BY <2>4, <2>5 DEF OwnLog
  <2>7. cut \/ (dest = NoDir /\ aside # NoDir) => cut'
    BY <2>1 DEF Exist
  <2>8. CorpusIInv'
    BY <1>0, <2>1, <2>4, <2>7, MadeServes
  <2>9. SweepType'
    BY <1>0, <2>1, <2>4, <2>7, DirectoriesTyped DEF SweepType
  <2>10. (\A d \in Current : \A e \in DOMAIN d.cells : OwnLog(d.cells[e]))'
    BY <2>1, <2>4, <2>6, WrittenOwn
  <2>11. score' = [run |-> run, logs |-> LogsOf(dest.cells[Cell]), sent |-> input.of,
                   source |-> input.of, marked |-> marked]
    BY <1>4 DEF Score
  <2>12. ScoredOnOwn'
    BY <2>3, <2>11 DEF ScoredOnOwn
  <2> QED
    BY <2>1, <2>8, <2>9, <2>10, <2>12 DEF SweepIInv
<1>5. CASE Rebuild
  <2>1. UNCHANGED <<spc, todo, input, run, corpus>> /\ spc = "off"
    BY <1>5 DEF Rebuild
  <2>2. NothingMade /\ CorpusFrame /\ Idle
    BY <2>1 DEF NothingMade, CorpusFrame, corpus, reports, cleanup, promotion, kept, Idle
  <2>3. SweepType'
    BY <1>0, <2>1, <2>2, DirectoriesTyped DEF SweepType
  <2>4. PICK c \in Scored :
          /\ score' = [run |-> dest.cells[c].result.run, logs |-> LogsOf(dest.cells[c]),
                       sent |-> dest.cells[c].result.of, source |-> dest.of,
                       marked |-> dest.cells[c].result.marked]
          /\ Replays(dest.cells[c].result)
    BY <1>5 DEF Rebuild
  <2>5. LogsOf(dest.cells[c]) \subseteq {dest.cells[c].result.run}
    BY <1>5, <2>4 DEF SweepIInv, Current, Rebuild, Readable, Scored, OwnLog
  <2>6. ScoredOnOwn'
    BY <2>4, <2>5 DEF ScoredOnOwn, Replays
  <2>7. Current' = Current
    BY <2>2 DEF Current, NothingMade
  <2>8. SweepIInv'
    BY <2>2, <2>6, <2>7 DEF SweepIInv, Idle, OwnLog, LogsOf
  <2> QED
    BY <2>2, <2>3, <2>8, FrameServes
<1> QED
  BY <1>1, <1>2, <1>3, <1>4, <1>5 DEF SweepNext

\* The three invariants hold at first.
LEMMA EvaluationStarts ==
  ASSUME EvaluationInit
  PROVE  CorpusIInv /\ SweepType /\ SweepIInv
<1>0. USE DEF EvaluationInit, CorpusInit, SweepInit
<1>1. CorpusIInv
  <2>1. source \in Reports /\ step = "off" /\ aside = NoDir
    BY ShapesAssumption
  <2>2. listed => dest # NoDir /\ dest.of = ByHand
    BY ShapesAssumption, DirectoryIsOne
  <2> QED
    BY <2>1, <2>2 DEF CorpusIInv, CorpusServes
<1>2. \A d \in {dest, aside} : IsDirectory(d) /\ (d # NoDir => DOMAIN d.cells = {})
  BY NewDirectory DEF NoDir
<1>3. SweepType
  BY <1>2 DEF SweepType, NoInput, Kinds
<1>4. SweepIInv
  BY <1>2 DEF SweepIInv, Current, ScoredOnOwn
<1> QED
  BY <1>1, <1>3, <1>4

\* Each step of the cleanup, of a promotion and of the evaluation keeps them.
LEMMA EvaluationKeeps ==
  ASSUME CorpusIInv, SweepType, SweepIInv,
         [(Cleanup /\ UNCHANGED sweep) \/ EvaluationNext]_evaluation
  PROVE  CorpusIInv' /\ SweepType' /\ SweepIInv'
<1>1. ASSUME (Cleanup /\ UNCHANGED sweep) \/ UNCHANGED evaluation
      PROVE  CorpusIInv' /\ SweepType' /\ SweepIInv'
  <2>1. CorpusFrame /\ UNCHANGED sweep
    BY <1>1 DEF Cleanup, Ages, HarvestKeeps, HarvestFails, NightEnds, Delete, evaluation,
                corpus, reports, cleanup, promotion, kept, CorpusFrame
  <2>2. NothingMade
    BY <2>1 DEF CorpusFrame, NothingMade
  <2>3. SweepType'
    BY <2>1, <2>2, DirectoriesTyped DEF SweepType, sweep
  <2>4. SweepIInv'
    BY <2>1, <2>2, KeptOwn DEF sweep, Idle
  <2> QED
    BY <2>1, <2>3, <2>4, FrameServes
<1>2. ASSUME Promotion, UNCHANGED sweep
      PROVE  CorpusIInv' /\ SweepType' /\ SweepIInv'
  <2>1. SweepType'
    BY <1>2, DirectoriesTyped DEF SweepType, sweep
  <2> QED
    BY <1>2, <2>1, PromotionServes, PromotionOwn
<1> QED
  BY <1>1, <1>2, SweepOwn DEF EvaluationNext

\* CorpusServes: whatever the cleanup deletes, wherever a promotion fails or dies, and
\* whatever an evaluation writes meanwhile, a listed sample can be opened.
THEOREM CorpusAlwaysServes == EvaluationSpec => []CorpusServes
<1>1. EvaluationInit => CorpusIInv /\ SweepType /\ SweepIInv
  BY EvaluationStarts
<1>2. CorpusIInv /\ SweepType /\ SweepIInv
        /\ [(Cleanup /\ UNCHANGED sweep) \/ EvaluationNext]_evaluation
          => (CorpusIInv /\ SweepType /\ SweepIInv)'
  BY EvaluationKeeps
<1>3. CorpusIInv => CorpusServes
  BY DEF CorpusIInv
<1> QED
  BY <1>1, <1>2, <1>3, PTL DEF EvaluationSpec

\* ScoredOnOwn: through reruns, kills, promotions and rebuild a cell is scored against
\* the log of its own run, and where its ordering was recorded, against its own input.
THEOREM ScoresAreOwn == EvaluationSpec => []ScoredOnOwn
<1>1. EvaluationInit => CorpusIInv /\ SweepType /\ SweepIInv
  BY EvaluationStarts
<1>2. CorpusIInv /\ SweepType /\ SweepIInv
        /\ [(Cleanup /\ UNCHANGED sweep) \/ EvaluationNext]_evaluation
          => (CorpusIInv /\ SweepType /\ SweepIInv)'
  BY EvaluationKeeps
<1>3. SweepIInv => ScoredOnOwn
  BY DEF SweepIInv
<1> QED
  BY <1>1, <1>2, <1>3, PTL DEF EvaluationSpec
=============================================================================

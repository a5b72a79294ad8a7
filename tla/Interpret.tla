----------------------------- MODULE Interpret -----------------------------
(***************************************************************************)
(* One call of run_interpret (the broker) and the agent in the interpret   *)
(* container, which exchange JSON lines over the container's pipes.        *)
(*                                                                         *)
(* The agent asks the model, which answers with text (the analysis) or     *)
(* with a turn of tool_use blocks; each counted block is one tool_call     *)
(* line, answered by exactly one line from the broker.  The broker runs    *)
(* the tool, or answers with force_final when the budget, less the         *)
(* synthesis reserve, is spent; what it reads from stdout comes through a  *)
(* reader thread and a queue, so that the budget can expire while the      *)
(* agent is silent.                                                        *)
(*                                                                         *)
(* Time is in ticks.  A tick passes only when no process can take a step:  *)
(* threads are scheduled, and lines handed over, within one tick.          *)
(* Requests, tools and the synthesis take any time up to a bound.  Status, *)
(* turn and trail lines change nothing here and are left out.              *)
(***************************************************************************)
EXTENDS Naturals, Sequences

CONSTANTS
  Budget,         \* interpret_timeout
  Grace,          \* force_final_grace
  Reserve,        \* synthesis_reserve, 0 to disable it
  ToolTime,       \* longest tool call
  RequestTime,    \* longest model request of the loop
  SynthTime,      \* longest final synthesis
  MaxToolCalls,   \* max_tool_calls
  PerTurn,        \* max_tool_calls_per_turn
  MaxBlocks,      \* bound: tool_use blocks in one response
  MaxFaults       \* bound: deaths, hangs, failing writes and syntheses

ASSUME TimeAssumption ==
  /\ Budget \in Nat \ {0} /\ Grace \in Nat /\ Reserve \in Nat
  /\ Reserve < Budget             \* PipelineConfig._reserve_leaves_a_tool_loop
  /\ ToolTime \in Nat /\ RequestTime \in Nat /\ SynthTime \in Nat
ASSUME LimitAssumption ==
  /\ MaxToolCalls \in Nat /\ PerTurn \in Nat \ {0}
  /\ MaxBlocks \in Nat \ {0} /\ MaxFaults \in Nat

VARIABLES
  now,
  bpc, outcome,       \* the broker, and how its call returned
  forced, timedOut,   \* force_final_reason, timed_out
  toolCall, toolLeft, \* the tool call being run, and the time it still takes
  answered,           \* tool calls the broker has answered with a result
  stdin,              \* lines the agent has not read
  stdout, queue,      \* lines the reader thread has not read, has queued
  apc, left,          \* the agent, and the time its request still takes
  synth,              \* why it is synthesizing
  used,               \* tool_calls_used
  blocks, results, thisTurn,   \* the turn: tool_use blocks, their results
  finalAt,            \* when the agent wrote its final
  faults

broker == <<bpc, outcome, forced, timedOut, toolCall, toolLeft, answered>>
pipes  == <<stdin, stdout, queue>>
turn   == <<blocks, results, thisTurn>>
agent  == <<apc, left, synth, used, turn, finalAt>>
vars   == <<now, broker, pipes, agent, faults>>

Gone == {"exited", "killed"}
Eof  == [type |-> "eof", call |-> 0]

Fault == faults < MaxFaults /\ faults' = faults + 1

Init ==
  /\ now = 0
  /\ bpc = "init" /\ outcome = "none" /\ forced = "no" /\ timedOut = FALSE
  /\ toolCall = 0 /\ toolLeft = 0 /\ answered = 0
  /\ stdin = <<>> /\ stdout = <<>> /\ queue = <<>>
  /\ apc = "starting" /\ left = 0 /\ synth = "no" /\ used = 0
  /\ blocks = 0 /\ results = <<>> /\ thisTurn = 0
  /\ finalAt = {} /\ faults = 0
-----------------------------------------------------------------------------
(* The agent: the loop of interpret-ghidra.py.                             *)

\* A request that answers within RequestTime.
Ask == apc' = "request" /\ left' \in 0 .. RequestTime

\* The init message: a write that waited for its reader is over.
ReadInit ==
  /\ bpc \in {"init", "loop"} /\ apc = "starting"
  /\ bpc' = "loop"
  /\ Ask
  /\ UNCHANGED <<now, outcome, forced, timedOut, toolCall, toolLeft, answered,
                 pipes, synth, used, turn, finalAt, faults>>

\* emit(final) and exit.
EmitFinal ==
  /\ stdout' = stdout \o <<[type |-> "final", call |-> used], Eof>>
  /\ finalAt' = {now}
  /\ apc' = "exited"

\* An end_turn whose JSON parses, an API error, any other exception, a refusal.
RequestFinal ==
  /\ apc = "request" /\ left = 0
  /\ EmitFinal
  /\ UNCHANGED <<now, broker, stdin, queue, left, synth, used, turn, faults>>

\* An end_turn whose JSON does not parse: one more synthesis.
RequestUnparsed ==
  /\ apc = "request" /\ left = 0
  /\ apc' = "synth" /\ synth' = "recover" /\ left' \in 0 .. SynthTime
  /\ blocks' = 0 /\ results' = <<>> /\ thisTurn' = 0
  /\ UNCHANGED <<now, broker, pipes, used, finalAt, faults>>

RequestTools ==
  /\ apc = "request" /\ left = 0
  /\ \E n \in 1 .. MaxBlocks : blocks' = n
  /\ results' = <<>> /\ thisTurn' = 0
  /\ apc' = "turn"
  /\ UNCHANGED <<now, broker, pipes, left, synth, used, finalAt, faults>>

\* The block being processed is the one after the last result.
Block == Len(results) + 1

\* A result: the call its block made and the call it answers, 0 for a result
\* the agent wrote itself.
Result(asked, got) == [block |-> Block, asked |-> asked, got |-> got]

\* Surplus calls of a turn are deferred, not counted.
Defer ==
  /\ apc = "turn" /\ Block <= blocks /\ thisTurn >= PerTurn
  /\ results' = Append(results, Result(0, 0))
  /\ UNCHANGED <<now, broker, pipes, apc, left, synth, used, blocks, thisTurn,
                 finalAt, faults>>

\* "Tool call limit reached": nothing is executed, nothing counted.
Refuse ==
  /\ apc = "turn" /\ Block <= blocks /\ thisTurn < PerTurn
  /\ used >= MaxToolCalls
  /\ thisTurn' = thisTurn + 1
  /\ results' = Append(results, Result(0, 0))
  /\ UNCHANGED <<now, broker, pipes, apc, left, synth, used, blocks, finalAt, faults>>

CallTool ==
  /\ apc = "turn" /\ Block <= blocks /\ thisTurn < PerTurn
  /\ used < MaxToolCalls
  /\ thisTurn' = thisTurn + 1 /\ used' = used + 1
  /\ stdout' = Append(stdout, [type |-> "tool_call", call |-> used + 1])
  /\ apc' = "wait"
  /\ UNCHANGED <<now, broker, stdin, queue, left, synth, blocks, results, finalAt, faults>>

\* tool_result or tool_error: the result of the block that waits.
ReadResult ==
  /\ apc = "wait" /\ stdin # <<>> /\ Head(stdin).type = "result"
  /\ results' = Append(results, Result(used, Head(stdin).call))
  /\ stdin' = Tail(stdin)
  /\ apc' = "turn"
  /\ UNCHANGED <<now, broker, stdout, queue, left, synth, used, blocks, thisTurn,
                 finalAt, faults>>

\* Mutant of Closed: only the block that waits is closed.
ClosedCurrent == Append(results, Result(0, 0))

\* The turn with every block from the waiting one on closed.
Closed == results \o [i \in 1 .. (blocks - Len(results)) |->
                        [block |-> Len(results) + i, asked |-> 0, got |-> 0]]

ReadForceFinal ==
  /\ apc = "wait" /\ stdin # <<>> /\ Head(stdin).type = "force_final"
  /\ results' = Closed
  /\ stdin' = Tail(stdin)
  /\ apc' = "synth" /\ synth' = "forced" /\ left' \in 0 .. SynthTime
  /\ UNCHANGED <<now, broker, stdout, queue, used, blocks, thisTurn, finalAt, faults>>

\* The turn is over: the next request, or the final one at the call limit.
EndTurn ==
  /\ apc = "turn" /\ Block > blocks
  /\ IF used >= MaxToolCalls
       THEN apc' = "synth" /\ synth' = "max" /\ left' \in 0 .. SynthTime
       ELSE Ask /\ UNCHANGED synth
  /\ UNCHANGED <<now, broker, pipes, used, turn, finalAt, faults>>

SynthFinal ==
  /\ apc = "synth" /\ left = 0
  /\ EmitFinal
  /\ UNCHANGED <<now, broker, stdin, queue, left, synth, used, turn, faults>>

\* An exception that nothing around the synthesis catches ends the agent silently;
\* Container says which those are.
SynthDies ==
  /\ apc = "synth" /\ left = 0
  /\ Fault
  /\ stdout' = Append(stdout, Eof)
  /\ apc' = "exited"
  /\ UNCHANGED <<now, broker, stdin, queue, left, synth, used, turn, finalAt>>

\* OOM, the container's own timeout, a wrapper that fails.
Die ==
  /\ apc \notin Gone
  /\ Fault
  /\ stdout' = Append(stdout, Eof)
  /\ apc' = "killed"
  /\ UNCHANGED <<now, broker, stdin, queue, left, synth, used, turn, finalAt>>

\* A container that never starts, a request that never ends, a frozen process.
Hang ==
  /\ apc \notin Gone \cup {"hung"}
  /\ Fault
  /\ apc' = "hung"
  /\ UNCHANGED <<now, broker, pipes, left, synth, used, turn, finalAt>>

Runs ==
  \/ ReadInit \/ RequestFinal \/ RequestUnparsed \/ RequestTools \/ Defer \/ Refuse
  \/ CallTool \/ ReadResult \/ ReadForceFinal \/ EndTurn \/ SynthFinal

Agent == Runs \/ SynthDies \/ Die \/ Hang
-----------------------------------------------------------------------------
(* The broker: run_interpret.                                              *)

HardDeadline == Budget + Grace

\* An init message that the pipe can hold; a longer one waits for ReadInit.
InitFits ==
  /\ bpc = "init" /\ apc \notin Gone /\ now = 0
  /\ bpc' = "loop"
  /\ UNCHANGED <<now, outcome, forced, timedOut, toolCall, toolLeft, answered, pipes,
                 agent, faults>>

\* BrokenPipe on the init message: outside the try, it leaves run_interpret.
InitFails ==
  /\ bpc = "init" /\ apc \in Gone
  /\ bpc' = "done" /\ outcome' = "raised"
  /\ UNCHANGED <<now, forced, timedOut, toolCall, toolLeft, answered, pipes, agent, faults>>

\* _start_stdout_reader
Reader ==
  /\ stdout # <<>>
  /\ queue' = Append(queue, Head(stdout)) /\ stdout' = Tail(stdout)
  /\ UNCHANGED <<now, broker, stdin, agent, faults>>

\* _send_force_final: a pipe whose reader has gone is only noted.
SendForceFinal(reason) ==
  /\ forced' = reason
  /\ stdin' = IF apc \in Gone THEN stdin
              ELSE Append(stdin, [type |-> "force_final", call |-> 0])

BudgetDue == bpc = "loop" /\ now >= Budget /\ ~timedOut

\* finally: the container is terminated however the loop ended.
Return(how) ==
  /\ bpc' = "done" /\ outcome' = how
  /\ apc' = IF apc \in Gone THEN apc ELSE "killed"

\* Mutant of BudgetSpent: a force_final that cannot be sent is a loop error.
BudgetSpentRaises ==
  /\ BudgetDue
  /\ timedOut' = TRUE
  /\ IF forced # "no" THEN UNCHANGED <<bpc, outcome, forced, stdin, apc>>
     ELSE IF apc \in Gone THEN Return("broken_pipe") /\ UNCHANGED <<forced, stdin>>
     ELSE SendForceFinal("timeout") /\ UNCHANGED <<bpc, outcome, apc>>
  /\ UNCHANGED <<now, toolCall, toolLeft, answered, stdout, queue,
                 left, synth, used, turn, finalAt, faults>>

BudgetSpent ==
  /\ BudgetDue
  /\ timedOut' = TRUE
  /\ IF forced = "no" THEN SendForceFinal("timeout") ELSE UNCHANGED <<forced, stdin>>
  /\ UNCHANGED <<now, bpc, outcome, toolCall, toolLeft, answered, stdout, queue, agent, faults>>

\* The loop's next line, taken after the clock was looked at.
Line(type) == bpc = "loop" /\ ~BudgetDue /\ queue # <<>> /\ Head(queue).type = type

\* Mutant of GraceOver: the clock is looked at between lines only (#240).
GraceOverAtLine ==
  /\ bpc = "loop" /\ ~BudgetDue /\ now >= HardDeadline /\ queue # <<>>
  /\ Return("deadline")
  /\ UNCHANGED <<now, forced, timedOut, toolCall, toolLeft, answered, pipes,
                 left, synth, used, turn, finalAt, faults>>

GraceOver ==
  /\ bpc = "loop" /\ ~BudgetDue /\ now >= HardDeadline /\ queue = <<>>
  /\ Return("deadline")
  /\ UNCHANGED <<now, forced, timedOut, toolCall, toolLeft, answered, pipes,
                 left, synth, used, turn, finalAt, faults>>

TakeEof ==
  /\ Line("eof")
  /\ queue' = Tail(queue)
  /\ Return("exited")
  /\ UNCHANGED <<now, forced, timedOut, toolCall, toolLeft, answered, stdin, stdout,
                 left, synth, used, turn, finalAt, faults>>

TakeFinal ==
  /\ Line("final")
  /\ queue' = Tail(queue)
  /\ Return("final")
  /\ UNCHANGED <<now, forced, timedOut, toolCall, toolLeft, answered, stdin, stdout,
                 left, synth, used, turn, finalAt, faults>>

\* The audit log cannot be written: the analysis just read is discarded.
AuditFails ==
  /\ Line("final")
  /\ Fault
  /\ queue' = Tail(queue)
  /\ Return("audit_failed")
  /\ UNCHANGED <<now, forced, timedOut, toolCall, toolLeft, answered, stdin, stdout,
                 left, synth, used, turn, finalAt>>

\* Mutant of ReserveReached: no reserve.
ReserveReachedNever == FALSE

ReserveReached == Reserve > 0 /\ now + Reserve >= Budget

\* A call that crossed the force_final in the pipe: that is its answer.
IgnoreCall ==
  /\ Line("tool_call") /\ forced # "no"
  /\ queue' = Tail(queue)
  /\ UNCHANGED <<now, broker, stdin, stdout, agent, faults>>

RefuseForReserve ==
  /\ Line("tool_call") /\ forced = "no" /\ ReserveReached
  /\ queue' = Tail(queue)
  /\ SendForceFinal("synthesis_reserve")
  /\ UNCHANGED <<now, bpc, outcome, timedOut, toolCall, toolLeft, answered, stdout,
                 agent, faults>>

\* Valid arguments: the tool runs, and the loop waits for it.  Invalid ones
\* are a tool that takes no time.
RunTool ==
  /\ Line("tool_call") /\ forced = "no" /\ ~ReserveReached
  /\ queue' = Tail(queue)
  /\ bpc' = "tool" /\ toolCall' = Head(queue).call /\ toolLeft' \in 0 .. ToolTime
  /\ UNCHANGED <<now, outcome, forced, timedOut, answered, stdin, stdout, agent, faults>>

AnswerCall ==
  /\ bpc = "tool" /\ toolLeft = 0 /\ apc \notin Gone
  /\ stdin' = Append(stdin, [type |-> "result", call |-> toolCall])
  /\ answered' = answered + 1
  /\ bpc' = "loop" /\ toolCall' = 0
  /\ UNCHANGED <<now, outcome, forced, timedOut, toolLeft, stdout, queue, agent, faults>>

\* BrokenPipe on the result: "Interpret loop error".
AnswerFails ==
  /\ bpc = "tool" /\ toolLeft = 0 /\ apc \in Gone
  /\ Return("broken_pipe")
  /\ UNCHANGED <<now, forced, timedOut, toolCall, toolLeft, answered, pipes,
                 left, synth, used, turn, finalAt, faults>>

Broker ==
  \/ InitFails \/ BudgetSpent \/ GraceOver \/ TakeEof \/ TakeFinal \/ AuditFails
  \/ IgnoreCall \/ RefuseForReserve \/ RunTool \/ AnswerCall \/ AnswerFails
-----------------------------------------------------------------------------
\* No process can take a step now.
Quiet ==
  /\ stdout = <<>>
  /\ \/ bpc = "init" /\ apc \notin Gone
     \/ bpc = "loop" /\ queue = <<>> /\ ~BudgetDue /\ now < HardDeadline
     \/ bpc = "tool" /\ toolLeft > 0
  /\ \/ apc \in Gone \cup {"hung"}
     \/ apc \in {"request", "synth"} /\ left > 0
     \/ apc = "wait" /\ stdin = <<>>

\* Bound: a broker blocked in its init write is watched for a while only.
Horizon == Budget + Grace + ToolTime + 1

Tick ==
  /\ Quiet /\ now < Horizon
  /\ now' = now + 1
  /\ left' = IF left > 0 THEN left - 1 ELSE 0
  /\ toolLeft' = IF toolLeft > 0 THEN toolLeft - 1 ELSE 0
  /\ UNCHANGED <<bpc, outcome, forced, timedOut, toolCall, answered, pipes,
                 apc, synth, used, turn, finalAt, faults>>

Next == Agent \/ Broker \/ InitFits \/ Reader \/ Tick

Spec == Init /\ [][Next]_vars

\* Threads are scheduled and time passes; InitFits is a matter of length.  An agent that takes no step any more
\* is one that Hang stopped.
FairSpec ==
  Spec /\ WF_vars(Broker) /\ WF_vars(Reader) /\ WF_vars(Tick) /\ WF_vars(Runs)
-----------------------------------------------------------------------------
(* Properties.                                                             *)

Lines   == [type : {"tool_call", "final", "eof"}, call : 0 .. MaxToolCalls]
Answers == [type : {"result", "force_final"}, call : 0 .. MaxToolCalls]
Results == [block : 1 .. MaxBlocks, asked : 0 .. MaxToolCalls, got : 0 .. MaxToolCalls]

BrokerType ==
  /\ bpc \in {"init", "loop", "tool", "done"}
  /\ outcome \in {"none", "final", "deadline", "exited", "audit_failed", "broken_pipe", "raised"}
  /\ forced \in {"no", "timeout", "synthesis_reserve"} /\ timedOut \in BOOLEAN
  /\ toolCall \in 0 .. MaxToolCalls /\ toolLeft \in 0 .. ToolTime
  /\ answered \in 0 .. MaxToolCalls

AgentType ==
  /\ apc \in {"starting", "request", "turn", "wait", "synth", "hung"} \cup Gone
  /\ left \in Nat /\ synth \in {"no", "forced", "max", "recover"}
  /\ used \in 0 .. MaxToolCalls
  /\ blocks \in 0 .. MaxBlocks /\ thisTurn \in Nat
  /\ results \in Seq(Results) /\ Len(results) <= blocks

ClockType == now \in 0 .. Horizon /\ faults \in 0 .. MaxFaults /\ finalAt \subseteq Nat

PipeType == stdin \in Seq(Answers) /\ stdout \in Seq(Lines) /\ queue \in Seq(Lines)

\* Every variable keeps its type; the pipes hold lines of the protocol only.
TypeOK == ClockType /\ PipeType /\ BrokerType /\ AgentType

\* "EVERY tool_use block must receive a tool_result or the next request is
\* malformed": each block has exactly one result when a model is asked, and a
\* call that was executed is answered by its own result.
WellFormed ==
  /\ apc \in {"request", "synth"} => Len(results) = blocks
  /\ \A i \in 1 .. Len(results) : results[i].block = i /\ results[i].got = results[i].asked

\* tool_calls_used counts the calls that were executed, and the one a
\* force_final cut off.
CountHonest == answered <= used /\ used <= answered + 1

\* "A final that arrives in the grace window is used rather than discarded":
\* a final written before the hard deadline is what run_interpret returns,
\* unless its audit log cannot be written.
FinalUsed ==
  bpc = "done" /\ (\E t \in finalAt : t < Budget + Grace) => outcome \in {"final", "audit_failed"}

\* "Time is bounded by two deadlines": once the init message was read, the loop
\* outlives the hard deadline only by a tool call granted before the reserve.
TimeBounded ==
  bpc \in {"loop", "tool"} =>
    now <= Budget + Grace \/ now + Reserve < Budget + ToolTime

\* What the two deadlines are for: with reserve and grace long enough for one
\* tool, one request and one synthesis, a healthy run always ends with a final.
AnsweredInTime ==
  /\ ToolTime + RequestTime + SynthTime <= Reserve + Grace
  /\ bpc = "done" /\ faults = 0
  => outcome = "final"

\* run_interpret returns, whatever the agent does, once its init message is written.
Returns == bpc = "loop" ~> bpc = "done"

\* The inductive invariant behind the safety properties: where the call under
\* way is (one of stdout, queue, the tool and stdin), that eof is the last line,
\* and how the clock stands while a tool runs.
Has(s, type) == \E i \in DOMAIN s : s[i].type = type

Asking == apc \in {"starting", "request", "turn"}

CallFirst(s) == \A i \in DOMAIN s : s[i].type = "tool_call" => i = 1 /\ s[i].call = used

CallPlace ==
  /\ Asking => stdout = <<>> /\ queue = <<>> /\ bpc # "tool" /\ ~Has(stdin, "result")
  /\ CallFirst(stdout) /\ CallFirst(queue)
  /\ \A i \in DOMAIN stdin : stdin[i].type = "result" => i = 1 /\ stdin[i].call = used
  /\ bpc = "tool" => toolCall = used /\ forced = "no"
  /\ forced = "no" => ~Has(stdin, "force_final") /\ ~timedOut
  /\ Has(stdout, "tool_call") =>
       queue = <<>> /\ bpc # "tool" /\ ~Has(stdin, "result")
  /\ Has(queue, "tool_call") => bpc # "tool" /\ ~Has(stdin, "result")
  /\ bpc = "tool" => ~Has(stdin, "result")

CallCount ==
  /\ CountHonest
  /\ Asking \/ Has(stdin, "result") => answered = used
  /\ Has(stdout, "tool_call") \/ Has(queue, "tool_call") \/ bpc = "tool" => used = answered + 1

TurnKept ==
  /\ WellFormed
  /\ apc = "starting" => Len(results) = blocks
  /\ apc = "wait" => Len(results) < blocks

LineOrder ==
  /\ apc \notin Gone =>
       /\ \A i \in DOMAIN stdout : stdout[i].type = "tool_call"
       /\ \A i \in DOMAIN queue : queue[i].type = "tool_call"
  /\ \A i \in DOMAIN stdout : stdout[i].type = "eof" => i = Len(stdout)
  /\ \A i \in DOMAIN queue : queue[i].type = "eof" => i = Len(queue) /\ stdout = <<>>

FinalPlace ==
  /\ finalAt # {} => apc \in Gone /\ bpc \notin {"init", "tool"}
  /\ apc = "synth" => bpc \notin {"init", "tool"}
  /\ finalAt # {} /\ bpc # "done" => Has(stdout, "final") \/ Has(queue, "final")
  /\ Has(stdout, "final") => finalAt = {now}
  /\ (apc = "synth" \/ finalAt # {}) /\ (Has(stdout, "tool_call") \/ Has(queue, "tool_call"))
       => forced # "no"
  /\ bpc = "init" => apc \in {"starting", "hung", "killed"}
  /\ bpc = "done" => apc \in Gone
  /\ FinalUsed

ToolClock ==
  /\ TimeBounded
  /\ apc = "starting" => now = 0
  /\ bpc = "tool" => now + toolLeft + Reserve < Budget + ToolTime

IInv ==
  /\ TypeOK /\ CallPlace /\ CallCount /\ TurnKept /\ LineOrder /\ FinalPlace /\ ToolClock

\* Where a healthy call stands: a force_final is not overlooked, a call under way is in
\* the pipes or with the tool, and the time that is left covers what is to come.
Pace ==
  faults = 0 /\ bpc # "done" =>
    /\ apc \notin {"hung", "killed"} /\ (apc = "exited" => finalAt # {})
    /\ forced # "no" /\ (Asking \/ apc = "wait") => Has(stdin, "force_final")
    /\ apc = "wait" =>
         Has(stdout, "tool_call") \/ Has(queue, "tool_call") \/ bpc = "tool" \/ stdin # <<>>
    /\ apc = "turn" => blocks > 0 /\ (thisTurn > 0 => results # <<>>)
    /\ apc = "request" => now + left + Reserve < Budget + ToolTime + RequestTime
    /\ apc \in {"turn", "wait"} => now + Reserve < Budget + ToolTime + RequestTime
    /\ \/ apc = "turn" /\ results # <<>> /\ used < MaxToolCalls
       \/ apc = "wait" /\ Has(stdin, "result")
       => now + Reserve < Budget + ToolTime
    /\ apc = "synth" => now + left + Reserve < Budget + ToolTime + RequestTime + SynthTime
    /\ now + Reserve < Budget + ToolTime + RequestTime + SynthTime

PaceIInv == Pace /\ AnsweredInTime

\* "reserve + grace is the synthesis window a run is guaranteed": a healthy run
\* whose synthesis fits into that window ends with a final.
WindowGuaranteed ==
  SynthTime <= Reserve + Grace /\ bpc = "done" /\ faults = 0 => outcome = "final"
=============================================================================

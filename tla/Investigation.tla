--------------------------- MODULE Investigation ----------------------------
(***************************************************************************)
(* One investigation session: analysts' messages, each answered by a turn  *)
(* of streamed model requests and tool calls.                              *)
(*                                                                         *)
(* The API is one process.  send_message is a coroutine whose database     *)
(* calls are synchronous, so it is interrupted only where it waits for the *)
(* model or for a tool; then other turns of the same session run.  Each    *)
(* turn holds its own copy of the session's row, which a commit expires.   *)
(***************************************************************************)
EXTENDS Naturals, Sequences, FiniteSets

CONSTANTS
  Requests,       \* POSTs of a message to the session
  MaxTurns,       \* session.max_turns
  MaxToolCalls,   \* investigation_max_tool_calls_per_turn
  MaxBlocks,      \* bound: tool calls of one answer
  Pieces,         \* bound: deltas of one tool call, the first with its name
  None,           \* no answer is stored
  Expired         \* the copy of the session's row is to be read again

ASSUME InvestigationAssumption ==
  /\ IsFiniteSet(Requests) /\ MaxTurns \in Nat /\ MaxToolCalls \in Nat
  /\ MaxBlocks \in Nat /\ Pieces \in Nat \ {0}
  /\ None \notin Nat /\ Expired \notin Nat

VARIABLES
  key,              \* litellm_key is configured
  active,           \* session.status
  sent, answer,     \* the user rows; the tokens of the assistant rows
  total,            \* the session's total tokens
  tpc, copy,        \* a turn; the total in its copy of the session
  asked, got, acc,  \* the calls of the answer that streams in, the deltas of
                    \* each that have arrived, what the accumulator made of them
  clipped,          \* the answer ended short of what the model meant to say
  todo, used,       \* the block under work; the turn's tool calls so far
  spent,            \* tokens the turn was told of
  ended,            \* how the turn ended
  billed, overlap   \* tokens of all assistant rows; two turns were under way

table  == <<active, sent, answer, total, billed>>
stream == <<asked, got, acc, clipped>>
turn   == <<tpc, copy, stream, todo, used, spent, ended>>
vars   == <<key, table, turn, overlap>>

Blocks == 1 .. MaxBlocks
Silent == [i \in Blocks |-> <<>>]

\* The turn was cut off before it could store an answer: the analyst left, an
\* exception nobody expects, no key.
CutOff == {"left", "raised", "no_key"}

Live(r) == tpc[r] \notin {"idle", "over"}

Init ==
  /\ key \in BOOLEAN /\ active = TRUE
  /\ sent = {} /\ answer = [r \in Requests |-> None] /\ total = 0
  /\ tpc = [r \in Requests |-> "idle"] /\ copy = [r \in Requests |-> Expired]
  /\ asked = [r \in Requests |-> 0]
  /\ got = [r \in Requests |-> [i \in Blocks |-> 0]]
  /\ acc = [r \in Requests |-> Silent] /\ clipped = [r \in Requests |-> FALSE]
  /\ todo = [r \in Requests |-> 0] /\ used = [r \in Requests |-> 0]
  /\ spent = [r \in Requests |-> 0] /\ ended = [r \in Requests |-> "none"]
  /\ billed = 0 /\ overlap = FALSE
\* What the generator held goes with it.
Forget(r) ==
  /\ asked' = [asked EXCEPT ![r] = 0]
  /\ got' = [got EXCEPT ![r] = [i \in Blocks |-> 0]]
  /\ acc' = [acc EXCEPT ![r] = Silent] /\ clipped' = [clipped EXCEPT ![r] = FALSE]
  /\ todo' = [todo EXCEPT ![r] = 0] /\ used' = [used EXCEPT ![r] = 0]
  /\ copy' = [copy EXCEPT ![r] = Expired]
-----------------------------------------------------------------------------
\* The limit counts user rows.  The row is committed before the stream starts;
\* the session is read again for its model, and its totals with it.
Send(r) ==
  /\ tpc[r] = "idle" /\ active /\ Cardinality(sent) < MaxTurns
  /\ sent' = sent \cup {r}
  /\ copy' = [copy EXCEPT ![r] = total]
  /\ IF key THEN tpc' = [tpc EXCEPT ![r] = "ask"] /\ UNCHANGED ended
            ELSE /\ tpc' = [tpc EXCEPT ![r] = "over"]
                 /\ ended' = [ended EXCEPT ![r] = "no_key"]
  /\ overlap' = (overlap \/ \E q \in Requests : Live(q))
  /\ UNCHANGED <<key, active, answer, total, billed, stream, todo, used, spent>>

\* A request with the whole conversation; the model answers with text and n calls.
Ask(r) ==
  /\ tpc[r] = "ask"
  /\ tpc' = [tpc EXCEPT ![r] = "stream"]
  /\ \E n \in 0 .. MaxBlocks : asked' = [asked EXCEPT ![r] = n]
  /\ got' = [got EXCEPT ![r] = [i \in Blocks |-> 0]]
  /\ acc' = [acc EXCEPT ![r] = Silent] /\ clipped' = [clipped EXCEPT ![r] = FALSE]
  /\ UNCHANGED <<key, table, copy, todo, used, spent, ended, overlap>>

\* The k-th piece of call i.
Piece(i, k) == <<i, k>>

\* Mutant of AddDelta: arguments go to the call that was named last.
AddDeltaToLast(a, i, k) ==
  LET named == {j \in Blocks : a[j] # <<>>}
      last  == IF k = 1 \/ named = {} THEN i
               ELSE CHOOSE j \in named : \A m \in named : m <= j
  IN  [a EXCEPT ![last] = Append(@, Piece(i, k))]

\* ToolCallAccumulator.add_delta
AddDelta(a, i, k) == [a EXCEPT ![i] = Append(@, Piece(i, k))]

\* Deltas of parallel calls come in any order, those of one call in theirs.
Delta(r, i) ==
  /\ tpc[r] = "stream" /\ i <= asked[r] /\ got[r][i] < Pieces
  /\ got' = [got EXCEPT ![r][i] = @ + 1]
  /\ acc' = [acc EXCEPT ![r] = AddDelta(@, i, got[r][i] + 1)]
  /\ UNCHANGED <<key, table, tpc, copy, asked, clipped, todo, used, spent, ended, overlap>>

Complete(r) == \A i \in 1 .. asked[r] : got[r][i] = Pieces

ToolBlocks(r) == {i \in Blocks : acc[r][i] # <<>>}

Finish(r, how) ==
  /\ tpc' = [tpc EXCEPT ![r] = "done"]
  /\ ended' = [ended EXCEPT ![r] = how]

\* The stream's end.  finish_reason is not looked at: an answer that ran into
\* max_tokens is taken as it is.  A batch that would pass the cap is dropped.
EndStream(r) ==
  /\ tpc[r] = "stream"
  /\ clipped' = [clipped EXCEPT ![r] = ~Complete(r)]
  /\ spent' = [spent EXCEPT ![r] = @ + 1]
  /\ LET n == Cardinality(ToolBlocks(r)) IN
     \/ n = 0 /\ Finish(r, "text") /\ UNCHANGED todo
     \/ n > 0 /\ used[r] + n > MaxToolCalls /\ Finish(r, "limit") /\ UNCHANGED todo
     \/ /\ n > 0 /\ used[r] + n <= MaxToolCalls
        /\ tpc' = [tpc EXCEPT ![r] = "tools"]
        /\ todo' = [todo EXCEPT ![r] = 1] /\ UNCHANGED ended
  /\ UNCHANGED <<key, table, copy, asked, got, acc, used, overlap>>

\* Mutant of StreamFails: the turn returns, and no done event follows.
StreamReturns(r) ==
  /\ tpc[r] \in {"ask", "stream"}
  /\ tpc' = [tpc EXCEPT ![r] = "over"]
  /\ ended' = [ended EXCEPT ![r] = "upstream"]
  /\ UNCHANGED <<key, table, copy, stream, todo, used, spent, overlap>>

\* HTTPStatusError, RequestError: the error is told and the turn is done.
StreamFails(r) ==
  /\ tpc[r] \in {"ask", "stream"}
  /\ Finish(r, "upstream")
  /\ UNCHANGED <<key, table, copy, stream, todo, used, spent, overlap>>

\* The tool_call row is committed before the tool runs in a thread.
CallTool(r) ==
  /\ tpc[r] = "tools" /\ todo[r] \in ToolBlocks(r)
  /\ tpc' = [tpc EXCEPT ![r] = "tool"]
  /\ copy' = [copy EXCEPT ![r] = Expired]
  /\ UNCHANGED <<key, table, stream, todo, used, spent, ended, overlap>>

\* A result, an error among them; its row is committed.
ToolAnswers(r) ==
  /\ tpc[r] = "tool"
  /\ tpc' = [tpc EXCEPT ![r] = "tools"]
  /\ copy' = [copy EXCEPT ![r] = Expired]
  /\ used' = [used EXCEPT ![r] = @ + 1]
  /\ todo' = [todo EXCEPT ![r] = @ + 1]
  /\ UNCHANGED <<key, table, stream, spent, ended, overlap>>

\* The loop's end, and the next request.
AskAgain(r) ==
  /\ tpc[r] = "tools" /\ todo[r] \notin ToolBlocks(r)
  /\ IF \E i \in ToolBlocks(r) : i > todo[r]
       THEN todo' = [todo EXCEPT ![r] = @ + 1] /\ UNCHANGED tpc
       ELSE tpc' = [tpc EXCEPT ![r] = "ask"] /\ UNCHANGED todo
  /\ UNCHANGED <<key, table, copy, stream, used, spent, ended, overlap>>

\* The row that the done event adds to: read again if it has expired.
Base(r) == IF copy[r] = Expired THEN total ELSE copy[r]

Done(r) ==
  /\ tpc[r] = "done"
  /\ answer' = [answer EXCEPT ![r] = spent[r]]
  /\ total' = Base(r) + spent[r]
  /\ billed' = billed + spent[r]
  /\ tpc' = [tpc EXCEPT ![r] = "over"]
  /\ Forget(r)
  /\ UNCHANGED <<key, active, sent, spent, ended, overlap>>

\* Mutant of CutOffTurn: a finally clause adds what the turn has cost so far.
CutOffCounted(r) ==
  /\ Live(r)
  /\ tpc' = [tpc EXCEPT ![r] = "over"]
  /\ total' = Base(r) + spent[r]
  /\ \E how \in {"left", "raised"} : ended' = [ended EXCEPT ![r] = how]
  /\ Forget(r)
  /\ UNCHANGED <<key, active, sent, answer, billed, spent, overlap>>

\* The client is gone at a wait (CancelledError, GeneratorExit), or an exception
\* reaches event_stream.  Nothing is stored; a tool's thread runs on for nobody.
CutOffTurn(r) ==
  /\ Live(r)
  /\ tpc' = [tpc EXCEPT ![r] = "over"]
  /\ \E how \in {"left", "raised"} : ended' = [ended EXCEPT ![r] = how]
  /\ Forget(r)
  /\ UNCHANGED <<key, table, spent, overlap>>

\* Turns under way are not told.
CompleteSession ==
  /\ active /\ active' = FALSE
  /\ UNCHANGED <<key, sent, answer, total, billed, turn, overlap>>

TurnNext(r) ==
  \/ Send(r) \/ Ask(r) \/ EndStream(r) \/ StreamFails(r) \/ CallTool(r)
  \/ ToolAnswers(r) \/ AskAgain(r) \/ Done(r) \/ CutOffTurn(r)
  \/ \E i \in Blocks : Delta(r, i)

Next == CompleteSession \/ \E r \in Requests : TurnNext(r)

Spec == Init /\ [][Next]_vars
-----------------------------------------------------------------------------
Phases == {"idle", "ask", "stream", "tools", "tool", "done", "over"}
Ends   == {"none", "text", "limit", "upstream"} \cup CutOff

TableType ==
  /\ key \in BOOLEAN /\ active \in BOOLEAN /\ overlap \in BOOLEAN
  /\ sent \subseteq Requests /\ answer \in [Requests -> Nat \cup {None}]
  /\ total \in Nat /\ billed \in Nat

TurnType ==
  /\ tpc \in [Requests -> Phases] /\ copy \in [Requests -> Nat \cup {Expired}]
  /\ todo \in [Requests -> Nat] /\ used \in [Requests -> Nat]
  /\ spent \in [Requests -> Nat] /\ ended \in [Requests -> Ends]

StreamType ==
  /\ asked \in [Requests -> 0 .. MaxBlocks]
  /\ got \in [Requests -> [Blocks -> 0 .. Pieces]]
  /\ acc \in [Requests -> [Blocks -> Seq(Blocks \X (1 .. Pieces))]]
  /\ clipped \in [Requests -> BOOLEAN]

TypeOK == TableType /\ TurnType /\ StreamType

\* send_message, the done branch: the session's total, which the cost alert
\* reads, never claims more than the stored answers, and is their sum unless
\* two turns of the session were under way at once.
TotalsHonest == total <= billed /\ (~overlap => total = billed)

\* run_conversation_turn, "Both handlers BREAK rather than return": a turn that
\* was not cut off has its answer stored, with every token it was told of, so
\* that the next turn's history does not hold two questions in a row.
AnswerKept ==
  \A r \in sent : tpc[r] = "over" /\ ended[r] \notin CutOff => answer[r] = spent[r]

\* ToolCallAccumulator, "keyed by delta index": in a batch that runs, each tool
\* gets the pieces of its own call, all of them unless the answer was clipped.
ToolsAsAsked ==
  \A r \in Requests : tpc[r] \in {"tools", "tool"} =>
    \A i \in Blocks :
      /\ \A k \in 1 .. Len(acc[r][i]) : acc[r][i][k] = Piece(i, k)
      /\ ~clipped[r] => Len(acc[r][i]) = IF i <= asked[r] THEN Pieces ELSE 0
-----------------------------------------------------------------------------
(* The inductive invariant.                                                *)

\* A copy is a total that the table once held, and every total it ever held
\* is covered by the answers stored by then.
CopyCovered == total <= billed /\ \A r \in Requests : copy[r] # Expired => copy[r] <= billed

\* As long as turns have followed one another, the only copy in use is current.
OneAtATime ==
  ~overlap =>
    /\ total = billed
    /\ \A r \in Requests : Live(r) /\ copy[r] # Expired => copy[r] = total
    /\ \A q, r \in Requests : Live(q) /\ Live(r) => q = r

\* The accumulator holds what has arrived of each call, in order.
InPlace(r, i) ==
  /\ Len(acc[r][i]) = got[r][i]
  /\ \A k \in 1 .. Len(acc[r][i]) : acc[r][i][k] = Piece(i, k)
  /\ i > asked[r] => got[r][i] = 0

PiecesInPlace ==
  \A r \in Requests :
    /\ tpc[r] \in {"stream", "tools", "tool"} => \A i \in Blocks : InPlace(r, i)
    /\ tpc[r] \in {"tools", "tool"} /\ ~clipped[r] => Complete(r)

IInv == TypeOK /\ CopyCovered /\ OneAtATime /\ PiecesInPlace /\ AnswerKept
=============================================================================

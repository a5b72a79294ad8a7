----------------------------- MODULE Container -----------------------------
(***************************************************************************)
(* The interpret container seen from its requests: which message it was    *)
(* given, which model each request asks and over which transport, what is  *)
(* billed, and what the one line it answers with says.  The tool protocol  *)
(* with the broker is Interpret's; here a turn is the calls it made.       *)
(*                                                                         *)
(* There are three transports.  LiteLLM's passthrough knows the provider's *)
(* own names only; its router knows every name of the configuration; its   *)
(* OpenAI endpoint is the one on which a local model can be kept from      *)
(* thinking, without which a request of one message comes back empty.    *)
(*                                                                         *)
(* totals counts the requests whose usage was added, paid those that were  *)
(* answered, and so have to be paid for.                                   *)
(***************************************************************************)
EXTENDS Naturals

CONSTANTS
  Settings,   \* messages with the configuration they come with
  Cloud,      \* models under their provider's name
  Local,      \* models of the host
  Listed,     \* names in the router's list
  Threshold,  \* escalation_threshold
  ToolLimit,  \* max_tool_calls
  TurnLimit,  \* max_tool_calls_per_turn
  NoUsage,    \* a message without "usage"
  Silent      \* no message

\* backend is re_backend, shots is single_shot_backend; kind tells the agentic loop
\* from the payloads that are answered in one shot.
ASSUME SettingsAssumption ==
  \A s \in Settings :
    /\ s.type \in {"init", "summarize", "plain_english", "none"}
    /\ s.kind \in {"agentic", "single"}
    /\ {s.backend, s.shots} \subseteq {"cloud", "local", "router"}

\* What is deployed, and arm_config of an evaluation: both backends are of a kind with
\* the model and the one it escalates to, and the router lists every model in use.
ASSUME ServedAssumption ==
  \A s \in Settings :
    /\ s.backend = "local"  => s.shots = "local" /\ s.model \in Local \cap Listed
    /\ s.backend = "cloud"  => /\ s.shots # "local"
                              /\ {s.model, s.escalation} \subseteq (Cloud \cap Listed) \ Local
    /\ s.backend = "router" => /\ s.shots # "local"
                              /\ {s.model, s.escalation} \subseteq Listed \ Local

ResultLines == [type : {"final", "summary", "plain_english"},
                what : {"analysis", "error", "refused"},
                usage : Nat \cup {NoUsage}, tagged : BOOLEAN]

ASSUME SilenceAssumption == NoUsage \notin Nat /\ Silent \notin ResultLines

VARIABLES
  setting,          \* the message
  rpc,              \* the request under way, or what comes before and after it
  client, model,    \* the client of the loop and its model, current_model
  calls,            \* tool_calls_used
  why,              \* what a synthesis is for
  concl, noProse,   \* concl_text and no_prose of local_synthesize
  totals, paid,     \* usage counted, requests answered
  declined,         \* a model refused
  said,             \* the result line
  code,             \* the exit code
  stored            \* what the broker keeps of a summary

container == <<setting, rpc, client, model, calls, why, concl, noProse, totals,
               paid, declined, said, code, stored>>

IsLocal == setting.backend = "local"

ContainerInit ==
  /\ setting \in Settings
  /\ rpc = "starting" /\ client = "passthrough" /\ model = setting.model
  /\ calls = 0 /\ why = "none" /\ concl = "none" /\ noProse = FALSE
  /\ totals = 0 /\ paid = 0 /\ declined = FALSE
  /\ said = Silent /\ code = "none" /\ stored = Silent
-----------------------------------------------------------------------------
(* Requests.                                                               *)

Requests ==
  {"single", "summary", "plain", "loop", "synth_2a", "synth_2b", "synth_legacy",
   "recover", "recover_auto", "forced_final", "max_calls_final"}

\* Requests of one message, which a thinking model cannot answer on the router.
Shots == {"single", "summary", "plain"}

\* Mutant of Asked: the alias that the fallback named until #675.
AskedAlias == IF rpc = "synth_legacy" THEN "local-qwen" ELSE model

Asked == model

Leg ==
  CASE rpc = "single" -> IF setting.shots = "local" THEN "openai" ELSE client
    [] rpc \in {"summary", "plain"} -> IF model \in Local THEN "openai" ELSE "router"
    [] rpc = "synth_2b" -> "openai"
    [] OTHER -> client

\* What answers on a transport.
Known(leg) ==
  CASE leg = "passthrough" -> Cloud
    [] leg = "router" -> IF rpc \in Shots THEN Listed \ Local ELSE Listed
    [] OTHER -> Local

Billed == paid' = paid + 1 /\ totals' = totals + 1
Unbilled == UNCHANGED <<totals, paid>>

Say(type, what, usage, status) ==
  /\ said' = [type |-> type, what |-> what, usage |-> usage, tagged |-> noProse]
  /\ code' = status /\ rpc' = "over"

\* An exception nobody catches.
Dies == rpc' = "over" /\ code' = "died" /\ UNCHANGED said

Quietly == UNCHANGED <<said, code>>
-----------------------------------------------------------------------------
(* Before the loop.                                                        *)

\* No key, no message, a message of another type.
RefuseMessage ==
  /\ rpc = "starting"
  /\ Say("final", "error", NoUsage, "1")
  /\ UNCHANGED <<setting, client, model, calls, why, concl, noProse, totals, paid,
                 declined, stored>>

\* A cloud model by the router's name is switched before the single shots, a local
\* one after them: those have shots to tell them.
ChooseClient ==
  client' = IF \/ setting.backend = "router"
               \/ setting.backend = "local" /\ setting.kind = "agentic"
            THEN "router" ELSE "passthrough"

\* escalation_model, with a local backend the model itself.
Escalated == IF IsLocal THEN setting.model ELSE setting.escalation

\* The model of a request made with n calls used.
AtTop(n) == IF n >= Threshold THEN Escalated ELSE model

Dispatch ==
  /\ rpc = "starting" /\ setting.type # "none"
  /\ IF setting.type = "init"
       THEN /\ ChooseClient
            /\ IF setting.kind = "single"
                 THEN rpc' = "single" /\ model' = model
                 ELSE rpc' = "loop" /\ model' = AtTop(0)
       ELSE /\ UNCHANGED <<client, model>>
            /\ rpc' = IF setting.type = "summarize" THEN "summary" ELSE "plain"
  /\ Quietly
  /\ UNCHANGED <<setting, calls, why, concl, noProse, totals, paid, declined, stored>>

ResultType ==
  CASE setting.type = "summarize" -> "summary"
    [] setting.type = "plain_english" -> "plain_english"
    [] OTHER -> "final"

\* One request, one answer; the usage of a single shot is its own, not the loop's.
ShotAnswered ==
  /\ rpc \in Shots
  /\ Billed
  /\ Say(ResultType, "analysis", totals', "0")
  /\ UNCHANGED <<setting, client, model, calls, why, concl, noProse, declined, stored>>

\* API and transport errors; any exception for the plain words.
ShotFails ==
  /\ rpc \in Shots
  /\ Unbilled
  /\ Say(ResultType, "error", NoUsage, "0")
  /\ UNCHANGED <<setting, client, model, calls, why, concl, noProse, declined, stored>>

\* parse_final_response of an answer that is JSON, but no object.
ShotNotObject ==
  /\ rpc \in {"single", "summary"}
  /\ paid' = paid + 1 /\ UNCHANGED totals
  /\ Dies
  /\ UNCHANGED <<setting, client, model, calls, why, concl, noProse, declined, stored>>
-----------------------------------------------------------------------------
(* The loop.                                                               *)

\* raise_if_refused, after the billing; local models do not refuse.
\* The summary and the plain words take a refusal for an answer without text.
Unchecked == {"summary", "plain"}

Refused ==
  /\ rpc \in Requests \ Unchecked /\ Asked \notin Local
  /\ Billed /\ declined' = TRUE
  /\ Say("final", "refused", totals', "0")
  /\ UNCHANGED <<setting, client, model, calls, why, concl, noProse, stored>>

RefusedUnseen ==
  /\ rpc \in Unchecked /\ Asked \notin Local
  /\ Billed /\ declined' = TRUE
  /\ Say(ResultType, "analysis", totals', "0")
  /\ UNCHANGED <<setting, client, model, calls, why, concl, noProse, stored>>

LoopFails ==
  /\ rpc = "loop"
  /\ Unbilled
  /\ Say("final", "error", totals, "1")
  /\ UNCHANGED <<setting, client, model, calls, why, concl, noProse, declined, stored>>

LoopTools ==
  /\ rpc = "loop"
  /\ Billed /\ rpc' = "tools" /\ Quietly
  /\ UNCHANGED <<setting, client, model, calls, why, concl, noProse, declined, stored>>

\* Two phases for a local model, one request without tools for another.
Conclude(reason, request) ==
  /\ why' = reason
  /\ rpc' = IF IsLocal THEN "synth_2a" ELSE request

TurnOver ==
  /\ rpc = "tools"
  /\ \E n \in 1 .. TurnLimit : calls' = IF calls + n > ToolLimit THEN ToolLimit ELSE calls + n
  /\ IF calls' >= ToolLimit
       THEN Conclude("limit", "max_calls_final") /\ UNCHANGED model
       ELSE rpc' = "loop" /\ model' = AtTop(calls') /\ UNCHANGED why
  /\ Quietly
  /\ UNCHANGED <<setting, client, concl, noProse, totals, paid, declined, stored>>

\* force_final in the place of a call's result.
ForceFinal ==
  /\ rpc = "tools" /\ calls < ToolLimit
  /\ calls' = calls + 1
  /\ Conclude("forced", "forced_final")
  /\ Quietly
  /\ UNCHANGED <<setting, client, model, concl, noProse, totals, paid, declined, stored>>

\* The pipe was closed during a call: nobody reads this final.
PipeClosed ==
  /\ rpc = "tools" /\ calls < ToolLimit
  /\ calls' = calls + 1 /\ why' = "closed"
  /\ Say("final", "error", NoUsage, "1")
  /\ UNCHANGED <<setting, client, model, concl, noProse, totals, paid, declined, stored>>

LoopAnswered ==
  /\ rpc = "loop"
  /\ Billed
  /\ Say("final", "analysis", totals', "0")
  /\ UNCHANGED <<setting, client, model, calls, why, concl, noProse, declined, stored>>

\* Empty, or with a parse_note.
LoopUnparsed ==
  /\ rpc = "loop"
  /\ Billed
  /\ Conclude("recover", "recover")
  /\ Quietly
  /\ UNCHANGED <<setting, client, model, calls, concl, noProse, declined, stored>>

\* Only the call of the model is within the loop's try.
LoopNotObject ==
  /\ rpc = "loop"
  /\ Billed
  /\ Dies
  /\ UNCHANGED <<setting, client, model, calls, why, concl, noProse, declined, stored>>
-----------------------------------------------------------------------------
(* local_synthesize.                                                       *)

\* An exception of local_synthesize: a forced final reports it.
Raises ==
  IF why = "forced" THEN Say("final", "error", totals', "0") ELSE Dies

Prose ==
  /\ rpc = "synth_2a"
  /\ Billed
  /\ concl' = "prose" /\ rpc' = "synth_2b" /\ Quietly
  /\ UNCHANGED <<setting, client, model, calls, why, noProse, declined, stored>>

\* salvage_reasoning: the end of the reasoning, less what it repeats, if there is any.
Salvage == {"reasoning", "none"}

NoVisibleText ==
  /\ rpc = "synth_2a"
  /\ Billed
  /\ concl' \in Salvage /\ noProse' = TRUE
  /\ rpc' = IF concl' = "reasoning" THEN "synth_2b" ELSE "synth_legacy"
  /\ Quietly
  /\ UNCHANGED <<setting, client, model, calls, why, declined, stored>>

ProseFails ==
  /\ rpc = "synth_2a"
  /\ Unbilled
  /\ rpc' = "synth_legacy" /\ Quietly
  /\ UNCHANGED <<setting, client, model, calls, why, concl, noProse, declined, stored>>

\* An error of the transport that the client does not wrap.
SynthTransport ==
  /\ rpc \in {"synth_2a", "synth_legacy"}
  /\ Unbilled /\ UNCHANGED noProse
  /\ Raises
  /\ UNCHANGED <<setting, client, model, calls, why, concl, declined, stored>>

Serialized ==
  /\ rpc = "synth_2b"
  /\ Billed /\ UNCHANGED noProse
  /\ Say("final", "analysis", totals', "0")
  /\ UNCHANGED <<setting, client, model, calls, why, concl, declined, stored>>

\* Mutant of Unusable: usage is added once the arguments are known to be good.
UnusableUnbilled == paid' = paid + 1 /\ UNCHANGED totals

Unusable == Billed

\* Answered in prose, or not at all: the conclusion is parsed instead.
SerializeFails ==
  /\ rpc = "synth_2b"
  /\ Unusable \/ Unbilled
  /\ UNCHANGED noProse
  /\ Say("final", "analysis", totals', "0") \/ Raises
  /\ UNCHANGED <<setting, client, model, calls, why, concl, declined, stored>>

LegacyAnswered ==
  /\ rpc = "synth_legacy"
  /\ Billed /\ UNCHANGED noProse
  /\ Say("final", "analysis", totals', "0") \/ Raises
  /\ UNCHANGED <<setting, client, model, calls, why, concl, declined, stored>>

\* "local synthesis failed" is a note within an analysis.
LegacyFails ==
  /\ rpc = "synth_legacy"
  /\ Unbilled /\ UNCHANGED noProse
  /\ Say("final", "analysis", totals, "0")
  /\ UNCHANGED <<setting, client, model, calls, why, concl, declined, stored>>
-----------------------------------------------------------------------------
(* A cloud model's last requests.                                          *)

Recovering == {"recover", "recover_auto"}
LastRequests == {"forced_final", "max_calls_final"}

\* With or without the tool's block: the unparsed answer is kept.
RecoverAnswered ==
  /\ rpc \in Recovering
  /\ Billed
  /\ Say("final", "analysis", totals', "0")
  /\ UNCHANGED <<setting, client, model, calls, why, concl, noProse, declined, stored>>

RecoverFails ==
  /\ rpc \in Recovering
  /\ Unbilled
  /\ Say("final", "analysis", totals, "0")
  /\ UNCHANGED <<setting, client, model, calls, why, concl, noProse, declined, stored>>

\* A model that cannot be forced to call a tool is asked once more.
RecoverRejected ==
  /\ rpc = "recover"
  /\ rpc' = "recover_auto" /\ Quietly
  /\ UNCHANGED <<setting, client, model, calls, why, concl, noProse, totals, paid,
                 declined, stored>>

LastAnswered ==
  /\ rpc \in LastRequests
  /\ Billed
  /\ Say("final", "analysis", totals', "0")
  /\ UNCHANGED <<setting, client, model, calls, why, concl, noProse, declined, stored>>

LastFails ==
  /\ rpc \in LastRequests
  /\ Unbilled
  /\ Say("final", "error", totals, "0")
  /\ UNCHANGED <<setting, client, model, calls, why, concl, noProse, declined, stored>>

\* Nothing catches an error of the transport but the forced final.
LastTransport ==
  /\ rpc \in Recovering \cup LastRequests
  /\ Unbilled
  /\ IF rpc = "forced_final" THEN Say("final", "error", totals, "0") ELSE Dies
  /\ UNCHANGED <<setting, client, model, calls, why, concl, noProse, declined, stored>>

LastNotObject ==
  /\ rpc \in LastRequests
  /\ Billed
  /\ Dies
  /\ UNCHANGED <<setting, client, model, calls, why, concl, noProse, declined, stored>>
-----------------------------------------------------------------------------
(* The broker's side of the single calls.                                  *)

Kept(what, usage) == stored' = [what |-> what, usage |-> usage]

\* run_summarize, run_plain_english: the last JSON line, usage and all.
Store ==
  /\ rpc = "over" /\ stored = Silent /\ setting.type \in {"summarize", "plain_english"}
  /\ IF said = Silent THEN Kept("error", NoUsage) ELSE Kept(said.what, said.usage)
  /\ UNCHANGED <<setting, rpc, client, model, calls, why, concl, noProse, totals, paid,
                 declined, said, code>>

\* communicate() runs out of time: the process is killed and its output lost.
OutOfTime ==
  /\ rpc # "over" /\ setting.type \in {"summarize", "plain_english"}
  /\ rpc' = "over" /\ code' = "killed" /\ Kept("error", NoUsage)
  /\ UNCHANGED <<setting, client, model, calls, why, concl, noProse, totals, paid,
                 declined, said>>
-----------------------------------------------------------------------------
Loop ==
  \/ LoopFails \/ LoopTools \/ TurnOver \/ ForceFinal \/ PipeClosed
  \/ LoopAnswered \/ LoopUnparsed \/ LoopNotObject

LocalSynthesize ==
  \/ Prose \/ NoVisibleText \/ ProseFails \/ SynthTransport \/ Serialized
  \/ SerializeFails \/ LegacyAnswered \/ LegacyFails

CloudSynthesize ==
  \/ RecoverAnswered \/ RecoverFails \/ RecoverRejected
  \/ LastAnswered \/ LastFails \/ LastTransport \/ LastNotObject

ContainerNext ==
  \/ RefuseMessage \/ Dispatch \/ ShotAnswered \/ ShotFails \/ ShotNotObject
  \/ Refused \/ RefusedUnseen \/ Loop \/ LocalSynthesize \/ CloudSynthesize
  \/ Store \/ OutOfTime

ContainerSpec == ContainerInit /\ [][ContainerNext]_container
-----------------------------------------------------------------------------
\* "the passthrough serves no local model": under every configuration that is
\* deployed or evaluated, each request goes where its model answers.
LegServes == rpc \in Requests => Asked \in Known(Leg)

\* A result says what it cost and what it is.  "billed like any turn": it reports
\* every request that was answered, up to the one it ends with, refused or useless as
\* it may be; one without usage comes before any answer, or after the pipe was
\* closed.  A refusal of the agent's model is not an analysis, and an analysis made
\* from reasoning, since there was no prose, is tagged as such.
ResultHonest ==
  /\ said # Silent =>
       /\ said.usage # NoUsage => said.usage = paid
       /\ said.usage = NoUsage => paid = 0 \/ why = "closed"
       /\ declined /\ said.type = "final" => said.what = "refused"
       /\ concl = "reasoning" /\ said.what = "analysis" => said.tagged
  /\ stored # Silent /\ code = "0" /\ paid > 0 => stored.usage = paid
-----------------------------------------------------------------------------
(* The inductive invariants.                                               *)

\* The loop and what follows it are the agentic kind's; each request's model is the
\* message's or the one it escalates to, and the client goes with the backend.
LegIInv ==
  /\ setting \in Settings
  /\ model \in {setting.model, Escalated}
  /\ rpc = "starting" => model = setting.model
  /\ rpc \in Shots => model = setting.model
  /\ rpc = "single" => client = IF setting.backend = "router" THEN "router" ELSE "passthrough"
  /\ rpc \in (Requests \ Shots) \cup {"tools"} =>
       client = IF setting.backend = "cloud" THEN "passthrough" ELSE "router"
  /\ rpc \in {"synth_2a", "synth_2b", "synth_legacy"} => IsLocal

\* Until there is a result, every answer is counted and nothing has been said.
UntilOver ==
  rpc # "over" =>
    /\ totals = paid /\ said = Silent /\ stored = Silent /\ ~declined /\ code = "none"
    /\ why # "closed"
    /\ rpc \in {"starting"} \cup Shots => paid = 0
    /\ rpc \in Unchecked => setting.type \in {"summarize", "plain_english"}
    /\ concl = "reasoning" => noProse

\* A container that ended well has said something.
OverInv ==
  rpc = "over" =>
    /\ code \in {"0", "1"} => said # Silent
    /\ why = "closed" => code # "0"

BillIInv ==
  /\ setting \in Settings /\ paid \in Nat /\ noProse \in BOOLEAN
  /\ UntilOver /\ OverInv /\ ResultHonest
=============================================================================

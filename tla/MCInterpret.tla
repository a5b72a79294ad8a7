---------------------------- MODULE MCInterpret -----------------------------
(***************************************************************************)
(* The interpret call and the container seen from its requests.  The two   *)
(* models meet in the protocol, which is Interpret's, so that a behaviour  *)
(* exercises one of them, chosen in its initial state.                     *)
(*                                                                         *)
(* Deployed are the roles' defaults, the template's for another cloud, and *)
(* arm_config's for the local and the cloud arms of an evaluation, with    *)
(* each kind of message.                                                   *)
(***************************************************************************)
EXTENDS Interpret, Container, Sweep

CONSTANTS Parts, qwen, opus, wrapper, payload

Configuration(backend, shots, m, esc) ==
  [backend |-> backend, shots |-> shots, model |-> m, escalation |-> esc]

Configurations ==
  {Configuration("local", "local", "qwen", "qwen"),
   Configuration("cloud", "cloud", "sonnet", "opus"),
   Configuration("router", "router", "eval-opus", "eval-opus"),
   Configuration("router", "router", "sonnet", "sonnet")}

Message(type, kind, c) ==
  [type |-> type, kind |-> kind, backend |-> c.backend, shots |-> c.shots,
   model |-> c.model, escalation |-> c.escalation]

Deployed ==
  {Message(m[1], m[2], c) :
     m \in {<<"init", "agentic">>, <<"init", "single">>, <<"summarize", "single">>,
            <<"plain_english", "single">>, <<"none", "single">>},
     c \in Configurations}

TwoArms == <<qwen, opus>>

File(name, ok, known, at) == [name |-> name, ok |-> ok, known |-> known, at |-> at]

\* A project for each program, as the pipeline writes them.
Good ==
  [files |-> <<File(wrapper, TRUE, "yes", "top"), File(payload, TRUE, "yes", "sub")>>,
   canon |-> wrapper, canonAt |-> "top", read |-> wrapper,
   holds |-> [top |-> {wrapper}, sub |-> {payload}], odd |-> {}, named |-> FALSE,
   routed |-> FALSE, found |-> TRUE, rich |-> FALSE]

\* Copied by hand: the agent is pointed at a program that its project does not hold.
HandMade == [Good EXCEPT !.holds = [top |-> {payload}, sub |-> {payload}]]

\* A routed sample with a labelled payload, and one whose first file was lost; what
\* plan_promotion, check_index, the copy and leak_check refuse.
Reported ==
  {Good, HandMade,
   [Good EXCEPT !.rich = TRUE, !.files[2].known = "lost"],
   [Good EXCEPT !.routed = TRUE, !.canon = NoProgram, !.found = FALSE],
   [Good EXCEPT !.files[1].known = "lost", !.canon = NoProgram, !.read = NoProgram],
   [Good EXCEPT !.files[1].known = "lost", !.canon = NoProgram],
   [Good EXCEPT !.files[1].known = "lost"],
   [Good EXCEPT !.canonAt = Outside], [Good EXCEPT !.canonAt = "sub"],
   [Good EXCEPT !.odd = {"sub"}], [Good EXCEPT !.named = TRUE],
   [Good EXCEPT !.files[1].ok = FALSE, !.files[2].ok = FALSE, !.canon = NoProgram]}

\* What the choice of the reports to keep tells apart.
Harvested == {s \in Reported : s.routed \/ s.rich \/ s = Good}

ReportShapes ==
  [r \in 1 .. 3 |-> CASE r = 1 -> {HandMade} [] r = 2 -> {Good} [] r = 3 -> Reported]

VARIABLE part

Turn(p) == part = p /\ UNCHANGED part

MCInit ==
  /\ Init /\ ContainerInit /\ EvaluationInit /\ part \in Parts
  /\ part # "agent" => setting = CHOOSE s \in Settings : TRUE
  /\ part \notin {"corpus", "sweep"} => shape[3] = Good /\ dest = NoDir
  /\ part = "corpus" => shape[3] \in Harvested

MCNext ==
  \/ Turn("call") /\ Next /\ UNCHANGED <<container, evaluation>>
  \/ Turn("agent") /\ ContainerNext /\ UNCHANGED <<vars, evaluation>>
  \/ Turn("corpus") /\ CorpusNext /\ promotions' < MaxPromotions /\ UNCHANGED <<vars, container, sweep>>
  \/ Turn("sweep") /\ EvaluationNext /\ UNCHANGED <<vars, container>>

mcvars == <<vars, container, evaluation, part>>

Call(A) == Turn("call") /\ A /\ UNCHANGED <<container, evaluation>>

\* The broker, its reader and the clock run; a container that does not hang does.
MCSpec ==
  /\ MCInit /\ [][MCNext]_mcvars
  /\ WF_mcvars(Call(Broker)) /\ WF_mcvars(Call(Reader))
  /\ WF_mcvars(Call(Tick)) /\ WF_mcvars(Call(Runs))
=============================================================================

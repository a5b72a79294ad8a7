----------------------------- MODULE FlowGraph ------------------------------
(***************************************************************************)
(* derive_flow: the graph of who fed whom that the API draws from a stored *)
(* report.  A pure function of the report; here, of what a run of          *)
(* StageFlow leaves.                                                       *)
(*                                                                         *)
(* Three things that the report has and StageFlow does not are parameters: *)
(* g, what ghidra records when no program reached it; mute, the candidates *)
(* whose call itself failed, which are recorded as malfind's, without the  *)
(* hash or the words by which they are found; and macros, whether an       *)
(* Office document had any.                                                *)
(***************************************************************************)
EXTENDS StageFlow

Statuses == {"ok", "skipped", "failed", "absent"}

\* trigger_reason, error and the flags of a section without analysed files.
GhidraSections == {"not_triggered", "routed_not_run", "error"}

Section(g) == IF DOMAIN files # {} THEN "ran" ELSE g

SectionOf(g) ==
  /\ routed => g # "not_triggered"
  /\ g = "routed_not_run" => routed
-----------------------------------------------------------------------------
(* The nodes and the edges into Ghidra.                                    *)

CapeNode == IF cape.status = "reported" THEN "ok" ELSE "failed"

\* An error of the stage has "triggered" set all the same.
VolatilityNode == IF vol.state = "off" THEN "skipped" ELSE "ok"

AnalyserNode(outcome) ==
  IF outcome = "ok" THEN "ok" ELSE IF outcome = "failed" THEN "failed" ELSE "absent"

\* The first of the two says that a project lacks a program; the verifier says it
\* in the same words, once.
Lost == {p \in Successful : KnownMissing(p)}

\* Mutant of Item: only the verifier's warnings are matched.
ItemOfVerifier(p) ==
  IF ~files[p].ok THEN "failed" ELSE IF files[p].probe = "no" THEN "lost" ELSE "loaded"

\* _ghidra_item; a program without functions counts as one that was loaded.
Item(p) == IF ~files[p].ok THEN "failed" ELSE IF p \in Lost THEN "lost" ELSE "loaded"

\* Which hand-off a program belongs to, by its loader and candidate; and by its source.
HandOff(p) ==
  CASE p = "original" -> "sample"
    [] p = "dropped" -> "dropped"
    [] p \in {"payload", "labelled"} -> "payloads"
    [] OTHER -> IF intel.buffers THEN "injections" ELSE "regions"

CallsFailed ==
  SUBSET {p \in DOMAIN files : ~files[p].ok /\ p \in {"payload", "labelled", "region"}}

Edge(p, mute) == IF p \in mute THEN "regions" ELSE HandOff(p)

Carries(e, mute) == {p \in DOMAIN files : Edge(p, mute) = e}

\* _items_status: any broken item fails the edge.
ItemsStatus(s) == IF \E p \in s : Item(p) # "loaded" THEN "failed" ELSE "ok"

\* The submitted sample: wrappers are not sent; the trigger's words tell an original
\* that was analysed from one that could not be loaded.
SampleEdge(g) ==
  CASE g = "error" -> "failed"
    [] g = "not_triggered" \/ routed -> "skipped"
    [] Carries("sample", {}) # {} -> ItemsStatus(Carries("sample", {}))
    [] OTHER -> "skipped"

DroppedEdge(g) ==
  CASE g = "error" -> "failed"
    [] g \in {"not_triggered", "routed_not_run"} -> "skipped"
    [] OTHER -> ItemsStatus(Carries("dropped", {}))

\* What CAPE recorded of its own is matched to Ghidra's results: one without a
\* result is missing, unless Ghidra analysed nothing at all.
Recorded(s, g, mute) ==
  IF s = {} THEN "absent"
  ELSE IF g # "ran" THEN "skipped"
  ELSE IF ~(s \subseteq DOMAIN files \ mute) THEN "failed" ELSE ItemsStatus(s)

PayloadsEdge(g, mute) ==
  Recorded(IF cape.status = "reported" THEN sample.extracts \cap {"payload", "labelled"} ELSE {},
           g, mute)

InjectionsEdge(g, mute) == Recorded(IF intel.buffers THEN {"region"} ELSE {}, g, mute)

RegionsEdge(g, mute) ==
  IF vol.state = "off" \/ g # "ran" THEN "skipped" ELSE ItemsStatus(Carries("regions", mute))

IntoGhidra(g, mute) ==
  [sample |-> SampleEdge(g), dropped |-> DroppedEdge(g), payloads |-> PayloadsEdge(g, mute),
   injections |-> InjectionsEdge(g, mute), regions |-> RegionsEdge(g, mute)]
-----------------------------------------------------------------------------
(* The edges into the agent.                                               *)

DotNet == sample.kind \in {"dotnet", "native"}

\* llm_interpretation.input: written for Ghidra's programs and for .NET.
InputRecorded == target \in DOMAIN files \/ (target = "tool" /\ DotNet)

\* _INTERPRET_PRECEDENCE, for reports without an input.
Inferred(macros) ==
  LET before == IF sample.kind = "office" THEN macros
                ELSE sample.kind \notin {"script", "pyinstaller", "go"}
      after  == sample.kind \in {"script", "pyinstaller", "go"}
  IN  IF tool = "ok" /\ before THEN "tool"
      ELSE IF shell = "ok" THEN "shell"
      ELSE IF tool = "ok" /\ after THEN "tool" ELSE "nothing"

\* Who feeds the agent by an edge that is "ok".  An input without a program is drawn
\* as Ghidra's, too.
Feeds(macros) ==
  IF target = "nothing" THEN {}
  ELSE IF InputRecorded THEN {"ghidra"}
  ELSE {Inferred(macros)} \ {"nothing"}

Fed == IF target \in DOMAIN files THEN "ghidra" ELSE target

\* cross_correlate's own node is there whatever it found.
CorrelationEdges ==
  [cape       |-> IF cape.status = "reported" THEN "ok" ELSE "failed",
   volatility |-> IF vol.state = "off" THEN "skipped" ELSE "ok"]
-----------------------------------------------------------------------------
\* What StageFlow knows of macros.
MacrosOf(macros) ==
  sample.kind = "office" /\ tool = "ok" =>
    /\ target = "tool" => macros
    /\ target \in {"shell", "nothing"} => ~macros

\* flow.py, "a component silently not feeding the next": a program that failed, or
\* that the run knew to be missing from its project, fails the edge of its hand-off,
\* whatever source it is recorded with, a stage without a result is not drawn as one
\* that fed Ghidra or the rules, and the one edge that is drawn as the agent's input is what it read.  (.NET
\* sources are drawn as a program of Ghidra's, and a failed memory stage as "ok".)
PictureHonest ==
  spc = "done" =>
    \A macros \in BOOLEAN, none \in GhidraSections, mute \in CallsFailed :
      MacrosOf(macros) /\ SectionOf(none) =>
        LET g == Section(none)
            into == IntoGhidra(g, mute)
        IN  /\ \A p \in DOMAIN files :
                 ~files[p].ok \/ KnownMissing(p) => into[HandOff(p)] = "failed"
            /\ cape.status # "reported" =>
                 "ok" \notin {into.payloads, into.injections, CorrelationEdges.cape, CapeNode}
            /\ VolatilityNode = "skipped" => into.regions # "ok"
            /\ target \in {"tool", "shell"} \cup DOMAIN files /\ ~(target = "tool" /\ DotNet)
                 => Feeds(macros) = {Fed}
-----------------------------------------------------------------------------
(* The inductive invariant of PictureHonest.                               *)

\* Behaviour is read with the report that the section records.
IntelInv ==
  /\ cpc \notin {"done", "over"} => intel = NoIntel
  /\ intel.buffers => cape.status = "reported"

\* A program reached Ghidra from a section that could carry it.
LoadedInv ==
  /\ "original" \in DOMAIN files => ~routed
  /\ \A p \in {"payload", "labelled"} \cap DOMAIN files :
       cape.status = "reported" /\ p \in sample.extracts
  /\ "region" \in DOMAIN files => intel.buffers \/ vol.state = "ran"

\* An input that is not a program was chosen before Ghidra's.
InputInv ==
  /\ spc # "done" => target = "none"
  /\ target = "tool" => tool = "ok" /\ (ShellFirst => shell # "ok")
  /\ target = "shell" =>
       shell = "ok" /\ (tool = "ok" => ShellFirst \/ sample.kind = "office")

PictureIInv == IntelInv /\ LoadedInv /\ InputInv
=============================================================================

---------------------------- MODULE StaticStage -----------------------------
(***************************************************************************)
(* Stage 4 of run_pipeline, and the choice Stage 4.5 makes from it.        *)
(*                                                                         *)
(* A sample goes to the analyser of its kind; Ghidra runs on the sample,   *)
(* on the PE files CAPE extracted and on the candidates for shellcode, or, *)
(* beside another analyser, on all but the sample.  Each program has a     *)
(* project of its own, which may turn out not to hold it: its index says   *)
(* so, or cannot be read; a probe that opens it says so, or cannot tell.   *)
(***************************************************************************)
EXTENDS Correlation

CONSTANTS
  Samples     \* bound: the samples, see SampleRecord

\* The other analysers, whose wrapper Ghidra never sees.
Analysers == {"office", "powershell", "script", "dotnet", "pyinstaller", "java"}
Kinds     == Analysers \cup {"go", "native"}

\* What CAPE extracts: PE files, payloads it labels with a family or not, and
\* regions (injection buffers, malfind's selection), which are not programs.
Extracts == {"dropped", "payload", "labelled", "region"}
Programs == {"original"} \cup Extracts

\* kind: the first detector of the chain that matches.  windows: not an ELF or
\* Mach-O.  binary: a format Ghidra loads.  dumps: cape_memory_dump.
\* behaviour, extracts: what CAPE sees of it.
SampleRecord == [kind : Kinds, windows : BOOLEAN, binary : BOOLEAN,
                 dumps : BOOLEAN, behaviour : Intels, extracts : SUBSET Extracts]

ASSUME SampleAssumption == Samples \subseteq SampleRecord

VARIABLES
  spc,          \* the stage
  tool,         \* how the sample's own analyser, or ILSpy, did
  shell,        \* how the analysis of a PowerShell script did
  routed,       \* one of ROUTED_FLAGS is set
  files,        \* ghidra["analyzed_files"] that reached Ghidra
  canonical,    \* ghidra["program_name"]
  target        \* what the agent reads: a program, "tool", "shell", "nothing"

staticVars == <<spc, tool, shell, routed, files, canonical, target>>

\* ok: analysis_success.  held: the project holds the program.  index:
\* in_project.  probe: what the verifier answered.  host: project_dir is a
\* path on the host, not the container's.
Entry == [ok : BOOLEAN, held : BOOLEAN, index : {"yes", "no", "unknown"},
          probe : {"none", "yes", "no", "unknown"}, host : BOOLEAN]

Outcomes == {"none", "ok", "failed"}

StaticInit ==
  /\ spc = "idle" /\ tool = "none" /\ shell = "none" /\ routed = FALSE
  /\ files = [p \in {} |-> [ok |-> FALSE]]
  /\ canonical = "none" /\ target = "none"
-----------------------------------------------------------------------------
(* Stage 4: the chain of analysers.                                        *)

\* should_run_ghidra.  cape_data has no status for a task without an id.  With a
\* report it may still be refused: dropped files want a signature, and the
\* sample must be the one CAPE detonated.
GhidraTriggered ==
  \/ ~cape.id /\ sample.binary
  \/ cape.status = "reported" /\ (sample.binary \/ "dropped" \in sample.extracts)

\* The wrapper's analyser; Ghidra sees only what CAPE unpacked.
RunAnalyser ==
  /\ spc = "route" /\ sample.kind \in Analysers
  /\ \E out \in {"ok", "failed"} :
       IF sample.kind = "powershell" THEN shell' = out /\ UNCHANGED tool
                                     ELSE tool' = out /\ UNCHANGED shell
  /\ routed' = TRUE /\ spc' = "load"
  /\ UNCHANGED <<files, canonical, target>>

\* GoReSym; without it Ghidra on the binary itself, triggered or not.
RunGo ==
  /\ spc = "route" /\ sample.kind = "go"
  /\ tool' \in {"ok", "failed"} /\ routed' = (tool' = "ok")
  /\ spc' = "load"
  /\ UNCHANGED <<shell, files, canonical, target>>

\* .NET files among what CAPE or Volatility extracted are decompiled; then
\* Ghidra on the sample, when triggered.
RunNative ==
  /\ spc = "route" /\ sample.kind = "native"
  /\ tool' \in {"none", "ok", "failed"}
  /\ tool' # "none" => cape.id \/ vol.state # "off"
  /\ \/ GhidraTriggered /\ spc' = "load"
     \/ (GhidraTriggered => cape.status = "reported") /\ spc' = "shell"
  /\ UNCHANGED <<shell, routed, files, canonical, target>>

\* discover_pe_files, resolve_original_sample: a task's files may be
\* unreadable, the sample may not be the one CAPE detonated.  Candidates come
\* from a report that was read, regions from a memory dump as well.
Loadable(s) ==
  /\ s \subseteq (IF routed THEN {} ELSE {"original"}) \cup sample.extracts
  /\ "original" \in s => sample.binary
  /\ "dropped" \in s => cape.id
  /\ s \cap {"payload", "labelled"} # {} => cape.status = "reported"
  /\ "region" \in s => intel.buffers \/ vol.state = "ran"

\* A program that Ghidra analysed.  The index of a project tells the truth when
\* it can be read (record_project_presence); a failed analysis is not asked.
Loaded == {e \in Entry :
  /\ e.probe = "none" /\ ~e.host
  /\ e.index # "unknown" => e.ok /\ e.index = IF e.held THEN "yes" ELSE "no"
  /\ e.held => e.ok}

\* Each program but CAPE's payloads, whose hash is recorded, is hashed for the name of
\* its project; one that is gone or cannot be read by then ends the run.
HashFails ==
  /\ spc = "load"
  /\ \E p \in {"original", "dropped", "region"} : Loadable({p})
  /\ spc' = "raised"
  /\ UNCHANGED <<tool, shell, routed, files, canonical, target>>

RunGhidra ==
  /\ spc = "load"
  /\ \E s \in SUBSET Programs : Loadable(s) /\ files' \in [s -> Loaded]
  /\ spc' = "select"
  /\ UNCHANGED <<tool, shell, routed, canonical, target>>
-----------------------------------------------------------------------------
(* propagate_project_dir.                                                  *)

Successful == {p \in DOMAIN files : files[p].ok}
Usable     == {p \in Successful : files[p].index # "no"}

\* The verifier: yes and no are true, unknown proves nothing.
Answers(p) == {"unknown", IF files[p].held THEN "yes" ELSE "no"}

\* _pick_openable asks in the order of function counts, whatever that is, and
\* stops at the first yes; else the first unknown, asked, is used.
Asked(s, a) ==
  /\ \A p \in s : a[p] \in Answers(p)
  /\ LET yes == {p \in s : a[p] = "yes"} IN
     \/ \E p \in yes : yes = {p} /\ canonical' = p
     \/ /\ yes = {} /\ s = Usable
        /\ \/ \E p \in s : a[p] = "unknown" /\ canonical' = p
           \/ (\A p \in s : a[p] = "no") /\ canonical' = "none"

\* Every success gets its host path, unless no program was found to open.
Rewritten(p, a) ==
  [files[p] EXCEPT !.probe = IF p \in DOMAIN a THEN a[p] ELSE "none",
                   !.host = files[p].ok /\ canonical' # "none"]

SelectCanonical ==
  /\ spc = "select"
  /\ \E s \in SUBSET Usable :
       \E a \in [s -> {"yes", "no", "unknown"}] :
         /\ Asked(s, a)
         /\ files' = [p \in DOMAIN files |-> Rewritten(p, a)]
  /\ spc' = "shell"
  /\ UNCHANGED <<tool, shell, routed, target>>

\* Encoded PowerShell in CAPE's command lines, for a sample of any kind that
\* has no PowerShell analysis yet.
AnalyseShell ==
  /\ spc = "shell"
  /\ IF shell = "none" /\ cape.status = "reported"
       THEN shell' \in Outcomes ELSE UNCHANGED shell
  /\ spc' = "correlate"
  /\ UNCHANGED <<tool, routed, files, canonical, target>>
-----------------------------------------------------------------------------
(* Stage 4.5: what the agent reads.                                        *)

Payloads == {p \in Usable : p \in {"dropped", "payload", "labelled"}}

\* select_payload_target: a labelled payload that a new probe opens, else the
\* canonical program if it is a payload; none of them without functions.
PayloadTarget ==
  /\ spc = "payload"
  /\ \/ /\ "labelled" \in Payloads
        /\ files["labelled"].held /\ files["labelled"].host
        /\ target' = "labelled"
     \/ canonical \in Payloads /\ target' = canonical
     \/ UNCHANGED target
  /\ spc' = IF target' = "none" THEN "wrapper" ELSE "done"
  /\ UNCHANGED <<tool, shell, routed, files, canonical>>

\* Mutant of NativeTarget: the first success of the list.
NativeFirst(p) == p \in Successful

\* select_native_target: the canonical program, else the first success.
NativeTarget(p) ==
  IF canonical \in Usable THEN p = canonical
  ELSE /\ p \in Successful
       /\ "original" \in Successful => p = "original"
       /\ "dropped" \in Successful => p \in {"original", "dropped"}

\* An Office document without macros is not sent.
ReadsTool  == tool = "ok"
ShellFirst == sample.kind \in {"script", "pyinstaller", "go"}

\* The chain of elifs: .NET, Java and Office before PowerShell, then scripts,
\* PyInstaller and Go, then Ghidra's programs.
WrapperTarget ==
  /\ spc = "wrapper"
  /\ \/ /\ ReadsTool /\ (ShellFirst => shell # "ok")
        /\ target' = "tool"
     \/ /\ shell = "ok"
        /\ ReadsTool => ShellFirst \/ sample.kind = "office"
        /\ target' = "shell"
     \/ /\ shell # "ok" /\ (ReadsTool => sample.kind = "office")
        /\ IF Successful = {} THEN target' = "nothing"
           ELSE \E p \in Successful : NativeTarget(p) /\ target' = p
  /\ spc' = "done"
  /\ UNCHANGED <<tool, shell, routed, files, canonical>>

StaticNext ==
  \/ RunAnalyser \/ RunGo \/ RunNative \/ RunGhidra \/ HashFails
  \/ SelectCanonical \/ AnalyseShell \/ PayloadTarget \/ WrapperTarget
-----------------------------------------------------------------------------
StaticTypeOK ==
  /\ spc \in {"idle", "route", "load", "select", "shell", "correlate",
              "payload", "wrapper", "done", "raised"}
  /\ tool \in Outcomes /\ shell \in Outcomes /\ routed \in BOOLEAN
  /\ DOMAIN files \subseteq Programs /\ \A p \in DOMAIN files : files[p] \in Entry
  /\ canonical \in Programs \cup {"none"}
  /\ target \in Programs \cup {"none", "tool", "shell", "nothing"}

\* What the index or the verifier established before the choice.
KnownMissing(p) == files[p].index = "no" \/ files[p].probe = "no"

\* select_native_target, select_payload_target, #667: the agent is given a
\* program known to be missing from its project only when every analysed
\* program is; a list position never beats what is known.
BestProgram ==
  target \in DOMAIN files /\ KnownMissing(target)
    => \A p \in Successful : KnownMissing(p)

\* propagate_project_dir, #390: whatever program the agent is given, its
\* project is named by a path the host can open, unless none can be opened.
ReadableTarget ==
  target \in DOMAIN files /\ ~files[target].host
    => \A p \in Successful : KnownMissing(p)
=============================================================================

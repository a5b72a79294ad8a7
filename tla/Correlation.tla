---------------------------- MODULE Correlation -----------------------------
(***************************************************************************)
(* cross_correlate: five rules over the sections of CAPE and Volatility,   *)
(* and the warnings that tell "could not look" from "nothing there".       *)
(*                                                                         *)
(* A rule returns no finding both when its input is missing and when it    *)
(* finds nothing, so what is modelled is which rules had their input       *)
(* (blind: those that had not) and what correlation_warnings says of it.   *)
(* The loaders pass over a single file or record that they cannot read and *)
(* say nothing (passed: the rules that lost something in this way).        *)
(* The plugins of MemoryStage are the three that the rules read.           *)
(***************************************************************************)
EXTENDS MemoryStage

CONSTANTS Dlllist, Cmdline    \* with Malfind, _PLUGIN_CONSUMERS

ASSUME ConsumerAssumption ==
  Dlllist \in Plugins /\ Cmdline \in Plugins

VARIABLES
  warnings,     \* report["correlation_warnings"], by what it names
  blind,        \* the rules that ran without some of the input they needed
  passed        \* those that lost it only to a loader that passes over what it cannot read

corrVars == <<warnings, blind, passed>>

Rules     == {"loaded", "modified", "spoofed", "c2", "corroborated"}
Warnings  == {"cape", "coverage", "manifest", "vad"}
               \cup {"dlllist", "malfind", "cmdline"}
               \cup Rules                  \* c2, and what raised

CorrInit == warnings = {} /\ blind = {} /\ passed = {}

\* What enrich_correlation_inputs finds on disk: CAPE's manifest, the memory at
\* the injection addresses, a C2 host to look for, and where it can look.
Evidence == [manifest : BOOLEAN, addresses : {"all", "some", "none"},
             host : BOOLEAN, regions : BOOLEAN, image : BOOLEAN]

\* Evidence that this run can have left.
Left(e) ==
  /\ e.manifest => cape.id
  /\ e.addresses # "none" => vol.vad = "ok" /\ intel.buffers
  /\ e.regions => vol.vad = "ok"
  /\ e.host => cape.status = "reported"
  /\ e.image => sample.dumps /\ cape.id

Named(name, cond) == IF cond THEN {name} ELSE {}

\* What the loaders can lose in silence: lines of the manifest that do not parse or are
\* past its cap; buffers that were not decoded or written, which two rules miss, or
\* cannot be read back; a command line with a short path; an unreadable VAD dump, and
\* what lies past the budget in the image.
Passable(e) ==
  Named("loaded", e.manifest)
    \cup (IF cape.status = "reported" /\ sample.behaviour.buffers
            THEN {"modified", "corroborated"} ELSE {})
    \cup Named("spoofed", Cmdline \in vol.usable)
    \cup Named("c2", e.host /\ (e.regions \/ e.image))

Losing(e, lost) ==
  /\ "corroborated" \in lost => "modified" \in lost
  /\ "modified" \in Passable(e) /\ ~intel.buffers => "corroborated" \in lost

\* The rules without a source, whatever the warnings say.  Without buffers or a
\* host to look for there is nothing to compare.
BlindRules(e) ==
  Named("loaded", Dlllist \notin vol.usable \/ ~e.manifest)
    \cup Named("spoofed", Cmdline \notin vol.usable)
    \cup Named("corroborated", Malfind \notin vol.usable)
    \cup Named("modified", intel.buffers /\ e.addresses # "all")
    \cup Named("c2", e.host /\ ~e.regions /\ ~e.image)

\* _PLUGIN_CONSUMERS: what is said when only these plugins have rows.
Missing(usable) ==
  Named("dlllist", Dlllist \notin usable)
    \cup Named("malfind", Malfind \notin usable)
    \cup Named("cmdline", Cmdline \notin usable)

\* _CAPE_FAILED_STATUSES
CapeWarning == Named("cape", cape.status \in {"error"} \cup CapeFailed)

\* Mutant of VolatilityWarnings: a section without plugin outputs is passed
\* over.
VolatilityWarningsQuiet(e) ==
  IF vol.state # "ran" THEN {}
  ELSE Missing(vol.usable)
         \cup Named("manifest", Dlllist \in vol.usable /\ ~e.manifest)
         \cup Named("vad", intel.buffers /\ e.addresses # "all")
         \cup Named("c2", e.host /\ ~e.regions /\ ~e.image)

\* _volatility_warnings: without any plugin output one warning per consumer,
\* and nothing on the addresses or the C2 search.
VolatilityWarnings(e) ==
  IF vol.state = "off" THEN {}
  ELSE IF vol.state = "error" THEN Missing({})
  ELSE Missing(vol.usable)
         \cup Named("manifest", Dlllist \in vol.usable /\ ~e.manifest)
         \cup Named("vad", intel.buffers /\ e.addresses # "all")
         \cup Named("c2", e.host /\ ~e.regions /\ ~e.image)

\* A step or rule that raises costs only itself and is named; so does the
\* coverage check.
CrossCorrelate ==
  \E e \in Evidence : Left(e) /\
    \E lost \in SUBSET Passable(e) : Losing(e, lost) /\
      \E raised \in {{}} \cup {{r} : r \in Rules}, checked \in BOOLEAN :
        /\ blind' = BlindRules(e) \cup lost \cup raised
        /\ passed' = lost \ (BlindRules(e) \cup raised)
        /\ warnings' = raised
             \cup (IF checked THEN CapeWarning \cup VolatilityWarnings(e) ELSE {"coverage"})
-----------------------------------------------------------------------------
CorrTypeOK == warnings \subseteq Warnings /\ blind \subseteq Rules /\ passed \subseteq Rules
=============================================================================

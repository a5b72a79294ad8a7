----------------------------- MODULE GhidraJob -----------------------------
(***************************************************************************)
(* Ghidra on the programs of one analysis: run_ghidra makes the list and   *)
(* calls run-ghidra for one after another, each call a container whose     *)
(* output the wrapper copies into the report; then the choice of the       *)
(* program for the agent, and the agent's tool calls on it.                *)
(*                                                                         *)
(* A program is opened by its name, which is its file's name: two files    *)
(* with other bytes may have the same one.  A project is what a headless   *)
(* run left: a program with its bytes and the language it was imported as, *)
(* Hollow without one, Partial when it was copied in part.                 *)
(***************************************************************************)
EXTENDS Naturals, Sequences, SequencesExt

CONSTANTS
  Givens,       \* what a stage may be given, see GivenAssumption
  MaxPes,       \* MAX_PE_FILES
  MaxFunctions, \* bound: functions found by an import
  NoFile, NoProject, Hollow, Partial

\* original: the sample, or NoFile where another analyser has it; stored: the PE
\* files CAPE extracted; regions: candidates for the raw loader, [file, pid, at,
\* large]; hashed: a sha256 was recorded with them.
\* copy: whose copy of the original can be read: "cape", "own", "other" (the
\* pipeline's, and it is not the file that CAPE ran), "none".
ASSUME GivenAssumption ==
  \A g \in Givens :
    /\ g.copy \in {"cape", "own", "other", "none"}
    /\ g.hashed \in BOOLEAN /\ \A r \in ToSet(g.regions) : r.large \in BOOLEAN

VARIABLES
  given,
  gpc,         \* "next", "first", "second", "exited", "present", "rank", "read", "died"
  entry,       \* the job of the list that is run, from 1
  inside,      \* /output/project of its container
  found,       \* what its imports exported: the one to report
  projects,    \* directories of the report -> their projects
  analysed,    \* ghidra["analyzed_files"]
  orphans,     \* containers whose wrapper was killed
  unverified,  \* candidates the verifier could not tell about, the best first
  refused,     \* ... it is certain about
  chosen,      \* the entry of the canonical program, 0 for none
  answered     \* what a tool call was answered from

job    == <<given, entry, inside, found, projects, analysed, orphans>>
choice == <<unverified, refused, chosen, answered>>
ghidraJob == <<gpc, job, choice>>

NoneFound == [ok |-> FALSE, saved |-> FALSE, functions |-> 0, language |-> "none"]

GhidraInit ==
  /\ given \in Givens
  /\ gpc = "next" /\ entry = 1 /\ inside = NoProject /\ found = NoneFound
  /\ projects = [d \in {} |-> NoProject] /\ analysed = <<>> /\ orphans = 0
  /\ unverified = <<>> /\ refused = {} /\ chosen = 0 /\ answered = NoProject
-----------------------------------------------------------------------------
(* The list *)

\* resolve_original_sample: never a file other than the one that was submitted.
Submitted(g) == IF g.copy \in {"cape", "own"} THEN g.original ELSE NoFile

\* _drop_already_queued: by path; a small region does not reach Ghidra.
Larges(g)  == SelectSeq(g.regions, LAMBDA r : r.large)
Unqueued(g) ==
  SelectSeq(g.stored, LAMBDA f : \A r \in ToSet(Larges(g)) : r.file # f)

\* _without_copies_of: by content, and the sample first.
Pes(g) ==
  IF Submitted(g) = NoFile THEN Unqueued(g)
  ELSE <<Submitted(g)>> \o
         SelectSeq(Unqueued(g), LAMBDA f : f.bytes # Submitted(g).bytes)

FirstPes(g) == SubSeq(Pes(g), 1, IF Len(Pes(g)) < MaxPes THEN Len(Pes(g)) ELSE MaxPes)

PeJob(f)  == [loader |-> "pe", file |-> f, pid |-> 0, at |-> 0]
RawJob(r) == [loader |-> "raw", file |-> r.file, pid |-> r.pid, at |-> r.at]

Jobs(g) ==
  [i \in DOMAIN FirstPes(g) |-> PeJob(FirstPes(g)[i])]
    \o [i \in DOMAIN Larges(g) |-> RawJob(Larges(g)[i])]

This == Jobs(given)[entry]

\* Mutant of Place: as before #648 and #655, without the content.
PlaceOf(j) == IF j.loader = "pe" THEN <<"pe">> ELSE <<"raw", j.pid, j.at>>

\* pe_<sha>, shellcode_<pid>_<address>_<sha>.
Place(j) ==
  IF j.loader = "pe" THEN <<"pe", j.file.bytes>>
                     ELSE <<"raw", j.pid, j.at, j.file.bytes>>

At(d) == IF d \in DOMAIN projects THEN projects[d] ELSE NoProject

\* The stage hashes the file for its directory's name; one that is gone ends the run.
HashFails ==
  /\ gpc = "next" /\ entry \in DOMAIN Jobs(given)
  /\ This.loader = "raw" => ~given.hashed
  /\ gpc' = "died"
  /\ UNCHANGED <<job, choice>>

Call ==
  /\ gpc = "next" /\ entry \in DOMAIN Jobs(given)
  /\ gpc' = "first"
  /\ UNCHANGED <<given, entry, inside, found, projects, analysed, orphans, choice>>
-----------------------------------------------------------------------------
(* The container *)

Program(language) ==
  [name |-> This.file.name, bytes |-> This.file.bytes, language |-> language]

\* "Creating project": whatever was there is replaced.
Imports(language) ==
  \/ \E n \in 0 .. MaxFunctions :
       /\ inside' = Program(language)
       /\ found' = [ok |-> TRUE, saved |-> TRUE, functions |-> n, language |-> language]
  \/ /\ inside' \in {Hollow, Program(language)}
     /\ found' = [NoneFound EXCEPT !.language = language]

\* The export is missing, and Ghidra's log says that the analysis succeeded.
FromLog ==
  /\ inside' \in {Hollow, Program("pe")}
  /\ \E n \in 0 .. MaxFunctions :
       found' = [ok |-> TRUE, saved |-> FALSE, functions |-> n, language |-> "pe"]

ImportPe ==
  /\ gpc = "first" /\ This.loader = "pe"
  /\ Imports("pe") \/ FromLog
  /\ gpc' = "exited"
  /\ UNCHANGED <<given, entry, projects, analysed, orphans, choice>>

ImportRaw64 ==
  /\ gpc = "first" /\ This.loader = "raw"
  /\ Imports("x64")
  /\ gpc' = "second"
  /\ UNCHANGED <<given, entry, projects, analysed, orphans, choice>>

\* The one with more functions is reported, x64 when they tie.
ImportRaw86 ==
  /\ gpc = "second"
  /\ \E n \in 0 .. MaxFunctions, saves \in BOOLEAN :
       /\ inside' = IF saves \/ n > 0 THEN Program("x86") ELSE Hollow
       /\ found' = IF n > found.functions
                     THEN [ok |-> TRUE, saved |-> TRUE, functions |-> n, language |-> "x86"]
                     ELSE found
  /\ gpc' = "exited"
  /\ UNCHANGED <<given, entry, projects, analysed, orphans, choice>>
-----------------------------------------------------------------------------
(* The wrapper, and its caller *)

Returns(e) ==
  /\ analysed' = Append(analysed, e)
  /\ entry' = entry + 1 /\ gpc' = "next"
  /\ inside' = NoProject /\ found' = NoneFound

FailedEntry ==
  [ok |-> FALSE, saved |-> FALSE, functions |-> 0, language |-> "none",
   job |-> This, index |-> "unknown"]

Copied(p) ==
  projects' = [d \in DOMAIN projects \cup {Place(This)} |->
                 IF d = Place(This) THEN p ELSE projects[d]]

\* collect_output gives the files back and copies them; a copy that fails in the
\* middle is told on stderr, and the wrapper succeeds.
CollectOutput ==
  /\ gpc = "exited"
  /\ Copied(inside) \/ Copied(Partial) \/ UNCHANGED projects
  /\ Returns([FailedEntry EXCEPT !.ok = found.ok, !.saved = found.saved,
                            !.functions = found.functions, !.language = found.language])
  /\ UNCHANGED <<given, orphans, choice>>

\* A raised TimeoutExpired, podman's --timeout, an unreadable sample, a failed chown:
\* errexit ends the wrapper before anything is copied.
CallFails ==
  /\ gpc \in {"first", "second", "exited"}
  /\ Returns(FailedEntry)
  /\ UNCHANGED <<given, projects, orphans, choice>>

\* subprocess.run kills the wrapper: the container goes on, and nobody collects from
\* it (nor removes its directory); a copy is cut off.
CallTimesOut ==
  /\ gpc \in {"first", "second", "exited"}
  /\ IF gpc = "exited"
       THEN (Copied(inside) \/ Copied(Partial) \/ UNCHANGED projects) /\ UNCHANGED orphans
       ELSE orphans' = orphans + 1 /\ UNCHANGED projects
  /\ Returns(FailedEntry)
  /\ UNCHANGED <<given, choice>>

OrphanEnds ==
  /\ orphans > 0
  /\ orphans' = orphans - 1
  /\ UNCHANGED <<gpc, given, entry, inside, found, projects, analysed, choice>>
-----------------------------------------------------------------------------
(* The choice *)

Empty       == {Hollow, NoProject, Partial}
Holds(p, e) == p \notin Empty /\ p.name = e.job.file.name

\* record_project_presence: by name, from the index of the project.
IndexSays(e) ==
  LET p == At(Place(e.job)) IN
  IF ~(e.ok /\ e.saved) \/ p \in {NoProject, Partial} THEN "unknown"
  ELSE IF Holds(p, e) THEN "yes" ELSE "no"

RecordPresence ==
  /\ gpc = "next" /\ entry \notin DOMAIN Jobs(given)
  /\ analysed' = [i \in DOMAIN analysed |->
                    [analysed[i] EXCEPT !.index = IndexSays(analysed[i])]]
  /\ gpc' = "rank"
  /\ UNCHANGED <<given, entry, inside, found, projects, orphans, choice>>

Candidates ==
  {i \in DOMAIN analysed : /\ analysed[i].ok /\ analysed[i].saved
                           /\ analysed[i].index # "no"}
    \ (refused \cup ToSet(unverified))

\* Functions, then imports.
Ranked(i) == \A k \in Candidates : analysed[k].functions <= analysed[i].functions

\* Tool mode opens a private copy of the project, so that calls do not meet at its
\* lock.  A call that fails in any other way says nothing.
Opens(i) == Holds(At(Place(analysed[i].job)), analysed[i])
Lacks(i) == At(Place(analysed[i].job)) \notin {NoProject, Partial} /\ ~Opens(i)

Probe(i) ==
  /\ gpc = "rank" /\ i \in Candidates /\ Ranked(i)
  /\ \/ Opens(i) /\ chosen' = i /\ gpc' = "read" /\ UNCHANGED <<unverified, refused>>
     \/ Lacks(i) /\ refused' = refused \cup {i} /\ UNCHANGED <<unverified, chosen, gpc>>
     \/ unverified' = Append(unverified, i) /\ UNCHANGED <<refused, chosen, gpc>>
  /\ UNCHANGED <<job, answered>>

\* The first it could not tell about, or none.
Unverified ==
  /\ gpc = "rank" /\ Candidates = {}
  /\ chosen' = IF unverified = <<>> THEN 0 ELSE unverified[1]
  /\ gpc' = "read"
  /\ UNCHANGED <<unverified, refused, job, answered>>

\* select_native_target: the first of the canonical program's name, in its own project.
Target ==
  CHOOSE i \in DOMAIN analysed :
    LET named == {k \in DOMAIN analysed :
                    /\ analysed[k].ok /\ analysed[k].saved /\ analysed[k].index # "no"
                    /\ analysed[k].job.file.name = analysed[chosen].job.file.name}
    IN  i \in named /\ \A k \in named : i <= k

\* GhidraTool.java on the program of that name; else an error.  (Without a canonical
\* program the agent has a path inside a container that is gone.)
ToolCall ==
  /\ gpc = "read" /\ chosen # 0 /\ Opens(Target)
  /\ answered' = At(Place(analysed[Target].job))
  /\ UNCHANGED <<gpc, job, unverified, refused, chosen>>

GhidraNext ==
  \/ HashFails \/ Call \/ ImportPe \/ ImportRaw64 \/ ImportRaw86
  \/ CollectOutput \/ CallFails \/ CallTimesOut \/ OrphanEnds
  \/ RecordPresence \/ Unverified \/ ToolCall
  \/ \E i \in DOMAIN analysed : Probe(i)
-----------------------------------------------------------------------------
\* The agent that was given a program reads that program: whatever calls failed, were
\* killed or copied half a project, and though a project is found and a program
\* opened by names that other bytes may have (#648, #655), no call was answered
\* from another's; and it is imported as it was reported, by the PE loader.  (The raw
\* loader reports the better of two imports and keeps the second: an x64 result may be
\* read as x86.)
ReadsItsProgram ==
  answered # NoProject =>
    /\ answered.bytes = analysed[Target].job.file.bytes
    /\ answered.language # analysed[Target].language =>
         answered.language = "x86" /\ analysed[Target].language = "x64"

\* The inductive invariant behind it: a program was imported from its job's file, by
\* the loader of the job, and stays in a place that no job of other bytes has.
Imported(p, j) ==
  p \notin Empty =>
    p.bytes = j.file.bytes /\ p.language = IF j.loader = "pe" THEN "pe" ELSE "x86"

Reported(e, j) ==
  e.ok /\ e.saved => IF j.loader = "pe" THEN e.language = "pe" ELSE e.language \in {"x64", "x86"}

Usable == {i \in DOMAIN analysed :
             analysed[i].ok /\ analysed[i].saved /\ analysed[i].index # "no"}

GhidraIInv ==
  /\ analysed \in Seq({analysed[i] : i \in DOMAIN analysed})
  /\ gpc \in {"next", "first", "second", "exited", "rank", "read", "died"}
  /\ gpc \in {"first", "second", "exited"} => entry \in DOMAIN Jobs(given)
  /\ gpc = "second" => This.loader # "pe" /\ (found.ok /\ found.saved => found.language = "x64")
  /\ gpc = "exited" => Imported(inside, This) /\ Reported(found, This)
  /\ \A d \in DOMAIN projects : \E i \in DOMAIN Jobs(given) :
       d = Place(Jobs(given)[i]) /\ Imported(projects[d], Jobs(given)[i])
  /\ \A i \in DOMAIN analysed :
       /\ Reported(analysed[i], analysed[i].job)
       /\ DOMAIN analysed[i] = {"ok", "saved", "functions", "language", "job", "index"}
  /\ gpc \notin {"rank", "read"} => unverified = <<>> /\ chosen = 0
  /\ unverified \in Seq(Usable) /\ chosen \in Usable \cup {0}
  /\ answered # NoProject =>
       /\ gpc = "read" /\ chosen # 0
       /\ answered = At(Place(analysed[Target].job)) /\ answered \notin Empty
=============================================================================

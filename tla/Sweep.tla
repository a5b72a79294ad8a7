------------------------------- MODULE Sweep -------------------------------
(***************************************************************************)
(* The evaluation over the corpus: lamware_eval runs the agent once for    *)
(* each arm and ordering of a sample's input, in a directory of its own    *)
(* below the corpus directory, scores the answer against what the agent    *)
(* could have read, and keeps the result; rebuild scores the kept results  *)
(* again.                                                                  *)
(*                                                                         *)
(* A cell <<a, k>> holds the log of tool calls of each kind of input, with *)
(* the run that wrote it, and the result.  Everything is read and written  *)
(* by path: a promotion may put another directory in its place.  The       *)
(* cleanup touches nothing of a sweep, and Corpus has its nights.          *)
(***************************************************************************)
EXTENDS Corpus

CONSTANTS
  Arms,       \* in their order
  MaxVariant, \* bound: --variants
  MaxSweeps,  \* bound: sweeps started
  MaxRuns,    \* bound: runs of the agent
  NoResult, NoScore

Kinds == {"card", "dotnet"}   \* native_pe and unpacked_payload; the .NET modalities

VARIABLES
  spc,            \* "off", "cell", "prepare", "run", "score"
  todo,           \* the cells to come, the current one first
  blocked,        \* arms of which no variant is run
  marked,         \* --variants was given: results record their ordering
  input,          \* the current cell's: [kind, of]
  run, sweeps,
  score           \* the last cell scored

sweep == <<spc, todo, blocked, marked, input, run, sweeps, score>>
evaluation == <<corpus, sweep>>

NoInput == [kind |-> "card", of |-> ByHand]

SweepInit ==
  /\ spc = "off" /\ todo = <<>> /\ blocked = {} /\ marked = FALSE
  /\ input = NoInput /\ run = 0 /\ sweeps = 0 /\ score = NoScore
-----------------------------------------------------------------------------
(* What the agent is given *)

\* rewrite_paths: in a promoted report the paths into what was not copied are null.
PathIn(d, f) ==
  IF d.of = ByHand \/ f.at \in ProjectsOf(shape[d.of]) THEN f.at ELSE Outside

\* select_native_target: the canonical program, else the first success.
Canonical(s) ==
  {i \in DOMAIN s.files : /\ s.files[i].name = s.canon /\ s.files[i].ok
                          /\ s.files[i].known # "lost"}
Successes(s) == {i \in DOMAIN s.files : s.files[i].ok}
First(I) == CHOOSE i \in I : \A j \in I : i <= j

NativeInput(s) ==
  s.files[First(IF Canonical(s) # {} THEN Canonical(s) ELSE Successes(s))]

\* corpus_project_for, stale_corpus_input: a project that is not in the corpus, or
\* whose index does not list the program; an index that cannot be read says nothing.
Stale(d, f) ==
  LET p == PathIn(d, f) IN
  \/ p = Outside \/ d.holds[p] = "gone"
  \/ d.holds[p] # "blind" /\ f.name \notin shape[d.of].holds[p]

\* init_payload_for: a file that succeeded; of a routed sample that has no canonical
\* payload the wrapper's C# where the verifier could not open a labelled one.
InputKinds(d) ==
  LET s == shape[d.of] IN
  (IF s.routed /\ Canonical(s) = {} THEN {"dotnet"} ELSE {})
    \cup (IF Successes(s) # {} /\ ~Stale(d, NativeInput(s)) THEN {"card"} ELSE {})

Readable(d) == d # NoDir /\ d.of # Stub
-----------------------------------------------------------------------------
(* The sweep *)

\* Every arm of an ordering before the next ordering.
Orderings(n) ==
  [i \in 1 .. (n + 1) * Len(Arms) |->
     <<Arms[((i - 1) % Len(Arms)) + 1], (i - 1) \div Len(Arms)>>]

Arm     == Head(todo)[1]
Variant == Head(todo)[2]
Cell    == Head(todo)

\* One sweep at a time; the manifest is read once.
StartSweep(n) ==
  /\ spc = "off" /\ sweeps < MaxSweeps /\ listed
  /\ spc' = "cell" /\ todo' = Orderings(n) /\ blocked' = {} /\ marked' = (n > 0)
  /\ sweeps' = sweeps + 1
  /\ UNCHANGED <<input, run, score, corpus>>

NextCell == todo' = Tail(todo) /\ spc' = IF Len(todo) = 1 THEN "off" ELSE "cell"

Skip ==
  /\ spc = "cell" /\ Arm \in blocked
  /\ NextCell
  /\ UNCHANGED <<blocked, marked, input, run, sweeps, score, corpus>>

Cell0Blocks == IF Variant = 0 THEN blocked \cup {Arm} ELSE blocked

\* The directory or its report is not there; NoAnalysisData, CorpusProjectMissing,
\* StaleCorpusEntry.  An arm whose first cell read nothing runs no variants.
InputFails ==
  /\ spc = "cell" /\ Arm \notin blocked
  /\ ~(Readable(dest) /\ "card" \in InputKinds(dest))
  /\ NextCell /\ blocked' = Cell0Blocks
  /\ UNCHANGED <<marked, input, run, sweeps, score, corpus>>

\* VariantNotApplicable.
InputNotOrdered ==
  /\ spc = "cell" /\ Arm \notin blocked /\ Readable(dest)
  /\ "dotnet" \in InputKinds(dest) /\ Variant > 0
  /\ NextCell /\ blocked' = blocked \cup {Arm}
  /\ UNCHANGED <<marked, input, run, sweeps, score, corpus>>

ReadInput(kind) ==
  /\ spc = "cell" /\ Arm \notin blocked /\ Readable(dest) /\ run < MaxRuns
  /\ kind \in InputKinds(dest) /\ (kind = "dotnet" => Variant = 0)
  /\ spc' = "prepare" /\ input' = [kind |-> kind, of |-> dest.of]
  /\ UNCHANGED <<todo, blocked, marked, run, sweeps, score, corpus>>

EmptyCell == [calls |-> [t \in Kinds |-> 0], result |-> NoResult]

\* mkdir(parents=True): of a path that is gone it makes the corpus directory anew.
Below(c, content) ==
  LET d == IF dest = NoDir THEN Directory(Stub, NoProject, <<>>) ELSE dest IN
  [d EXCEPT !.cells =
     [e \in DOMAIN d.cells \cup {c} |-> IF e = c THEN content ELSE d.cells[e]]]

Makes(c, content) ==
  /\ dest' = Below(c, content)
  /\ cut' = (cut \/ (dest = NoDir /\ aside # NoDir))

Exist(c) == dest # NoDir /\ c \in DOMAIN dest.cells

\* Mutant of Cleared: what the last run left stays, and is written over.
ClearedNot(c) == IF Exist(c) THEN dest.cells[c] ELSE EmptyCell

\* archive_previous_cell: what the last run left is moved to eval/_archive.
Cleared(c) == EmptyCell

Prepare ==
  /\ spc = "prepare"
  /\ Makes(Cell, Cleared(Cell))
  /\ spc' = "run" /\ run' = run + 1
  /\ UNCHANGED <<todo, blocked, marked, input, sweeps, score, reports, cleanup, step,
                 source, staging, aside, promotions, archive, listed>>

\* run_interpret keeps the log of tool calls at the end, below the path it was given.
AgentAnswers ==
  /\ spc = "run"
  /\ LET cell == IF Exist(Cell) THEN dest.cells[Cell] ELSE EmptyCell IN
       Makes(Cell, [cell EXCEPT !.calls[input.kind] = run])
  /\ spc' = "score"
  /\ UNCHANGED <<todo, blocked, marked, input, run, sweeps, score, reports, cleanup,
                 step, source, staging, aside, promotions, archive, listed>>

\* The container exits without a final, or its time is over: there is a result, with
\* an error, and no log.
AgentDoesNot ==
  /\ spc = "run"
  /\ spc' = "score"
  /\ UNCHANGED <<todo, blocked, marked, input, run, sweeps, score, corpus>>

LogsOf(cell) == {cell.calls[t] : t \in Kinds} \ {0}

\* tool_output_text, result.json, compose_cell.
Score ==
  /\ spc = "score" /\ Exist(Cell)
  /\ score' = [run |-> run, logs |-> LogsOf(dest.cells[Cell]), sent |-> input.of,
               source |-> input.of, marked |-> marked]
  /\ dest' = Below(Cell, [dest.cells[Cell] EXCEPT !.result =
                            [run |-> run, kind |-> input.kind, of |-> input.of,
                             marked |-> marked]])
  /\ NextCell
  /\ blocked' = IF input.kind = "dotnet" THEN Cell0Blocks ELSE blocked
  /\ UNCHANGED <<marked, input, run, sweeps, reports, cleanup, promotion, archive,
                 listed>>

\* "one bad cell never kills the run".
CellFails ==
  /\ spc \in {"run", "score"}
  /\ spc = "score" => ~Exist(Cell)
  /\ NextCell /\ blocked' = Cell0Blocks
  /\ UNCHANGED <<marked, input, run, sweeps, score, corpus>>

SweepDies ==
  /\ spc # "off"
  /\ spc' = "off" /\ todo' = <<>>
  /\ UNCHANGED <<blocked, marked, input, run, sweeps, score, corpus>>
-----------------------------------------------------------------------------
(* rebuild *)

\* replay_variant: the input that a recorded ordering gives today must be the one the
\* agent was sent.
Replays(r) == r.marked => r.of = dest.of

Scored == {c \in DOMAIN dest.cells : dest.cells[c].result # NoResult}

\* Not beside a sweep.  One result that is not replayed ends it, with no scorecard.
Rebuild ==
  /\ spc = "off" /\ listed /\ Readable(dest)
  /\ \A c \in Scored : Replays(dest.cells[c].result)
  /\ \E c \in Scored :
       LET r == dest.cells[c].result IN
       score' = [run |-> r.run, logs |-> LogsOf(dest.cells[c]), sent |-> r.of,
                 source |-> dest.of, marked |-> r.marked]
  /\ UNCHANGED <<spc, todo, blocked, marked, input, run, sweeps, corpus>>

SweepNext ==
  \/ \E n \in 0 .. MaxVariant : StartSweep(n)
  \/ \E kind \in Kinds : ReadInput(kind)
  \/ Skip \/ InputFails \/ InputNotOrdered \/ Prepare \/ AgentAnswers \/ AgentDoesNot \/ Score
  \/ CellFails \/ SweepDies \/ Rebuild

EvaluationInit == CorpusInit /\ SweepInit
EvaluationNext == (Promotion /\ UNCHANGED sweep) \/ SweepNext

EvaluationSpec ==
  EvaluationInit /\ [][(Cleanup /\ UNCHANGED sweep) \/ EvaluationNext]_evaluation
-----------------------------------------------------------------------------
\* A cell is scored against the tool calls of its own run, through reruns, kills and
\* promotions: "a claim could be scored against evidence from a DIFFERENT run, with
\* nothing anywhere saying so"; and where its ordering was recorded, against the
\* input its agent was sent.
ScoredOnOwn ==
  score # NoScore =>
    /\ score.logs \subseteq {score.run}
    /\ score.marked => score.source = score.sent
-----------------------------------------------------------------------------
(* The inductive invariant of ScoredOnOwn.                                 *)

\* A directory holds cells by name; which names depends on the sweeps.
IsCell(t) == t = [calls |-> t.calls, result |-> t.result] /\ t.calls \in [Kinds -> Nat]

IsDirectory(d) ==
  /\ d = Directory(d.of, d.holds, d.cells)
  /\ d.cells = [c \in DOMAIN d.cells |-> d.cells[c]]
  /\ \A c \in DOMAIN d.cells : IsCell(d.cells[c])

SweepType ==
  /\ spc \in {"off", "cell", "prepare", "run", "score"}
  /\ input.kind \in Kinds /\ run \in Nat
  /\ \A d \in {dest, aside} : IsDirectory(d)

\* A result stands beside the log of its own run.
OwnLog(cell) == cell.result # NoResult => LogsOf(cell) \subseteq {cell.result.run}

\* The directories that are in the corpus or may come back to it.
Current == {dest, aside} \ {NoDir}

\* The one that the agent's run finds by its path, now or when the renames are undone.
ByPath == {IF dest # NoDir THEN dest ELSE aside} \ {NoDir}

SweepIInv ==
  /\ \A d \in Current : \A c \in DOMAIN d.cells : OwnLog(d.cells[c])
  /\ spc \in {"run", "score"} =>
       \A d \in ByPath : Cell \in DOMAIN d.cells =>
         d.cells[Cell].result = NoResult /\ LogsOf(d.cells[Cell]) \subseteq {run}
  /\ ScoredOnOwn
=============================================================================

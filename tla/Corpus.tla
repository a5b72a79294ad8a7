------------------------------- MODULE Corpus -------------------------------
(***************************************************************************)
(* How a report survives: the nightly cleanup deletes report directories   *)
(* after a week, except those that corpus_harvest names, and promote       *)
(* copies one into the evaluation corpus, where nothing expires.           *)
(*                                                                         *)
(* The reports are of one sample, numbered from the oldest, so that each   *)
(* is promoted to the same directory.  A project of a report is a Ghidra   *)
(* project: "whole"; with a "hole" when its index is there and a program   *)
(* it lists is not; "blind" when the index is what is missing; or "gone".  *)
(* What a report says of its programs is its shape.                        *)
(***************************************************************************)
EXTENDS Naturals, Sequences, FiniteSets

CONSTANTS
  LastReport,   \* reports are 1 .. LastReport
  Projects,     \* directories of a report that hold a project
  Outside,      \* a path that is not below the report directory, or null
  NoProgram,    \* null
  Shapes,       \* a report -> what it may say
  ByHand,       \* the report that was copied by hand, before promote was written
  MaxKeep,      \* --max-keep
  MaxPromotions,\* bound: promotions started
  Stub          \* of no report: a directory that only the evaluation has made

Reports == 1 .. LastReport

\* files: analyzed_files, each [name, ok, known, at]: analysis_success, in_project,
\* and where its project is; canon, canonAt: the canonical pair; read: what
\* production's agent read; holds: the programs of a project's index; odd: projects
\* with a link or a special file; named: the evidence names the family; routed: to
\* the .NET analysis; found, rich: findings of the correlation.
ASSUME ShapesAssumption ==
  /\ ByHand \in Reports /\ MaxKeep \in Nat
  /\ \A r \in Reports : \A s \in Shapes[r] :
       /\ \A i \in DOMAIN s.files :
            /\ s.files[i].known \in {"yes", "lost", "unset"}
            /\ s.files[i].at \in Projects \cup {Outside}
       /\ s.canonAt \in Projects \cup {Outside}
       /\ s.odd \subseteq Projects /\ {s.named, s.routed, s.found, s.rich} \subseteq BOOLEAN
ASSUME StubAssumption == Stub \notin Reports \cup {0}

VARIABLES
  shape, age, disk,      \* report directories: contents, age, what is left
  keep, night,           \* keep.txt; the cleanup: "off", "delete", "failed"
  step, source,          \* the promotion
  staging, aside,        \* its copy, and the directory it has renamed to archive/
  dest, archive, listed, \* the corpus directory, archive/, and the manifest's entry
  promotions,
  cut                    \* something came between the two renames

reports   == <<shape, age, disk>>
cleanup   == <<keep, night>>
promotion == <<step, source, staging, aside, promotions, cut>>
kept      == <<dest, archive, listed>>
corpus    == <<reports, cleanup, promotion, kept>>

NoProject == [p \in Projects |-> "gone"]

\* A directory of the corpus: whose report.json it holds, its projects, and the
\* cells of the evaluation in it.
Directory(r, projects, cells) == [of |-> r, holds |-> projects, cells |-> cells]
NoDir == Directory(0, NoProject, <<>>)

CorpusInit ==
  /\ shape \in [Reports -> UNION {Shapes[r] : r \in Reports}]
  /\ \A r \in Reports : shape[r] \in Shapes[r]
  /\ age = [r \in Reports |-> IF r = ByHand THEN "expired" ELSE "new"]
  /\ disk = [r \in Reports |-> [p \in Projects |-> IF r = ByHand THEN "gone" ELSE "whole"]]
  /\ keep = {} /\ night = "off"
  /\ step = "off" /\ source = ByHand /\ staging = NoProject
  /\ aside = NoDir /\ promotions = 0 /\ cut = FALSE
  /\ \/ dest = NoDir /\ listed = FALSE
     \/ /\ dest = Directory(ByHand, [p \in Projects |-> "whole"], <<>>)
        /\ listed = TRUE
  /\ archive = {}
-----------------------------------------------------------------------------
(* The nightly cleanup *)

\* Seven days, --keep-days.  A night takes minutes.
Ages(r) ==
  /\ night = "off"
  /\ \/ age[r] = "new" /\ age' = [age EXCEPT ![r] = "old"]
     \/ age[r] = "old" /\ age' = [age EXCEPT ![r] = "expired"]
  /\ \A q \in Reports : q < r => age[q] # "new"
  /\ UNCHANGED <<shape, disk, cleanup, promotion, kept>>

Exists(r) == \E p \in Projects : disk[r][p] # "gone"

\* select: rows of the database with findings, of this age, still on disk.
Candidates == {r \in Reports : shape[r].found /\ age[r] # "expired" /\ Exists(r)}

\* cap: several findings or a rule that leads to code first, then the newest.
Before(q, r) ==
  \/ shape[q].rich /\ ~shape[r].rich
  \/ shape[q].rich = shape[r].rich /\ q > r

KeepList == {r \in Candidates : Cardinality({q \in Candidates : Before(q, r)}) < MaxKeep}

HarvestKeeps ==
  /\ night = "off"
  /\ keep' = KeepList /\ night' = "delete"
  /\ UNCHANGED <<reports, promotion, kept>>

\* No database, no password, no space: the script ends before it deletes anything.
HarvestFails ==
  /\ night = "off"
  /\ night' = "failed"
  /\ UNCHANGED <<keep, reports, promotion, kept>>

\* rm -rf of one directory that find named, in the order of its entries.
Delete(r, p) ==
  /\ night = "delete"
  /\ age[r] # "new" /\ r \notin keep /\ disk[r][p] # "gone"
  /\ \E left \in {"hole", "blind", "gone"} :
       /\ left = "gone" \/ disk[r][p] = "whole"
       /\ disk' = [disk EXCEPT ![r][p] = left]
  /\ UNCHANGED <<shape, age, cleanup, step, source, staging, aside,
                 promotions, cut, kept>>

\* Every directory was tried, or the run was cut off.
NightEnds ==
  /\ night # "off"
  /\ night' = "off"
  /\ UNCHANGED <<keep, reports, promotion, kept>>

Cleanup ==
  \/ HarvestKeeps \/ HarvestFails \/ NightEnds
  \/ \E r \in Reports : Ages(r) \/ \E p \in Projects : Delete(r, p)
-----------------------------------------------------------------------------
(* The plan of a promotion *)

Files(s) == {s.files[i] : i \in DOMAIN s.files}

\* add: the successes that are not known to be lost, and the canonical program.
Promised(s) ==
  {[name |-> f.name, at |-> f.at] : f \in {g \in Files(s) : g.ok /\ g.known # "lost"}}
  \cup (IF s.canon = NoProgram THEN {} ELSE {[name |-> s.canon, at |-> s.canonAt]})

PromisedNames(s) == {c.name : c \in Promised(s)}
ProjectsOf(s)    == {c.at : c \in Promised(s)}

\* plan_promotion: a project elsewhere, a program of two projects, a canonical or a
\* read program that cannot be promoted.
PlanRefused(s) ==
  \/ Outside \in ProjectsOf(s)
  \/ \E c, d \in Promised(s) : c.name = d.name /\ c.at # d.at
  \/ \E f \in Files(s) : f.name = s.canon /\ f.known = "lost"
  \/ s.read \in {f.name : f \in Files(s)} \ PromisedNames(s)

\* leak_check: the family is named, or the agent would be given nothing: neither the
\* .NET sources of a routed sample nor a program of Ghidra's.
CheckRefused(s) == s.named \/ (~s.routed /\ \A f \in Files(s) : ~f.ok)

\* check_index: the index of each project lists the programs promised in it.
InIndex(s, projects) ==
  \A c \in Promised(s) :
    projects[c.at] \in {"whole", "hole"} /\ c.name \in s.holds[c.at]

\* An operator promotes one report at a time.  A dry run ends here.
StartPromotion(r, again) ==
  /\ step = "off" /\ promotions < MaxPromotions
  /\ r # ByHand /\ Exists(r)
  /\ ~PlanRefused(shape[r]) /\ ~CheckRefused(shape[r])
  /\ dest # NoDir => again
  /\ InIndex(shape[r], disk[r])
  /\ step' = "copy" /\ source' = r /\ staging' = NoProject
  /\ promotions' = promotions + 1
  /\ UNCHANGED <<aside, cut, reports, cleanup, kept>>
-----------------------------------------------------------------------------
(* The copy, and its two renames *)

\* Every end but the last: the staging directory is removed.
Abandon == step' = "off" /\ staging' = NoProject

Wanted == ProjectsOf(shape[source])

CopyProject(p) ==
  /\ step = "copy" /\ p \in Wanted /\ staging[p] = "gone"
  /\ disk[source][p] # "gone" /\ p \notin shape[source].odd
  /\ staging' = [staging EXCEPT ![p] = disk[source][p]]
  /\ UNCHANGED <<step, source, aside, promotions, cut, reports,
                 cleanup, kept>>

\* A link, a special file, or a directory that is no longer there.
CopyRefused(p) ==
  /\ step = "copy" /\ p \in Wanted /\ staging[p] = "gone"
  /\ disk[source][p] = "gone" \/ p \in shape[source].odd
  /\ Abandon
  /\ UNCHANGED <<source, aside, promotions, cut, reports, cleanup,
                 kept>>

AllCopied == \A p \in Wanted : staging[p] # "gone"

\* Mutant of Copied: only the source was checked.
CopiedUnchecked == AllCopied

Copied == AllCopied /\ InIndex(shape[source], staging)

IndexRefused ==
  /\ step = "copy" /\ AllCopied /\ ~Copied
  /\ Abandon
  /\ UNCHANGED <<source, aside, promotions, cut, reports, cleanup, kept>>

\* The existing directory is renamed before the copy takes its name.
SetAside ==
  /\ step = "copy" /\ Copied /\ dest # NoDir
  /\ step' = "place" /\ aside' = dest /\ dest' = NoDir
  /\ UNCHANGED <<source, staging, promotions, cut, reports, cleanup,
                 archive, listed>>

NothingAside ==
  /\ step = "copy" /\ Copied /\ dest = NoDir
  /\ step' = "place"
  /\ UNCHANGED <<source, staging, aside, promotions, cut, reports,
                 cleanup, kept>>

Archived == archive' = IF aside = NoDir THEN archive ELSE archive \cup {aside}

Place ==
  /\ step = "place" /\ dest = NoDir
  /\ dest' = Directory(source, staging, <<>>)
  /\ Archived /\ aside' = NoDir
  /\ step' = "manifest" /\ staging' = NoProject
  /\ cut' = FALSE
  /\ UNCHANGED <<source, promotions, reports, cleanup, listed>>

\* The archive is renamed back, which fails too where a directory was made meanwhile.
PlaceFails ==
  /\ step = "place"
  /\ Abandon /\ aside' = NoDir
  /\ IF dest = NoDir THEN dest' = aside /\ UNCHANGED archive
                     ELSE Archived /\ UNCHANGED dest
  /\ UNCHANGED <<listed, source, promotions, cut, reports, cleanup>>

\* update_manifest replaces the file, with the fields of an operator kept.  (Without
\* --manifest nothing follows the rename, as when the promotion dies here.)
ListPromotion ==
  /\ step = "manifest"
  /\ step' = "off" /\ listed' = TRUE
  /\ UNCHANGED <<source, staging, aside, promotions, cut, reports,
                 cleanup, dest, archive>>

\* SIGKILL, or the host goes down.  The staging directory stays, and nobody reads it.
PromotionDies ==
  /\ step # "off"
  /\ Abandon
  /\ Archived /\ aside' = NoDir
  /\ cut' = (cut \/ (step = "place" /\ aside # NoDir))
  /\ UNCHANGED <<source, promotions, reports, cleanup, dest, listed>>

Promotion ==
  \/ \E r \in Reports, again \in BOOLEAN : StartPromotion(r, again)
  \/ \E p \in Projects : CopyProject(p) \/ CopyRefused(p)
  \/ IndexRefused \/ SetAside \/ NothingAside \/ Place \/ PlaceFails \/ ListPromotion \/ PromotionDies

CorpusNext == Cleanup \/ Promotion
-----------------------------------------------------------------------------
\* A copy from which each program that was promised can be opened, as far as the
\* index says.
Serves(d) == d # NoDir /\ d.of # Stub /\ InIndex(shape[d.of], d.holds)

\* What the corpus serves does not depend on the cleanup, nor on how a promotion that
\* replaces it ends: a listed directory opens what its report promises, and if a
\* crash, or a directory made by an evaluation, came between the two renames, the
\* archive holds one that does.  (promote: "the eval would hand the agent a program
\* its project cannot open"; "nothing that existed before is removed".)
CorpusServes ==
  listed /\ step # "place" =>
    \/ dest # NoDir /\ (dest.of = ByHand \/ Serves(dest))
    \/ cut /\ \E d \in archive : d.of = ByHand \/ Serves(d)
-----------------------------------------------------------------------------
(* The inductive invariant of CorpusServes.                                *)

Opens(d) == d # NoDir /\ (d.of = ByHand \/ Serves(d))

Fallback == cut /\ \E d \in archive : d.of = ByHand \/ Serves(d)

\* Between the two renames what was listed is aside, to come back or to be archived;
\* a directory made in its place is known of.
CorpusIInv ==
  /\ source \in Reports
  /\ step # "place" => aside = NoDir
  /\ step = "place" => InIndex(shape[source], staging)
  /\ step = "place" /\ listed => Opens(aside) \/ Fallback
  /\ step = "place" /\ dest # NoDir /\ aside # NoDir => cut
  /\ step = "manifest" => Opens(dest)
  /\ CorpusServes
=============================================================================

----------------------------- MODULE Enrichment -----------------------------
(***************************************************************************)
(* Concurrent ingests over the tables they share: ioc_values and           *)
(* technique_values, whose rows every analysis upserts, and                *)
(* sample_relationships, which each ingest extends from what the others    *)
(* have committed.  PipelineRuns has the life of one analysis row; here    *)
(* its enrichment is followed statement by statement.                      *)
(*                                                                         *)
(* PostgreSQL is external and runs READ COMMITTED: a row that was upserted *)
(* is locked until its transaction ends or is rolled back to a savepoint   *)
(* before it, everyone who upserts it waits, and of a circle of waiting    *)
(* transactions one statement is refused.  A savepoint released keeps its  *)
(* locks.  A connection lost ends its transaction.                         *)
(***************************************************************************)
EXTENDS Naturals, Sequences, FiniteSets

CONSTANTS
  Ingests,      \* calls of ingest_to_db, each with its analysis row
  Older,        \* those that ended before
  SampleIn,     \* ingest -> its sample
  Items,        \* ingest -> enrichment group -> what the report lists, in its order
  Similar,      \* pairs of samples whose fuzzy hashes reach the threshold
  Malformed,    \* ingest -> distinct complaints that reading its report can make
  Cleaned,      \* ingest -> distinct complaints of the cleaner of its values
  MaxWarnings,  \* _MAX_INGEST_WARNINGS
  MaxFreq,      \* relationship_max_ioc_frequency
  MaxTroubles,  \* bound: statements refused and connections lost
  MaxDeletes,   \* bound: analyses deleted
  Nobody, NoValue

Groups ==
  <<"iocs", "techniques_ai", "techniques_cape", "capabilities", "signatures",
    "network_dns", "network_http", "network_tcp", "ioc_technique_mappings",
    "correlations", "ingest_warnings">>

GroupNames == {Groups[g] : g \in DOMAIN Groups}

\* The groups that upsert rows everyone shares.
Iocs == {"iocs"}
Techniques == {"techniques_ai", "techniques_cape"}
Mappings == {"ioc_technique_mappings"}

ListedIn(i, names) == UNION {{Items[i][g][n] : n \in DOMAIN Items[i][g]} : g \in names}

Values ==
  UNION {ListedIn(i, Iocs \cup Techniques) \cup {m.technique : m \in ListedIn(i, Mappings)} :
           i \in Ingests}

ASSUME EnrichmentAssumption ==
  /\ IsFiniteSet(Ingests) /\ Older \subseteq Ingests /\ DOMAIN SampleIn = Ingests
  /\ Items \in [Ingests -> [GroupNames -> Seq(UNION {ListedIn(i, GroupNames) : i \in Ingests})]]
  /\ Nobody \notin Ingests /\ NoValue \notin Values
  /\ {Malformed, Cleaned} \subseteq [Ingests -> Nat]
  /\ {MaxFreq, MaxWarnings, MaxTroubles, MaxDeletes} \subseteq Nat

VARIABLES
  place,        \* ingest -> "core", "group", "commit", "fetch", "relate" or "ended"
  group, item,  \* its enrichment group, and the next of its items
  cored,        \* ingests that committed sample and analysis
  row,          \* ingests whose analysis row exists
  failed,       \* ingest -> groups rolled back
  pending,      \* ingest -> groups inserted and not committed
  lock,         \* shared row -> who upserted it, in which group, uncommitted
  stored,       \* shared rows committed
  landed,       \* ingest -> groups committed
  named,        \* ingest -> groups that report_json["_ingest_warnings"] names
  untold,       \* ingest -> n of its last entry "... and n more"
  found,        \* ingest -> edges it has computed
  related,      \* ingests whose edges are committed
  edges,        \* sample_relationships
  troubles, deletes

work == <<place, group, item, failed, pending, lock, found>>
shared == <<cored, row, stored, landed, named, untold, related, edges>>
enrichment == <<work, shared, troubles, deletes>>

-----------------------------------------------------------------------------
(* The edges of a sample, as the committed rows have them.                 *)

\* The IOCs of a sample, over its analyses.
Linked(i) == IF "iocs" \in landed[i] THEN ListedIn(i, Iocs) ELSE {}
IocsOf(s) == UNION {Linked(i) : i \in {j \in row : SampleIn[j] = s}}

Freq(v) == Cardinality({SampleIn[i] : i \in {j \in row : v \in Linked(j)}})

Samples == {SampleIn[i] : i \in Ingests}

\* Mutant of SharedEdges: a value must stay below the limit.
SharedEdgesBelow(s) ==
  {{s, t} : t \in {o \in Samples \ {s} :
      \E v \in IocsOf(s) \cap IocsOf(o) : Freq(v) < MaxFreq}}

\* select_shared_ioc_edges: an edge is a pair of samples, whoever finds it.
SharedEdges(s) ==
  {{s, t} : t \in {o \in Samples \ {s} :
      \E v \in IocsOf(s) \cap IocsOf(o) : Freq(v) <= MaxFreq}}

\* select_ssdeep_edges: the hash is the sample's and outlives its analyses.
SimilarEdges(s) == {e \in Similar : s \in e /\ e \subseteq {SampleIn[i] : i \in cored}}

-----------------------------------------------------------------------------
Free == [by |-> Nobody, in |-> 0]

EnrichmentInit ==
  /\ place = [i \in Ingests |-> IF i \in Older THEN "ended" ELSE "core"]
  /\ group = [i \in Ingests |-> 1] /\ item = [i \in Ingests |-> 1]
  /\ cored = Older /\ row = Ingests
  /\ failed = [i \in Ingests |-> {}] /\ pending = [i \in Ingests |-> {}]
  /\ lock = [v \in Values |-> Free]
  /\ stored = UNION {ListedIn(i, Iocs \cup Techniques) : i \in Older}
  /\ landed = [i \in Ingests |-> IF i \in Older THEN GroupNames ELSE {}]
  /\ named = [i \in Ingests |-> {}] /\ untold = [i \in Ingests |-> 0]
  /\ found = [i \in Ingests |-> {}] /\ related = Older
  /\ edges = UNION {SharedEdges(SampleIn[i]) \cup SimilarEdges(SampleIn[i]) : i \in Older}
  /\ troubles = 0 /\ deletes = 0
-----------------------------------------------------------------------------
(* A statement of a group.                                                 *)

GroupOf(i) == Groups[group[i]]
InGroup(i, names) == place[i] = "group" /\ GroupOf(i) \in names

\* The list of a row's warnings: what reading the report complained of, the groups
\* rolled back in their order, what the cleaner complained of.  _capped keeps the
\* first of them and says how many more there are.
Capped(lost, read, cleaned) ==
  [named  |-> {Groups[g] : g \in {h \in DOMAIN Groups :
                 /\ Groups[h] \in lost
                 /\ read + Cardinality({Groups[b] : b \in 1 .. (h - 1)} \cap lost) < MaxWarnings}},
   untold |-> LET said == read + Cardinality(lost) + cleaned IN
              IF said > MaxWarnings THEN said - MaxWarnings ELSE 0]

\* Mutant of Merged: warnings.extend(failed) before the correlations.
MergedEarly(i, read, cleaned) == Capped(failed[i] \ {"correlations"}, read, cleaned)

\* What the last group writes into report_json, if there is anything to write.
Merged(i, read, cleaned) == Capped(failed[i], read, cleaned)

\* The items of a group.  The last group writes one column, if at all.
Listed(i) ==
  IF GroupOf(i) = "ingest_warnings" THEN <<>> ELSE Items[i][GroupOf(i)]

More(i) == place[i] = "group" /\ item[i] <= Len(Listed(i))

\* An IOC is looked up in everybody's values, committed or its own.
Sees(i, v) == v \in stored \/ (v \in Values /\ lock[v].by = i)

\* The shared row that the next statement upserts.  A mapping whose IOC is not to be
\* found upserts none, nor does a group with rows of its own.
Wanted(i) ==
  IF ~More(i) THEN NoValue
  ELSE LET it == Listed(i)[item[i]] IN
       IF GroupOf(i) \in Iocs \cup Techniques THEN it
       ELSE IF GroupOf(i) \in Mappings /\ Sees(i, it.ioc) THEN it.technique ELSE NoValue

\* Whom the next statement waits for.
WaitsFor(i) ==
  IF Wanted(i) = NoValue \/ lock[Wanted(i)].by \in {Nobody, i} THEN Nobody
  ELSE lock[Wanted(i)].by

Deadlocked(i) == \E circle \in SUBSET Ingests : i \in circle /\ {WaitsFor(p) : p \in circle} = circle

\* The next item inserts a child of the analysis row, whose key it needs.
HasChild(i) ==
  ~(GroupOf(i) \in Mappings /\ ~Sees(i, Listed(i)[item[i]].ioc))

Upsert(i) ==
  /\ More(i) /\ WaitsFor(i) = Nobody /\ (HasChild(i) => i \in row)
  /\ item' = [item EXCEPT ![i] = @ + 1]
  /\ lock' = IF Wanted(i) = NoValue \/ lock[Wanted(i)].by = i THEN lock
             ELSE [lock EXCEPT ![Wanted(i)] = [by |-> i, in |-> group[i]]]
  /\ UNCHANGED <<place, group, failed, pending, found, shared, troubles, deletes>>

\* On to the next group.
Leave(i) ==
  IF group[i] < Len(Groups)
  THEN group' = [group EXCEPT ![i] = @ + 1] /\ item' = [item EXCEPT ![i] = 1] /\ UNCHANGED place
  ELSE place' = [place EXCEPT ![i] = "commit"] /\ UNCHANGED <<group, item>>

\* RELEASE SAVEPOINT.
Finish(i) ==
  /\ place[i] = "group" /\ ~More(i)
  /\ pending' = [pending EXCEPT ![i] = @ \cup {GroupOf(i)}]
  /\ Leave(i)
  /\ UNCHANGED <<failed, lock, found, shared, troubles, deletes>>

\* ROLLBACK TO SAVEPOINT gives back what this group locked.
RolledBack(i) ==
  [v \in Values |-> IF lock[v] = [by |-> i, in |-> group[i]] THEN Free ELSE lock[v]]

Fails(i) ==
  /\ lock' = RolledBack(i)
  /\ failed' = [failed EXCEPT ![i] = @ \cup {GroupOf(i)}]
  /\ Leave(i)
  /\ UNCHANGED <<pending, found, shared, deletes>>

\* A statement that PostgreSQL refuses.
Refused(i) ==
  /\ place[i] = "group"
  /\ GroupOf(i) = "ingest_warnings" => failed[i] # {} \/ Malformed[i] + Cleaned[i] > 0
  /\ troubles < MaxTroubles /\ troubles' = troubles + 1
  /\ Fails(i)

\* The analysis was deleted meanwhile: its key is gone.
RefusedOrphan(i) ==
  /\ More(i) /\ WaitsFor(i) = Nobody /\ HasChild(i) /\ i \notin row
  /\ Fails(i) /\ UNCHANGED troubles

\* Mutant of Victim: the group is tried again.
VictimRetries(i) ==
  /\ Deadlocked(i) /\ lock' = RolledBack(i) /\ item' = [item EXCEPT ![i] = 1]
  /\ UNCHANGED <<place, group, failed, pending, found, shared, troubles, deletes>>

\* The deadlock detector refuses a statement of the circle.
Victim(i) == Deadlocked(i) /\ Fails(i) /\ UNCHANGED troubles
-----------------------------------------------------------------------------
(* The two commits.                                                        *)

\* Sample and analysis.  Of a row that was deleted the UPDATE finds nothing, and says
\* nothing.
CommitCore(i) ==
  /\ place[i] = "core"
  /\ place' = [place EXCEPT ![i] = "group"] /\ cored' = cored \cup {i}
  /\ UNCHANGED <<group, item, failed, pending, lock, found, row, stored, landed, named,
                 untold, related, edges, troubles, deletes>>

LoseCore(i) ==
  /\ place[i] = "core" /\ troubles < MaxTroubles /\ troubles' = troubles + 1
  /\ place' = [place EXCEPT ![i] = "ended"]
  /\ \E committed \in BOOLEAN : cored' = IF committed THEN cored \cup {i} ELSE cored
  /\ UNCHANGED <<group, item, failed, pending, lock, found, row, stored, landed, named,
                 untold, related, edges, deletes>>

Held(i) == {v \in Values : lock[v].by = i}
Released(i) == [v \in Values |-> IF v \in Held(i) THEN Free ELSE lock[v]]

\* A group rolled back part-way has not read all of its part of the report.
Lands(i) ==
  /\ stored' = stored \cup Held(i)
  /\ landed' = [landed EXCEPT ![i] = IF i \in row THEN pending[i] ELSE {}]
  /\ \E read \in 0 .. Malformed[i], cleaned \in 0 .. Cleaned[i] :
       LET kept == IF i \in row /\ "ingest_warnings" \in pending[i]
                   THEN Merged(i, read, cleaned) ELSE [named |-> {}, untold |-> 0]
       IN /\ named' = [named EXCEPT ![i] = kept.named]
          /\ untold' = [untold EXCEPT ![i] = kept.untold]

Ends(i) ==
  /\ lock' = Released(i) /\ pending' = [pending EXCEPT ![i] = {}]
  /\ UNCHANGED <<group, item, failed, found, cored, row, related, edges, deletes>>

Commit(i) ==
  /\ place[i] = "commit" /\ place' = [place EXCEPT ![i] = "fetch"]
  /\ Lands(i) /\ Ends(i) /\ UNCHANGED troubles

\* The answer to the commit is lost, or the connection before it.
Lose(i) ==
  /\ place[i] \in {"group", "commit"} /\ place' = [place EXCEPT ![i] = "ended"]
  /\ troubles < MaxTroubles /\ troubles' = troubles + 1
  /\ \/ place[i] = "commit" /\ Lands(i)
     \/ UNCHANGED <<stored, landed, named, untold>>
  /\ Ends(i)
-----------------------------------------------------------------------------
(* Relationships, and who else changes the tables.                         *)

\* The transaction holds the key of the analysis row.
Tied(i) ==
  item[i] > 1 \/ \E g \in pending[i] : Items[i][g] # <<>> \/ g = "correlations"

FetchShared(i) ==
  /\ place[i] = "fetch" /\ place' = [place EXCEPT ![i] = "relate"]
  /\ found' = [found EXCEPT ![i] = SharedEdges(SampleIn[i])]
  /\ UNCHANGED <<group, item, failed, pending, lock, shared, troubles, deletes>>

\* The hashes are read by a later statement; the upsert skips what is there.
Relate(i) ==
  /\ place[i] = "relate" /\ place' = [place EXCEPT ![i] = "ended"]
  /\ edges' = edges \cup found[i] \cup SimilarEdges(SampleIn[i])
  /\ related' = related \cup {i}
  /\ found' = [found EXCEPT ![i] = {}]
  /\ UNCHANGED <<group, item, failed, pending, lock, cored, row, stored, landed, named,
                 untold, troubles, deletes>>

\* write_relationships_safe: the ingest stands.
RelateFails(i) ==
  /\ place[i] \in {"fetch", "relate"} /\ place' = [place EXCEPT ![i] = "ended"]
  /\ found' = [found EXCEPT ![i] = {}]
  /\ troubles < MaxTroubles /\ troubles' = troubles + 1
  /\ UNCHANGED <<group, item, failed, pending, lock, shared, deletes>>

\* An administrator deletes an analysis.  The deletion waits for a transaction that has
\* inserted a child of it, and takes along what has been committed.
DeleteAnalysis(i) ==
  /\ i \in row /\ deletes < MaxDeletes /\ deletes' = deletes + 1
  /\ ~Tied(i)
  /\ row' = row \ {i}
  /\ landed' = [landed EXCEPT ![i] = {}] /\ named' = [named EXCEPT ![i] = {}]
  /\ untold' = [untold EXCEPT ![i] = 0]
  /\ UNCHANGED <<work, cored, stored, related, edges, troubles>>
-----------------------------------------------------------------------------
IngestStep(i) ==
  \/ CommitCore(i) \/ Upsert(i) \/ Finish(i) \/ RefusedOrphan(i) \/ Victim(i)
  \/ Commit(i) \/ FetchShared(i) \/ Relate(i)

IngestTrouble(i) == Refused(i) \/ LoseCore(i) \/ Lose(i) \/ RelateFails(i)

EnrichmentNext ==
  \E i \in Ingests : IngestStep(i) \/ IngestTrouble(i) \/ DeleteAnalysis(i)

EnrichmentSpec == EnrichmentInit /\ [][EnrichmentNext]_enrichment
-----------------------------------------------------------------------------
(* Properties.                                                             *)

\* "Anything refused rolls back that group only, and is recorded": each group that the
\* enrichment of an analysis did not land is named beside its report or, where the
\* complaints about the report filled the list, among its "... and n more", whoever
\* refused it (a constraint, the deadlock detector), unless that very column was refused.
GroupsAccounted ==
  \A i \in row :
    landed[i] # {} /\ "ingest_warnings" \in landed[i] =>
      Cardinality(GroupNames \ (landed[i] \cup named[i])) <= untold[i]

\* Two samples whose ingests both got to their relationships have the edge of what they
\* share, however the two crossed: the later one sees the earlier's values.
Ever(v) == {SampleIn[i] : i \in {j \in Ingests : v \in ListedIn(j, Iocs)}}

Share(i, j) == \E v \in Linked(i) \cap Linked(j) : Cardinality(Ever(v)) <= MaxFreq

EdgesFound ==
  \A i, j \in related \cap row :
    /\ SampleIn[i] # SampleIn[j]
    /\ Share(i, j) \/ {SampleIn[i], SampleIn[j]} \in Similar
    => {SampleIn[i], SampleIn[j]} \in edges

\* The inductive invariants behind both: a group left behind has been inserted or
\* rolled back; and of two ingests that have looked for what they share, the later one
\* has the edge in hand, or it is there.
EnrichmentType ==
  /\ place \in [Ingests -> {"core", "group", "commit", "fetch", "relate", "ended"}]
  /\ group \in [Ingests -> DOMAIN Groups] /\ item \in [Ingests -> Nat \ {0}]
  /\ {failed, pending, landed, named} \subseteq [Ingests -> SUBSET GroupNames]
  /\ untold \in [Ingests -> Nat] /\ found \in [Ingests -> SUBSET SUBSET Samples]
  /\ cored \subseteq Ingests /\ row \subseteq Ingests /\ related \subseteq Ingests

GroupsPassed ==
  \A i \in Ingests :
    /\ place[i] = "core" => group[i] = 1
    /\ place[i] = "group" => \A g \in 1 .. (group[i] - 1) : Groups[g] \in pending[i] \cup failed[i]
    /\ place[i] = "commit" => GroupNames \subseteq pending[i] \cup failed[i]

InTurn ==
  \A i \in Ingests :
    /\ place[i] \notin {"core", "ended"} => i \in cored
    /\ i \in related => i \in cored /\ place[i] = "ended"
    /\ place[i] # "relate" => found[i] = {}

Fetched == {i \in row : place[i] = "relate" \/ i \in related}

Crossed ==
  \A i, j \in Fetched : SampleIn[i] # SampleIn[j] =>
    /\ Share(i, j) => {SampleIn[i], SampleIn[j]} \in edges \cup found[i] \cup found[j]
    /\ {i, j} \subseteq related /\ {SampleIn[i], SampleIn[j]} \in Similar =>
         {SampleIn[i], SampleIn[j]} \in edges

EnrichmentIInv == EnrichmentType /\ GroupsPassed /\ GroupsAccounted /\ InTurn /\ Crossed

\* Ingests that wait for each other in a circle do not wait for ever: one of them loses
\* a group, and all of them end.
IngestEnds == \A i \in Ingests : place[i] = "group" ~> place[i] = "ended"
=============================================================================

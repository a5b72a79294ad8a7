----------------------------- MODULE AutoFeeder -----------------------------
(***************************************************************************)
(* The auto-feeder's cycle, the API's feeder controls, and the sample-     *)
(* feeder command line that shares seen_hashes.json with it.               *)
(*                                                                         *)
(* A cycle loads state.json, checks its guardrails, selects a hash it has  *)
(* not seen, runs the pipeline on it (up to an hour), marks the hash seen  *)
(* and saves the state it loaded at the start.  The API rewrites the same  *)
(* state.json without a lock; the CLI writes back the set it read when it  *)
(* started.  The feeder's flock admits one cycle at a time: a second       *)
(* invocation exits at once and is not modelled.                           *)
(*                                                                         *)
(* A hash is a number, because the trimming of seen_hashes.json compares   *)
(* hashes.  Money is in some smallest unit.                                *)
(***************************************************************************)
EXTENDS Naturals, FiniteSets

CONSTANTS
  Hashes,        \* samples MalwareBazaar offers
  SeenCap,       \* hashes kept in seen_hashes.json (10000)
  MaxFailures,   \* auto_feeder_max_failures
  Budget,        \* auto_feeder_daily_budget_usd
  RunCosts,      \* what estimate_cost makes of a report
  MaxCost,       \* the dearest of them
  None,          \* no sample selected
  MaxPicks,      \* bound: times one sample is selected
  MaxDay,        \* bound: last day
  MaxCrashes,    \* bound: kills of a cycle or of a CLI session
  MaxCli         \* bound: CLI sessions

ASSUME HashAssumption == Hashes \subseteq Nat /\ IsFiniteSet(Hashes) /\ None \notin Hashes
ASSUME CostAssumption == MaxCost \in Nat /\ RunCosts \subseteq 0 .. MaxCost
ASSUME LimitAssumption ==
  /\ SeenCap \in Nat /\ MaxFailures \in Nat \ {0} /\ Budget \in Nat \ {0}
  /\ MaxPicks \in Nat /\ MaxDay \in Nat \ {0} /\ MaxCrashes \in Nat /\ MaxCli \in Nat

VARIABLES
  pause, pausedBy,          \* the PAUSE file, and what touched it last
  state,                    \* state.json
  seen, seenOk,             \* seen_hashes.json; FALSE when it is torn
  cpc, cst, ch, csnap, cres,  \* the cycle
  apc, aop, ast,            \* the API request in progress
  cliPc, cliSeen,           \* the CLI session
  day,
  picks,                    \* hash -> times the feeder selected it
  drops,                    \* hash -> times it fell out of seen_hashes.json
  streak,                   \* counted failures since a success or an operator
  crashes, sessions

control == <<pause, pausedBy>>
hashes  == <<seen, seenOk>>
cycle   == <<cpc, cst, ch, csnap, cres>>
api     == <<apc, aop, ast>>
cli     == <<cliPc, cliSeen>>
ghosts  == <<picks, drops, streak>>
bounds  == <<crashes, sessions>>
vars    == <<control, state, hashes, cycle, api, cli, day, ghosts, bounds>>

Fresh == [fails |-> 0, today |-> 0, cost |-> 0]

Init ==
  /\ pause = FALSE /\ pausedBy = "nobody" /\ state = Fresh
  /\ seen = {} /\ seenOk = TRUE
  /\ cpc = "idle" /\ cst = Fresh /\ ch = None /\ csnap = {} /\ cres = "none"
  /\ apc = "idle" /\ aop = "none" /\ ast = Fresh
  /\ cliPc = "idle" /\ cliSeen = {} /\ day = 1
  /\ picks = [h \in Hashes |-> 0] /\ drops = [h \in Hashes |-> 0] /\ streak = 0
  /\ crashes = 0 /\ sessions = 0
-----------------------------------------------------------------------------
(* run_cycle.                                                              *)

Idle == cpc' = "idle" /\ cst' = Fresh /\ ch' = None /\ csnap' = {} /\ cres' = "none"

\* The timer, or the trigger file the API touches; the lock is free.
Begin ==
  /\ cpc = "idle"
  /\ cst' = state /\ cpc' = "guard"
  /\ UNCHANGED <<control, state, hashes, ch, csnap, cres, api, cli, day, ghosts, bounds>>

Skip == cpc' = "save" /\ UNCHANGED <<state, hashes, ch, csnap, cres, api, cli, day, ghosts, bounds>>

\* Guardrails 1 to 3: paused, disk full (which pauses), CAPE not healthy.
GuardPaused == cpc = "guard" /\ pause /\ Skip /\ UNCHANGED <<control, cst>>

GuardDisk ==
  /\ cpc = "guard" /\ ~pause
  /\ pause' = TRUE /\ pausedBy' = "disk"
  /\ Skip /\ UNCHANGED cst

GuardCape == cpc = "guard" /\ ~pause /\ Skip /\ UNCHANGED <<control, cst>>

TooManyFailures(st) == st.fails >= MaxFailures

\* Guardrail 4: consecutive failures.
GuardFailures ==
  /\ cpc = "guard" /\ ~pause /\ TooManyFailures(cst)
  /\ pause' = TRUE /\ pausedBy' = "failures"
  /\ Skip /\ UNCHANGED cst

\* Guardrail 5: the daily budget, after the roll-over to a new day.
Today(st) == IF st.today = day THEN st ELSE [st EXCEPT !.today = day, !.cost = 0]

GuardBudget ==
  /\ cpc = "guard" /\ ~pause /\ ~TooManyFailures(cst)
  /\ cst' = Today(cst) /\ Today(cst).cost >= Budget
  /\ Skip /\ UNCHANGED control

\* Guardrail 6: pgrep finds a pipeline, this feeder's or anyone's.
GuardBusy ==
  /\ cpc = "guard" /\ ~pause /\ ~TooManyFailures(cst) /\ Today(cst).cost < Budget
  /\ cst' = Today(cst)
  /\ Skip /\ UNCHANGED control

GuardClear ==
  /\ cpc = "guard" /\ ~pause /\ ~TooManyFailures(cst) /\ Today(cst).cost < Budget
  /\ cliPc # "running"
  /\ cst' = Today(cst) /\ cpc' = "select"
  /\ UNCHANGED <<control, state, hashes, ch, csnap, cres, api, cli, day, ghosts, bounds>>

\* The query failed or offered nothing new, or the seen file cannot be parsed:
\* the cycle ends without saving.
NothingToDo ==
  /\ cpc = "select"
  /\ Idle
  /\ UNCHANGED <<control, state, hashes, api, cli, day, ghosts, bounds>>

Select(h) ==
  /\ cpc = "select" /\ seenOk /\ h \notin seen
  /\ picks[h] < MaxPicks
  /\ picks' = [picks EXCEPT ![h] = @ + 1]
  /\ ch' = h /\ cpc' = "fetch"
  /\ UNCHANGED <<control, state, hashes, cst, csnap, cres, api, cli, day, drops, streak, bounds>>

FetchFails ==
  /\ cpc = "fetch"
  /\ cres' = "download" /\ cpc' = "mark"
  /\ UNCHANGED <<control, state, hashes, cst, ch, csnap, api, cli, day, ghosts, bounds>>

StartPipeline ==
  /\ cpc = "fetch"
  /\ cpc' = "run"
  /\ UNCHANGED <<control, state, hashes, cst, ch, csnap, cres, api, cli, day, ghosts, bounds>>

\* Exit 0; or another exit status or the 3600 s timeout.
PipelineEnds ==
  /\ cpc = "run"
  /\ \E result \in {"ok", "failed"} : cres' = result
  /\ cpc' = "mark"
  /\ UNCHANGED <<control, state, hashes, cst, ch, csnap, api, cli, day, ghosts, bounds>>

\* save_seen_hash reads the file again before it writes it.
ReadSeen ==
  /\ cpc = "mark" /\ seenOk
  /\ csnap' = seen /\ cpc' = "write"
  /\ UNCHANGED <<control, state, hashes, cst, ch, cres, api, cli, day, ghosts, bounds>>

\* ... and its JSONDecodeError: a failed download propagates at once; after a
\* run it is raised again in the handler, and `finally` saves the state as it was.
ReadSeenTorn ==
  /\ cpc = "mark" /\ ~seenOk
  /\ IF cres = "download" THEN Idle ELSE cpc' = "save" /\ cres' = "none" /\ UNCHANGED <<cst, ch, csnap>>
  /\ UNCHANGED <<control, state, hashes, api, cli, day, ghosts, bounds>>

\* sorted(seen)[-10000:]: the largest hashes are kept, not the latest.
Trimmed(S) == {h \in S : Cardinality({g \in S : g > h}) < SeenCap}

\* Writing S over seen_hashes.json.
WriteHashes(S) ==
  /\ seen' = Trimmed(S) /\ seenOk' = TRUE
  /\ drops' = [h \in Hashes |-> IF h \in (seen \cup S) \ seen' THEN drops[h] + 1 ELSE drops[h]]

\* Mutant of Marked: a sample whose run failed is left to be tried again.
MarkedUnlessFailed == IF cres = "failed" THEN csnap ELSE csnap \cup {ch}

Marked == csnap \cup {ch}

\* On success the newest report directory's cost is added; it is another run's,
\* perhaps without a report yet, when one started since.  Guardrail 5 is passed by then,
\* so a run may cost more than is left of the day's budget.
Cost == IF cliPc = "running" THEN RunCosts \cup {0} ELSE RunCosts

\* What the run did to the state, and how the cycle ends: a directory that
\* vanishes while the reports are listed turns a success into a counted failure.
Counted ==
  \/ cres = "failed" /\ cst' = [cst EXCEPT !.fails = @ + 1] /\ cres' = cres
  \/ cres = "ok" /\ (\E c \in Cost : cst' = [cst EXCEPT !.fails = 0, !.cost = @ + c]) /\ cres' = cres
  \/ cres = "ok" /\ cst' = [cst EXCEPT !.fails = 1] /\ cres' = "late"
  \/ cres = "download" /\ UNCHANGED <<cst, cres>>

WriteSeen ==
  /\ cpc = "write"
  /\ WriteHashes(Marked)
  /\ Counted
  /\ cpc' = "save"
  /\ UNCHANGED <<control, state, ch, csnap, api, cli, day, picks, streak, bounds>>

\* Mutant of Saved: like the API, keep the failure count found on file.
SavedMerged == [cst EXCEPT !.fails = state.fails]

\* save_state writes the whole state of the cycle, read at its start.
Saved == cst

SaveState ==
  /\ cpc = "save"
  /\ state' = Saved
  /\ streak' = CASE cres = "failed" -> streak + 1 [] cres = "ok" -> 0
                 [] cres = "late" -> 1 [] OTHER -> streak
  /\ Idle
  /\ UNCHANGED <<control, hashes, api, cli, day, picks, drops, bounds>>

\* TimeoutStartSec, a reboot, an OOM kill.  json.dump into a truncated
\* seen_hashes.json may be cut short.
Crash ==
  /\ cpc # "idle" /\ crashes < MaxCrashes
  /\ crashes' = crashes + 1
  /\ \/ UNCHANGED seenOk
     \/ cpc = "write" /\ seenOk' = FALSE
  /\ Idle
  /\ UNCHANGED <<control, state, seen, api, cli, day, ghosts, sessions>>

Cycle ==
  \/ Begin \/ GuardPaused \/ GuardDisk \/ GuardCape \/ GuardFailures \/ GuardBudget
  \/ GuardBusy \/ GuardClear \/ NothingToDo \/ (\E h \in Hashes : Select(h))
  \/ FetchFails \/ StartPipeline \/ PipelineEnds \/ ReadSeen \/ ReadSeenTorn
  \/ WriteSeen \/ SaveState \/ Crash
-----------------------------------------------------------------------------
(* POST /api/feeder/pause, resume, reset; one request at a time.           *)

ApiPause ==
  /\ apc = "idle"
  /\ pause' = TRUE /\ pausedBy' = "operator"
  /\ UNCHANGED <<state, hashes, cycle, api, cli, day, ghosts, bounds>>

ApiResume ==
  /\ apc = "idle"
  /\ pause' = FALSE /\ pausedBy' = "nobody"
  /\ apc' = "read" /\ aop' = "resume"
  /\ UNCHANGED <<state, hashes, cycle, ast, cli, day, ghosts, bounds>>

ApiReset ==
  /\ apc = "idle"
  /\ apc' = "read" /\ aop' = "reset"
  /\ UNCHANGED <<control, state, hashes, cycle, ast, cli, day, ghosts, bounds>>

ApiRead ==
  /\ apc = "read"
  /\ ast' = state /\ apc' = "write"
  /\ UNCHANGED <<control, state, hashes, cycle, aop, cli, day, ghosts, bounds>>

ApiWrite ==
  /\ apc = "write"
  /\ state' = [ast EXCEPT !.fails = 0]
  /\ streak' = 0
  /\ apc' = "answer" /\ ast' = Fresh
  /\ UNCHANGED <<control, hashes, cycle, aop, cli, day, picks, drops, bounds>>

\* The new file cannot be written: reset answers 500, resume only logs it.
ApiUpdateFails ==
  /\ apc \in {"read", "write"}
  /\ apc' = "answer" /\ aop' = "failed" /\ ast' = Fresh
  /\ UNCHANGED <<control, state, hashes, cycle, cli, day, ghosts, bounds>>

\* Resume touches the trigger file, then answers {"status": "running"}.
ApiAnswer ==
  /\ apc = "answer"
  /\ apc' = "idle" /\ aop' = "none"
  /\ UNCHANGED <<control, state, hashes, cycle, ast, cli, day, ghosts, bounds>>

Api == ApiPause \/ ApiResume \/ ApiReset \/ ApiRead \/ ApiWrite \/ ApiUpdateFails \/ ApiAnswer
-----------------------------------------------------------------------------
(* The sample-feeder command line, and the world.                          *)

CliStart ==
  /\ cliPc = "idle" /\ seenOk /\ sessions < MaxCli
  /\ sessions' = sessions + 1
  /\ cliSeen' = seen /\ cliPc' = "ready"
  /\ UNCHANGED <<control, state, hashes, cycle, api, day, ghosts, crashes>>

CliRun ==
  /\ cliPc = "ready"
  /\ cliPc' = "running"
  /\ UNCHANGED <<control, state, hashes, cycle, api, cliSeen, day, ghosts, bounds>>

\* A pipeline run that ended with 0 adds its hash; a failure adds nothing.
CliRan ==
  /\ cliPc = "running"
  /\ \E S \in {{}} \cup {{h} : h \in Hashes \ cliSeen} : cliSeen' = cliSeen \cup S
  /\ cliPc' = "ready"
  /\ UNCHANGED <<control, state, hashes, cycle, api, day, ghosts, bounds>>

CliSave ==
  /\ cliPc = "ready"
  /\ WriteHashes(cliSeen)
  /\ cliPc' = "idle" /\ cliSeen' = {}
  /\ UNCHANGED <<control, state, cycle, api, day, picks, streak, bounds>>

\* Interrupted between truncating the file and the end of json.dump.
CliTears ==
  /\ cliPc = "ready" /\ crashes < MaxCrashes
  /\ crashes' = crashes + 1
  /\ seenOk' = FALSE
  /\ cliPc' = "idle" /\ cliSeen' = {}
  /\ UNCHANGED <<control, state, seen, cycle, api, day, ghosts, sessions>>

\* The operator deletes a file that no longer parses.
RemoveTorn ==
  /\ ~seenOk
  /\ WriteHashes({})
  /\ UNCHANGED <<control, state, cycle, api, cli, day, picks, streak, bounds>>

NextDay ==
  /\ day < MaxDay
  /\ day' = day + 1
  /\ UNCHANGED <<control, state, hashes, cycle, api, cli, ghosts, bounds>>

Next == Cycle \/ Api \/ CliStart \/ CliRun \/ CliRan \/ CliSave \/ CliTears \/ RemoveTorn \/ NextDay

Spec == Init /\ [][Next]_vars
-----------------------------------------------------------------------------
(* Properties.                                                             *)

States == [fails : 0 .. MaxFailures, today : 0 .. MaxDay, cost : 0 .. Budget + MaxCost - 1]

ControlType ==
  /\ pause \in BOOLEAN /\ pausedBy \in {"nobody", "operator", "disk", "failures"}
  /\ day \in 1 .. MaxDay
  /\ crashes \in 0 .. MaxCrashes /\ sessions \in 0 .. MaxCli

HashesType ==
  /\ seen \subseteq Hashes /\ seenOk \in BOOLEAN /\ cliSeen \subseteq Hashes
  /\ csnap \subseteq Hashes /\ ch \in Hashes \cup {None}
  /\ cpc \in {"fetch", "run", "mark", "write"} => ch \in Hashes
  /\ cliPc \in {"idle", "ready", "running"}
  /\ picks \in [Hashes -> 0 .. MaxPicks] /\ drops \in [Hashes -> Nat]

CycleType ==
  /\ cpc \in {"idle", "guard", "select", "fetch", "run", "mark", "write", "save"}
  /\ cres \in {"none", "ok", "failed", "late", "download"}
  /\ cpc \in {"mark", "write"} => cres \in {"ok", "failed", "download"}
  /\ cpc \in {"idle", "guard", "select", "fetch", "run"} => cres = "none"
  /\ apc \in {"idle", "read", "write", "answer"} /\ aop \in {"none", "resume", "reset", "failed"}

StateType == state \in States /\ cst \in States /\ ast \in States /\ streak \in Nat

\* Every variable keeps its type; no failure count outgrows its limit, and no cost that
\* is on file, or in the hand of one who will write the file, exceeds the day's budget
\* by as much as the dearest run.
TypeOK == ControlType /\ HashesType /\ CycleType /\ StateType

\* The guardrail holds across every lost update of state.json: the feeder never
\* counts more than MaxFailures failed runs in a row without an operator's reset.
StreakBounded == streak <= MaxFailures

\* The invariant behind it: no writer of state.json forgets a failure of the
\* streak, because the only stale value ever written is the operator's zero.
StreakCounted ==
  /\ streak <= state.fails
  /\ cpc \in {"guard", "select", "fetch", "run", "mark", "write"} => streak <= cst.fails
  /\ cpc \in {"select", "fetch", "run", "mark", "write"} => cst.fails < MaxFailures /\ cst.cost < Budget
  /\ cpc = "save" => CASE cres = "failed" -> streak < cst.fails
                       [] cres = "ok" -> TRUE
                       [] cres = "late" -> cst.fails = 1
                       [] OTHER -> streak <= cst.fails

IInv == TypeOK /\ StreakCounted

\* "Don't retry the same sample": the feeder selects a sample again only after a
\* kill, or after the hash fell out of the seen file.
FedAgainForAReason == \A h \in Hashes : picks[h] <= 1 + crashes + drops[h]

\* The inductive invariant behind it: a hash that is neither on file nor in hand, and
\* every hash while the file is torn, can be selected once more at no cost.
InHand(h) == ch = h /\ cpc \in {"fetch", "run", "mark", "write"}

FeedsPaid ==
  \A h \in Hashes :
    /\ picks[h] <= 1 + crashes + drops[h]
    /\ ~seenOk \/ (h \notin seen /\ ~InHand(h)) => picks[h] <= crashes + drops[h]
=============================================================================

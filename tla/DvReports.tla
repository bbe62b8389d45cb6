------------------------------ MODULE DvReports ------------------------------
(***************************************************************************)
(* From a run to the reports.  Two regressions share one output tree; each   *)
(* runs a list of jobs, `make run` per job: a fresh run directory, the       *)
(* simulation, the verdict of check_run.py in verdict.txt and, through       *)
(* make's output, in the CSV of run_list.py.  At any moment somebody may     *)
(* read the tree: coverage (passing_runs.py, fc_report.py), plan status,     *)
(* or the comparison of the two regressions.  The readers change nothing and *)
(* are operators on the state.  The plan items are regenerated meanwhile.    *)
(***************************************************************************)
EXTENDS DvVerdict, DvCompare, DvCoverage, DvPlan, DvTestlist

CONSTANTS
  Rid,          \* the regressions
  Files, Side,  \* the testlists and plan_ids.yaml
  Variants,     \* contents that they might have instead, <<files, side>>
  Slots,        \* runs of a regression at once
  BuildOf,      \* Rid -> [tb, config, assert], its build directory
  LogsOf,       \* test -> what its simulation may leave: [summary, errors, marks, fc, ledger]
  Rules,        \* rules.csv: rule -> [scope, kind, who, via]
  InfraArgs,    \* plusargs that the Makefile and run_list.py add to every run
  OldPlan,      \* rows of the old test plan
  Corrections,  \* what the corrections file may hold: a set of sequences
  Budget        \* bound on failures, drains and edits

ASSUME ReportsAssumption ==
  /\ Slots \in Nat \ {0} /\ Budget \in Nat /\ IsFiniteSet(Rid)
  /\ ConfigArg \in InfraArgs /\ <<>> \in Corrections
  /\ \A rule \in DOMAIN Rules : Rules[rule].kind \notin {"fired", "hit", "never runs"}
  /\ BenchesAgree /\ CheckLists(Files, Side)
  /\ \A r \in Rid : BuildOf[r].tb \in TBs
  /\ \A tb \in TBs : Classes[tb] \subseteq DOMAIN LogsOf

VARIABLES
  run,      \* Rid -> run -> [job, pc, dir, sim, log, vfile]
  rows,     \* Rid -> the results the driver has collected
  csv,      \* Rid -> results CSV, or NoFile
  plan,     \* test_plan_items.yaml: [items, digest]
  fixes,    \* test_plan_corrections.yaml
  budget

vars == <<run, rows, csv, plan, fixes, budget>>
files == <<plan, fixes>>

NoFc == [json |-> [b \in {} |-> 0], axi4 |-> <<>>]
PartialLog == [summary |-> FALSE, errors |-> {}, marks |-> {}, fc |-> NoFc, ledger |-> <<>>]
Queued(job) == [job |-> job, pc |-> "queued", dir |-> FALSE, sim |-> "none", log |-> NoFile, vfile |-> NoFile]
Target(r) == [config |-> BuildOf[r].config, assert |-> BuildOf[r].assert]
Jobs(r) == DriverJobs(Files, <<Aggregate[BuildOf[r].tb]>>, <<>>, Side, BuildOf[r].tb, Target(r), 0)

\* A RID is not the mark of a row without one, a file is not the mark of a
\* missing one, the errors that end a run come before its Stop, and what it
\* counts are naturals.
ASSUME JobsAssumption == \A r \in Rid :
  /\ r # None /\ Jobs(r) \in Seq(ToSet(Jobs(r)))
  /\ \A i \in DOMAIN Jobs(r) : LET test == Jobs(r)[i].e.test IN
       \A log \in LogsOf[test] \cup {PartialLog} :
         /\ log.summary \in BOOLEAN /\ log.errors # {Stop} /\ FcOk(log.fc) /\ LedgerOk(log.ledger)
         /\ NoFile \notin {<<>>, log, Judge(log, test)}

\* The lists are what their files can hold, and the driver takes a target that
\* the bench has.
ASSUME ListsAssumption ==
  /\ TargetsOk /\ FilesOk(Files) /\ \A v \in Variants : FilesOk(v[1])
  /\ \A r \in Rid : Target(r) \in ToSet(Targets[BuildOf[r].tb])

RunsIn(r) == {<<r, i>> : i \in DOMAIN run[r]}
AllRuns == UNION {RunsIn(r) : r \in Rid}
R(x) == run[x[1]][x[2]]
Job(x) == R(x).job.e
Seed(x) == R(x).job.seed
Fresh(x) == [R(x) EXCEPT !.pc = "made", !.dir = TRUE]

Init ==
  /\ LET queue(jobs) == [i \in DOMAIN jobs |-> Queued(jobs[i])]
     IN  run = [r \in Rid |-> queue(Jobs(r))]
  /\ rows = [r \in Rid |-> <<>>] /\ csv = [r \in Rid |-> NoFile]
  /\ plan = [items |-> Generate(OldPlan, <<>>).items, digest |-> OldPlan]
  /\ fixes = <<>> /\ budget = Budget

Set(x, new) == run' = [run EXCEPT ![x[1]][x[2]] = new]
Spend == budget > 0 /\ budget' = budget - 1
InFlight(r) == {i \in DOMAIN run[r] : run[r][i].pc \in {"made", "judging"}}
Waiting(r) == {i \in DOMAIN run[r] : run[r][i].pc = "queued"}

\* What run_list.py collects when make ends: the status of its output and the
\* run directory it named.
Row(x, status, dir) ==
  [test |-> Job(x).test, args |-> Job(x).args, seed |-> Seed(x),
   status |-> status, dir |-> dir, build |-> BuildOf[x[1]]]
Collect(x, status, dir) == rows' = [rows EXCEPT ![x[1]] = Append(@, Row(x, status, dir))]

\* The next job starts in a directory of its own, with its run.sh.
Start(x) == csv[x[1]] = NoFile /\ Waiting(x[1]) # {} /\ x[2] = Min(Waiting(x[1]))
            /\ Cardinality(InFlight(x[1])) < Slots
\* Mutant: the directory is named by test, RID and seed, and may exist already.
Earlier(x) == {y \in RunsIn(x[1]) : Job(y).test = Job(x).test /\ Seed(y) = Seed(x) /\ R(y).dir}
MakeDirByName(x) ==
  /\ Start(x)
  /\ Set(x, IF Earlier(x) = {} THEN Fresh(x)
            ELSE [Fresh(x) EXCEPT !.vfile = R(CHOOSE y \in Earlier(x) : TRUE).vfile])
  /\ UNCHANGED <<rows, csv, files, budget>>

MakeDir(x) == Start(x) /\ Set(x, Fresh(x)) /\ UNCHANGED <<rows, csv, files, budget>>

\* new_run_dir.sh found no free name, or make failed before: no directory.
NoRunDir(x) ==
  /\ Start(x) /\ Spend /\ Set(x, [R(x) EXCEPT !.pc = "ended"])
  /\ Collect(x, Failed, None) /\ UNCHANGED <<csv, files>>

\* The job runs, perhaps on another host: sim.log grows, then is complete.  It
\* may outlive the make that submitted it.
SimStarts(x) ==
  /\ R(x).dir /\ R(x).sim = "none"
  /\ Set(x, [R(x) EXCEPT !.sim = "running", !.log = PartialLog])
  /\ UNCHANGED <<rows, csv, files, budget>>
SimEnds(x, log) ==
  /\ R(x).sim = "running" /\ Set(x, [R(x) EXCEPT !.sim = "ended", !.log = log])
  /\ UNCHANGED <<rows, csv, files, budget>>

\* The submission returns when the job ends, or fails, which make ignores;
\* verdict.txt is opened.
SubmitReturns(x) ==
  /\ R(x).pc = "made"
  /\ IF R(x).sim = "ended" THEN UNCHANGED budget ELSE Spend
  /\ Set(x, [R(x) EXCEPT !.pc = "judging", !.vfile = <<>>])
  /\ UNCHANGED <<rows, csv, files>>

\* check_run.py prints its lines into verdict.txt and to make's output; with no
\* sim.log it fails and prints none.
CheckEnds(x) ==
  LET lines == IF R(x).log = NoFile THEN <<>> ELSE Judge(R(x).log, Job(x).test) IN
  /\ R(x).pc = "judging" /\ Set(x, [R(x) EXCEPT !.pc = "ended", !.vfile = lines])
  /\ Collect(x, RunListStatus(lines), x[1])
  /\ UNCHANGED <<csv, files, budget>>

\* make is killed; the driver reads the end of its output.
MakeKilled(x) ==
  /\ R(x).pc \in {"made", "judging"} /\ Spend /\ Set(x, [R(x) EXCEPT !.pc = "ended"])
  /\ Collect(x, Failed, x[1]) /\ UNCHANGED <<csv, files>>

\* The driver writes the CSV when nothing runs and no job waits or the list is
\* drained.
ListEnds(r) ==
  /\ csv[r] = NoFile /\ InFlight(r) = {}
  /\ IF Waiting(r) = {} THEN UNCHANGED budget ELSE Spend
  /\ csv' = [csv EXCEPT ![r] = rows[r]]
  /\ UNCHANGED <<run, rows, files>>

\* gen_plan_items.py without an old plan rebuilds the plan from its output and
\* refuses one that does not match the digest; with the old plan it starts
\* from that.  Errors in the corrections leave the file alone.
Rebuilt == ItemsFromOutput(plan.items, fixes)
Write(planRows) ==
  LET new == Generate(planRows, fixes) IN
  /\ new.ok /\ plan' = [items |-> new.items, digest |-> planRows]
  /\ UNCHANGED <<run, rows, csv, fixes, budget>>
Regenerate == Rebuilt = plan.digest /\ Write(Rebuilt)
RegenerateFromPlan == Write(OldPlan)
EditCorrections(c) ==
  /\ Spend /\ fixes' = c /\ UNCHANGED <<run, rows, csv, plan>>

Flow(x) ==
  \/ MakeDir(x) \/ NoRunDir(x) \/ SimStarts(x) \/ SubmitReturns(x) \/ CheckEnds(x)
  \/ MakeKilled(x) \/ \E log \in LogsOf[Job(x).test] : SimEnds(x, log)
Next ==
  \/ \E x \in AllRuns : Flow(x)
  \/ \E r \in Rid : ListEnds(r)
  \/ Regenerate \/ RegenerateFromPlan
  \/ \E c \in Corrections \ {fixes} : EditCorrections(c)
Spec == Init /\ [][Next]_vars

-----------------------------------------------------------------------------
\* The readers.  A directory belongs to the runs of its RID; rids says which to
\* take: one regression or all.

Passing(rids) == {x \in AllRuns : x[1] \in rids /\ R(x).dir /\ ScanVerdict(R(x).vfile) = "PASS"}
Covered(rids) == Merge({<<x, R(x).log.fc>> : x \in Passing(rids)})

\* The plusargs in run.sh, and those that say which scenario was run.
RunArgs(x) == Job(x).args \cup InfraArgs
NormPlusargs(args) == args \ InfraArgs

\* The scenarios of every bench that have a test class, and the CONFIG that the
\* name of a build directory says: a plain target, whatever flags follow it.
Scenario == SelectSeq(FlattenSeq([i \in 1..Cardinality(TBs) |->
                ListEntries(Files, Aggregate[SetToSeq(TBs)[i]], Side)]), LAMBDA e : e.test # NoClass)
Scn == DOMAIN Scenario
BuildConfig(build) ==
  [config |-> IF build.config \in PlainConfigs THEN build.config ELSE "", assert |-> FALSE]
Matches(x, s) ==
  /\ Scenario[s].test = Job(x).test /\ Scenario[s].tb = BuildOf[x[1]].tb
  /\ Scenario[s].target \in {AnyTarget, BuildConfig(BuildOf[x[1]])}
  /\ NormPlusargs(Scenario[s].args) = NormPlusargs(RunArgs(x))
PlanVerdict(x, judge, settled) == ReadVerdict(R(x).vfile, R(x).log, Job(x).test, judge, settled).word
VerdictsOf(judge) ==
  [s \in Scn |-> {PlanVerdict(x, judge, FALSE) : x \in {y \in AllRuns : R(y).dir /\ Matches(y, s)}}]
Listing(id) == {s \in Scn : id \in {Alias(plan.items, p) : p \in Scenario[s].ids}}
StatusOf(id, judge) ==
  ItemStatus(ById(plan.items)[id], Listing(id), VerdictsOf(judge),
             {s \in Scn : Scenario[s].blocked})

\* compare_results.py BASE AFTER over the whole tree.
Csvs == LET order == SetToSeq({r \in Rid : csv[r] # NoFile}) IN [f \in DOMAIN order |-> csv[order[f]]]
CompareExit(base, after) == Compare(Load(RowsFrom(Csvs, base)), Load(RowsFrom(Csvs, after)))

\* judge_run.py: one row for each leaf that the harness's sweep of the same list
\* left, named by the list; and whether it lists a leaf as divergent from the
\* runner's own status.
Leaves(r) == {x \in RunsIn(r) : R(x).sim = "ended"}
HarnessRow(x) == [test |-> Job(x).test, args |-> Job(x).args, seed |-> Seed(x),
                  status |-> JudgeLeaf(R(x).log, Job(x).test), dir |-> None, build |-> BuildOf[x[1]]]
Diverges(x, runner) == (HarnessRow(x).status.word \in {"PASS", "XFAIL"}) # (runner = "PASS")
HarnessExit(r, runner) ==
  IF Leaves(r) = {} THEN 2
  ELSE IF \E x \in Leaves(r) : HarnessRow(x).status.word = "FAIL" \/ Diverges(x, runner[x]) THEN 1
  ELSE 0

\* rule_inventory.py over the whole tree, and the runs whose figures
\* perf_report.py averages.
Ledgers == {[id |-> x, word |-> FirstWord(R(x).vfile), t1 |-> BuildOf[x[1]].tb = "t1",
             ledger |-> R(x).log.ledger] :
              x \in {y \in AllRuns : R(y).log # NoFile /\ R(y).log.ledger # <<>>}}
PerfRuns(rids) == {x \in AllRuns : x[1] \in rids /\ R(x).dir /\ FirstWord(R(x).vfile) = "PASS"}

-----------------------------------------------------------------------------
\* What must hold of the reports whenever they are made.

Judged(x) == RunListStatus(IF R(x).vfile = NoFile THEN <<>> ELSE R(x).vfile).word
HasVerdict(x) == R(x).vfile # NoFile /\ Verdicts(R(x).vfile) # {}
Says(x, word) == HasVerdict(x) /\ Judged(x) = word

Errors(x) == R(x).log.errors \ {Stop}
Known(x) == {Expected[i] : i \in Entries(R(x).log, Job(x).test)}
Shows(x, bug) == \E e \in Known(x) : e.requires = None /\ e.bug = bug /\ e.errors \cap Errors(x) # {}

\* A run that passed left a complete log without errors, and one that failed
\* as expected left a complete log of which every error is a known bug's own
\* symptom, or a general symptom of a bug that also showed its own.
ExplainedErrors == \A x \in AllRuns :
  /\ Says(x, "PASS") => R(x).sim = "ended" /\ R(x).log.summary /\ Errors(x) = {}
  /\ Says(x, "XFAIL") =>
       /\ R(x).sim = "ended" /\ R(x).log.summary /\ Errors(x) # {}
       /\ \A err \in Errors(x) : \E e \in Known(x) :
            err \in e.errors /\ (e.requires # None => Shows(x, e.requires))

What(row) == <<row.test, row.args, row.seed, row.build>>
Result(row) == <<What(row), row.status>>
RanAs(x) == What(Row(x, Failed, None))

\* The driver and coverage count the same runs of a test as passed and as
\* failed as expected.
DriverAgrees(r) == \A x \in RunsIn(r), word \in {"PASS", "XFAIL"} :
  Cardinality({j \in DOMAIN rows[r] : rows[r][j].status.word = word /\ What(rows[r][j]) = RanAs(x)})
  = Cardinality({y \in RunsIn(r) : /\ R(y).dir /\ ScanVerdict(R(y).vfile) = word
                                   /\ RanAs(y) = RanAs(x)})

\* So does plan status, which with --judge also reads a log without verdict.txt.
PlanAgrees(x) == LET scanned == ScanVerdict(R(x).vfile) IN
  /\ scanned \in Words => R(x).pc = "ended"
  /\ \A judge \in BOOLEAN : scanned \in Words => PlanVerdict(x, judge, TRUE) = scanned
  /\ scanned \notin Words => PlanVerdict(x, FALSE, TRUE) \notin Words
  /\ scanned \in Words /\ R(x).sim = "ended" /\ scanned # "FAIL" =>
       JudgeLeaf(R(x).log, Job(x).test).word = scanned
  /\ R(x).vfile = NoFile /\ R(x).sim = "ended" /\ R(x).log.summary =>
       PlanVerdict(x, TRUE, FALSE) = JudgeLeaf(R(x).log, Job(x).test).word

\* The harness, of whose runner an error is a failure, has the results of the
\* driver when every log was complete before it was judged.
Runner(r) == [x \in RunsIn(r) |-> IF R(x).log.errors = {} THEN "PASS" ELSE "FAIL"]
JudgedInFull(x) == R(x).sim = "ended" /\ HasVerdict(x) /\ R(x).vfile = Judge(R(x).log, Job(x).test)
HarnessAgrees(r) == (\A x \in RunsIn(r) : JudgedInFull(x)) =>
  /\ \A x \in RunsIn(r) : LET result == Result(HarnessRow(x)) IN
       Cardinality({y \in RunsIn(r) : Result(HarnessRow(y)) = result})
       = Cardinality({j \in DOMAIN rows[r] : Result(rows[r][j]) = result})
  /\ HarnessExit(r, Runner(r)) = 0 <=> RunsIn(r) # {} /\ \A x \in RunsIn(r) : Says(x, "PASS")

\* The driver, coverage and plan status count the same runs as passed and as
\* failed as expected, however the run ended; none counts a run that was not
\* judged.  The harness, and plan status with --judge, read the same from a
\* complete log as check_run.py did or would.
ReadersAgree ==
  /\ \A r \in Rid : DriverAgrees(r) /\ HarnessAgrees(r)
  /\ \A x \in AllRuns : PlanAgrees(x)

\* The bins that some runs declare, those declared illegal, those of their text
\* reports, and whether one of the runs hit a bin.
Good(rids) == {x \in AllRuns : x[1] \in rids /\ Says(x, "PASS")}
Json(x) == R(x).log.fc.json
Axi4(x) == R(x).log.fc.axi4
Declared(runs) == UNION {DOMAIN Json(x) : x \in runs}
Illegal(runs) == {b \in Declared(runs) : \E x \in runs : b \in DOMAIN Json(x) /\ Json(x)[b].illegal}
Text(runs) == UNION {{Axi4(x)[i][1] : i \in DOMAIN Axi4(x)} : x \in runs}
WasHit(runs, b) == \E x \in runs :
  \/ b \in DOMAIN Json(x) /\ Json(x)[b].hits > 0
  \/ \E i \in DOMAIN Axi4(x) : Axi4(x)[i][1] = b /\ Axi4(x)[i][2] > 0

BinsHonest(db, runs) ==
  LET open == (Declared(runs) \cup Text(runs)) \ Illegal(runs) IN
  /\ Hit(db) = {b \in open : WasHit(runs, b)}
  /\ IllegalHits(db) = {b \in Illegal(runs) : WasHit(runs, b)}
  /\ Hit(db) \cup Holes(db) = open
  /\ Tally(db) = [hit |-> Cardinality(Hit(db)), total |-> Cardinality(open)]

\* The runs that passed or failed as expected and say that the checker of a rule
\* checked or fired.
Evidence(rule, sign) ==
  {x \in AllRuns : LET key == Primary(Rules, rule) IN
     /\ Says(x, "PASS") \/ Says(x, "XFAIL")
     /\ key \in DOMAIN R(x).log.ledger /\ R(x).log.ledger[key][sign] > 0}
RulesHonest(ledgers) == \A rule \in DOMAIN Rules :
  LET status == RuleStatus(Rules, ledgers, rule) IN
  /\ status = "fired" => Evidence(rule, "fires") # {}
  /\ status = "never runs" =>
       \A x \in Evidence(rule, "checks") : HasNote(R(x).vfile) \/ BuildOf[x[1]].tb # "t1"

\* Coverage, of one regression or of all, reports a bin as hit exactly when a
\* run that passed hit it; every bin that such a run declares is hit or a
\* hole, but illegal bins are neither: a hit on one is listed apart.  Averages
\* are of runs that passed, a rule that fired did in a run that counts, and one
\* that never runs was checked at most by runs that begin with a note or are
\* not of the DUT.
CoverageHonest ==
  /\ \A rids \in {Rid} \cup {{r} : r \in Rid} :
       BinsHonest(Covered(rids), Good(rids)) /\ PerfRuns(rids) \subseteq Good(rids)
  /\ RulesHonest(Ledgers)

\* The lists alone, and how many runs they ask of each regression.
GridsAgree == \A v \in Variants : SameGrid(v[1], v[2])
JobsDue == \A r \in Rid : LET entries == ListEntries(Files, Aggregate[BuildOf[r].tb], Side) IN
             Len(Jobs(r)) = Cardinality(Due(ToSet(entries), Target(r), 0))
\* A regression that was not drained has a result for every run.
ResultsComplete == \A r \in Rid :
  csv[r] # NoFile /\ Waiting(r) = {} => Len(csv[r]) = Cardinality(RunsIn(r))

\* Whatever lists check_testlists.py accepts, the driver and the harness run the
\* same scenarios, seeds and plan items of them: what is due, each once; and
\* what was due has its result when the regression was not drained.
ListsAgree == GridsAgree /\ JobsDue /\ ResultsComplete

\* A run that passed counts for every plan item its scenario lists: the item,
\* or the one it was merged into, is covered, unless the item was dropped.
EveryPassCounts == \A x \in AllRuns : Says(x, "PASS") =>
  \A id \in Job(x).ids \cap DOMAIN ById(plan.items) :
    LET survivor == Alias(plan.items, id) IN
    /\ survivor \in DOMAIN ById(plan.items)
    /\ \/ StatusOf(survivor, FALSE) = "covered"
       \/ survivor = id /\ StatusOf(id, FALSE) = "dropped"

\* The old plan is never lost: from an output that was not edited since, and
\* the corrections it was made with, the very same rows are rebuilt.
PlanRebuilds ==
  /\ plan.digest = OldPlan
  /\ \A c \in Corrections : Generate(OldPlan, c) = [items |-> plan.items, ok |-> TRUE] =>
       ItemsFromOutput(plan.items, c) = OldPlan

\* If the comparison finds nothing, no set of equal runs got worse: at least
\* as many of them passed, and as many passed or failed as expected.
Better(r, key, rank) == {j \in DOMAIN csv[r] : RunKey(csv[r][j]) = key /\ Rank(csv[r][j].status) <= rank}
NothingGotWorse == \A b, a \in Rid : CompareExit(b, a) = 0 =>
  \A i \in DOMAIN csv[b], rank \in 0..1 : LET key == RunKey(csv[b][i]) IN
    Cardinality(Better(a, key, rank)) >= Cardinality(Better(b, key, rank))
=============================================================================

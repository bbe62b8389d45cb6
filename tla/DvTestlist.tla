----------------------------- MODULE DvTestlist -------------------------------
(***************************************************************************)
(* The testlists: testlist.py reads them, check_testlists.py checks them,    *)
(* run_list.py and sweep.py make jobs of them and judge_run.py names the     *)
(* harness's runs by them.                                                  *)
(*                                                                         *)
(* files: path -> [includes, tests, groups], in file order; a path that is   *)
(* missing, or whose text has an unknown key, is not in the domain.  A test  *)
(* is [name, cls, target, seed, reseed, args, blocked], a group [name, tests, *)
(* count].  side is plan_ids.yaml: [ids, blocked], the ids by scenario and    *)
(* the scenarios with a reason why they must not run.                        *)
(***************************************************************************)
EXTENDS DvSimCfg

CONSTANTS
  Classes,    \* bench -> its UVM test classes
  Elsewhere   \* the lists that are not in testlists/

Targets == [tb \in TBs |-> TargetNames(tb)]
Aggregate == [tb \in TBs |-> SimCfg[tb].list]
OwnBench == {"reg", "l3_unit", "axi_selftest"}
AnyTarget == [config |-> "", assert |-> FALSE]
NoClass == ""
NoList == [ok |-> FALSE, tests |-> <<>>, groups |-> <<>>]
Names(s) == {s[i].name : i \in DOMAIN s}
Named(s, name) == s[CHOOSE i \in DOMAIN s : s[i].name = name]
Distinct(s) == Cardinality(Names(s)) = Len(s)

\* A list with what it includes, in order; each test knows the file it is in.
\* A cycle, a name that is defined twice or a wrong count fails the whole list.
ListOf(path, file, parts) ==
  LET own == [i \in DOMAIN file.tests |-> [t |-> file.tests[i], name |-> file.tests[i].name,
                                          source |-> path]]
      tests == FlattenSeq([i \in DOMAIN parts |-> parts[i].tests]) \o own
      groups == FlattenSeq([i \in DOMAIN parts |-> parts[i].groups]) \o file.groups
  IN  IF /\ \A i \in DOMAIN parts : parts[i].ok
         /\ Distinct(tests) /\ Distinct(groups)
         /\ \A i \in DOMAIN file.groups : file.groups[i].count = Len(file.groups[i].tests)
      THEN [ok |-> TRUE, tests |-> tests, groups |-> groups] ELSE NoList
\* stack: the lists that are being read.
Loaded(files, path) ==
  LET load[at \in (DOMAIN files) \X SUBSET DOMAIN files] ==
        LET file == files[at[1]]
            stack == at[2] \cup {at[1]}
            part(include) == IF include \in DOMAIN files \ stack THEN load[<<include, stack>>] ELSE NoList
        IN  ListOf(at[1], file, [i \in DOMAIN file.includes |-> part(file.includes[i])])
  IN  IF path \in DOMAIN files THEN load[<<path, {}>>] ELSE NoList

\* The lists of the other benches go by their own names, the rest are T1's; a
\* list from elsewhere runs on whichever bench is selected.
BenchOf(path, default) ==
  IF path \in OwnBench THEN path ELSE IF path \in Elsewhere THEN default ELSE "t1"
SeedsOf(t) == [k \in 1..t.reseed |-> t.seed + k - 1]
IdsOf(side, name) == IF name \in DOMAIN side.ids THEN side.ids[name] ELSE {}

\* The flat view that every program works on.
ListEntries(files, path, side) ==
  LET entry(t, source) ==
        [name |-> t.name, test |-> t.cls, seeds |-> SeedsOf(t), args |-> t.args, target |-> t.target,
         ids |-> IdsOf(side, t.name), blocked |-> t.name \in side.blocked \/ t.blocked,
         tb |-> BenchOf(source, "t1"), fixed |-> BenchOf(source, "") # ""]
      view(tests) == [i \in DOMAIN tests |-> entry(tests[i].t, tests[i].source)]
  IN  view(Loaded(files, path).tests)

\* The entries that groups and scenario names select; a group is checked for
\* what the items before it took, not for its own repetitions.
Without(s, taken) == FlattenSeq([i \in DOMAIN s |-> IF s[i] \in taken THEN <<>> ELSE <<s[i]>>])
Members(list, item, names) ==
  Without(IF item \in Names(list.groups) THEN Named(list.groups, item).tests ELSE <<item>>, ToSet(names))
NamesOf(list, items) == FoldLeft(LAMBDA ns, item : ns \o Members(list, item, ns), <<>>, items)
Select(files, path, items, side) ==
  LET pick(names, entries) ==
        IF ToSet(names) \subseteq Names(entries) THEN [i \in DOMAIN names |-> Named(entries, names[i])]
        ELSE <<>>
  IN  IF items = <<>> THEN ListEntries(files, path, side)
      ELSE pick(NamesOf(Loaded(files, path), items), ListEntries(files, path, side))

FirstSeeds(e, cap) == IF cap = 0 THEN e.seeds ELSE SubSeq(e.seeds, 1, Min({cap, Len(e.seeds)}))
EachSeed(e, cap, target) ==
  LET seeds == FirstSeeds(e, cap)
  IN  [k \in DOMAIN seeds |-> [e |-> e, seed |-> seeds[k], target |-> target]]

\* run_list.py: the runs of these lists on one target of a bench.
DriverJobs(files, paths, items, side, tb, target, cap) ==
  LET chosen == FlattenSeq([i \in DOMAIN paths |-> Select(files, paths[i], items, side)])
      runs(e) == /\ ~e.blocked /\ (e.fixed => e.tb = tb)
                 /\ tb \in {"t1", "reg"} => e.target \in {AnyTarget, target}
      jobs(e) == IF runs(e) THEN EachSeed(e, cap, target) ELSE <<>>
  IN  FlattenSeq([i \in DOMAIN chosen |-> jobs(chosen[i])])

\* sweep.py: the harness's runs of a bench's list, one leaf for each target,
\* scenario and seed.
SweepJobs(files, items, side, tb, targets, cap) ==
  LET scenarios == Select(files, Aggregate[tb], items, side)
      runs(e, target) == ~e.blocked /\ e.target \in {AnyTarget, target}
      jobs(e, target) == IF runs(e, target) THEN EachSeed(e, cap, target) ELSE <<>>
      leaves(target) == FlattenSeq([i \in DOMAIN scenarios |-> jobs(scenarios[i], target)])
  IN  FlattenSeq([i \in DOMAIN targets |-> leaves(targets[i])])

-----------------------------------------------------------------------------
\* check_testlists.py.

\* Mutant: a scenario may be in no group.
GroupedIfAny(list, t, members) == t.blocked => t.name \notin members

\* A scenario that runs is in the group `all`, a blocked one in none.
Grouped(list, t, members) ==
  IF t.blocked THEN t.name \notin members
  ELSE "all" \in Names(list.groups) => t.name \in ToSet(Named(list.groups, "all").tests)
ScenarioOk(list, test, tb, side) ==
  LET t == test.t
      members == UNION {ToSet(list.groups[i].tests) : i \in DOMAIN list.groups}
  IN  /\ t.cls # NoClass /\ t.cls \in Classes[tb]
      /\ t.target # AnyTarget => t.target \in ToSet(Targets[tb])
      /\ t.seed >= 1 /\ t.reseed >= 1
      /\ Grouped(list, t, members)
      /\ t.blocked => t.name \in side.blocked
      /\ tb \in {"t1", "reg"} /\ ~(tb = "t1" /\ test.source = Aggregate[tb])
           => t.name \in DOMAIN side.ids
ListOk(list, tb, side) ==
  /\ list.ok
  /\ \A i \in DOMAIN list.tests : ScenarioOk(list, list.tests[i], tb, side)
  /\ \A i \in DOMAIN list.groups : ToSet(list.groups[i].tests) \subseteq Names(list.tests)
CheckBench(files, side, tb) ==
  /\ ListOk(Loaded(files, Aggregate[tb]), tb, side)
  /\ tb = "t1" => DOMAIN side.ids \cup side.blocked
                    \subseteq UNION {Names(Loaded(files, Aggregate[b]).tests) : b \in TBs}
CheckLists(files, side) == \A tb \in TBs : CheckBench(files, side, tb)

-----------------------------------------------------------------------------
\* What the files of the lists are, and of the benches: a bench's list reads
\* lists of its own and from elsewhere, and only T1 and the register bench,
\* whose targets are configurations, have more than one target.
IsSeq(s) == s \in Seq(ToSet(s))
FileOk(file) ==
  /\ IsSeq(file.includes) /\ IsSeq(file.tests) /\ IsSeq(file.groups)
  /\ \A t \in ToSet(file.tests) : t.seed \in Int /\ t.reseed \in Int
  /\ \A group \in ToSet(file.groups) : IsSeq(group.tests)
FilesOk(files) ==
  /\ IsFiniteSet(DOMAIN files) /\ \A path \in DOMAIN files : FileOk(files[path])
  /\ \A tb \in TBs : \A test \in ToSet(Loaded(files, Aggregate[tb]).tests) :
       BenchOf(test.source, "") \in {"", tb}
TargetsOk == \A tb \in TBs \ {"t1", "reg"} : DOMAIN Targets[tb] = {1}

\* The group `all` as the harness sees it, or nothing to sweep without it.
All(files, tb) == IF "all" \in Names(Loaded(files, Aggregate[tb]).groups) THEN {<<"all">>} ELSE {}
TwiceInAGroup(files, tb) == LET groups == Loaded(files, Aggregate[tb]).groups IN
  \E i \in DOMAIN groups : Cardinality(ToSet(groups[i].tests)) < Len(groups[i].tests)

\* What a list asks of a target of its bench: each scenario that is not blocked
\* and not pinned elsewhere, with its plan items, once for each of its seeds.
Due(entries, target, cap) ==
  UNION {{<<e.name, e.ids, e.seeds[k]>> : k \in {n \in DOMAIN e.seeds : cap = 0 \/ n <= cap}} :
           e \in {f \in entries : ~f.blocked /\ f.target \in {AnyTarget, target}}}
RunsOf(jobs) == {<<jobs[i].e.name, jobs[i].e.ids, jobs[i].seed>> : i \in DOMAIN jobs}

\* Lists that check_testlists.py accepts: the driver and the harness's sweep
\* make exactly the runs that are due, each once.
SameGrid(files, side) ==
  LET exactly(jobs, due) == Len(jobs) = Cardinality(due) /\ RunsOf(jobs) = due
      same(tb, target, cap, due) ==
        /\ exactly(DriverJobs(files, <<Aggregate[tb]>>, <<>>, side, tb, target, cap), due)
        /\ ~TwiceInAGroup(files, tb) => \A items \in All(files, tb) :
             exactly(SweepJobs(files, items, side, tb, <<target>>, cap), due)
      onBench(tb, entries) == \A target \in ToSet(Targets[tb]), cap \in 0..2 :
        same(tb, target, cap, Due(entries, target, cap))
  IN  CheckLists(files, side) =>
        \A tb \in TBs : onBench(tb, ToSet(ListEntries(files, Aggregate[tb], side)))
=============================================================================

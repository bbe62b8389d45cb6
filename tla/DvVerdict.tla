------------------------------ MODULE DvVerdict ------------------------------
(***************************************************************************)
(* The verdict of a run: check_run.py judges sim.log against the known bugs *)
(* of expected_fail.yaml, and the readers take a status from its lines or   *)
(* from the log: run_list.py, passing_runs.py, plan_status.py, judge_run.py,  *)
(* rule_inventory.py and perf_report.py.                                    *)
(*                                                                         *)
(* A log is reduced to what is looked for in it: the report summary, the     *)
(* errors, and the texts that a when_re finds.  An error is the name of a    *)
(* kind of error message.                                                   *)
(***************************************************************************)
EXTENDS Integers, Sequences, SequencesExt, FiniteSets

CONSTANTS
  Expected,  \* expected_fail.yaml in file order: [test, when, errors, bug, requires, seedDep]
  Stop,      \* the UVM_FATAL that ends a run after too many Axi4PC errors
  NoFile     \* stands for a file that does not exist

ASSUME VerdictAssumption == Expected \in Seq(ToSet(Expected))

None == "none"
Words == {"PASS", "XFAIL", "FAIL"}
Line(word, bugs) == [word |-> word, bugs |-> bugs]

\* The entries that apply to this test and this log, by their place in the file.
Entries(log, test) ==
  {i \in DOMAIN Expected : /\ Expected[i].test \in {test, "*"}
                           /\ Expected[i].when = None \/ Expected[i].when \in log.marks}
Foremost(places) == IF places = {} THEN 0 ELSE Min(places)

\* Mutant: requires is not looked at.
MatchAnyBug(entries, err, followOn, evidenced) ==
  Foremost({i \in entries : err \in Expected[i].errors /\ (Expected[i].requires # None) = followOn})

\* The first entry that explains err, or 0.  A follow-on entry explains an
\* error only in a run that showed its bug.
Match(entries, err, followOn, evidenced) ==
  Foremost({i \in entries : LET e == Expected[i] IN
              err \in e.errors /\ (e.requires # None) = followOn
              /\ (e.requires = None \/ e.requires \in evidenced)})

\* The lines check_run.py prints: a note for every entry that matched nothing,
\* then the verdict.
Judge(log, test) ==
  IF ~log.summary THEN <<Line("FAIL", {})>> ELSE
  LET errors == log.errors \ {Stop}
      entries == Entries(log, test)
      specific == [err \in errors |-> Match(entries, err, FALSE, {})]
      bugs == {Expected[i].bug : i \in {specific[err] : err \in errors} \ {0}}
      pending == {err \in errors : specific[err] = 0}
      followOn == [err \in pending |-> Match(entries, err, TRUE, bugs)]
      used == {specific[err] : err \in errors} \cup {followOn[err] : err \in pending}
      unused == {i \in entries \ used : ~Expected[i].seedDep}
      outcome == IF \E err \in pending : followOn[err] = 0 THEN Line("FAIL", {})
                 ELSE IF errors # {} THEN Line("XFAIL", bugs)
                 ELSE Line("PASS", {})
  IN  [i \in 1..Cardinality(unused) |-> Line("XPASS", {})] \o <<outcome>>

\* The lines with a verdict.
Verdicts(lines) == {i \in DOMAIN lines : lines[i].word \in Words}
HasNote(lines) == \E i \in DOMAIN lines : lines[i].word = "XPASS"
Failed == [word |-> "FAIL", note |-> FALSE]

\* run_list.py: the first verdict in make's output, with its XPASS note.
RunListStatus(lines) ==
  LET word == lines[Min(Verdicts(lines))].word IN
  IF Verdicts(lines) = {} \/ word = "FAIL" THEN Failed
  ELSE [word |-> word, note |-> HasNote(lines)]

\* Mutant: a run counts as passing unless its verdict is FAIL.
ScanNotFailed(vfile) ==
  IF vfile = NoFile \/ Verdicts(vfile) = {} THEN "unjudged"
  ELSE IF vfile[Max(Verdicts(vfile))].word = "FAIL" THEN "FAIL" ELSE "PASS"

\* passing_runs.py: the last verdict word of verdict.txt.
ScanVerdict(vfile) ==
  IF vfile = NoFile \/ Verdicts(vfile) = {} THEN "unjudged" ELSE vfile[Max(Verdicts(vfile))].word

\* plan_status.py, which with --judge judges the log itself when there is no
\* verdict.txt; settled: the log has not changed for a while.
ReadVerdict(vfile, log, test, judge, settled) ==
  LET lines == IF vfile # NoFile THEN vfile
               ELSE IF judge /\ log # NoFile /\ (log.summary \/ settled) THEN Judge(log, test)
               ELSE <<>>
  IN  IF vfile = NoFile /\ ~judge THEN Line("unjudged", {})
      ELSE IF Verdicts(lines) = {} THEN Line("incomplete", {})
      ELSE lines[Max(Verdicts(lines))]

\* rule_inventory.py and perf_report.py: the word the file begins with, which
\* may be that of a note.
FirstWord(vfile) == IF vfile \in {NoFile, <<>>} THEN "unjudged" ELSE vfile[1].word

\* judge_run.py: a leaf of the harness is judged from its log alone.
JudgeLeaf(log, test) ==
  IF log = NoFile THEN Failed ELSE RunListStatus(Judge(log, test))
=============================================================================

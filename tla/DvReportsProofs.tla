-------------------------- MODULE DvReportsProofs ---------------------------
(***************************************************************************)
(* Proofs about the reports.  An invariant ties the rows and the CSV of a  *)
(* regression to its runs, and every verdict.txt to the log it was judged  *)
(* from; from it follow, whatever the lists, the logs, the known bugs and the*)
(* number of regressions, that verdicts are explained, that the readers    *)
(* agree, that the comparison misses nothing, that coverage is honest, that *)
(* no result is missing, and that every reader of the lists runs the same. *)
(***************************************************************************)
EXTENDS DvReports, FoldLemmas, SequenceTheorems

-----------------------------------------------------------------------------
(* Minima, and what check_run.py prints.                                   *)

\* The least of some numbers is one of them.
LEMMA Least ==
  ASSUME NEW S, S \subseteq Nat, S # {}
  PROVE  Min(S) \in S /\ \A i \in S : Min(S) <= i
<1>1. \E x \in S : \A y \in S : x =< y BY LeastOf
<1> QED BY <1>1 DEF Min

LEMMA OnlyOne ==
  ASSUME NEW n \in Nat
  PROVE  Min({n}) = n /\ Max({n}) = n
<1>1. \E x \in {n} : \A y \in {n} : x >= y OBVIOUS
<1>2. \E x \in {n} : \A y \in {n} : x =< y OBVIOUS
<1> QED BY <1>1, <1>2 DEF Min, Max

\* The foremost of some places is one of them, and 0 says that there are none.
LEMMA ForemostIs ==
  ASSUME NEW places, places \subseteq DOMAIN Expected
  PROVE  /\ Foremost(places) = 0 <=> places = {}
         /\ Foremost(places) # 0 => Foremost(places) \in places
<1>1. DOMAIN Expected \subseteq Nat \ {0}
  BY VerdictAssumption
<1>2. CASE places = {} BY <1>2 DEF Foremost
<1>3. CASE places # {}
  <2>1. Min(places) \in places BY <1>1, <1>3, Least
  <2> QED BY <1>1, <1>3, <2>1 DEF Foremost
<1> QED BY <1>2, <1>3

\* The word of check_run.py's verdict
OwnBug(log, test, err) == Match(Entries(log, test), err, FALSE, {})
Bugs(log, test) == {Expected[i].bug : i \in {OwnBug(log, test, err) : err \in log.errors \ {Stop}} \ {0}}
FollowOn(log, test, err) == Match(Entries(log, test), err, TRUE, Bugs(log, test))
Explains(log, test, err) == OwnBug(log, test, err) # 0 \/ FollowOn(log, test, err) # 0
Outcome(log, test) ==
  IF ~log.summary \/ \E err \in log.errors \ {Stop} : ~Explains(log, test, err) THEN "FAIL"
  ELSE IF log.errors \ {Stop} # {} THEN "XFAIL" ELSE "PASS"
OneVerdict(lines, word) ==
  \E n \in Nat : /\ DOMAIN lines = 1..n + 1 /\ lines[n + 1].word = word
                 /\ \A i \in 1..n : lines[i].word = "XPASS"

\* Some notes and a last line.
LEMMA Noted ==
  ASSUME NEW n \in Nat, NEW line, NEW note
  PROVE  LET lines == [i \in 1..n |-> note] \o <<line>> IN
         /\ DOMAIN lines = 1..n + 1 /\ lines[n + 1] = line /\ \A i \in 1..n : lines[i] = note
<1> DEFINE S == {line, note}
           s == [i \in 1..n |-> note]
           t == <<line>>
<1>1. s \in Seq(S) /\ t \in Seq(S) /\ Len(s) = n /\ Len(t) = 1 /\ t[1] = line
  OBVIOUS
<1>2. /\ s \o t \in Seq(S) /\ Len(s \o t) = Len(s) + Len(t)
      /\ \A i \in 1 .. Len(s) + Len(t) : (s \o t)[i] = IF i <= Len(s) THEN s[i] ELSE t[i - Len(s)]
  <2> HIDE DEF s, t, S
  <2> QED BY <1>1, ConcatProperties
<1>3. \A i \in 1..n : s[i] = note OBVIOUS
<1> HIDE DEF s, t
<1>4. (s \o t)[n + 1] = line
  BY <1>1, <1>2
<1>5. DOMAIN (s \o t) = 1..n + 1
  BY <1>1, <1>2
<1>6. \A i \in 1..n : (s \o t)[i] = note
  BY <1>1, <1>2, <1>3
<1> QED BY <1>4, <1>5, <1>6 DEF s, t

\* check_run.py prints notes and then one verdict, the one that Outcome says:
\* what a file of its lines says can be read without going through the lines.
LEMMA JudgeIs ==
  ASSUME NEW log, NEW test
  PROVE  OneVerdict(Judge(log, test), Outcome(log, test))
<1> DEFINE errors == log.errors \ {Stop}
           entries == Entries(log, test)
           specific == [err \in errors |-> Match(entries, err, FALSE, {})]
           bugs == {Expected[i].bug : i \in {specific[err] : err \in errors} \ {0}}
           pending == {err \in errors : specific[err] = 0}
           followOn == [err \in pending |-> Match(entries, err, TRUE, bugs)]
           used == {specific[err] : err \in errors} \cup {followOn[err] : err \in pending}
           unused == {i \in entries \ used : ~Expected[i].seedDep}
           outcome == IF \E err \in pending : followOn[err] = 0 THEN Line("FAIL", {})
                      ELSE IF errors # {} THEN Line("XFAIL", bugs)
                      ELSE Line("PASS", {})
           notes == [i \in 1..Cardinality(unused) |-> Line("XPASS", {})]
<1>1. CASE ~log.summary
  <2>1. Judge(log, test) = <<Line("FAIL", {})>> /\ Outcome(log, test) = "FAIL"
    BY <1>1 DEF Judge, Outcome
  <2>2. 0 \in Nat /\ DOMAIN Judge(log, test) = 1..0 + 1 /\ Judge(log, test)[0 + 1].word = "FAIL"
    BY <2>1 DEF Line
  <2> QED BY <2>1, <2>2 DEF OneVerdict
<1>2. CASE log.summary
  <2>1. Judge(log, test) = notes \o <<outcome>>
    BY <1>2, Zenon DEF Judge
  <2>2. Cardinality(unused) \in Nat
    <3>1. IsFiniteSet(DOMAIN Expected)
      <4>1. DOMAIN Expected = 1..Len(Expected) /\ Len(Expected) \in Nat
        BY VerdictAssumption
      <4> QED BY <4>1, FS_Interval
    <3>2. unused \subseteq DOMAIN Expected
      <4>1. entries \subseteq DOMAIN Expected BY DEF Entries
      <4> HIDE DEF entries, used
      <4> QED BY <4>1
    <3> HIDE DEF unused
    <3> QED BY <3>1, <3>2, FS_Subset, FS_CardinalityType
  <2>3. /\ DOMAIN Judge(log, test) = 1..Cardinality(unused) + 1
        /\ Judge(log, test)[Cardinality(unused) + 1] = outcome
        /\ \A i \in 1..Cardinality(unused) : Judge(log, test)[i] = Line("XPASS", {})
    <3> HIDE DEF unused, outcome
    <3> QED BY <2>1, <2>2, Noted
  <2>4. bugs = Bugs(log, test)
    <3>1. {specific[err] : err \in errors} = {OwnBug(log, test, err) : err \in errors}
      BY DEF OwnBug
    <3> QED BY <3>1 DEF Bugs
  <2>5. (\E err \in pending : followOn[err] = 0) <=> \E err \in errors : ~Explains(log, test, err)
    <3>1. ASSUME NEW err \in pending PROVE followOn[err] = 0 <=> ~Explains(log, test, err)
      <4>1. followOn[err] = Match(entries, err, TRUE, bugs) OBVIOUS
      <4>2. Match(entries, err, FALSE, {}) = 0 OBVIOUS
      <4> HIDE DEF followOn, bugs
      <4> QED BY <2>4, <4>1, <4>2 DEF Explains, OwnBug, FollowOn
    <3>2. ASSUME NEW err \in errors, err \notin pending PROVE Explains(log, test, err)
      BY <3>2 DEF Explains, OwnBug
    <3> HIDE DEF followOn, errors
    <3>3. pending \subseteq errors OBVIOUS
    <3> HIDE DEF pending
    <3> QED BY <3>1, <3>2, <3>3
  <2>6. outcome.word = Outcome(log, test)
    <3>1. outcome.word = IF \E err \in pending : followOn[err] = 0 THEN "FAIL"
                         ELSE IF errors # {} THEN "XFAIL" ELSE "PASS"
      BY DEF Line
    <3> HIDE DEF followOn, pending, outcome
    <3> QED BY <1>2, <2>5, <3>1 DEF Outcome
  <2>7. \A i \in 1..Cardinality(unused) : Judge(log, test)[i].word = "XPASS"
    <3> HIDE DEF unused
    <3> QED BY <2>3 DEF Line
  <2> HIDE DEF unused, outcome
  <2> QED BY <2>2, <2>3, <2>6, <2>7 DEF OneVerdict
<1> QED BY <1>1, <1>2

-----------------------------------------------------------------------------
(* The inductive invariant of the regressions.                             *)
Ended(r) == {i \in DOMAIN run[r] : run[r][i].pc = "ended"}
RowFor(r, u) ==
  [test |-> u.job.e.test, args |-> u.job.e.args, seed |-> u.job.seed,
   status |-> IF u.vfile = NoFile THEN Failed ELSE RunListStatus(u.vfile),
   dir |-> IF u.dir THEN r ELSE None, build |-> BuildOf[r]]

\* A run's record
LogOk(u, test) ==
  \/ u.sim = "none" /\ u.log = NoFile
  \/ u.sim = "running" /\ u.log = PartialLog
  \/ u.sim = "ended" /\ u.log \in LogsOf[test]
VerdictOk(u, test) ==
  \/ u.vfile = NoFile
  \/ u.vfile = <<>> /\ u.pc \in {"judging", "ended"}
  \/ u.vfile = <<Line("FAIL", {})>> /\ u.pc = "ended"
  \/ u.vfile = Judge(u.log, test) /\ u.pc = "ended" /\ u.sim = "ended"
RunOk(u, test) ==
  /\ DOMAIN u = {"job", "pc", "dir", "sim", "log", "vfile"}
  /\ u.pc \in {"queued", "made", "judging", "ended"} /\ u.dir \in BOOLEAN
  /\ LogOk(u, test) /\ VerdictOk(u, test)
  /\ u.pc \in {"made", "judging"} => u.dir
  /\ u.pc = "judging" => u.vfile = <<>>
  /\ u.pc \in {"queued", "made"} => u.vfile = NoFile
  /\ u.pc = "queued" => ~u.dir
  /\ ~u.dir => u.sim = "none" /\ u.vfile = NoFile

\* The rows are those of the runs that ended, each once.
Collected(r) == \E pos :
  /\ rows[r] \in Seq(ToSet(rows[r]))
  /\ pos \in Bijection(DOMAIN rows[r], Ended(r))
  /\ \A j \in DOMAIN rows[r] : rows[r][j] = RowFor(r, run[r][pos[j]])
RunsOk(r) ==
  /\ DOMAIN run[r] = DOMAIN Jobs(r)
  /\ \A i \in DOMAIN run[r] : run[r][i].job = Jobs(r)[i] /\ RunOk(run[r][i], run[r][i].job.e.test)
CsvOk(r) == csv[r] # NoFile => InFlight(r) = {} /\ csv[r] = rows[r]
ReportInv ==
  /\ DOMAIN run = Rid /\ DOMAIN rows = Rid /\ DOMAIN csv = Rid
  /\ \A r \in Rid : RunsOk(r) /\ Collected(r) /\ CsvOk(r)

LEMMA SeqOfItsElements ==
  ASSUME NEW S, NEW s \in Seq(S)
  PROVE  s \in Seq(ToSet(s))
<1>1. s = [i \in 1..Len(s) |-> s[i]] /\ Len(s) \in Nat /\ DOMAIN s = 1..Len(s) OBVIOUS
<1>2. \A i \in 1..Len(s) : s[i] \in ToSet(s) BY <1>1 DEF ToSet
<1> HIDE DEF ToSet
<1> QED BY <1>1, <1>2

LEMMA InAllRuns ==
  ASSUME NEW x \in AllRuns
  PROVE  x = <<x[1], x[2]>> /\ x[1] \in Rid /\ x[2] \in DOMAIN run[x[1]] /\ x \in RunsIn(x[1])
BY DEF AllRuns, RunsIn

\* What Set does to the state
LEMMA SetIs ==
  ASSUME ReportInv, NEW x \in AllRuns, NEW new, Set(x, new), new.job = R(x).job
  PROVE  /\ DOMAIN run' = Rid /\ R(x)' = new
         /\ \A r \in Rid : DOMAIN run'[r] = DOMAIN run[r]
         /\ \A r \in Rid : \A i \in DOMAIN run[r] :
              /\ <<r, i>> # x => run'[r][i] = run[r][i]
              /\ run'[r][i].job = run[r][i].job
<1>1. x = <<x[1], x[2]>> /\ x[1] \in Rid /\ x[2] \in DOMAIN run[x[1]] BY InAllRuns
<1>2. run' = [run EXCEPT ![x[1]][x[2]] = new] BY DEF Set
<1>3. DOMAIN run = Rid BY DEF ReportInv
<1>4. /\ DOMAIN run' = Rid /\ run'[x[1]][x[2]] = new
      /\ \A r \in Rid : DOMAIN run'[r] = DOMAIN run[r]
      /\ \A r \in Rid : \A i \in DOMAIN run[r] :
           (r # x[1] \/ i # x[2]) => run'[r][i] = run[r][i]
  BY <1>1, <1>2, <1>3
<1>5. run[x[1]][x[2]].job = new.job BY DEF R
<1> QED BY <1>1, <1>4, <1>5 DEF R

\* The records stay well formed when one run takes a step that keeps its own so.
LEMMA RunsStep ==
  ASSUME ReportInv, NEW x \in AllRuns, NEW new, Set(x, new), new.job = R(x).job,
         RunOk(new, Job(x).test)
  PROVE  \A r \in Rid : RunsOk(r)'
<1>1. /\ DOMAIN run' = Rid /\ R(x)' = new
      /\ \A r \in Rid : DOMAIN run'[r] = DOMAIN run[r]
      /\ \A r \in Rid : \A i \in DOMAIN run[r] :
           /\ <<r, i>> # x => run'[r][i] = run[r][i]
           /\ run'[r][i].job = run[r][i].job
  BY SetIs
<1>2. ASSUME NEW r \in Rid PROVE RunsOk(r)'
  <2>1. RunsOk(r) BY DEF ReportInv
  <2>2. ASSUME NEW i \in DOMAIN run[r]
        PROVE  run'[r][i].job = Jobs(r)[i] /\ RunOk(run'[r][i], run'[r][i].job.e.test)
    <3>1. run[r][i].job = Jobs(r)[i] /\ RunOk(run[r][i], run[r][i].job.e.test)
      BY <2>1 DEF RunsOk
    <3>2. CASE <<r, i>> # x BY <1>1, <3>1, <3>2
    <3>3. CASE <<r, i>> = x
      <4>1. run'[r][i] = new /\ R(x) = run[r][i] BY <1>1, <3>3 DEF R
      <4> QED BY <1>1, <3>1, <4>1 DEF Job
    <3> QED BY <3>2, <3>3
  <2>3. DOMAIN run'[r] = DOMAIN Jobs(r) BY <1>1, <2>1 DEF RunsOk
  <2>4. DOMAIN run'[r] = DOMAIN run[r] BY <1>1
  <2> QED BY <2>2, <2>3, <2>4 DEF RunsOk
<1> QED BY <1>2

\* A row is made of the job, the verdict file and the directory alone.
LEMMA RowSame ==
  ASSUME NEW r, NEW u, NEW v, u.job = v.job, u.vfile = v.vfile, u.dir = v.dir
  PROVE  RowFor(r, u) = RowFor(r, v)
BY DEF RowFor

\* A step of a run that is not its end.
LEMMA RunGoesOn ==
  ASSUME ReportInv, NEW x \in AllRuns, NEW new, Set(x, new), new.job = R(x).job,
         RunOk(new, Job(x).test), UNCHANGED <<rows, csv>>,
         new.pc = "ended" <=> R(x).pc = "ended",
         R(x).pc = "ended" => new.vfile = R(x).vfile /\ new.dir = R(x).dir,
         csv[x[1]] # NoFile => new.pc \notin {"made", "judging"}
  PROVE  ReportInv'
<1>0. x = <<x[1], x[2]>> /\ x[1] \in Rid /\ x[2] \in DOMAIN run[x[1]] BY InAllRuns
<1>1. /\ DOMAIN run' = Rid /\ R(x)' = new
      /\ \A r \in Rid : DOMAIN run'[r] = DOMAIN run[r]
      /\ \A r \in Rid : \A i \in DOMAIN run[r] :
           /\ <<r, i>> # x => run'[r][i] = run[r][i]
           /\ run'[r][i].job = run[r][i].job
  BY SetIs
<1>2. \A r \in Rid : RunsOk(r)' BY RunsStep
<1>3. ASSUME NEW r \in Rid PROVE Collected(r)'
  <2>1. ASSUME NEW i \in DOMAIN run[r]
        PROVE  /\ run'[r][i].pc = "ended" <=> run[r][i].pc = "ended"
               /\ run[r][i].pc = "ended" => RowFor(r, run'[r][i]) = RowFor(r, run[r][i])
    <3>1. CASE <<r, i>> # x BY <1>1, <3>1
    <3>2. CASE <<r, i>> = x
      <4>1. run'[r][i] = new /\ R(x) = run[r][i] BY <1>1, <3>2 DEF R
      <4> QED BY <4>1, RowSame
    <3> QED BY <3>1, <3>2
  <2>2. Ended(r)' = Ended(r) BY <1>1, <2>1 DEF Ended
  <2>3. Collected(r) /\ rows' = rows BY DEF ReportInv
  <2>4. PICK pos : /\ rows[r] \in Seq(ToSet(rows[r]))
                   /\ pos \in Bijection(DOMAIN rows[r], Ended(r))
                   /\ \A j \in DOMAIN rows[r] : rows[r][j] = RowFor(r, run[r][pos[j]])
    BY <2>3 DEF Collected
  <2>5. \A j \in DOMAIN rows[r] : pos[j] \in Ended(r)
    BY <2>4 DEF Bijection, Injection
  <2>6. \A j \in DOMAIN rows[r] : RowFor(r, run'[r][pos[j]]) = RowFor(r, run[r][pos[j]])
    BY <2>1, <2>5 DEF Ended
  <2>7. \A j \in DOMAIN rows'[r] : rows'[r][j] = RowFor(r, run'[r][pos[j]])
    BY <2>3, <2>4, <2>6
  <2> QED BY <2>2, <2>3, <2>4, <2>7 DEF Collected
<1>4. ASSUME NEW r \in Rid PROVE CsvOk(r)'
  <2>1. CsvOk(r) BY DEF ReportInv
  <2>2. ASSUME csv[r] # NoFile, NEW i \in DOMAIN run[r], run'[r][i].pc \in {"made", "judging"}
        PROVE  run[r][i].pc \in {"made", "judging"}
    <3>1. CASE <<r, i>> # x BY <1>1, <2>2, <3>1
    <3>2. CASE <<r, i>> = x
      <4>1. run'[r][i] = new /\ r = x[1] BY <1>1, <3>2 DEF R
      <4> QED BY <2>2, <4>1
    <3> QED BY <3>1, <3>2
  <2>3. csv[r] # NoFile => InFlight(r)' \subseteq InFlight(r)
    BY <1>1, <2>2 DEF InFlight
  <2> QED BY <2>1, <2>3 DEF CsvOk
<1> QED BY <1>1, <1>2, <1>3, <1>4 DEF ReportInv

\* What Append does to a sequence of whatever it holds.
LEMMA AppendIs ==
  ASSUME NEW s, s \in Seq(ToSet(s)), NEW e
  PROVE  /\ Append(s, e) \in Seq(ToSet(Append(s, e)))
         /\ DOMAIN s = 1..Len(s) /\ Len(s) \in Nat
         /\ DOMAIN Append(s, e) = 1..Len(s) + 1
         /\ Append(s, e)[Len(s) + 1] = e
         /\ \A j \in DOMAIN s : Append(s, e)[j] = s[j]
<1> DEFINE T == ToSet(s) \cup {e}
<1>1. s \in Seq(T)
  <2> HIDE DEF T
  <2>1. ToSet(s) \subseteq T BY DEF T
  <2>2. s = [j \in 1..Len(s) |-> s[j]] /\ Len(s) \in Nat /\ \A j \in 1..Len(s) : s[j] \in ToSet(s) OBVIOUS
  <2> QED BY <2>1, <2>2
<1>2. e \in T OBVIOUS
<1> HIDE DEF T
<1>3. Append(s, e) \in Seq(T) BY <1>1, <1>2
<1>4. Append(s, e) \in Seq(ToSet(Append(s, e))) BY <1>3, SeqOfItsElements
<1> QED BY <1>1, <1>2, <1>4, AppendProperties

\* The step with which a run ends and its row is collected.
LEMMA RunEnds ==
  ASSUME ReportInv, NEW x \in AllRuns, NEW new, Set(x, new), new.job = R(x).job,
         RunOk(new, Job(x).test), csv[x[1]] = NoFile, UNCHANGED csv,
         new.pc = "ended", R(x).pc # "ended",
         NEW row, row = RowFor(x[1], new), rows' = [rows EXCEPT ![x[1]] = Append(@, row)]
  PROVE  ReportInv'
<1>0. x = <<x[1], x[2]>> /\ x[1] \in Rid /\ x[2] \in DOMAIN run[x[1]] BY InAllRuns
<1>1. /\ DOMAIN run' = Rid /\ R(x)' = new
      /\ \A r \in Rid : DOMAIN run'[r] = DOMAIN run[r]
      /\ \A r \in Rid : \A i \in DOMAIN run[r] :
           /\ <<r, i>> # x => run'[r][i] = run[r][i]
           /\ run'[r][i].job = run[r][i].job
  BY SetIs
<1>2. \A r \in Rid : RunsOk(r)' BY RunsStep
<1>3. DOMAIN rows = Rid BY DEF ReportInv
<1>5. ASSUME NEW r \in Rid PROVE Collected(r)'
  <2>1. ASSUME NEW i \in DOMAIN run[r], <<r, i>> # x
        PROVE  run'[r][i] = run[r][i]
    BY <1>1, <2>1
  <2>2. Collected(r) BY DEF ReportInv
  <2>3. PICK pos : /\ rows[r] \in Seq(ToSet(rows[r]))
                   /\ pos \in Bijection(DOMAIN rows[r], Ended(r))
                   /\ \A j \in DOMAIN rows[r] : rows[r][j] = RowFor(r, run[r][pos[j]])
    BY <2>2 DEF Collected
  <2>4. /\ pos \in [DOMAIN rows[r] -> Ended(r)]
        /\ \A i, j \in DOMAIN rows[r] : pos[i] = pos[j] => i = j
        /\ \A i \in Ended(r) : \E j \in DOMAIN rows[r] : pos[j] = i
    BY <2>3 DEF Bijection, Injection, Surjection, IsInjective
  <2>5. Ended(r) \subseteq DOMAIN run[r] BY DEF Ended
  <2>6. CASE r # x[1]
    <3>1. rows'[r] = rows[r] BY <1>0, <1>3, <2>6
    <3>2. \A i \in DOMAIN run[r] : <<r, i>> # x BY <1>0, <2>6
    <3>3. Ended(r)' = Ended(r) BY <1>1, <2>1, <3>2 DEF Ended
    <3>4. \A j \in DOMAIN rows[r] : run'[r][pos[j]] = run[r][pos[j]]
      BY <2>1, <2>4, <2>5, <3>2
    <3>5. \A j \in DOMAIN rows'[r] : rows'[r][j] = RowFor(r, run'[r][pos[j]])
      BY <2>3, <3>1, <3>4
    <3> QED BY <2>3, <3>1, <3>3, <3>5 DEF Collected
  <2>7. CASE r = x[1]
    <3> DEFINE n == Len(rows[r])
               new1 == [j \in 1..n + 1 |-> IF j = n + 1 THEN x[2] ELSE pos[j]]
    <3>1. rows'[r] = Append(rows[r], row) BY <1>3, <2>7
    <3>2. /\ rows'[r] \in Seq(ToSet(rows'[r]))
          /\ DOMAIN rows[r] = 1..n /\ n \in Nat
          /\ DOMAIN rows'[r] = 1..n + 1 /\ rows'[r][n + 1] = row
          /\ \A j \in DOMAIN rows[r] : rows'[r][j] = rows[r][j]
      <4>1. /\ Append(rows[r], row) \in Seq(ToSet(Append(rows[r], row)))
            /\ DOMAIN rows[r] = 1..Len(rows[r]) /\ Len(rows[r]) \in Nat
            /\ DOMAIN Append(rows[r], row) = 1..Len(rows[r]) + 1
            /\ Append(rows[r], row)[Len(rows[r]) + 1] = row
            /\ \A j \in DOMAIN rows[r] : Append(rows[r], row)[j] = rows[r][j]
        BY <2>3, AppendIs
      <4> QED BY <3>1, <4>1
    <3>3. x[2] \notin Ended(r) /\ x[2] \in DOMAIN run[r] /\ run'[r][x[2]] = new
      BY <1>0, <1>1, <2>7 DEF Ended, R
    <3>4. Ended(r)' = Ended(r) \cup {x[2]}
      <4>1. ASSUME NEW i \in DOMAIN run[r], i # x[2] PROVE run'[r][i] = run[r][i]
        <5>1. <<r, i>> # x BY <1>0, <4>1
        <5> QED BY <2>1, <5>1
      <4> QED BY <1>1, <3>3, <4>1 DEF Ended
    <3> HIDE DEF n
    <3>5. new1 \in Bijection(DOMAIN rows'[r], Ended(r)')
      <4>1. new1 \in [1..n + 1 -> Ended(r) \cup {x[2]}]
        BY <2>4, <3>2
      <4>2. ASSUME NEW i \in 1..n + 1, NEW j \in 1..n + 1, new1[i] = new1[j] PROVE i = j
        <5>1. \A k \in 1..n + 1 : k # n + 1 => k \in DOMAIN rows[r] BY <3>2
        <5> QED BY <2>4, <3>3, <4>2, <5>1
      <4>3. ASSUME NEW i \in Ended(r) \cup {x[2]} PROVE \E j \in 1..n + 1 : new1[j] = i
        <5>1. CASE i = x[2] BY <3>2, <5>1
        <5>2. CASE i # x[2]
          <6>1. PICK j \in DOMAIN rows[r] : pos[j] = i BY <2>4, <4>3, <5>2
          <6>2. j \in 1..n + 1 /\ j # n + 1 BY <3>2
          <6> QED BY <6>1, <6>2
        <5> QED BY <5>1, <5>2
      <4> HIDE DEF new1
      <4> QED BY <3>2, <3>4, <4>1, <4>2, <4>3 DEF Bijection, Injection, Surjection, IsInjective
    <3>6. ASSUME NEW j \in DOMAIN rows'[r] PROVE rows'[r][j] = RowFor(r, run'[r][new1[j]])
      <4>1. CASE j = n + 1
        <5>1. new1[j] = x[2] BY <3>2, <4>1
        <5> HIDE DEF new1
        <5> QED BY <2>7, <3>2, <3>3, <4>1, <5>1
      <4>2. CASE j # n + 1
        <5>1. j \in DOMAIN rows[r] /\ new1[j] = pos[j] BY <3>2, <3>6, <4>2
        <5>2. pos[j] \in Ended(r) BY <2>4, <5>1
        <5>3. <<r, pos[j]>> # x /\ pos[j] \in DOMAIN run[r] BY <1>0, <2>5, <3>3, <5>2
        <5> HIDE DEF new1
        <5>4. rows'[r][j] = RowFor(r, run[r][pos[j]]) BY <2>3, <3>2, <5>1
        <5>5. run'[r][pos[j]] = run[r][pos[j]] BY <2>1, <5>3
        <5> QED BY <5>1, <5>4, <5>5
      <4> QED BY <4>1, <4>2
    <3> HIDE DEF new1
    <3> QED BY <3>2, <3>5, <3>6 DEF Collected
  <2> QED BY <2>6, <2>7
<1>6. ASSUME NEW r \in Rid PROVE CsvOk(r)'
  <2>1. CsvOk(r) /\ csv' = csv BY DEF ReportInv
  <2>2. CASE r = x[1] BY <2>1, <2>2 DEF CsvOk
  <2>3. CASE r # x[1]
    <3>1. rows'[r] = rows[r] BY <1>0, <1>3, <2>3
    <3>2. \A i \in DOMAIN run[r] : run'[r][i] = run[r][i] BY <1>0, <1>1, <2>3
    <3>3. InFlight(r)' = InFlight(r) BY <1>1, <3>2 DEF InFlight
    <3> QED BY <2>1, <3>1, <3>3 DEF CsvOk
  <2> QED BY <2>2, <2>3
<1>7. DOMAIN rows' = Rid /\ DOMAIN csv' = Rid BY <1>3 DEF ReportInv
<1> QED BY <1>1, <1>2, <1>5, <1>6, <1>7 DEF ReportInv

-----------------------------------------------------------------------------
(* Every step keeps the invariant.                                         *)

LEMMA StatusOf0 == RunListStatus(<<>>) = Failed
BY DEF RunListStatus, Verdicts

\* What the invariant says of one run.
LEMMA JobOf ==
  ASSUME ReportInv, NEW x \in AllRuns
  PROVE  /\ DOMAIN R(x) = {"job", "pc", "dir", "sim", "log", "vfile"}
         /\ RunOk(R(x), Job(x).test)
         /\ Job(x).test = Jobs(x[1])[x[2]].e.test /\ x[2] \in DOMAIN Jobs(x[1])
         /\ x[1] \in Rid /\ x[2] \in DOMAIN run[x[1]]
<1>1. x[1] \in Rid /\ x[2] \in DOMAIN run[x[1]] BY InAllRuns
<1>2. RunsOk(x[1]) BY <1>1 DEF ReportInv
<1> QED BY <1>1, <1>2 DEF RunsOk, RunOk, R, Job

\* A file that exists is none of the marks of a missing one.
LEMMA NoFileIs ==
  ASSUME ReportInv, NEW x \in AllRuns
  PROVE  /\ NoFile # <<>> /\ NoFile # PartialLog
         /\ \A log \in LogsOf[Job(x).test] \cup {PartialLog} : NoFile # log /\ NoFile # Judge(log, Job(x).test)
         /\ NoFile # <<Line("FAIL", {})>> /\ Judge(PartialLog, Job(x).test) = <<Line("FAIL", {})>>
<1>1. /\ Job(x).test = Jobs(x[1])[x[2]].e.test /\ x[2] \in DOMAIN Jobs(x[1]) /\ x[1] \in Rid
  BY JobOf
<1>2. \A log \in LogsOf[Job(x).test] \cup {PartialLog} : NoFile \notin {<<>>, log, Judge(log, Job(x).test)}
  BY <1>1, JobsAssumption
<1>3. PartialLog \in LogsOf[Job(x).test] \cup {PartialLog} OBVIOUS
<1>4. Judge(PartialLog, Job(x).test) = <<Line("FAIL", {})>>
  BY DEF Judge, PartialLog
<1> QED BY <1>2, <1>3, <1>4

\* Of a regression that has its CSV nothing runs any more.
LEMMA FlightIs ==
  ASSUME ReportInv, NEW x \in AllRuns, csv[x[1]] # NoFile
  PROVE  R(x).pc \notin {"made", "judging"}
<1>1. x[1] \in Rid /\ x[2] \in DOMAIN run[x[1]] BY InAllRuns
<1>2. CsvOk(x[1]) BY <1>1 DEF ReportInv
<1> QED BY <1>1, <1>2 DEF CsvOk, InFlight, R

\* A run that starts is a fresh one.
LEMMA StartIs ==
  ASSUME ReportInv, NEW x \in AllRuns, Start(x)
  PROVE  csv[x[1]] = NoFile /\ R(x).pc = "queued" /\ R(x).vfile = NoFile /\ ~R(x).dir /\ R(x).sim = "none" /\ R(x).log = NoFile
<1>1. /\ x[1] \in Rid /\ x[2] \in DOMAIN run[x[1]] /\ RunOk(R(x), Job(x).test)
      /\ DOMAIN run[x[1]] = DOMAIN Jobs(x[1])
  BY JobOf DEF ReportInv, RunsOk
<1>2. Waiting(x[1]) \subseteq Nat /\ Waiting(x[1]) # {} /\ x[2] = Min(Waiting(x[1]))
  <2>1. DOMAIN Jobs(x[1]) \subseteq Nat BY <1>1, JobsAssumption
  <2> QED BY <1>1, <2>1 DEF Waiting, Start
<1>3. x[2] \in Waiting(x[1])
  <2>1. PICK W : W = Waiting(x[1]) OBVIOUS
  <2>2. Min(W) \in W BY <1>2, <2>1, Least
  <2> QED BY <1>2, <2>1, <2>2
<1>4. R(x).pc = "queued" BY <1>3 DEF Waiting, R
<1> QED BY <1>1, <1>4 DEF Start, RunOk, LogOk

LEMMA FreshIs ==
  ASSUME ReportInv, NEW x \in AllRuns, Start(x)
  PROVE  Fresh(x).job = R(x).job /\ Fresh(x).pc = "made" /\ RunOk(Fresh(x), Job(x).test)
<1>1. /\ DOMAIN R(x) = {"job", "pc", "dir", "sim", "log", "vfile"} /\ RunOk(R(x), Job(x).test)
      /\ R(x).vfile = NoFile /\ R(x).sim = "none" /\ R(x).log = NoFile
  BY JobOf, StartIs
<1>2. /\ DOMAIN Fresh(x) = {"job", "pc", "dir", "sim", "log", "vfile"}
      /\ Fresh(x).job = R(x).job /\ Fresh(x).pc = "made" /\ Fresh(x).dir = TRUE
      /\ Fresh(x).sim = "none" /\ Fresh(x).log = NoFile /\ Fresh(x).vfile = NoFile
  BY <1>1 DEF Fresh
<1> HIDE DEF Fresh
<1> QED BY <1>2 DEF RunOk, LogOk, VerdictOk

LEMMA MakeDirKeeps ==
  ASSUME ReportInv, NEW x \in AllRuns, MakeDir(x)
  PROVE  ReportInv'
<1>1. Start(x) /\ Set(x, Fresh(x)) /\ UNCHANGED <<rows, csv>> BY DEF MakeDir
<1>2. PICK new : new = Fresh(x) OBVIOUS
<1>3. /\ new.job = R(x).job /\ new.pc = "made" /\ RunOk(new, Job(x).test) BY <1>1, <1>2, FreshIs
<1>4. csv[x[1]] = NoFile /\ R(x).pc = "queued" BY <1>1, StartIs
<1> QED BY <1>1, <1>2, <1>3, <1>4, RunGoesOn

LEMMA NoRunDirKeeps ==
  ASSUME ReportInv, NEW x \in AllRuns, NoRunDir(x)
  PROVE  ReportInv'
<1>1. /\ Start(x) /\ Set(x, [R(x) EXCEPT !.pc = "ended"]) /\ UNCHANGED csv
      /\ rows' = [rows EXCEPT ![x[1]] = Append(@, Row(x, Failed, None))]
  BY DEF NoRunDir, Collect
<1>2. PICK new : new = [R(x) EXCEPT !.pc = "ended"] OBVIOUS
<1>3. /\ DOMAIN R(x) = {"job", "pc", "dir", "sim", "log", "vfile"} /\ RunOk(R(x), Job(x).test)
      /\ R(x).pc = "queued" /\ R(x).vfile = NoFile /\ ~R(x).dir
      /\ R(x).sim = "none" /\ R(x).log = NoFile /\ csv[x[1]] = NoFile
  BY <1>1, JobOf, StartIs
<1>4. /\ DOMAIN new = {"job", "pc", "dir", "sim", "log", "vfile"}
      /\ new.job = R(x).job /\ new.pc = "ended" /\ new.dir = R(x).dir
      /\ new.sim = "none" /\ new.log = NoFile /\ new.vfile = NoFile
  BY <1>2, <1>3
<1>5. RunOk(new, Job(x).test)
  BY <1>3, <1>4 DEF RunOk, LogOk, VerdictOk
<1>6. Row(x, Failed, None) = RowFor(x[1], new)
  BY <1>3, <1>4 DEF Row, RowFor, Job, Seed
<1> QED BY <1>1, <1>2, <1>3, <1>4, <1>5, <1>6, RunEnds

LEMMA SimStartsKeeps ==
  ASSUME ReportInv, NEW x \in AllRuns, SimStarts(x)
  PROVE  ReportInv'
<1>1. /\ R(x).dir /\ R(x).sim = "none" /\ UNCHANGED <<rows, csv>>
      /\ Set(x, [R(x) EXCEPT !.sim = "running", !.log = PartialLog])
  BY DEF SimStarts
<1>2. PICK new : new = [R(x) EXCEPT !.sim = "running", !.log = PartialLog] OBVIOUS
<1>3. DOMAIN R(x) = {"job", "pc", "dir", "sim", "log", "vfile"} /\ RunOk(R(x), Job(x).test) BY JobOf
<1>4. /\ DOMAIN new = {"job", "pc", "dir", "sim", "log", "vfile"}
      /\ new.job = R(x).job /\ new.pc = R(x).pc /\ new.dir = R(x).dir
      /\ new.sim = "running" /\ new.log = PartialLog /\ new.vfile = R(x).vfile
  BY <1>2, <1>3
<1>5. RunOk(new, Job(x).test)
  BY <1>1, <1>3, <1>4 DEF RunOk, LogOk, VerdictOk
<1>6. csv[x[1]] # NoFile => new.pc \notin {"made", "judging"} BY <1>4, FlightIs
<1> QED BY <1>1, <1>2, <1>4, <1>5, <1>6, RunGoesOn

LEMMA SimEndsKeeps ==
  ASSUME ReportInv, NEW x \in AllRuns, NEW log \in LogsOf[Job(x).test], SimEnds(x, log)
  PROVE  ReportInv'
<1>1. /\ R(x).sim = "running" /\ UNCHANGED <<rows, csv>>
      /\ Set(x, [R(x) EXCEPT !.sim = "ended", !.log = log])
  BY DEF SimEnds
<1>2. PICK new : new = [R(x) EXCEPT !.sim = "ended", !.log = log] OBVIOUS
<1>3. DOMAIN R(x) = {"job", "pc", "dir", "sim", "log", "vfile"} /\ RunOk(R(x), Job(x).test) BY JobOf
<1>4. /\ DOMAIN new = {"job", "pc", "dir", "sim", "log", "vfile"}
      /\ new.job = R(x).job /\ new.pc = R(x).pc /\ new.dir = R(x).dir
      /\ new.sim = "ended" /\ new.log = log /\ new.vfile = R(x).vfile
  BY <1>2, <1>3
<1>5. RunOk(new, Job(x).test)
  BY <1>1, <1>3, <1>4 DEF RunOk, LogOk, VerdictOk
<1>6. csv[x[1]] # NoFile => new.pc \notin {"made", "judging"} BY <1>4, FlightIs
<1> QED BY <1>1, <1>2, <1>4, <1>5, <1>6, RunGoesOn

LEMMA SubmitReturnsKeeps ==
  ASSUME ReportInv, NEW x \in AllRuns, SubmitReturns(x)
  PROVE  ReportInv'
<1>1. /\ R(x).pc = "made" /\ UNCHANGED <<rows, csv>>
      /\ Set(x, [R(x) EXCEPT !.pc = "judging", !.vfile = <<>>])
  BY DEF SubmitReturns
<1>2. PICK new : new = [R(x) EXCEPT !.pc = "judging", !.vfile = <<>>] OBVIOUS
<1>3. DOMAIN R(x) = {"job", "pc", "dir", "sim", "log", "vfile"} /\ RunOk(R(x), Job(x).test) BY JobOf
<1>4. /\ DOMAIN new = {"job", "pc", "dir", "sim", "log", "vfile"}
      /\ new.job = R(x).job /\ new.pc = "judging" /\ new.dir = R(x).dir
      /\ new.sim = R(x).sim /\ new.log = R(x).log /\ new.vfile = <<>>
  BY <1>2, <1>3
<1>5. RunOk(new, Job(x).test)
  BY <1>1, <1>3, <1>4 DEF RunOk, LogOk, VerdictOk
<1>6. csv[x[1]] = NoFile BY <1>1, FlightIs
<1> QED BY <1>1, <1>2, <1>4, <1>5, <1>6, RunGoesOn

LEMMA CheckEndsKeeps ==
  ASSUME ReportInv, NEW x \in AllRuns, CheckEnds(x)
  PROVE  ReportInv'
<1>1. PICK lines : lines = IF R(x).log = NoFile THEN <<>> ELSE Judge(R(x).log, Job(x).test) OBVIOUS
<1>2. /\ R(x).pc = "judging" /\ UNCHANGED csv
      /\ Set(x, [R(x) EXCEPT !.pc = "ended", !.vfile = lines])
      /\ rows' = [rows EXCEPT ![x[1]] = Append(@, Row(x, RunListStatus(lines), x[1]))]
  BY <1>1 DEF CheckEnds, Collect
<1>3. PICK new : new = [R(x) EXCEPT !.pc = "ended", !.vfile = lines] OBVIOUS
<1>4. DOMAIN R(x) = {"job", "pc", "dir", "sim", "log", "vfile"} /\ RunOk(R(x), Job(x).test) BY JobOf
<1>5. /\ DOMAIN new = {"job", "pc", "dir", "sim", "log", "vfile"}
      /\ new.job = R(x).job /\ new.pc = "ended" /\ new.dir = R(x).dir
      /\ new.sim = R(x).sim /\ new.log = R(x).log /\ new.vfile = lines
  BY <1>3, <1>4
<1>6. lines # NoFile /\ VerdictOk(new, Job(x).test)
  <2>1. /\ NoFile # <<>> /\ NoFile # PartialLog
        /\ \A log \in LogsOf[Job(x).test] \cup {PartialLog} : NoFile # Judge(log, Job(x).test)
        /\ Judge(PartialLog, Job(x).test) = <<Line("FAIL", {})>>
    BY NoFileIs
  <2>2. LogOk(R(x), Job(x).test) BY <1>4 DEF RunOk
  <2>3. CASE R(x).log = NoFile BY <1>1, <1>5, <2>1, <2>3 DEF VerdictOk
  <2>4. CASE R(x).log # NoFile
    <3>1. lines = Judge(R(x).log, Job(x).test) BY <1>1, <2>4
    <3> QED BY <1>5, <2>1, <2>2, <2>4, <3>1 DEF VerdictOk, LogOk
  <2> QED BY <2>3, <2>4
<1>7. RunOk(new, Job(x).test)
  BY <1>2, <1>4, <1>5, <1>6 DEF RunOk, LogOk
<1>8. Row(x, RunListStatus(lines), x[1]) = RowFor(x[1], new)
  BY <1>2, <1>4, <1>5, <1>6 DEF Row, RowFor, Job, Seed, RunOk
<1>9. csv[x[1]] = NoFile BY <1>2, FlightIs
<1> QED BY <1>2, <1>3, <1>5, <1>7, <1>8, <1>9, RunEnds

LEMMA MakeKilledKeeps ==
  ASSUME ReportInv, NEW x \in AllRuns, MakeKilled(x)
  PROVE  ReportInv'
<1>1. /\ R(x).pc \in {"made", "judging"} /\ UNCHANGED csv
      /\ Set(x, [R(x) EXCEPT !.pc = "ended"])
      /\ rows' = [rows EXCEPT ![x[1]] = Append(@, Row(x, Failed, x[1]))]
  BY DEF MakeKilled, Collect
<1>2. PICK new : new = [R(x) EXCEPT !.pc = "ended"] OBVIOUS
<1>3. DOMAIN R(x) = {"job", "pc", "dir", "sim", "log", "vfile"} /\ RunOk(R(x), Job(x).test) BY JobOf
<1>4. /\ DOMAIN new = {"job", "pc", "dir", "sim", "log", "vfile"}
      /\ new.job = R(x).job /\ new.pc = "ended" /\ new.dir = R(x).dir
      /\ new.sim = R(x).sim /\ new.log = R(x).log /\ new.vfile = R(x).vfile
  BY <1>2, <1>3
<1>5. new.vfile \in {NoFile, <<>>} /\ new.dir
  BY <1>1, <1>3, <1>4 DEF RunOk
<1>6. RunOk(new, Job(x).test)
  BY <1>1, <1>3, <1>4, <1>5 DEF RunOk, LogOk, VerdictOk
<1>7. Row(x, Failed, x[1]) = RowFor(x[1], new)
  BY <1>4, <1>5, StatusOf0 DEF Row, RowFor, Job, Seed
<1>8. csv[x[1]] = NoFile BY <1>1, FlightIs
<1> QED BY <1>1, <1>2, <1>4, <1>6, <1>7, <1>8, RunEnds

LEMMA ListEndsKeeps ==
  ASSUME ReportInv, NEW r \in Rid, ListEnds(r)
  PROVE  ReportInv'
<1>1. InFlight(r) = {} /\ csv' = [csv EXCEPT ![r] = rows[r]] /\ run' = run /\ rows' = rows
  BY DEF ListEnds
<1>2. DOMAIN run = Rid /\ DOMAIN rows = Rid /\ DOMAIN csv = Rid
  BY DEF ReportInv
<1>3. ASSUME NEW s \in Rid PROVE RunsOk(s)' /\ Collected(s)' /\ CsvOk(s)'
  <2>1. RunsOk(s) /\ Collected(s) /\ CsvOk(s) BY DEF ReportInv
  <2>2. RunsOk(s)' BY <1>1, <2>1 DEF RunsOk
  <2>3. Collected(s)' BY <1>1, <2>1 DEF Collected, Ended
  <2>4. CsvOk(s)'
    <3>1. InFlight(s)' = InFlight(s) BY <1>1 DEF InFlight
    <3>2. CASE s = r BY <1>1, <1>2, <3>1, <3>2 DEF CsvOk
    <3>3. CASE s # r BY <1>1, <1>2, <2>1, <3>1, <3>3 DEF CsvOk
    <3> QED BY <3>2, <3>3
  <2> QED BY <2>2, <2>3, <2>4
<1> QED BY <1>1, <1>2, <1>3 DEF ReportInv

\* The plan and its corrections are not what the invariant is about.
LEMMA OthersKeep ==
  ASSUME ReportInv, UNCHANGED <<run, rows, csv>>
  PROVE  ReportInv'
<1>1. ASSUME NEW s \in Rid PROVE RunsOk(s)' /\ Collected(s)' /\ CsvOk(s)'
  <2>1. RunsOk(s) /\ Collected(s) /\ CsvOk(s) BY DEF ReportInv
  <2>2. RunsOk(s)' BY <2>1 DEF RunsOk
  <2>3. Collected(s)' BY <2>1 DEF Collected, Ended
  <2>4. CsvOk(s)' BY <2>1 DEF CsvOk, InFlight
  <2> QED BY <2>2, <2>3, <2>4
<1> QED BY <1>1 DEF ReportInv

LEMMA NextKeeps ==
  ASSUME ReportInv, [Next]_vars
  PROVE  ReportInv'
<1>1. ASSUME NEW x \in AllRuns, Flow(x) PROVE ReportInv'
  BY <1>1, MakeDirKeeps, NoRunDirKeeps, SimStartsKeeps, SubmitReturnsKeeps, CheckEndsKeeps,
     MakeKilledKeeps, SimEndsKeeps DEF Flow
<1>2. ASSUME NEW r \in Rid, ListEnds(r) PROVE ReportInv' BY <1>2, ListEndsKeeps
<1>3. CASE Regenerate BY <1>3, OthersKeep DEF Regenerate, Write
<1>4. CASE RegenerateFromPlan BY <1>4, OthersKeep DEF RegenerateFromPlan, Write
<1>5. ASSUME NEW c \in Corrections \ {fixes}, EditCorrections(c) PROVE ReportInv'
  BY <1>5, OthersKeep DEF EditCorrections
<1>6. CASE UNCHANGED vars BY <1>6, OthersKeep DEF vars
<1> QED BY <1>1, <1>2, <1>3, <1>4, <1>5, <1>6 DEF Next

LEMMA InitKeeps ==
  ASSUME Init
  PROVE  ReportInv
<1>1. /\ run = [r \in Rid |-> [i \in DOMAIN Jobs(r) |-> Queued(Jobs(r)[i])]]
      /\ rows = [r \in Rid |-> <<>>] /\ csv = [r \in Rid |-> NoFile]
  BY Zenon DEF Init
<1>2. ASSUME NEW r \in Rid PROVE RunsOk(r) /\ Collected(r) /\ CsvOk(r)
  <2>1. /\ run[r] = [i \in DOMAIN Jobs(r) |-> Queued(Jobs(r)[i])] /\ rows[r] = <<>> /\ csv[r] = NoFile
    BY <1>1
  <2>2. ASSUME NEW i \in DOMAIN run[r]
        PROVE  run[r][i].job = Jobs(r)[i] /\ RunOk(run[r][i], run[r][i].job.e.test)
               /\ run[r][i].pc = "queued"
    <3>1. PICK u : u = run[r][i] OBVIOUS
    <3>2. u = Queued(Jobs(r)[i]) BY <2>1, <3>1
    <3>3. /\ DOMAIN u = {"job", "pc", "dir", "sim", "log", "vfile"}
          /\ u.job = Jobs(r)[i] /\ u.pc = "queued" /\ u.dir = FALSE
          /\ u.sim = "none" /\ u.log = NoFile /\ u.vfile = NoFile
      BY <3>2 DEF Queued
    <3> QED BY <3>1, <3>3 DEF RunOk, LogOk, VerdictOk
  <2>3. RunsOk(r) BY <2>1, <2>2 DEF RunsOk
  <2>4. Collected(r)
    <3>1. Ended(r) = {} BY <2>2 DEF Ended
    <3>2. rows[r] \in Seq(ToSet(rows[r])) /\ DOMAIN rows[r] = {} BY <2>1
    <3>3. rows[r] \in Bijection({}, {})
      BY <2>1, <3>2 DEF Bijection, Injection, Surjection, IsInjective
    <3> QED BY <3>1, <3>2, <3>3 DEF Collected
  <2> QED BY <2>1, <2>3, <2>4 DEF CsvOk
<1> QED BY <1>1, <1>2 DEF ReportInv

\* The invariant of the regressions: every run is where its files say it is, the
\* rows that run_list.py collected are those of the runs that ended, each run
\* once and with what its own verdict.txt says, and a CSV is the rows.
THEOREM ReportsAreKept == Spec => []ReportInv
<1>1. Init => ReportInv BY InitKeeps
<1>2. ReportInv /\ [Next]_vars => ReportInv' BY NextKeeps
<1> QED BY <1>1, <1>2, PTL DEF Spec

-----------------------------------------------------------------------------
(* What a verdict says of its run.                                         *)

\* The first and the last verdict among such lines are the same one.
LEMMA VerdictIs ==
  ASSUME NEW lines, NEW word \in Words, OneVerdict(lines, word)
  PROVE  /\ \E n \in Nat : Verdicts(lines) = {n + 1} /\ lines[n + 1].word = word /\ n + 1 \in DOMAIN lines
         /\ Verdicts(lines) # {}
         /\ RunListStatus(lines).word = word
         /\ lines # NoFile => ScanVerdict(lines) = word
         /\ lines[Max(Verdicts(lines))].word = word
<1>1. PICK n \in Nat : /\ DOMAIN lines = 1..n + 1 /\ lines[n + 1].word = word
                       /\ \A i \in 1..n : lines[i].word = "XPASS"
  BY DEF OneVerdict
<1>2. Verdicts(lines) = {n + 1}
  <2>1. "XPASS" \notin Words BY DEF Words
  <2>2. \A i \in DOMAIN lines : i = n + 1 \/ i \in 1..n BY <1>1
  <2>3. n + 1 \in DOMAIN lines BY <1>1
  <2> QED BY <1>1, <2>1, <2>2, <2>3 DEF Verdicts
<1>3. n + 1 \in DOMAIN lines BY <1>1
<1>4. Min(Verdicts(lines)) = n + 1 /\ Max(Verdicts(lines)) = n + 1
  <2>1. PICK m \in Nat : m = n + 1 OBVIOUS
  <2>2. Min({m}) = m /\ Max({m}) = m BY OnlyOne
  <2> QED BY <1>2, <2>1, <2>2
<1>5. RunListStatus(lines).word = word
  <2>1. lines[Min(Verdicts(lines))].word = word BY <1>1, <1>4
  <2> QED BY <1>2, <2>1 DEF RunListStatus, Failed
<1>6. lines # NoFile => ScanVerdict(lines) = word
  BY <1>1, <1>2, <1>4 DEF ScanVerdict
<1> QED BY <1>1, <1>2, <1>3, <1>4, <1>5, <1>6

LEMMA OutcomeIs ==
  ASSUME NEW log, NEW test
  PROVE  Outcome(log, test) \in Words
BY DEF Outcome, Words

LEMMA FailIs == OneVerdict(<<Line("FAIL", {})>>, "FAIL")
<1>1. PICK s : s = <<Line("FAIL", {})>> OBVIOUS
<1>2. DOMAIN s = 1..0 + 1 /\ s[0 + 1].word = "FAIL" /\ 0 \in Nat BY <1>1 DEF Line
<1> QED BY <1>1, <1>2 DEF OneVerdict

\* A run with a verdict: its file is check_run.py's judgement of the log it
\* left, or that of a log that was not complete.
LEMMA SaysIs ==
  ASSUME ReportInv, NEW x \in AllRuns
  PROVE  /\ HasVerdict(x) <=> R(x).vfile \notin {NoFile, <<>>}
         /\ \A word \in Words : Says(x, word) <=> ScanVerdict(R(x).vfile) = word
         /\ ~HasVerdict(x) => ScanVerdict(R(x).vfile) = "unjudged"
         /\ HasVerdict(x) => \E word \in Words : Says(x, word) /\ OneVerdict(R(x).vfile, word)
         /\ HasVerdict(x) => /\ R(x).pc = "ended" /\ R(x).dir
                             /\ \/ R(x).vfile = <<Line("FAIL", {})>> /\ Says(x, "FAIL")
                                \/ /\ R(x).sim = "ended" /\ R(x).log \in LogsOf[Job(x).test]
                                   /\ R(x).vfile = Judge(R(x).log, Job(x).test)
                                   /\ Says(x, Outcome(R(x).log, Job(x).test))
<1>1. RunOk(R(x), Job(x).test) BY JobOf
<1>2. NoFile # <<>> /\ NoFile # <<Line("FAIL", {})>>
      /\ \A log \in LogsOf[Job(x).test] : NoFile # Judge(log, Job(x).test)
  BY NoFileIs
<1>3. "unjudged" \notin Words BY DEF Words
<1>4. CASE R(x).vfile \in {NoFile, <<>>}
  <2>1. ~HasVerdict(x)
    <3>1. Verdicts(<<>>) = {} BY DEF Verdicts
    <3> QED BY <1>4, <3>1 DEF HasVerdict
  <2>2. ScanVerdict(R(x).vfile) = "unjudged" BY <2>1 DEF HasVerdict, ScanVerdict
  <2>3. \A word \in Words : ~Says(x, word) BY <2>1 DEF Says
  <2> QED BY <1>3, <1>4, <2>1, <2>2, <2>3
<1>5. ASSUME NEW word \in Words, OneVerdict(R(x).vfile, word), R(x).vfile # NoFile
      PROVE  /\ HasVerdict(x) /\ Says(x, word) /\ ScanVerdict(R(x).vfile) = word
             /\ \A w \in Words : Says(x, w) <=> w = word
  <2>1. PICK lines : lines = R(x).vfile OBVIOUS
  <2>2. /\ Verdicts(lines) # {} /\ RunListStatus(lines).word = word
        /\ lines # NoFile => ScanVerdict(lines) = word
    BY <1>5, <2>1, VerdictIs
  <2>3. HasVerdict(x) BY <1>5, <2>1, <2>2 DEF HasVerdict
  <2>4. Judged(x) = word BY <1>5, <2>1, <2>2 DEF Judged
  <2> QED BY <1>5, <2>1, <2>2, <2>3, <2>4 DEF Says
<1>6. CASE R(x).vfile = <<Line("FAIL", {})>>
  <2>1. "FAIL" \in Words BY DEF Words
  <2>2. OneVerdict(R(x).vfile, "FAIL") BY <1>6, FailIs
  <2>3. R(x).vfile \notin {NoFile, <<>>} BY <1>2, <1>6
  <2>4. /\ HasVerdict(x) /\ Says(x, "FAIL") /\ ScanVerdict(R(x).vfile) = "FAIL"
        /\ \A w \in Words : Says(x, w) <=> w = "FAIL"
    BY <1>5, <2>1, <2>2, <2>3
  <2>5. R(x).pc = "ended" /\ R(x).dir BY <1>1, <1>2, <1>6, <2>3 DEF RunOk, VerdictOk
  <2> QED BY <1>6, <2>1, <2>2, <2>3, <2>4, <2>5
<1>7. CASE /\ R(x).vfile = Judge(R(x).log, Job(x).test) /\ R(x).pc = "ended" /\ R(x).sim = "ended"
           /\ R(x).vfile \notin {NoFile, <<>>}
  <2> DEFINE word == Outcome(R(x).log, Job(x).test)
  <2>1. word \in Words BY OutcomeIs
  <2>2. OneVerdict(R(x).vfile, word) BY <1>7, JudgeIs
  <2>3. R(x).log \in LogsOf[Job(x).test] /\ R(x).dir BY <1>1, <1>7 DEF RunOk, LogOk
  <2>4. /\ HasVerdict(x) /\ Says(x, word) /\ ScanVerdict(R(x).vfile) = word
        /\ \A w \in Words : Says(x, w) <=> w = word
    <3> HIDE DEF word
    <3> QED BY <1>5, <1>7, <2>1, <2>2
  <2> QED BY <1>7, <2>1, <2>2, <2>3, <2>4
<1>8. \/ R(x).vfile \in {NoFile, <<>>} \/ R(x).vfile = <<Line("FAIL", {})>>
      \/ /\ R(x).vfile = Judge(R(x).log, Job(x).test) /\ R(x).pc = "ended" /\ R(x).sim = "ended"
         /\ R(x).vfile \notin {NoFile, <<>>}
  BY <1>1 DEF RunOk, VerdictOk
<1> QED BY <1>4, <1>6, <1>7, <1>8

\* An error explained by itself is the symptom of an entry that asks for no other.
LEMMA OwnMatch ==
  ASSUME NEW log, NEW test, NEW err, OwnBug(log, test, err) # 0
  PROVE  \E i \in Entries(log, test) :
           /\ i = OwnBug(log, test, err)
           /\ err \in Expected[i].errors /\ Expected[i].requires = None
<1> DEFINE places == {i \in Entries(log, test) : LET e == Expected[i] IN
                        err \in e.errors /\ (e.requires # None) = FALSE
                        /\ (e.requires = None \/ e.requires \in {})}
<1>1. OwnBug(log, test, err) = Foremost(places) BY DEF Match, OwnBug
<1>2. places \subseteq DOMAIN Expected BY DEF Entries
<1>3. Foremost(places) \in places
  <2> HIDE DEF places
  <2> QED BY <1>1, <1>2, ForemostIs
<1> QED BY <1>1, <1>3

\* An error explained by another is a symptom of a bug that showed its own.
LEMMA FollowOnMatch ==
  ASSUME NEW log, NEW test, NEW err, FollowOn(log, test, err) # 0
  PROVE  \E i \in Entries(log, test) : err \in Expected[i].errors /\ Expected[i].requires \in Bugs(log, test)
<1> DEFINE places == {i \in Entries(log, test) : LET e == Expected[i] IN
                        err \in e.errors /\ (e.requires # None) = TRUE
                        /\ (e.requires = None \/ e.requires \in Bugs(log, test))}
<1>1. FollowOn(log, test, err) = Foremost(places) BY DEF Match, FollowOn
<1>2. places \subseteq DOMAIN Expected BY DEF Entries
<1>3. Foremost(places) \in places
  <2> HIDE DEF places
  <2> QED BY <1>1, <1>2, ForemostIs
<1> QED BY <1>3

LEMMA ErrorsExplained ==
  ASSUME ReportInv
  PROVE  ExplainedErrors
<1> SUFFICES ASSUME NEW x \in AllRuns
             PROVE  /\ Says(x, "PASS") => R(x).sim = "ended" /\ R(x).log.summary /\ Errors(x) = {}
                    /\ Says(x, "XFAIL") =>
                         /\ R(x).sim = "ended" /\ R(x).log.summary /\ Errors(x) # {}
                         /\ \A err \in Errors(x) : \E e \in Known(x) :
                              err \in e.errors /\ (e.requires # None => Shows(x, e.requires))
  BY DEF ExplainedErrors
<1> DEFINE log == R(x).log
           test == Job(x).test
<1>1. "PASS" \in Words /\ "XFAIL" \in Words /\ "FAIL" \in Words BY DEF Words
<1>2. ASSUME NEW word \in {"PASS", "XFAIL"}, Says(x, word)
      PROVE  R(x).sim = "ended" /\ Outcome(log, test) = word
  <2>1. HasVerdict(x) BY <1>2 DEF Says
  <2>2. ~Says(x, "FAIL") BY <1>2 DEF Says
  <2> QED BY <1>2, <2>1, <2>2, SaysIs DEF Says
<1>3. Says(x, "PASS") => R(x).sim = "ended" /\ R(x).log.summary /\ Errors(x) = {}
  BY <1>2 DEF Outcome, Errors
<1>4. ASSUME Says(x, "XFAIL")
      PROVE  /\ R(x).sim = "ended" /\ R(x).log.summary /\ Errors(x) # {}
             /\ \A err \in Errors(x) : Explains(log, test, err)
  BY <1>2, <1>4 DEF Outcome, Errors
<1>5. ASSUME NEW err \in Errors(x), Explains(log, test, err)
      PROVE  \E e \in Known(x) : err \in e.errors /\ (e.requires # None => Shows(x, e.requires))
  <2>1. CASE OwnBug(log, test, err) # 0
    <3>1. PICK i \in Entries(log, test) : err \in Expected[i].errors /\ Expected[i].requires = None
      BY <2>1, OwnMatch
    <3> QED BY <3>1 DEF Known
  <2>2. CASE FollowOn(log, test, err) # 0
    <3>1. PICK i \in Entries(log, test) :
            err \in Expected[i].errors /\ Expected[i].requires \in Bugs(log, test)
      BY <2>2, FollowOnMatch
    <3>2. ASSUME NEW bug \in Bugs(log, test) PROVE Shows(x, bug)
      <4>1. PICK first \in Errors(x) : 
              OwnBug(log, test, first) # 0 /\ Expected[OwnBug(log, test, first)].bug = bug
        BY <3>2 DEF Bugs, Errors
      <4>2. PICK j \in Entries(log, test) :
              /\ j = OwnBug(log, test, first)
              /\ first \in Expected[j].errors /\ Expected[j].requires = None
        BY <4>1, OwnMatch
      <4>3. Expected[j].bug = bug /\ Expected[j] \in Known(x) BY <4>1, <4>2 DEF Known
      <4> QED BY <4>1, <4>2, <4>3 DEF Shows
    <3> QED BY <3>1, <3>2 DEF Known
  <2> QED BY <1>5, <2>1, <2>2 DEF Explains
<1> QED BY <1>3, <1>4, <1>5

\* A verdict of PASS or XFAIL in verdict.txt is never that of a log that
\* check_run.py read before the simulation was over, and says what the log shows:
\* no error, or none that is not a known bug's.
THEOREM VerdictsExplained == Spec => []ExplainedErrors
<1> QED BY ReportsAreKept, ErrorsExplained, PTL

-----------------------------------------------------------------------------
(* The comparison of two regressions.                                      *)

LEMMA RankIs ==
  ASSUME NEW status
  PROVE  Rank(status) = IF status.word = "PASS" THEN 0 ELSE IF status.word = "XFAIL" THEN 1 ELSE 2
<1>1. CASE status.word = "PASS" BY <1>1, Zenon DEF Rank
<1>2. CASE status.word # "PASS" /\ status.word = "XFAIL"
  <2>1. Rank(status) = 1 BY <1>2, Zenon DEF Rank
  <2> QED BY <1>2, <2>1
<1>3. CASE status.word # "PASS" /\ status.word # "XFAIL"
  <2>1. Rank(status) = 2 BY <1>3, Zenon DEF Rank
  <2> QED BY <1>3, <2>1
<1> QED BY <1>1, <1>2, <1>3

\* SetToSeq lists the members of a finite set, each once.
LEMMA SetToSeqIs ==
  ASSUME NEW S, IsFiniteSet(S)
  PROVE  /\ SetToSeq(S) \in [1..Cardinality(S) -> S] /\ Cardinality(S) \in Nat
         /\ \A i, j \in 1..Cardinality(S) : SetToSeq(S)[i] = SetToSeq(S)[j] => i = j
         /\ \A e \in S : \E i \in 1..Cardinality(S) : SetToSeq(S)[i] = e
<1>1. Cardinality(S) \in Nat /\ ExistsBijection(1..Cardinality(S), S) BY FS_CardinalityType
<1>2. \E f \in [1..Cardinality(S) -> S] : IsInjective(f)
  BY <1>1 DEF ExistsBijection, Bijection, Injection
<1>3. SetToSeq(S) \in [1..Cardinality(S) -> S] /\ IsInjective(SetToSeq(S))
  BY <1>2 DEF SetToSeq
<1>4. SetToSeq(S) \in Injection(1..Cardinality(S), S) BY <1>3 DEF Injection
<1>5. Cardinality(1..Cardinality(S)) = Cardinality(S)
  BY <1>1, FS_Interval
<1>6. SetToSeq(S) \in Surjection(1..Cardinality(S), S)
  BY <1>4, <1>5, FS_Injection
<1> HIDE DEF SetToSeq
<1> QED BY <1>1, <1>3, <1>6 DEF IsInjective, Surjection

\* The rows of a side are those of the CSV of its regression that have a directory.
Held(r) == {n \in DOMAIN csv[r] : csv[r][n].dir = r}
SideAt(r, f) == [p \in {f} \X Held(r) |-> csv[r][p[2]]]

\* A row of a CSV has the directory of its regression, or none and a failure.
LEMMA CsvRows ==
  ASSUME ReportInv, NEW r \in Rid, csv[r] # NoFile
  PROVE  /\ DOMAIN csv[r] = 1..Len(csv[r]) /\ Len(csv[r]) \in Nat /\ IsFiniteSet(DOMAIN csv[r])
         /\ \A n \in DOMAIN csv[r] : /\ csv[r][n].dir \in {r, None}
                                     /\ csv[r][n].dir = None => Rank(csv[r][n].status) = 2
<1>1. csv[r] = rows[r] /\ Collected(r) /\ RunsOk(r) BY DEF ReportInv, CsvOk
<1>2. PICK pos : /\ rows[r] \in Seq(ToSet(rows[r]))
                 /\ pos \in Bijection(DOMAIN rows[r], Ended(r))
                 /\ \A j \in DOMAIN rows[r] : rows[r][j] = RowFor(r, run[r][pos[j]])
  BY <1>1 DEF Collected
<1>3. DOMAIN rows[r] = 1..Len(rows[r]) /\ Len(rows[r]) \in Nat BY <1>2
<1>4. IsFiniteSet(DOMAIN rows[r]) BY <1>3, FS_Interval
<1>5. ASSUME NEW n \in DOMAIN rows[r]
      PROVE  /\ rows[r][n].dir \in {r, None}
             /\ rows[r][n].dir = None => Rank(rows[r][n].status) = 2
  <2>1. pos[n] \in DOMAIN run[r] BY <1>2 DEF Bijection, Injection, Ended
  <2>2. PICK u : u = run[r][pos[n]] OBVIOUS
  <2>3. ~u.dir => u.vfile = NoFile BY <1>1, <2>1, <2>2 DEF RunsOk, RunOk
  <2>4. /\ rows[r][n].dir = IF u.dir THEN r ELSE None
        /\ rows[r][n].status = IF u.vfile = NoFile THEN Failed ELSE RunListStatus(u.vfile)
    <3>1. PICK w : w = rows[r][n] OBVIOUS
    <3>2. w = RowFor(r, u) BY <1>2, <2>2, <3>1
    <3>3. w.dir = (IF u.dir THEN r ELSE None) /\ w.status = IF u.vfile = NoFile THEN Failed ELSE RunListStatus(u.vfile)
      BY <3>2 DEF RowFor
    <3> QED BY <3>1, <3>3
  <2>5. r # None BY JobsAssumption
  <2>6. Rank(Failed) = 2 BY RankIs DEF Failed
  <2> QED BY <2>3, <2>4, <2>5, <2>6
<1> QED BY <1>1, <1>3, <1>4, <1>5

\* A side of the comparison that is not empty is the CSV of its regression: the
\* other CSVs have no row with its directory.
LEMMA SideIs ==
  ASSUME ReportInv, NEW r \in Rid, RowsFrom(Csvs, r) # [p \in {} |-> 0]
  PROVE  csv[r] # NoFile /\ \E f \in Nat : RowsFrom(Csvs, r) = SideAt(r, f)
<1>1. PICK S : S = {s \in Rid : csv[s] # NoFile} OBVIOUS
<1>2. IsFiniteSet(S) /\ S \subseteq Rid BY <1>1, ReportsAssumption, FS_Subset
<1>3. PICK order : order = SetToSeq(S) OBVIOUS
<1>4. PICK n \in Nat : /\ order \in [1..n -> S]
                       /\ \A i, j \in 1..n : order[i] = order[j] => i = j
                       /\ \A e \in S : \E i \in 1..n : order[i] = e
  BY <1>2, <1>3, SetToSeqIs
<1>5. PICK csvs : csvs = Csvs OBVIOUS
<1>6. csvs = [f \in 1..n |-> csv[order[f]]]
  <2>1. csvs = [f \in DOMAIN order |-> csv[order[f]]] BY <1>1, <1>3, <1>5, Zenon DEF Csvs
  <2> QED BY <1>4, <2>1
<1>7. PICK places : places = {q \in UNION {{f} \X (DOMAIN csvs[f]) : f \in DOMAIN csvs} : csvs[q[1]][q[2]].dir = r}
  OBVIOUS
<1>8. RowsFrom(Csvs, r) = [p \in places |-> csvs[p[1]][p[2]]] BY <1>5, <1>7 DEF RowsFrom
<1>9. ASSUME NEW p \in places
      PROVE  p[1] \in 1..n /\ order[p[1]] = r /\ r \in S /\ p[2] \in Held(r) /\ p = <<p[1], p[2]>>
             /\ csvs[p[1]][p[2]] = csv[r][p[2]]
  <2>1. /\ p[1] \in 1..n /\ p[2] \in DOMAIN csvs[p[1]] /\ csvs[p[1]][p[2]].dir = r
        /\ p = <<p[1], p[2]>>
    BY <1>6, <1>7
  <2>2. PICK s \in S : s = order[p[1]] BY <1>4, <2>1
  <2>3. csvs[p[1]] = csv[s] BY <1>6, <2>1, <2>2
  <2>4. s \in Rid /\ csv[s] # NoFile BY <1>1
  <2>5. csv[s][p[2]].dir \in {s, None} BY <2>1, <2>3, <2>4, CsvRows
  <2>6. r # None BY JobsAssumption
  <2>7. s = r BY <2>1, <2>3, <2>5, <2>6
  <2> QED BY <2>1, <2>2, <2>3, <2>7 DEF Held
<1>10. PICK p \in places : TRUE
  <2>1. places # {} BY <1>8
  <2> QED BY <2>1
<1>11. PICK f \in 1..n : order[f] = r BY <1>9, <1>10
<1>12. places = {f} \X Held(r)
  <2>1. ASSUME NEW q \in places PROVE q \in {f} \X Held(r)
    <3>1. q[1] = f BY <1>4, <1>9, <1>11
    <3> QED BY <1>9, <3>1
  <2>2. ASSUME NEW k \in Held(r) PROVE <<f, k>> \in places
    <3>1. csvs[f] = csv[r] BY <1>6, <1>11
    <3>2. f \in DOMAIN csvs /\ k \in DOMAIN csvs[f] /\ csvs[f][k].dir = r BY <1>6, <1>11, <3>1 DEF Held
    <3> QED BY <1>7, <3>2
  <2> QED BY <2>1, <2>2
<1>13. RowsFrom(Csvs, r) = SideAt(r, f)
  BY <1>8, <1>9, <1>12 DEF SideAt
<1>14. csv[r] # NoFile /\ f \in Nat BY <1>1, <1>9, <1>10
<1> QED BY <1>13, <1>14

LEMMA PairIs ==
  ASSUME NEW f, NEW N, NEW p \in {f} \X N
  PROVE  p[1] = f /\ p[2] \in N /\ p = <<f, p[2]>>
OBVIOUS

LEMMA PlaceIs ==
  ASSUME NEW f, NEW N, N \subseteq Nat, NEW p, p \in {f} \X N
  PROVE  p[1] = f /\ p[2] \in N /\ p[2] \in Nat /\ p = <<p[1], p[2]>>
<1>1. p[1] = f /\ p[2] \in N /\ p = <<f, p[2]>> BY PairIs
<1> QED BY <1>1

LEMMA OccurrenceType ==
  ASSUME NEW side, IsFiniteSet(DOMAIN side), NEW p
  PROVE  Occurrence(side, p) \in Nat
<1>1. PICK U : U = {y \in DOMAIN side : UpTo(y, p) /\ RunKey(side[y]) = RunKey(side[p])} OBVIOUS
<1>2. IsFiniteSet(U) BY <1>1, FS_Subset
<1>3. Cardinality(U) \in Nat BY <1>2, FS_CardinalityType
<1> QED BY <1>1, <1>3 DEF Occurrence

\* Of two rows of equal runs the later one has the greater occurrence.
LEMMA OccurrencesDiffer ==
  ASSUME NEW f, f \in Nat, NEW N, N \subseteq Nat, IsFiniteSet(N), NEW side, DOMAIN side = {f} \X N,
         NEW p \in DOMAIN side, NEW q \in DOMAIN side, p[2] < q[2],
         RunKey(side[p]) = RunKey(side[q])
  PROVE  Occurrence(side, p) < Occurrence(side, q)
<1>1. IsFiniteSet(DOMAIN side)
  <2>1. IsFiniteSet({f}) BY FS_Singleton
  <2> QED BY <2>1, FS_Product
<1>2. PICK U : U = {y \in DOMAIN side : UpTo(y, p) /\ RunKey(side[y]) = RunKey(side[p])} OBVIOUS
<1>3. PICK V : V = {y \in DOMAIN side : UpTo(y, q) /\ RunKey(side[y]) = RunKey(side[q])} OBVIOUS
<1>4. U \subseteq V
  <2>1. ASSUME NEW y \in U PROVE UpTo(y, q)
    <3>1. y[1] = f /\ y[2] \in Nat /\ p[1] = f /\ p[2] \in Nat /\ q[1] = f /\ q[2] \in Nat /\ UpTo(y, p)
      <4>1. y \in DOMAIN side /\ UpTo(y, p) BY <1>2
      <4> QED BY <4>1, PlaceIs
    <3> QED BY <3>1 DEF UpTo
  <2> QED BY <1>2, <1>3, <2>1
<1>5. q \in V /\ q \notin U
  <2>1. p[1] = f /\ p[2] \in Nat /\ q[1] = f /\ q[2] \in Nat BY PlaceIs
  <2>2. UpTo(q, q) /\ ~UpTo(q, p) BY <2>1 DEF UpTo
  <2> QED BY <1>2, <1>3, <2>2
<1>6. IsFiniteSet(V) BY <1>1, <1>3, FS_Subset
<1>7. /\ IsFiniteSet(U) /\ Cardinality(U) <= Cardinality(V) /\ (Cardinality(U) = Cardinality(V) => U = V)
  BY <1>4, <1>6, FS_Subset
<1>8. Cardinality(U) \in Nat /\ Cardinality(V) \in Nat BY <1>6, <1>7, FS_CardinalityType
<1>9. Occurrence(side, p) = Cardinality(U) /\ Occurrence(side, q) = Cardinality(V)
  BY <1>2, <1>3 DEF Occurrence
<1> QED BY <1>5, <1>7, <1>8, <1>9

\* The key of a row is its own
LEMMA KeysDiffer ==
  ASSUME NEW f, f \in Nat, NEW N, N \subseteq Nat, IsFiniteSet(N), NEW side, DOMAIN side = {f} \X N,
         NEW p \in DOMAIN side, NEW q \in DOMAIN side, KeyOf(side, p) = KeyOf(side, q)
  PROVE  p = q
<1>1. RunKey(side[p]) = RunKey(side[q]) /\ Occurrence(side, p) = Occurrence(side, q)
  BY DEF KeyOf
<1>2. p[1] = f /\ p[2] \in Nat /\ q[1] = f /\ q[2] \in Nat /\ p = <<p[1], p[2]>> /\ q = <<q[1], q[2]>>
  BY PlaceIs
<1>3. ~(p[2] < q[2])
  <2> SUFFICES ASSUME p[2] < q[2] PROVE FALSE OBVIOUS
  <2>1. Occurrence(side, p) < Occurrence(side, q) BY <1>1, OccurrencesDiffer
  <2>2. PICK k : k = Occurrence(side, p) OBVIOUS
  <2>3. k < k BY <1>1, <2>1, <2>2
  <2>4. k \in Nat
    <3>1. IsFiniteSet(DOMAIN side)
      <4>1. IsFiniteSet({f}) BY FS_Singleton
      <4> QED BY <4>1, FS_Product
    <3> QED BY <2>2, <3>1, OccurrenceType
  <2> QED BY <2>3, <2>4
<1>4. ~(q[2] < p[2])
  <2> SUFFICES ASSUME q[2] < p[2] PROVE FALSE OBVIOUS
  <2>1. Occurrence(side, q) < Occurrence(side, p) BY <1>1, OccurrencesDiffer
  <2>2. PICK k : k = Occurrence(side, q) OBVIOUS
  <2>3. k < k BY <1>1, <2>1, <2>2
  <2>4. k \in Nat
    <3>1. IsFiniteSet(DOMAIN side)
      <4>1. IsFiniteSet({f}) BY FS_Singleton
      <4> QED BY <4>1, FS_Product
    <3> QED BY <2>2, <3>1, OccurrenceType
  <2> QED BY <2>3, <2>4
<1> QED BY <1>2, <1>3, <1>4

\* All rows of a side are in one file.
OneFile(side) == \E f \in Nat : \E N \in SUBSET Nat : IsFiniteSet(N) /\ DOMAIN side = {f} \X N

LEMMA OwnKey ==
  ASSUME NEW side, OneFile(side), NEW p \in DOMAIN side, NEW q \in DOMAIN side,
         KeyOf(side, p) = KeyOf(side, q)
  PROVE  p = q
<1>1. PICK f \in Nat : \E N \in SUBSET Nat : IsFiniteSet(N) /\ DOMAIN side = {f} \X N BY DEF OneFile
<1>2. PICK N \in SUBSET Nat : IsFiniteSet(N) /\ DOMAIN side = {f} \X N BY <1>1
<1> QED BY <1>2, KeysDiffer

\* So no row replaces another when a side is loaded.
LEMMA LoadIs ==
  ASSUME NEW side, OneFile(side)
  PROVE  /\ \A k : k \in DOMAIN Load(side) <=> \E p \in DOMAIN side : k = KeyOf(side, p)
         /\ \A p \in DOMAIN side : Load(side)[KeyOf(side, p)] = side[p]
<1> DEFINE last(places) == CHOOSE p \in places : \A q \in places : UpTo(q, p)
           keys == {KeyOf(side, p) : p \in DOMAIN side}
<1>1. Load(side) = [k \in keys |-> side[last({p \in DOMAIN side : KeyOf(side, p) = k})]]
  BY Zenon DEF Load
<1>2. ASSUME NEW p \in DOMAIN side PROVE Load(side)[KeyOf(side, p)] = side[p]
  <2>1. PICK k : k = KeyOf(side, p) OBVIOUS
  <2>2. PICK places : places = {q \in DOMAIN side : KeyOf(side, q) = k} OBVIOUS
  <2>3. places = {p} BY <2>1, <2>2, OwnKey
  <2>4. UpTo(p, p)
    <3>1. PICK f \in Nat : \E N \in SUBSET Nat : IsFiniteSet(N) /\ DOMAIN side = {f} \X N BY DEF OneFile
    <3>2. PICK N \in SUBSET Nat : IsFiniteSet(N) /\ DOMAIN side = {f} \X N BY <3>1
    <3>3. p[1] = f /\ p[2] \in Nat BY <3>2, PlaceIs
    <3> QED BY <3>3 DEF UpTo
  <2>5. last(places) = p BY <2>3, <2>4
  <2>6. Load(side)[k] = side[last(places)]
    <3> HIDE DEF last
    <3> QED BY <1>1, <2>1, <2>2
  <2> HIDE DEF last
  <2> QED BY <2>1, <2>5, <2>6
<1> HIDE DEF last
<1> QED BY <1>1, <1>2

\* Exit status 0: every key of the base is in the other side and no worse there.
LEMMA CompareIs ==
  ASSUME NEW base, NEW after, Compare(base, after) = 0
  PROVE  /\ DOMAIN base # {} /\ DOMAIN after # {}
         /\ \A k \in DOMAIN base : k \in DOMAIN after /\ Rank(after[k].status) <= Rank(base[k].status)
<1>1. DOMAIN base # {} /\ DOMAIN after # {} /\ Degraded(base, after) \cup Dropped(base, after) = {}
  <2>1. CASE DOMAIN base = {} \/ DOMAIN after = {}
    <3>1. Compare(base, after) = 2 BY <2>1, Zenon DEF Compare
    <3> QED BY <3>1
  <2>2. CASE ~(DOMAIN base = {} \/ DOMAIN after = {}) /\ Degraded(base, after) \cup Dropped(base, after) # {}
    <3>1. Compare(base, after) = 1 BY <2>2, Zenon DEF Compare
    <3> QED BY <3>1
  <2> QED BY <2>1, <2>2
<1>2. ASSUME NEW k \in DOMAIN base
      PROVE  k \in DOMAIN after /\ Rank(after[k].status) <= Rank(base[k].status)
  <2>1. k \in DOMAIN after BY <1>1 DEF Dropped
  <2>2. ~(Rank(after[k].status) > Rank(base[k].status)) BY <1>1, <2>1 DEF Degraded
  <2>3. Rank(after[k].status) \in Int /\ Rank(base[k].status) \in Int BY RankIs
  <2> QED BY <2>1, <2>2, <2>3
<1> QED BY <1>1, <1>2

LEMMA NothingWorse ==
  ASSUME ReportInv
  PROVE  NothingGotWorse
<1> SUFFICES ASSUME NEW b \in Rid, NEW a \in Rid, CompareExit(b, a) = 0,
                    NEW key, NEW rank \in 0..1
             PROVE  Cardinality(Better(a, key, rank)) >= Cardinality(Better(b, key, rank))
  BY DEF NothingGotWorse
<1>1. PICK base : base = RowsFrom(Csvs, b) OBVIOUS
<1>2. PICK after : after = RowsFrom(Csvs, a) OBVIOUS
<1>3. Compare(Load(base), Load(after)) = 0 BY <1>1, <1>2 DEF CompareExit
<1>4. /\ DOMAIN Load(base) # {} /\ DOMAIN Load(after) # {}
      /\ \A k \in DOMAIN Load(base) :
           k \in DOMAIN Load(after) /\ Rank(Load(after)[k].status) <= Rank(Load(base)[k].status)
  BY <1>3, CompareIs
<1>5. base # [p \in {} |-> 0] /\ after # [p \in {} |-> 0]
  <2>1. \A side : DOMAIN side = {} => DOMAIN Load(side) = {}
    <3> TAKE side
    <3> DEFINE last(places) == CHOOSE p \in places : \A q \in places : UpTo(q, p)
    <3>1. Load(side) = [k \in {KeyOf(side, p) : p \in DOMAIN side} |-> side[last({p \in DOMAIN side : KeyOf(side, p) = k})]]
      BY Zenon DEF Load
    <3> HIDE DEF last
    <3> QED BY <3>1
  <2> QED BY <1>4, <2>1
<1>6. PICK fb \in Nat : csv[b] # NoFile /\ base = SideAt(b, fb) BY <1>1, <1>5, SideIs
<1>7. PICK fa \in Nat : csv[a] # NoFile /\ after = SideAt(a, fa) BY <1>2, <1>5, SideIs
<1>8. ASSUME NEW r \in {a, b} PROVE Held(r) \subseteq Nat /\ IsFiniteSet(Held(r)) /\ Held(r) \subseteq DOMAIN csv[r]
  <2>1. DOMAIN csv[r] = 1..Len(csv[r]) /\ Len(csv[r]) \in Nat /\ IsFiniteSet(DOMAIN csv[r])
    BY <1>6, <1>7, CsvRows
  <2> QED BY <2>1, FS_Subset DEF Held
<1>9. /\ DOMAIN base = {fb} \X Held(b) /\ \A n \in Held(b) : base[<<fb, n>>] = csv[b][n]
      /\ DOMAIN after = {fa} \X Held(a) /\ \A n \in Held(a) : after[<<fa, n>>] = csv[a][n]
  BY <1>6, <1>7 DEF SideAt
<1>10. /\ \A k : k \in DOMAIN Load(base) <=> \E p \in DOMAIN base : k = KeyOf(base, p)
       /\ \A p \in DOMAIN base : Load(base)[KeyOf(base, p)] = base[p]
       /\ \A k : k \in DOMAIN Load(after) <=> \E p \in DOMAIN after : k = KeyOf(after, p)
       /\ \A p \in DOMAIN after : Load(after)[KeyOf(after, p)] = after[p]
  <2>1. PICK B : B = Held(b) OBVIOUS
  <2>2. PICK A : A = Held(a) OBVIOUS
  <2>3. B \subseteq Nat /\ IsFiniteSet(B) /\ A \subseteq Nat /\ IsFiniteSet(A) BY <1>8, <2>1, <2>2
  <2>4. DOMAIN base = {fb} \X B /\ DOMAIN after = {fa} \X A BY <1>9, <2>1, <2>2
  <2>5. OneFile(base) /\ OneFile(after) BY <2>3, <2>4 DEF OneFile
  <2>6. /\ \A k : k \in DOMAIN Load(base) <=> \E p \in DOMAIN base : k = KeyOf(base, p)
        /\ \A p \in DOMAIN base : Load(base)[KeyOf(base, p)] = base[p]
    BY <2>5, LoadIs
  <2>7. /\ \A k : k \in DOMAIN Load(after) <=> \E p \in DOMAIN after : k = KeyOf(after, p)
        /\ \A p \in DOMAIN after : Load(after)[KeyOf(after, p)] = after[p]
    BY <2>5, LoadIs
  <2> QED BY <2>6, <2>7
<1> DEFINE Partner(j, k) == k \in Held(a) /\ KeyOf(after, <<fa, k>>) = KeyOf(base, <<fb, j>>)
<1>11. ASSUME NEW j \in Held(b)
       PROVE  \E k \in Held(a) : Partner(j, k) /\ RunKey(csv[a][k]) = RunKey(csv[b][j])
                                 /\ Rank(csv[a][k].status) <= Rank(csv[b][j].status)
  <2>1. <<fb, j>> \in DOMAIN base /\ base[<<fb, j>>] = csv[b][j] BY <1>9
  <2>2. PICK q \in DOMAIN after : KeyOf(after, q) = KeyOf(base, <<fb, j>>)
    BY <1>4, <1>10, <2>1
  <2>3. q = <<fa, q[2]>> /\ q[2] \in Held(a) /\ after[q] = csv[a][q[2]] BY <1>9
  <2>4. RunKey(after[q]) = RunKey(base[<<fb, j>>]) BY <2>2 DEF KeyOf
  <2>5. Rank(after[q].status) <= Rank(base[<<fb, j>>].status)
    BY <1>4, <1>10, <2>1, <2>2
  <2> QED BY <2>1, <2>2, <2>3, <2>4, <2>5
<1>12. ASSUME NEW j \in Better(b, key, rank)
       PROVE  j \in Held(b) /\ \E k \in Better(a, key, rank) : Partner(j, k)
  <2>1. j \in DOMAIN csv[b] /\ RunKey(csv[b][j]) = key /\ Rank(csv[b][j].status) <= rank
    BY DEF Better
  <2>2. csv[b][j].dir = b BY <1>6, <2>1, CsvRows
  <2>3. j \in Held(b) BY <2>1, <2>2 DEF Held
  <2>4. PICK k \in Held(a) : Partner(j, k) /\ RunKey(csv[a][k]) = RunKey(csv[b][j])
                             /\ Rank(csv[a][k].status) <= Rank(csv[b][j].status)
    BY <1>11, <2>3
  <2>5. Rank(csv[a][k].status) \in Int /\ Rank(csv[b][j].status) \in Int BY RankIs
  <2>6. Rank(csv[a][k].status) <= rank BY <2>1, <2>4, <2>5
  <2>7. k \in DOMAIN csv[a] BY <1>8
  <2>8. k \in Better(a, key, rank) BY <2>1, <2>4, <2>6, <2>7 DEF Better
  <2> QED BY <2>3, <2>4, <2>8
<1> DEFINE f == [j \in Better(b, key, rank) |-> CHOOSE k \in Better(a, key, rank) : Partner(j, k)]
<1>13. f \in [Better(b, key, rank) -> Better(a, key, rank)] /\ \A j \in Better(b, key, rank) : Partner(j, f[j])
  <2> HIDE DEF Partner
  <2> QED BY <1>12
<1>14. ASSUME NEW i \in Better(b, key, rank), NEW j \in Better(b, key, rank), f[i] = f[j]
       PROVE  i = j
  <2> HIDE DEF f
  <2>1. KeyOf(base, <<fb, i>>) = KeyOf(base, <<fb, j>>) BY <1>13, <1>14
  <2>2. <<fb, i>> \in DOMAIN base /\ <<fb, j>> \in DOMAIN base BY <1>9, <1>12
  <2>3. <<fb, i>> = <<fb, j>>
    <3>1. PICK B : B = Held(b) OBVIOUS
    <3>2. B \subseteq Nat /\ IsFiniteSet(B) /\ DOMAIN base = {fb} \X B BY <1>8, <1>9, <3>1
    <3>3. OneFile(base) BY <3>2 DEF OneFile
    <3> QED BY <2>1, <2>2, <3>3, OwnKey
  <2> QED BY <2>3
<1> HIDE DEF f, Partner
<1>15. f \in Injection(Better(b, key, rank), Better(a, key, rank))
  BY <1>13, <1>14 DEF Injection, IsInjective
<1>16. IsFiniteSet(Better(a, key, rank)) /\ Better(a, key, rank) \subseteq DOMAIN csv[a]
  <2>1. Better(a, key, rank) \subseteq DOMAIN csv[a] BY DEF Better
  <2> QED BY <1>7, <2>1, CsvRows, FS_Subset
<1>17. IsFiniteSet(Better(b, key, rank)) /\ Cardinality(Better(b, key, rank)) <= Cardinality(Better(a, key, rank))
  BY <1>15, <1>16, FS_Injection
<1> QED BY <1>16, <1>17, FS_CardinalityType

\* When compare_results.py finds nothing, nothing got worse: the occurrence that
\* it counts makes the key of a row its own, so the two tables lose no row, and
\* a row without a directory, which it leaves out, is a failure.
THEOREM ComparisonSound == Spec => []NothingGotWorse
<1> QED BY ReportsAreKept, NothingWorse, PTL

\* The rows J are those of the runs Y
RowsOf(r, pos, J, Y) ==
  (\A j \in J : <<r, pos[j]>> \in Y) /\ (\A y \in Y : \E j \in J : y = <<r, pos[j]>>)

-----------------------------------------------------------------------------
(* The readers of verdict.txt, of make's output and of the log.            *)

LEMMA Matched ==
  ASSUME NEW r, NEW D, NEW E, NEW pos \in Bijection(D, E), IsFiniteSet(D),
         NEW J \in SUBSET D, NEW Y, RowsOf(r, pos, J, Y)
  PROVE  Cardinality(J) = Cardinality(Y)
<1>0. (\A j \in J : <<r, pos[j]>> \in Y) /\ (\A y \in Y : \E j \in J : y = <<r, pos[j]>>)
  BY DEF RowsOf
<1> DEFINE g == [j \in J |-> <<r, pos[j]>>]
<1>1. \A i, j \in D : pos[i] = pos[j] => i = j BY DEF Bijection, Injection, IsInjective
<1>2. g \in [J -> Y] BY <1>0
<1>3. \A i, j \in J : g[i] = g[j] => i = j BY <1>1
<1>4. \A y \in Y : \E j \in J : g[j] = y BY <1>0
<1>5. g \in Bijection(J, Y)
  <2> HIDE DEF g
  <2> QED BY <1>2, <1>3, <1>4 DEF Bijection, Injection, Surjection, IsInjective
<1>6. IsFiniteSet(J) BY FS_Subset
<1> HIDE DEF g
<1> QED BY <1>5, <1>6, FS_Bijection DEF ExistsBijection

\* The rows and the runs that ended, with what each row says of its run.
LEMMA RowsAre ==
  ASSUME ReportInv, NEW r \in Rid
  PROVE  /\ IsFiniteSet(DOMAIN rows[r])
         /\ \E pos \in Bijection(DOMAIN rows[r], Ended(r)) : \A j \in DOMAIN rows[r] :
              LET x == <<r, pos[j]>> IN
              /\ x \in RunsIn(r) /\ R(x).pc = "ended"
              /\ What(rows[r][j]) = RanAs(x)
              /\ R(x).vfile # NoFile => rows[r][j].status = RunListStatus(R(x).vfile)
              /\ \A word \in {"PASS", "XFAIL"} :
                   rows[r][j].status.word = word <=> ScanVerdict(R(x).vfile) = word
<1>1. Collected(r) BY DEF ReportInv
<1>2. PICK pos : /\ rows[r] \in Seq(ToSet(rows[r]))
                 /\ pos \in Bijection(DOMAIN rows[r], Ended(r))
                 /\ \A j \in DOMAIN rows[r] : rows[r][j] = RowFor(r, run[r][pos[j]])
  BY <1>1 DEF Collected
<1>3. IsFiniteSet(DOMAIN rows[r])
  <2>1. DOMAIN rows[r] = 1..Len(rows[r]) /\ Len(rows[r]) \in Nat BY <1>2
  <2> QED BY <2>1, FS_Interval
<1>4. ASSUME NEW j \in DOMAIN rows[r], NEW x, x = <<r, pos[j]>>
      PROVE  /\ x \in RunsIn(r) /\ R(x).pc = "ended"
             /\ What(rows[r][j]) = RanAs(x)
             /\ R(x).vfile # NoFile => rows[r][j].status = RunListStatus(R(x).vfile)
             /\ \A word \in {"PASS", "XFAIL"} :
                  rows[r][j].status.word = word <=> ScanVerdict(R(x).vfile) = word
  <2>1. pos[j] \in DOMAIN run[r] /\ run[r][pos[j]].pc = "ended"
    BY <1>2 DEF Bijection, Injection, Ended
  <2>2. x \in RunsIn(r) /\ x \in AllRuns /\ R(x) = run[r][pos[j]]
    BY <1>4, <2>1 DEF RunsIn, AllRuns, R
  <2>3. PICK row : row = rows[r][j] OBVIOUS
  <2>4. PICK u : u = R(x) OBVIOUS
  <2>5. row = RowFor(r, u) BY <1>2, <2>2, <2>3, <2>4
  <2>6. /\ row.test = u.job.e.test /\ row.args = u.job.e.args /\ row.seed = u.job.seed
        /\ row.build = BuildOf[r] /\ row.status = IF u.vfile = NoFile THEN Failed ELSE RunListStatus(u.vfile)
    BY <2>5 DEF RowFor
  <2>7. What(row) = RanAs(x)
    BY <1>4, <2>4, <2>6 DEF What, RanAs, Row, Job, Seed
  <2>8. ASSUME NEW word \in {"PASS", "XFAIL"}
        PROVE  row.status.word = word <=> ScanVerdict(R(x).vfile) = word
    <3>1. word \in Words BY DEF Words
    <3>2. Says(x, word) <=> ScanVerdict(R(x).vfile) = word BY <2>2, <3>1, SaysIs
    <3>3. row.status.word = Judged(x)
      BY <2>4, <2>6, StatusOf0 DEF Judged
    <3>4. Judged(x) = word => HasVerdict(x)
      <4>1. Failed.word # word BY DEF Failed
      <4>2. R(x).vfile \in {NoFile, <<>>} => Judged(x) = Failed.word BY StatusOf0 DEF Judged
      <4> QED BY <2>2, <4>1, <4>2, SaysIs
    <3> QED BY <3>2, <3>3, <3>4 DEF Says
  <2>9. R(x).vfile # NoFile => row.status = RunListStatus(R(x).vfile) BY <2>4, <2>6
  <2> QED BY <2>1, <2>2, <2>3, <2>7, <2>8, <2>9
<1> QED BY <1>2, <1>3, <1>4

LEMMA RunsInAre ==
  ASSUME NEW r \in Rid, NEW y \in RunsIn(r)
  PROVE  y \in AllRuns /\ y = <<r, y[2]>> /\ y[1] = r /\ y[2] \in DOMAIN run[r] /\ R(y) = run[r][y[2]]
BY DEF RunsIn, AllRuns, R

LEMMA DriverKeeps ==
  ASSUME ReportInv, NEW r \in Rid
  PROVE  DriverAgrees(r)
<1> SUFFICES ASSUME NEW x \in RunsIn(r), NEW word \in {"PASS", "XFAIL"}
    PROVE  Cardinality({j \in DOMAIN rows[r] : rows[r][j].status.word = word /\ What(rows[r][j]) = RanAs(x)})
           = Cardinality({y \in RunsIn(r) : /\ R(y).dir /\ ScanVerdict(R(y).vfile) = word
                                            /\ RanAs(y) = RanAs(x)})
  BY DEF DriverAgrees
<1>1. PICK pos \in Bijection(DOMAIN rows[r], Ended(r)) : \A j \in DOMAIN rows[r] :
        /\ <<r, pos[j]>> \in RunsIn(r)
        /\ What(rows[r][j]) = RanAs(<<r, pos[j]>>)
        /\ rows[r][j].status.word = word <=> ScanVerdict(R(<<r, pos[j]>>).vfile) = word
  BY RowsAre
<1>2. PICK D : D = DOMAIN rows[r] OBVIOUS
<1>3. PICK E : E = Ended(r) OBVIOUS
<1>4. PICK J : J = {j \in DOMAIN rows[r] : rows[r][j].status.word = word /\ What(rows[r][j]) = RanAs(x)}
  OBVIOUS
<1>5. PICK Y : Y = {y \in RunsIn(r) : /\ R(y).dir /\ ScanVerdict(R(y).vfile) = word
                                      /\ RanAs(y) = RanAs(x)}
  OBVIOUS
<1>6. IsFiniteSet(D) /\ J \in SUBSET D /\ pos \in Bijection(D, E)
  BY <1>1, <1>2, <1>3, <1>4, RowsAre
<1>7. word \in Words BY DEF Words
<1>8. ASSUME NEW y \in RunsIn(r), ScanVerdict(R(y).vfile) = word PROVE R(y).dir /\ R(y).pc = "ended"
  <2>1. y \in AllRuns BY RunsInAre
  <2>2. HasVerdict(y) BY <1>7, <1>8, <2>1, SaysIs DEF Says
  <2> QED BY <2>1, <2>2, SaysIs
<1>9. ASSUME NEW j \in J PROVE <<r, pos[j]>> \in Y
  <2>1. <<r, pos[j]>> \in RunsIn(r) /\ ScanVerdict(R(<<r, pos[j]>>).vfile) = word BY <1>1, <1>4
  <2>2. R(<<r, pos[j]>>).dir BY <1>8, <2>1
  <2>3. RanAs(<<r, pos[j]>>) = RanAs(x) BY <1>1, <1>4
  <2> QED BY <1>5, <2>1, <2>2, <2>3
<1>10. ASSUME NEW y \in Y PROVE \E j \in J : y = <<r, pos[j]>>
  <2>1. y \in RunsIn(r) /\ ScanVerdict(R(y).vfile) = word /\ RanAs(y) = RanAs(x) BY <1>5
  <2>2. y = <<r, y[2]>> /\ y[2] \in Ended(r) BY <1>8, <2>1, RunsInAre DEF Ended
  <2>3. PICK j \in DOMAIN rows[r] : pos[j] = y[2]
    BY <1>1, <2>2 DEF Bijection, Surjection
  <2>4. y = <<r, pos[j]>> BY <2>2, <2>3
  <2>5. rows[r][j].status.word = word /\ What(rows[r][j]) = RanAs(x)
    BY <1>1, <2>1, <2>4
  <2> QED BY <1>4, <2>4, <2>5
<1>11. RowsOf(r, pos, J, Y) BY <1>9, <1>10 DEF RowsOf
<1>12. Cardinality(J) = Cardinality(Y) BY <1>6, <1>11, Matched
<1> QED BY <1>4, <1>5, <1>12

LEMMA PlanKeeps ==
  ASSUME ReportInv, NEW x \in AllRuns
  PROVE  PlanAgrees(x)
<1> DEFINE scanned == ScanVerdict(R(x).vfile)
           log == R(x).log
           test == Job(x).test
<1>1. /\ HasVerdict(x) <=> R(x).vfile \notin {NoFile, <<>>}
      /\ \A word \in Words : Says(x, word) <=> scanned = word
      /\ ~HasVerdict(x) => scanned = "unjudged"
      /\ HasVerdict(x) => \E word \in Words : Says(x, word) /\ OneVerdict(R(x).vfile, word)
      /\ HasVerdict(x) => /\ R(x).pc = "ended" /\ R(x).dir
                          /\ \/ R(x).vfile = <<Line("FAIL", {})>> /\ Says(x, "FAIL")
                             \/ /\ R(x).sim = "ended" /\ R(x).log \in LogsOf[Job(x).test]
                                /\ R(x).vfile = Judge(R(x).log, Job(x).test)
                                /\ Says(x, Outcome(R(x).log, Job(x).test))
  BY SaysIs
<1>2. "unjudged" \notin Words /\ "incomplete" \notin Words BY DEF Words
<1>3. scanned \in Words <=> HasVerdict(x) BY <1>1, <1>2 DEF Says
<1>4. RunOk(R(x), test) BY JobOf
<1>5. NoFile # <<>> /\ \A l \in LogsOf[test] : NoFile # l /\ NoFile # Judge(l, test) BY NoFileIs
<1>6. scanned \in Words => R(x).pc = "ended" BY <1>1, <1>3
<1>7. ASSUME NEW judge \in BOOLEAN, scanned \in Words PROVE PlanVerdict(x, judge, TRUE) = scanned
  <2>1. R(x).vfile # NoFile /\ Verdicts(R(x).vfile) # {} BY <1>3, <1>7 DEF HasVerdict
  <2>2. PlanVerdict(x, judge, TRUE) = R(x).vfile[Max(Verdicts(R(x).vfile))].word
    BY <2>1 DEF PlanVerdict, ReadVerdict
  <2>3. scanned = R(x).vfile[Max(Verdicts(R(x).vfile))].word
    BY <2>1 DEF ScanVerdict
  <2> QED BY <2>2, <2>3
<1>8. ASSUME scanned \notin Words PROVE PlanVerdict(x, FALSE, TRUE) \notin Words
  <2>1. R(x).vfile \in {NoFile, <<>>} BY <1>1, <1>3, <1>8
  <2>2. Verdicts(<<>>) = {} BY DEF Verdicts
  <2>3. CASE R(x).vfile = NoFile
    <3>1. PlanVerdict(x, FALSE, TRUE) = "unjudged" BY <2>3 DEF PlanVerdict, ReadVerdict, Line
    <3> QED BY <1>2, <3>1
  <2>4. CASE R(x).vfile # NoFile
    <3>1. PlanVerdict(x, FALSE, TRUE) = "incomplete" BY <2>1, <2>2, <2>4 DEF PlanVerdict, ReadVerdict, Line
    <3> QED BY <1>2, <3>1
  <2> QED BY <2>3, <2>4
<1>9. ASSUME scanned \in Words, R(x).sim = "ended", scanned # "FAIL"
      PROVE  JudgeLeaf(log, test).word = scanned
  <2>0. "FAIL" \in Words BY DEF Words
  <2>1. R(x).log \in LogsOf[test] /\ R(x).vfile = Judge(log, test) BY <1>1, <1>3, <1>9, <2>0
  <2>2. JudgeLeaf(log, test) = RunListStatus(R(x).vfile) BY <1>5, <2>1 DEF JudgeLeaf
  <2>3. Says(x, scanned) BY <1>1, <1>9
  <2>4. Judged(x) = scanned BY <2>3 DEF Says
  <2>5. R(x).vfile # NoFile BY <1>1, <1>3, <1>9
  <2> QED BY <2>2, <2>4, <2>5 DEF Judged
<1>10. ASSUME R(x).vfile = NoFile, R(x).sim = "ended", log.summary
       PROVE  PlanVerdict(x, TRUE, FALSE) = JudgeLeaf(log, test).word
  <2>1. log \in LogsOf[test] /\ log # NoFile BY <1>4, <1>5, <1>10 DEF RunOk, LogOk
  <2>2. PICK lines : lines = Judge(log, test) OBVIOUS
  <2>3. PICK word : word = Outcome(log, test) OBVIOUS
  <2>4. word \in Words /\ OneVerdict(lines, word) BY <2>2, <2>3, OutcomeIs, JudgeIs
  <2>5. Verdicts(lines) # {} /\ lines[Max(Verdicts(lines))].word = word /\ RunListStatus(lines).word = word
    BY <2>4, VerdictIs
  <2>6. PlanVerdict(x, TRUE, FALSE) = lines[Max(Verdicts(lines))].word
    BY <1>10, <2>1, <2>2, <2>5 DEF PlanVerdict, ReadVerdict
  <2>7. JudgeLeaf(log, test).word = RunListStatus(lines).word BY <2>1, <2>2 DEF JudgeLeaf
  <2> QED BY <2>5, <2>6, <2>7
<1> QED BY <1>6, <1>7, <1>8, <1>9, <1>10 DEF PlanAgrees

\* The harness reads from the log what check_run.py wrote in the file.
LEMMA FullyJudged ==
  ASSUME ReportInv, NEW r \in Rid, NEW x \in RunsIn(r), JudgedInFull(x)
  PROVE  /\ x \in Leaves(r) /\ R(x).pc = "ended" /\ R(x).vfile # NoFile
         /\ HarnessRow(x).status = RunListStatus(R(x).vfile) /\ What(HarnessRow(x)) = RanAs(x)
         /\ HarnessRow(x).status.word = Outcome(R(x).log, Job(x).test)
         /\ \A word \in Words : Says(x, word) <=> Outcome(R(x).log, Job(x).test) = word
         /\ R(x).log.summary \in BOOLEAN /\ R(x).log.errors # {Stop}
<1> DEFINE log == R(x).log
           test == Job(x).test
<1>1. x \in AllRuns /\ R(x).sim = "ended" /\ HasVerdict(x) /\ R(x).vfile = Judge(log, test)
  BY RunsInAre DEF JudgedInFull
<1>2. x \in Leaves(r) BY <1>1 DEF Leaves
<1>3. RunOk(R(x), test) BY <1>1, JobOf
<1>4. log \in LogsOf[test] BY <1>1, <1>3 DEF RunOk, LogOk
<1>5. log # NoFile BY <1>1, <1>4, NoFileIs
<1>6. R(x).vfile # NoFile /\ R(x).pc = "ended" BY <1>1, SaysIs
<1>7. HarnessRow(x).status = RunListStatus(R(x).vfile)
  <2>1. JudgeLeaf(log, test) = RunListStatus(R(x).vfile) BY <1>1, <1>5 DEF JudgeLeaf
  <2> QED BY <2>1 DEF HarnessRow
<1>8. What(HarnessRow(x)) = RanAs(x) BY DEF What, RanAs, HarnessRow, Row
<1>9. PICK word : word = Outcome(log, test) OBVIOUS
<1>10. word \in Words /\ OneVerdict(R(x).vfile, word) BY <1>1, <1>9, OutcomeIs, JudgeIs
<1>11. RunListStatus(R(x).vfile).word = word BY <1>10, VerdictIs
<1>12. Judged(x) = word BY <1>6, <1>11 DEF Judged
<1>13. \A w \in Words : Says(x, w) <=> word = w BY <1>1, <1>12 DEF Says
<1>14. log.summary \in BOOLEAN /\ log.errors # {Stop}
  <2>1. /\ test = Jobs(r)[x[2]].e.test /\ x[2] \in DOMAIN Jobs(r)
    BY <1>1, JobOf, RunsInAre
  <2> QED BY <1>4, <2>1, JobsAssumption
<1> QED BY <1>2, <1>6, <1>7, <1>8, <1>9, <1>11, <1>13, <1>14

LEMMA HarnessCounts ==
  ASSUME ReportInv, NEW r \in Rid, \A y \in RunsIn(r) : JudgedInFull(y), NEW result
  PROVE  Cardinality({y \in RunsIn(r) : Result(HarnessRow(y)) = result})
         = Cardinality({j \in DOMAIN rows[r] : Result(rows[r][j]) = result})
<1>1. PICK pos \in Bijection(DOMAIN rows[r], Ended(r)) : \A j \in DOMAIN rows[r] :
        /\ <<r, pos[j]>> \in RunsIn(r)
        /\ What(rows[r][j]) = RanAs(<<r, pos[j]>>)
        /\ R(<<r, pos[j]>>).vfile # NoFile => rows[r][j].status = RunListStatus(R(<<r, pos[j]>>).vfile)
  BY RowsAre
<1>2. PICK D : D = DOMAIN rows[r] OBVIOUS
<1>3. PICK E : E = Ended(r) OBVIOUS
<1>4. PICK J : J = {j \in DOMAIN rows[r] : Result(rows[r][j]) = result} OBVIOUS
<1>5. PICK Y : Y = {y \in RunsIn(r) : Result(HarnessRow(y)) = result} OBVIOUS
<1>6. IsFiniteSet(D) /\ J \in SUBSET D /\ pos \in Bijection(D, E)
  BY <1>1, <1>2, <1>3, <1>4, RowsAre
<1>7. ASSUME NEW j \in DOMAIN rows[r] PROVE Result(rows[r][j]) = Result(HarnessRow(<<r, pos[j]>>))
  <2>1. PICK x : x = <<r, pos[j]>> OBVIOUS
  <2>2. x \in RunsIn(r) /\ JudgedInFull(x) BY <1>1, <2>1
  <2>3. /\ R(x).vfile # NoFile /\ HarnessRow(x).status = RunListStatus(R(x).vfile)
        /\ What(HarnessRow(x)) = RanAs(x)
    BY <2>2, FullyJudged
  <2>4. What(rows[r][j]) = What(HarnessRow(x)) /\ rows[r][j].status = HarnessRow(x).status
    BY <1>1, <2>1, <2>3
  <2> QED BY <2>1, <2>4 DEF Result
<1>8. ASSUME NEW j \in J PROVE <<r, pos[j]>> \in Y
  BY <1>1, <1>4, <1>5, <1>7
<1>9. ASSUME NEW y \in Y PROVE \E j \in J : y = <<r, pos[j]>>
  <2>1. y \in RunsIn(r) /\ Result(HarnessRow(y)) = result BY <1>5
  <2>2. y = <<r, y[2]>> /\ y[2] \in Ended(r) BY <2>1, RunsInAre, FullyJudged DEF Ended
  <2>3. PICK j \in DOMAIN rows[r] : pos[j] = y[2]
    BY <1>1, <2>2 DEF Bijection, Surjection
  <2>4. y = <<r, pos[j]>> BY <2>2, <2>3
  <2>5. Result(rows[r][j]) = result BY <1>7, <2>1, <2>4
  <2> QED BY <1>4, <2>4, <2>5
<1>10. RowsOf(r, pos, J, Y) BY <1>8, <1>9 DEF RowsOf
<1>11. Cardinality(J) = Cardinality(Y) BY <1>6, <1>10, Matched
<1> QED BY <1>4, <1>5, <1>11

LEMMA HarnessSays ==
  ASSUME ReportInv, NEW r \in Rid, \A y \in RunsIn(r) : JudgedInFull(y)
  PROVE  HarnessExit(r, Runner(r)) = 0 <=> RunsIn(r) # {} /\ \A x \in RunsIn(r) : Says(x, "PASS")
<1> DEFINE wrong(x) == HarnessRow(x).status.word = "FAIL" \/ Diverges(x, Runner(r)[x])
<1>1. Leaves(r) = RunsIn(r) BY FullyJudged DEF Leaves
<1>2. ASSUME NEW x \in RunsIn(r) PROVE ~wrong(x) <=> Says(x, "PASS")
  <2>1. /\ HarnessRow(x).status.word = Outcome(R(x).log, Job(x).test)
        /\ Says(x, "PASS") <=> Outcome(R(x).log, Job(x).test) = "PASS"
        /\ R(x).log.errors # {Stop}
    BY FullyJudged DEF Words
  <2>2. Diverges(x, Runner(r)[x]) <=> ((Outcome(R(x).log, Job(x).test) \in {"PASS", "XFAIL"}) # (R(x).log.errors = {}))
    <3>1. Runner(r)[x] = "PASS" <=> R(x).log.errors = {} BY DEF Runner
    <3> QED BY <2>1, <3>1 DEF Diverges
  <2>3. R(x).log.errors \ {Stop} = {} <=> R(x).log.errors = {} BY <2>1
  <2>4. /\ Outcome(R(x).log, Job(x).test) \in {"PASS", "XFAIL", "FAIL"}
        /\ Outcome(R(x).log, Job(x).test) = "PASS" => R(x).log.errors \ {Stop} = {}
        /\ Outcome(R(x).log, Job(x).test) = "XFAIL" => R(x).log.errors \ {Stop} # {}
    BY DEF Outcome
  <2> QED BY <2>1, <2>2, <2>3, <2>4
<1>3. CASE RunsIn(r) = {}
  <2>1. HarnessExit(r, Runner(r)) = 2 BY <1>1, <1>3, Zenon DEF HarnessExit
  <2> QED BY <1>3, <2>1
<1>4. CASE RunsIn(r) # {} /\ \E x \in RunsIn(r) : wrong(x)
  <2>1. HarnessExit(r, Runner(r)) = 1 BY <1>1, <1>4, Zenon DEF HarnessExit
  <2> HIDE DEF wrong
  <2> QED BY <1>2, <1>4, <2>1
<1>5. CASE RunsIn(r) # {} /\ \A x \in RunsIn(r) : ~wrong(x)
  <2>1. HarnessExit(r, Runner(r)) = 0 BY <1>1, <1>5, Zenon DEF HarnessExit
  <2> HIDE DEF wrong
  <2> QED BY <1>2, <1>5, <2>1
<1> HIDE DEF wrong
<1> QED BY <1>3, <1>4, <1>5

LEMMA AllAgree ==
  ASSUME ReportInv
  PROVE  ReadersAgree
<1>1. ASSUME NEW r \in Rid PROVE DriverAgrees(r) /\ HarnessAgrees(r)
  <2>1. HarnessAgrees(r)
    <3> SUFFICES ASSUME \A x \in RunsIn(r) : JudgedInFull(x)
        PROVE  /\ \A x \in RunsIn(r) : LET result == Result(HarnessRow(x)) IN
                    Cardinality({y \in RunsIn(r) : Result(HarnessRow(y)) = result})
                    = Cardinality({j \in DOMAIN rows[r] : Result(rows[r][j]) = result})
               /\ HarnessExit(r, Runner(r)) = 0 <=> RunsIn(r) # {} /\ \A x \in RunsIn(r) : Says(x, "PASS")
      BY DEF HarnessAgrees
    <3>1. ASSUME NEW x \in RunsIn(r), NEW result, result = Result(HarnessRow(x))
          PROVE  Cardinality({y \in RunsIn(r) : Result(HarnessRow(y)) = result})
                 = Cardinality({j \in DOMAIN rows[r] : Result(rows[r][j]) = result})
      BY HarnessCounts
    <3> QED BY <3>1, HarnessSays
  <2> QED BY <2>1, DriverKeeps
<1> QED BY <1>1, PlanKeeps DEF ReadersAgree

\* run_list.py, passing_runs.py and plan_status.py count the same runs as passed
\* and as failed as expected, and judge_run.py gives the results of run_list.py
\* and its exit status, when every log was complete before it was judged.
THEOREM ReadersSayTheSame == Spec => []ReadersAgree
<1> QED BY ReportsAreKept, AllAgree, PTL

-----------------------------------------------------------------------------
(* The database of bins, report by report.                                 *)

\* The sum of the hits is that of the lemmas.
LEMMA TotalIs ==
  ASSUME NEW m, IsFiniteSet(DOMAIN m), \A k \in DOMAIN m : m[k] \in Nat
  PROVE  Total(m) \in Nat /\ (Total(m) > 0 <=> \E k \in DOMAIN m : m[k] > 0)
<1>1. Total(m) = SumOf(m)
  BY DEF Total, SumOf, FoldFunction, FoldFunctionOnSet, MapThenFoldSet
<1> QED BY <1>1, SumIs

\* What one run's report says of a bin.
Listed(fc, b) == b \in DOMAIN fc.json \/ \E i \in DOMAIN fc.axi4 : fc.axi4[i][1] = b
HitIn(fc, b) == \/ b \in DOMAIN fc.json /\ fc.json[b].hits > 0
               \/ \E i \in DOMAIN fc.axi4 : fc.axi4[i][1] = b /\ fc.axi4[i][2] > 0
IllegalIn(fc, b) == b \in DOMAIN fc.json /\ fc.json[b].illegal

Bin == [hits : Nat, runs : Nat, illegal : BOOLEAN]
Db(Bins) == UNION {[B -> Bin] : B \in SUBSET Bins}

\* A bin that is not in the database yet counts as one that was never hit.
LEMMA BinOfIs ==
  ASSUME NEW Bins, NEW db \in Db(Bins), NEW b
  PROVE  /\ BinOf(db, b) \in Bin
         /\ BinOf(db, b).hits > 0 <=> b \in DOMAIN db /\ db[b].hits > 0
         /\ BinOf(db, b).illegal <=> b \in DOMAIN db /\ db[b].illegal
<1>1. PICK B \in SUBSET Bins : db \in [B -> Bin] BY DEF Db
<1> QED BY <1>1 DEF BinOf, Bin

\* A bin is hit when it was before or this run hit it, and marked likewise.
LEMMA AddBinIs ==
  ASSUME NEW bin \in Bin, NEW hits \in Nat, NEW illegal \in BOOLEAN
  PROVE  /\ AddBin(bin, hits, illegal) \in Bin
         /\ AddBin(bin, hits, illegal).hits > 0 <=> bin.hits > 0 \/ hits > 0
         /\ AddBin(bin, hits, illegal).illegal <=> bin.illegal \/ illegal
<1>1. bin.hits \in Nat /\ bin.runs \in Nat /\ bin.illegal \in BOOLEAN BY DEF Bin
<1> DEFINE runs == bin.runs + (IF hits > 0 THEN 1 ELSE 0)
<1>2. runs \in Nat BY <1>1
<1>3. (bin.illegal \/ illegal) \in BOOLEAN OBVIOUS
<1>4. AddBin(bin, hits, illegal) = [hits |-> bin.hits + hits, runs |-> runs, illegal |-> bin.illegal \/ illegal]
  BY DEF AddBin
<1> HIDE DEF runs
<1> QED BY <1>1, <1>2, <1>3, <1>4 DEF Bin

\* What a run says in its JSON is added to the database.
LEMMA JsonAdded ==
  ASSUME NEW Bins, NEW db \in Db(Bins), NEW json, DOMAIN json \subseteq Bins,
         \A b \in DOMAIN json : json[b].hits \in Nat /\ json[b].illegal \in BOOLEAN
  PROVE  /\ MergeJson(db, json) \in Db(Bins)
         /\ DOMAIN MergeJson(db, json) = DOMAIN db \cup DOMAIN json
         /\ \A b \in DOMAIN db \cup DOMAIN json :
              /\ MergeJson(db, json)[b].hits > 0 <=>
                   (b \in DOMAIN db /\ db[b].hits > 0) \/ (b \in DOMAIN json /\ json[b].hits > 0)
              /\ MergeJson(db, json)[b].illegal <=>
                   (b \in DOMAIN db /\ db[b].illegal) \/ (b \in DOMAIN json /\ json[b].illegal)
<1>1. PICK B \in SUBSET Bins : db \in [B -> Bin] BY DEF Db
<1> DEFINE new(b) == IF b \in DOMAIN json THEN AddBin(BinOf(db, b), json[b].hits, json[b].illegal) ELSE db[b]
<1>2. MergeJson(db, json) = [b \in DOMAIN db \cup DOMAIN json |-> new(b)] BY DEF MergeJson
<1>3. ASSUME NEW b \in DOMAIN db \cup DOMAIN json
      PROVE  /\ new(b) \in Bin
             /\ new(b).hits > 0 <=> (b \in DOMAIN db /\ db[b].hits > 0) \/ (b \in DOMAIN json /\ json[b].hits > 0)
             /\ new(b).illegal <=> (b \in DOMAIN db /\ db[b].illegal) \/ (b \in DOMAIN json /\ json[b].illegal)
  <2>1. CASE b \in DOMAIN json
    <3>1. PICK bin \in Bin : /\ bin = BinOf(db, b)
                             /\ bin.hits > 0 <=> b \in DOMAIN db /\ db[b].hits > 0
                             /\ bin.illegal <=> b \in DOMAIN db /\ db[b].illegal
      BY BinOfIs
    <3>2. new(b) = AddBin(bin, json[b].hits, json[b].illegal) BY <2>1, <3>1
    <3>3. json[b].hits \in Nat /\ json[b].illegal \in BOOLEAN BY <2>1
    <3>4. /\ AddBin(bin, json[b].hits, json[b].illegal) \in Bin
          /\ AddBin(bin, json[b].hits, json[b].illegal).hits > 0 <=> bin.hits > 0 \/ json[b].hits > 0
          /\ AddBin(bin, json[b].hits, json[b].illegal).illegal <=> bin.illegal \/ json[b].illegal
      BY <3>3, AddBinIs
    <3> HIDE DEF new
    <3> QED BY <2>1, <3>1, <3>2, <3>4
  <2>2. CASE b \notin DOMAIN json
    <3>1. new(b) = db[b] /\ b \in DOMAIN db BY <2>2
    <3>2. db[b] \in Bin BY <1>1, <3>1
    <3> HIDE DEF new
    <3> QED BY <2>2, <3>1, <3>2
  <2> QED BY <2>1, <2>2
<1>4. DOMAIN db \cup DOMAIN json \in SUBSET Bins BY <1>1
<1> HIDE DEF new
<1>5. MergeJson(db, json) \in [DOMAIN db \cup DOMAIN json -> Bin] BY <1>2, <1>3
<1>6. MergeJson(db, json) \in Db(Bins) BY <1>4, <1>5 DEF Db
<1> QED BY <1>2, <1>3, <1>6

\* The lines of AXI4_FC.txt, counted bin by bin.
LEMMA CountsAre ==
  ASSUME NEW lines, lines \in Seq(ToSet(lines)), \A i \in DOMAIN lines : lines[i][2] \in Nat
  PROVE  /\ \A b : b \in DOMAIN BinCounts(lines) <=> \E i \in DOMAIN lines : lines[i][1] = b
         /\ \A b \in DOMAIN BinCounts(lines) :
              /\ BinCounts(lines)[b] \in Nat
              /\ BinCounts(lines)[b] > 0 <=> \E i \in DOMAIN lines : lines[i][1] = b /\ lines[i][2] > 0
<1> DEFINE count(b) == [i \in LinesOf(lines, b) |-> lines[i][2]]
           names == {lines[i][1] : i \in DOMAIN lines}
<1>1. BinCounts(lines) = [b \in names |-> Total(count(b))] BY DEF BinCounts
<1>2. ASSUME NEW b
      PROVE  Total(count(b)) \in Nat
             /\ (Total(count(b)) > 0 <=> \E i \in DOMAIN lines : lines[i][1] = b /\ lines[i][2] > 0)
  <2>1. PICK m : m = count(b) OBVIOUS
  <2>2. DOMAIN m = {i \in DOMAIN lines : lines[i][1] = b} /\ \A i \in DOMAIN m : m[i] = lines[i][2]
    BY <2>1 DEF LinesOf
  <2>3. IsFiniteSet(DOMAIN lines)
    <3>1. PICK n \in Nat : DOMAIN lines = 1..n OBVIOUS
    <3>2. 1 \in Int /\ n \in Int OBVIOUS
    <3>3. IsFiniteSet(1..n) BY <3>2, FS_Interval
    <3> QED BY <3>1, <3>3
  <2>4. IsFiniteSet(DOMAIN m) BY <2>2, <2>3, FS_Subset
  <2>5. \A i \in DOMAIN m : m[i] \in Nat BY <2>2
  <2>6. Total(m) \in Nat /\ (Total(m) > 0 <=> \E i \in DOMAIN m : m[i] > 0) BY <2>4, <2>5, TotalIs
  <2> HIDE DEF count
  <2> QED BY <2>1, <2>2, <2>6
<1> HIDE DEF count
<1> QED BY <1>1, <1>2

\* What it says in its text report is added.
LEMMA TextAdded ==
  ASSUME NEW Bins, NEW db \in Db(Bins), NEW lines, lines \in Seq(ToSet(lines)),
         \A i \in DOMAIN lines : lines[i][2] \in Nat /\ lines[i][1] \in Bins
  PROVE  /\ MergeAxi4(db, lines) \in Db(Bins)
         /\ \A b : b \in DOMAIN MergeAxi4(db, lines) <=> b \in DOMAIN db \/ \E i \in DOMAIN lines : lines[i][1] = b
         /\ \A b \in DOMAIN MergeAxi4(db, lines) :
              /\ MergeAxi4(db, lines)[b].hits > 0 <=>
                   (b \in DOMAIN db /\ db[b].hits > 0) \/ (\E i \in DOMAIN lines : lines[i][1] = b /\ lines[i][2] > 0)
              /\ MergeAxi4(db, lines)[b].illegal <=> (b \in DOMAIN db /\ db[b].illegal)
<1>1. PICK B \in SUBSET Bins : db \in [B -> Bin] BY DEF Db
<1>2. PICK counts : counts = BinCounts(lines) OBVIOUS
<1>3. /\ \A b : b \in DOMAIN counts <=> \E i \in DOMAIN lines : lines[i][1] = b
      /\ \A b \in DOMAIN counts :
           /\ counts[b] \in Nat
           /\ counts[b] > 0 <=> \E i \in DOMAIN lines : lines[i][1] = b /\ lines[i][2] > 0
  BY <1>2, CountsAre
<1> DEFINE new(b) == IF b \in DOMAIN counts THEN AddBin(BinOf(db, b), counts[b], FALSE) ELSE db[b]
<1>4. MergeAxi4(db, lines) = [b \in DOMAIN db \cup DOMAIN counts |-> new(b)]
  BY <1>2, Zenon DEF MergeAxi4
<1>5. ASSUME NEW b \in DOMAIN db \cup DOMAIN counts
      PROVE  /\ new(b) \in Bin
             /\ new(b).hits > 0 <=> (b \in DOMAIN db /\ db[b].hits > 0) \/ (b \in DOMAIN counts /\ counts[b] > 0)
             /\ new(b).illegal <=> (b \in DOMAIN db /\ db[b].illegal)
  <2>1. CASE b \in DOMAIN counts
    <3>1. PICK bin \in Bin : /\ bin = BinOf(db, b)
                             /\ bin.hits > 0 <=> b \in DOMAIN db /\ db[b].hits > 0
                             /\ bin.illegal <=> b \in DOMAIN db /\ db[b].illegal
      BY BinOfIs
    <3>2. PICK no \in BOOLEAN : no = FALSE OBVIOUS
    <3>3. new(b) = AddBin(bin, counts[b], no) BY <2>1, <3>1, <3>2
    <3>4. counts[b] \in Nat BY <1>3, <2>1
    <3>5. /\ AddBin(bin, counts[b], no) \in Bin
          /\ AddBin(bin, counts[b], no).hits > 0 <=> bin.hits > 0 \/ counts[b] > 0
          /\ AddBin(bin, counts[b], no).illegal <=> bin.illegal \/ no
      BY <3>4, AddBinIs
    <3> HIDE DEF new
    <3> QED BY <2>1, <3>1, <3>2, <3>3, <3>5
  <2>2. CASE b \notin DOMAIN counts
    <3>1. new(b) = db[b] /\ b \in DOMAIN db BY <2>2
    <3>2. db[b] \in Bin BY <1>1, <3>1
    <3> HIDE DEF new
    <3> QED BY <2>2, <3>1, <3>2
  <2> QED BY <2>1, <2>2
<1>6. DOMAIN db \cup DOMAIN counts \in SUBSET Bins BY <1>1, <1>3
<1> HIDE DEF new
<1>7. MergeAxi4(db, lines) \in [DOMAIN db \cup DOMAIN counts -> Bin] BY <1>4, <1>5
<1>8. MergeAxi4(db, lines) \in Db(Bins) BY <1>6, <1>7 DEF Db
<1> QED BY <1>3, <1>4, <1>5, <1>8

\* One run's reports are added to the database.
LEMMA ReportAdded ==
  ASSUME NEW Bins, NEW db \in Db(Bins), NEW r, FcOk(r[2]), \A b : Listed(r[2], b) => b \in Bins
  PROVE  /\ AddReport(r, db) \in Db(Bins)
         /\ \A b : b \in DOMAIN AddReport(r, db) <=> b \in DOMAIN db \/ Listed(r[2], b)
         /\ \A b \in DOMAIN AddReport(r, db) :
              /\ AddReport(r, db)[b].hits > 0 <=> (b \in DOMAIN db /\ db[b].hits > 0) \/ HitIn(r[2], b)
              /\ AddReport(r, db)[b].illegal <=> (b \in DOMAIN db /\ db[b].illegal) \/ IllegalIn(r[2], b)
<1>1. PICK json : json = r[2].json OBVIOUS
<1>2. PICK lines : lines = r[2].axi4 OBVIOUS
<1>3. /\ \A b \in DOMAIN json : json[b].hits \in Nat /\ json[b].illegal \in BOOLEAN
      /\ lines \in Seq(ToSet(lines)) /\ \A i \in DOMAIN lines : lines[i][2] \in Nat
  BY <1>1, <1>2 DEF FcOk
<1>4. DOMAIN json \subseteq Bins /\ \A i \in DOMAIN lines : lines[i][1] \in Bins
  BY <1>1, <1>2 DEF Listed
<1>5. PICK mid : mid = MergeJson(db, json) OBVIOUS
<1>6. /\ mid \in Db(Bins) /\ DOMAIN mid = DOMAIN db \cup DOMAIN json
      /\ \A b \in DOMAIN db \cup DOMAIN json :
           /\ mid[b].hits > 0 <=> (b \in DOMAIN db /\ db[b].hits > 0) \/ (b \in DOMAIN json /\ json[b].hits > 0)
           /\ mid[b].illegal <=> (b \in DOMAIN db /\ db[b].illegal) \/ (b \in DOMAIN json /\ json[b].illegal)
  BY <1>3, <1>4, <1>5, JsonAdded
<1>7. PICK new : new = MergeAxi4(mid, lines) OBVIOUS
<1>8. /\ new \in Db(Bins)
      /\ \A b : b \in DOMAIN new <=> b \in DOMAIN mid \/ \E i \in DOMAIN lines : lines[i][1] = b
      /\ \A b \in DOMAIN new :
           /\ new[b].hits > 0 <=> (b \in DOMAIN mid /\ mid[b].hits > 0)
                                   \/ (\E i \in DOMAIN lines : lines[i][1] = b /\ lines[i][2] > 0)
           /\ new[b].illegal <=> (b \in DOMAIN mid /\ mid[b].illegal)
  BY <1>3, <1>4, <1>6, <1>7, TextAdded
<1>9. AddReport(r, db) = new BY <1>1, <1>2, <1>5, <1>7 DEF AddReport
<1> QED BY <1>1, <1>2, <1>6, <1>8, <1>9 DEF Listed, HitIn, IllegalIn

\* The database of some reports says of a bin what they say of it.
DbOf(db, reports) ==
  /\ \A b : b \in DOMAIN db <=> \E r \in reports : Listed(r[2], b)
  /\ \A b \in DOMAIN db :
       /\ db[b].hits \in Nat
       /\ db[b].hits > 0 <=> \E r \in reports : HitIn(r[2], b)
       /\ db[b].illegal <=> \E r \in reports : IllegalIn(r[2], b)

LEMMA NewDbIs ==
  ASSUME NEW Bins
  PROVE  NewDb \in Db(Bins) /\ DbOf(NewDb, {})
<1>1. DOMAIN NewDb = {} BY DEF NewDb
<1>2. NewDb \in [{} -> Bin] BY DEF NewDb
<1>3. {} \in SUBSET Bins OBVIOUS
<1>4. NewDb \in Db(Bins) BY <1>2, <1>3 DEF Db
<1> QED BY <1>1, <1>4 DEF DbOf

\* A database of some reports, with one more report added, is one of them all.
LEMMA DbStep ==
  ASSUME NEW Bins, NEW db \in Db(Bins), NEW W, DbOf(db, W), NEW r, FcOk(r[2]),
         \A b : Listed(r[2], b) => b \in Bins
  PROVE  DbOf(AddReport(r, db), W \cup {r})
<1>1. PICK new : new = AddReport(r, db) OBVIOUS
<1>2. /\ new \in Db(Bins)
      /\ \A b : b \in DOMAIN new <=> b \in DOMAIN db \/ Listed(r[2], b)
      /\ \A b \in DOMAIN new :
           /\ new[b].hits > 0 <=> (b \in DOMAIN db /\ db[b].hits > 0) \/ HitIn(r[2], b)
           /\ new[b].illegal <=> (b \in DOMAIN db /\ db[b].illegal) \/ IllegalIn(r[2], b)
  BY <1>1, ReportAdded
<1>3. ASSUME NEW b \in DOMAIN new PROVE new[b].hits \in Nat
  <2>1. PICK B \in SUBSET Bins : new \in [B -> Bin] BY <1>2 DEF Db
  <2>2. new[b] \in Bin BY <2>1
  <2> QED BY <2>2 DEF Bin
<1>4. \A b, q : HitIn(q[2], b) => Listed(q[2], b)
  BY DEF HitIn, Listed
<1>5. \A b, q : IllegalIn(q[2], b) => Listed(q[2], b)
  BY DEF IllegalIn, Listed
<1>6. \A b : b \in DOMAIN new <=> \E q \in W \cup {r} : Listed(q[2], b)
  BY <1>2 DEF DbOf
<1>7. ASSUME NEW b \in DOMAIN new
      PROVE  /\ new[b].hits > 0 <=> \E q \in W \cup {r} : HitIn(q[2], b)
             /\ new[b].illegal <=> \E q \in W \cup {r} : IllegalIn(q[2], b)
  <2>1. (\E q \in W : HitIn(q[2], b)) <=> (b \in DOMAIN db /\ db[b].hits > 0)
    BY <1>4 DEF DbOf
  <2>2. (\E q \in W : IllegalIn(q[2], b)) <=> (b \in DOMAIN db /\ db[b].illegal)
    BY <1>5 DEF DbOf
  <2> QED BY <1>2, <2>1, <2>2
<1>8. DbOf(new, W \cup {r})
  BY <1>3, <1>6, <1>7 DEF DbOf
<1> QED BY <1>1, <1>8

\* In whatever order the reports of the runs are added.
LEMMA MergeIs ==
  ASSUME NEW Q, IsFiniteSet(Q), \A r \in Q : FcOk(r[2])
  PROVE  DbOf(Merge(Q), Q)
<1> DEFINE Bins == UNION {DOMAIN r[2].json \cup {r[2].axi4[i][1] : i \in DOMAIN r[2].axi4} : r \in Q}
           V == Db(Bins)
           ch == [T \in SUBSET Q |-> CHOOSE x \in T : TRUE]
           H == [p \in Q \X V |-> AddReport(p[1], p[2])]
           Iter(g) == [s \in SUBSET Q |-> IF s = {} THEN NewDb
                         ELSE AddReport(CHOOSE x \in s : TRUE, g[s \ {CHOOSE x \in s : TRUE}])]
<1>0. \A r \in Q : \A b : Listed(r[2], b) => b \in Bins
  BY DEF Listed
<1>1. ASSUME NEW T \in SUBSET Q, T # {} PROVE ch[T] \in T /\ ch[T] = CHOOSE x \in T : TRUE
  BY <1>1
<1>2. ASSUME NEW x \in Q, NEW v \in V PROVE H[<<x, v>>] = AddReport(x, v) /\ H[<<x, v>>] \in V
  <2>1. <<x, v>> \in Q \X V /\ <<x, v>>[1] = x /\ <<x, v>>[2] = v
    <3> HIDE DEF V
    <3> QED OBVIOUS
  <2>2. H[<<x, v>>] = AddReport(x, v)
    <3> HIDE DEF V
    <3> QED BY <2>1
  <2>3. AddReport(x, v) \in V
    <3>1. \A b : Listed(x[2], b) => b \in Bins BY <1>0
    <3> HIDE DEF Bins
    <3> QED BY <3>1, ReportAdded
  <2> HIDE DEF H, V
  <2> QED BY <2>2, <2>3
<1>3. NewDb \in V
  <2> HIDE DEF Bins
  <2> QED BY NewDbIs
<1> HIDE DEF V
<1>4. PICK g \in [SUBSET Q -> V] : Folds(g, Q, NewDb, ch, H)
  <2> HIDE DEF ch, H
  <2> QED BY <1>1, <1>2, <1>3, FoldExists
<1>5. g = Iter(g)
  <2>1. ASSUME NEW T \in SUBSET Q
        PROVE g[T] = IF T = {} THEN NewDb ELSE AddReport(CHOOSE x \in T : TRUE, g[T \ {CHOOSE x \in T : TRUE}])
    <3>1. g[T] = IF T = {} THEN NewDb ELSE H[<<ch[T], g[T \ {ch[T]}]>>]
      <4> HIDE DEF ch, H
      <4> QED BY <1>4 DEF Folds
    <3>2. CASE T # {}
      <4>1. g[T \ {ch[T]}] \in V /\ ch[T] \in Q BY <1>1, <3>2, <1>4
      <4> HIDE DEF ch, H
      <4> QED BY <1>1, <1>2, <3>1, <3>2, <4>1
    <3> QED BY <3>1, <3>2
  <2> QED BY <2>1, <1>4
<1>6. \E h : h = Iter(h) /\ Merge(Q) = h[Q]
  BY <1>5 DEF Merge, FoldSet, MapThenFoldSet
<1>7. PICK h : h = Iter(h) /\ Merge(Q) = h[Q] BY <1>6
<1> DEFINE Ok(T) == h[T] \in V /\ DbOf(h[T], T)
           Bad == {T \in SUBSET Q : ~Ok(T)}
<1>8. SUFFICES ASSUME Bad # {} PROVE FALSE
  <2>1. Ok(Q) BY <1>8
  <2> QED BY <1>7, <2>1
<1>9. PICK U \in Bad : \A W \in SUBSET U : W # U => W \notin Bad
  <2>1. Bad \subseteq SUBSET Q OBVIOUS
  <2> HIDE DEF Bad
  <2> QED BY <1>8, <2>1, SmallestSubset
<1>10. /\ U \in SUBSET Q
       /\ h[U] = IF U = {} THEN NewDb ELSE AddReport(CHOOSE x \in U : TRUE, h[U \ {CHOOSE x \in U : TRUE}])
  <2>1. U \in SUBSET Q OBVIOUS
  <2> HIDE DEF Bad
  <2> QED BY <1>7, <2>1
<1>11. CASE U = {}
  <2>1. h[U] = NewDb BY <1>10, <1>11
  <2>2. Ok(U)
    <3> HIDE DEF Bins, Bad
    <3> QED BY <1>3, <1>11, <2>1, NewDbIs
  <2> QED BY <2>2
<1>12. CASE U # {}
  <2> DEFINE c == CHOOSE x \in U : TRUE
             W == U \ {c}
  <2>1. c \in U /\ c \in Q BY <1>10, <1>12
  <2>2. W \in SUBSET U /\ W # U /\ W \in SUBSET Q BY <1>10, <2>1
  <2>3. Ok(W) BY <1>9, <2>2
  <2>4. h[U] = AddReport(c, h[W]) BY <1>10, <1>12
  <2>5. U = W \cup {c} BY <2>1
  <2>6. FcOk(c[2]) /\ \A b : Listed(c[2], b) => b \in Bins BY <1>0, <2>1
  <2> HIDE DEF c, W, Bad, Bins
  <2>7. DbOf(AddReport(c, h[W]), W \cup {c}) BY <2>3, <2>6, DbStep DEF V
  <2>8. AddReport(c, h[W]) \in V BY <1>2, <2>1, <2>3
  <2>9. Ok(U) BY <2>4, <2>5, <2>7, <2>8
  <2>10. ~Ok(U) BY DEF Bad
  <2> QED BY <2>9, <2>10
<1> QED BY <1>11, <1>12

-----------------------------------------------------------------------------
(* Coverage, and the number of results.                                    *)

LEMMA ImageIsFinite ==
  ASSUME NEW S, IsFiniteSet(S), NEW f
  PROVE  IsFiniteSet({f[x] : x \in S})
<1> DEFINE g == [x \in S |-> f[x]]
           T == {f[x] : x \in S}
<1>1. g \in Surjection(S, T) BY DEF Surjection
<1> HIDE DEF g, T
<1> QED BY <1>1, FS_Surjection DEF T

\* There are finitely many runs, whatever their number.
LEMMA RunsAreFinite ==
  ASSUME ReportInv
  PROVE  IsFiniteSet(AllRuns)
<1>1. ASSUME NEW r \in Rid PROVE IsFiniteSet(RunsIn(r))
  <2>1. RunsOk(r) BY DEF ReportInv
  <2>2. DOMAIN Jobs(r) = 1..Len(Jobs(r)) /\ Len(Jobs(r)) \in Nat BY JobsAssumption
  <2>3. PICK D : D = DOMAIN run[r] OBVIOUS
  <2>4. IsFiniteSet(D) BY <2>1, <2>2, <2>3, FS_Interval DEF RunsOk
  <2>5. IsFiniteSet({r}) BY FS_Singleton
  <2>6. IsFiniteSet({r} \X D) BY <2>4, <2>5, FS_Product
  <2>7. RunsIn(r) \subseteq {r} \X D BY <2>3 DEF RunsIn
  <2> QED BY <2>6, <2>7, FS_Subset
<1> DEFINE f == [r \in Rid |-> RunsIn(r)]
           S == {f[r] : r \in Rid}
<1>2. IsFiniteSet(Rid) BY ReportsAssumption
<1>3. IsFiniteSet(S)
  <2> HIDE DEF f
  <2> QED BY <1>2, ImageIsFinite
<1>4. \A T \in S : IsFiniteSet(T) BY <1>1
<1>5. AllRuns = UNION S BY DEF AllRuns
<1> HIDE DEF S
<1> QED BY <1>3, <1>4, <1>5, FS_UNION

\* A run that passed, or failed as expected, left the whole of a log.
LEMMA GoodLog ==
  ASSUME ReportInv, NEW x \in AllRuns, Says(x, "PASS") \/ Says(x, "XFAIL")
  PROVE  /\ R(x).log # NoFile /\ FcOk(R(x).log.fc) /\ LedgerOk(R(x).log.ledger)
         /\ R(x).dir /\ R(x).vfile \notin {NoFile, <<>>}
<1>1. "PASS" \in Words /\ "XFAIL" \in Words /\ "FAIL" \in Words BY DEF Words
<1>2. HasVerdict(x) /\ ~Says(x, "FAIL") BY DEF Says
<1>3. R(x).log \in LogsOf[Job(x).test] /\ R(x).dir /\ R(x).vfile \notin {NoFile, <<>>} BY <1>2, SaysIs
<1>4. Job(x).test = Jobs(x[1])[x[2]].e.test /\ x[2] \in DOMAIN Jobs(x[1]) /\ x[1] \in Rid BY JobOf
<1>5. FcOk(R(x).log.fc) /\ LedgerOk(R(x).log.ledger) BY <1>3, <1>4, JobsAssumption
<1>6. R(x).log # NoFile BY <1>3, NoFileIs
<1> QED BY <1>3, <1>5, <1>6

\* The runs that passing_runs.py names are those whose verdict is PASS.
LEMMA PassingIsGood ==
  ASSUME ReportInv, NEW rids
  PROVE  Passing(rids) = Good(rids)
<1>1. "PASS" \in Words BY DEF Words
<1>2. ASSUME NEW x \in AllRuns PROVE Says(x, "PASS") <=> R(x).dir /\ ScanVerdict(R(x).vfile) = "PASS"
  <2>1. Says(x, "PASS") <=> ScanVerdict(R(x).vfile) = "PASS" BY <1>1, SaysIs
  <2>2. Says(x, "PASS") => R(x).dir BY GoodLog
  <2> QED BY <2>1, <2>2
<1> QED BY <1>2 DEF Passing, Good

\* So the merged database counts what the passing runs hit, and nothing else.
LEMMA BinsKept ==
  ASSUME ReportInv, NEW rids
  PROVE  BinsHonest(Covered(rids), Good(rids))
<1>1. PICK G : G = Good(rids) OBVIOUS
<1>2. G \subseteq AllRuns /\ \A x \in G : Says(x, "PASS") BY <1>1 DEF Good
<1> DEFINE f == [x \in G |-> <<x, R(x).log.fc>>]
           Q == {f[x] : x \in G}
<1>3. IsFiniteSet(Q)
  <2>1. IsFiniteSet(G) BY <1>2, RunsAreFinite, FS_Subset
  <2> HIDE DEF f
  <2> QED BY <2>1, ImageIsFinite
<1>4. PICK db : db = Covered(rids) OBVIOUS
<1>5. db = Merge(Q) BY <1>1, <1>4, PassingIsGood DEF Covered
<1>6. \A q \in Q : FcOk(q[2]) BY <1>2, GoodLog
<1>7. DbOf(db, Q)
  <2> HIDE DEF Q
  <2> QED BY <1>3, <1>5, <1>6, MergeIs
<1>8. ASSUME NEW b
      PROVE  /\ (\E q \in Q : Listed(q[2], b)) <=> b \in Declared(G) \cup Text(G)
             /\ (\E q \in Q : HitIn(q[2], b)) <=> WasHit(G, b)
             /\ (\E q \in Q : IllegalIn(q[2], b)) <=> b \in Illegal(G)
  <2>1. \A x \in G : f[x] \in Q /\ f[x][2] = R(x).log.fc OBVIOUS
  <2>2. \A q \in Q : \E x \in G : q = f[x] OBVIOUS
  <2> HIDE DEF Q, f
  <2>3. (\E q \in Q : Listed(q[2], b)) <=> \E x \in G : Listed(R(x).log.fc, b) BY <2>1, <2>2
  <2>4. (\E q \in Q : HitIn(q[2], b)) <=> \E x \in G : HitIn(R(x).log.fc, b) BY <2>1, <2>2
  <2>5. (\E q \in Q : IllegalIn(q[2], b)) <=> \E x \in G : IllegalIn(R(x).log.fc, b) BY <2>1, <2>2
  <2>6. (\E x \in G : Listed(R(x).log.fc, b)) <=> b \in Declared(G) \cup Text(G)
    BY DEF Listed, Declared, Text, Json, Axi4
  <2>7. (\E x \in G : HitIn(R(x).log.fc, b)) <=> WasHit(G, b)
    BY DEF HitIn, WasHit, Json, Axi4
  <2>8. (\E x \in G : IllegalIn(R(x).log.fc, b)) <=> b \in Illegal(G)
    BY DEF IllegalIn, Illegal, Declared, Json
  <2> QED BY <2>3, <2>4, <2>5, <2>6, <2>7, <2>8
<1> HIDE DEF Q
<1>9. \A b : WasHit(G, b) => b \in Declared(G) \cup Text(G)
  BY DEF WasHit, Declared, Text
<1>10. Illegal(G) \subseteq Declared(G) BY DEF Illegal
<1>11. /\ \A b : b \in DOMAIN db <=> b \in Declared(G) \cup Text(G)
       /\ \A b \in DOMAIN db : /\ db[b].hits \in Nat
                               /\ db[b].hits > 0 <=> WasHit(G, b)
                               /\ db[b].illegal <=> b \in Illegal(G)
  BY <1>7, <1>8 DEF DbOf
<1> DEFINE open == (Declared(G) \cup Text(G)) \ Illegal(G)
<1>12. Counted(db) = open BY <1>11 DEF Counted
<1>13. Hit(db) = {b \in open : WasHit(G, b)} BY <1>11, <1>12 DEF Hit
<1>14. IllegalHits(db) = {b \in Illegal(G) : WasHit(G, b)} BY <1>10, <1>11 DEF IllegalHits
<1>15. Hit(db) \cup Holes(db) = open
  <2>1. \A b \in open : db[b].hits > 0 \/ db[b].hits = 0 BY <1>11
  <2> QED BY <1>12, <2>1 DEF Hit, Holes
<1>16. Tally(db) = [hit |-> Cardinality(Hit(db)), total |-> Cardinality(open)]
  BY <1>12 DEF Tally
<1> QED BY <1>1, <1>4, <1>13, <1>14, <1>15, <1>16 DEF BinsHonest

\* The word a verdict file begins with is its verdict, unless it begins with a note.
LEMMA FirstIs ==
  ASSUME ReportInv, NEW x \in AllRuns
  PROVE  /\ \A word \in Words : FirstWord(R(x).vfile) = word => Says(x, word)
         /\ \A word \in Words : Says(x, word) => FirstWord(R(x).vfile) = word \/ HasNote(R(x).vfile)
<1>1. "unjudged" \notin Words /\ "XPASS" \notin Words BY DEF Words
<1>2. CASE R(x).vfile \in {NoFile, <<>>}
  <2>1. FirstWord(R(x).vfile) = "unjudged" BY <1>2 DEF FirstWord
  <2>2. \A word \in Words : ~Says(x, word)
    <3>1. ~HasVerdict(x) BY <1>2, SaysIs
    <3> QED BY <3>1 DEF Says
  <2> QED BY <1>1, <2>1, <2>2
<1>3. CASE R(x).vfile \notin {NoFile, <<>>}
  <2>1. PICK word \in Words : Says(x, word) /\ OneVerdict(R(x).vfile, word)
    <3>1. HasVerdict(x) BY <1>3, SaysIs
    <3>2. \E word : word \in Words /\ Says(x, word) /\ OneVerdict(R(x).vfile, word)
      <4>1. HasVerdict(x) => \E word \in Words : Says(x, word) /\ OneVerdict(R(x).vfile, word) BY SaysIs
      <4> QED BY <3>1, <4>1
    <3> QED BY <3>2
  <2>2. \A w \in Words : Says(x, w) <=> w = word BY <2>1 DEF Says
  <2>3. PICK lines : lines = R(x).vfile OBVIOUS
  <2>4. PICK n \in Nat : /\ DOMAIN lines = 1..n + 1 /\ lines[n + 1].word = word
                         /\ \A i \in 1..n : lines[i].word = "XPASS"
    BY <2>1, <2>3 DEF OneVerdict
  <2>5. FirstWord(lines) = lines[1].word BY <1>3, <2>3 DEF FirstWord
  <2>6. CASE n = 0
    <3>1. FirstWord(lines) = word BY <2>4, <2>5, <2>6
    <3> QED BY <2>2, <2>3, <3>1
  <2>7. CASE n # 0
    <3>1. 1 \in 1..n /\ 1 \in DOMAIN lines BY <2>4, <2>7
    <3>2. FirstWord(lines) = "XPASS" /\ lines[1].word = "XPASS" BY <2>4, <2>5, <3>1
    <3>3. HasNote(lines) BY <3>1, <3>2 DEF HasNote
    <3> QED BY <1>1, <2>3, <3>2, <3>3
  <2> QED BY <2>6, <2>7
<1> QED BY <1>2, <1>3

\* What a status of the inventory says of the ledgers.
LEMMA StatusIs ==
  ASSUME NEW rules, NEW runs, NEW rule, rules[rule].kind \notin {"fired", "hit", "never runs"}
  PROVE  LET key == Primary(rules, rule) IN
         /\ RuleStatus(rules, runs, rule) = "fired" => \E who \in Fires(runs, key) : Trusted(who)
         /\ RuleStatus(rules, runs, rule) = "never runs" => Checks(runs, key) = 0
<1> DEFINE key == Primary(rules, rule)
           kind == rules[rule].kind
<1>1. CASE rules[rule].scope = "N/A"
  <2>1. RuleStatus(rules, runs, rule) = "n/a" BY <1>1, Zenon DEF RuleStatus
  <2> QED BY <2>1
<1>2. CASE rules[rule].scope # "N/A" /\ kind \notin {"checker", "via"}
  <2>1. RuleStatus(rules, runs, rule) = kind BY <1>2, Zenon DEF RuleStatus
  <2> QED BY <2>1
<1>3. CASE rules[rule].scope # "N/A" /\ kind \in {"checker", "via"}
  <2>1. RuleStatus(rules, runs, rule) =
          IF Checks(runs, key) = 0 /\ Fires(runs, key) = {} THEN "never runs"
          ELSE IF \E who \in Fires(runs, key) : Trusted(who) THEN "fired" ELSE "hit"
    BY <1>3, Zenon DEF RuleStatus
  <2> HIDE DEF key
  <2> QED BY <2>1 DEF key
<1> QED BY <1>1, <1>2, <1>3

LedgerRow(x) == [id |-> x, word |-> FirstWord(R(x).vfile), t1 |-> BuildOf[x[1]].tb = "t1",
                 ledger |-> R(x).log.ledger]

\* The inventory says of a rule what the ledgers of the judged runs say of it.
LEMMA RulesKept ==
  ASSUME ReportInv
  PROVE  RulesHonest(Ledgers)
<1> SUFFICES ASSUME NEW rule \in DOMAIN Rules
             PROVE  /\ RuleStatus(Rules, Ledgers, rule) = "fired" => Evidence(rule, "fires") # {}
                    /\ RuleStatus(Rules, Ledgers, rule) = "never runs" =>
                         \A x \in Evidence(rule, "checks") : HasNote(R(x).vfile) \/ BuildOf[x[1]].tb # "t1"
  BY DEF RulesHonest
<1>1. PICK key : key = Primary(Rules, rule) OBVIOUS
<1>2. PICK L : L = Ledgers OBVIOUS
<1>3. PICK A : A = {x \in AllRuns : R(x).log # NoFile /\ R(x).log.ledger # <<>>} OBVIOUS
<1>4. L = {LedgerRow(x) : x \in A} BY <1>2, <1>3 DEF Ledgers, LedgerRow
<1>5. Rules[rule].kind \notin {"fired", "hit", "never runs"} BY ReportsAssumption
<1>6. /\ RuleStatus(Rules, L, rule) = "fired" => \E who \in Fires(L, key) : Trusted(who)
      /\ RuleStatus(Rules, L, rule) = "never runs" => Checks(L, key) = 0
  BY <1>1, <1>5, StatusIs
<1>7. "PASS" \in Words /\ "XFAIL" \in Words BY DEF Words
<1>8. \A x \in A : /\ LedgerRow(x).word = FirstWord(R(x).vfile) /\ LedgerRow(x).ledger = R(x).log.ledger
                   /\ LedgerRow(x).t1 <=> BuildOf[x[1]].tb = "t1"
  BY DEF LedgerRow
<1>9. ASSUME NEW who \in Fires(L, key), Trusted(who) PROVE Evidence(rule, "fires") # {}
  <2>1. who \in L /\ key \in DOMAIN who.ledger /\ who.ledger[key].fires > 0 BY DEF Fires, With
  <2>2. PICK x \in A : who = LedgerRow(x) BY <1>4, <2>1
  <2>3. FirstWord(R(x).vfile) \in {"PASS", "XFAIL"} BY <1>8, <1>9, <2>2 DEF Trusted
  <2>4. x \in AllRuns BY <1>3
  <2>5. Says(x, "PASS") \/ Says(x, "XFAIL") BY <1>7, <2>3, <2>4, FirstIs
  <2>6. key \in DOMAIN R(x).log.ledger /\ R(x).log.ledger[key].fires > 0 BY <1>8, <2>1, <2>2
  <2>7. x \in Evidence(rule, "fires") BY <1>1, <2>4, <2>5, <2>6 DEF Evidence
  <2> QED BY <2>7
<1>10. ASSUME Checks(L, key) = 0, NEW x \in Evidence(rule, "checks")
       PROVE  HasNote(R(x).vfile) \/ BuildOf[x[1]].tb # "t1"
  <2>1. SUFFICES ASSUME ~HasNote(R(x).vfile), BuildOf[x[1]].tb = "t1" PROVE FALSE
    OBVIOUS
  <2>2. /\ x \in AllRuns /\ (Says(x, "PASS") \/ Says(x, "XFAIL"))
        /\ key \in DOMAIN R(x).log.ledger /\ R(x).log.ledger[key].checks > 0
    BY <1>1 DEF Evidence
  <2>3. R(x).log # NoFile /\ R(x).log.ledger # <<>>
    <3>1. DOMAIN R(x).log.ledger # {} BY <2>2
    <3> QED BY <2>2, <3>1, GoodLog
  <2>4. x \in A BY <1>3, <2>2, <2>3
  <2>5. PICK who : who = LedgerRow(x) OBVIOUS
  <2>6. who \in L BY <1>4, <2>4, <2>5
  <2>7. Trusted(who) /\ who.t1
    <3>1. FirstWord(R(x).vfile) \in {"PASS", "XFAIL"} BY <1>7, <2>1, <2>2, FirstIs
    <3> QED BY <1>8, <2>1, <2>4, <2>5, <3>1 DEF Trusted
  <2>8. PICK S : S = {r \in With(L, key) : Trusted(r) /\ r.t1} OBVIOUS
  <2>9. who \in S BY <1>8, <2>2, <2>4, <2>5, <2>6, <2>7, <2>8 DEF With
  <2>10. PICK m : m = [r \in S |-> r.ledger[key].checks] OBVIOUS
  <2>11. Checks(L, key) = Total(m) BY <2>8, <2>10 DEF Checks
  <2>12. IsFiniteSet(S)
    <3> DEFINE f == [y \in A |-> LedgerRow(y)]
    <3>1. IsFiniteSet(A) BY <1>3, RunsAreFinite, FS_Subset
    <3>2. L = {f[y] : y \in A} BY <1>4
    <3>3. IsFiniteSet(L)
      <4> HIDE DEF f
      <4> QED BY <3>1, <3>2, ImageIsFinite
    <3>4. S \subseteq L BY <2>8 DEF With
    <3> QED BY <3>3, <3>4, FS_Subset
  <2>13. ASSUME NEW r \in S PROVE m[r] \in Nat
    <3>1. r \in L /\ key \in DOMAIN r.ledger /\ Trusted(r) BY <2>8 DEF With
    <3>2. PICK y \in A : r = LedgerRow(y) BY <1>4, <3>1
    <3>3. FirstWord(R(y).vfile) \in {"PASS", "XFAIL"} BY <1>8, <3>1, <3>2 DEF Trusted
    <3>4. y \in AllRuns BY <1>3
    <3>5. Says(y, "PASS") \/ Says(y, "XFAIL") BY <1>7, <3>3, <3>4, FirstIs
    <3>6. LedgerOk(R(y).log.ledger) BY <3>4, <3>5, GoodLog
    <3>7. key \in DOMAIN R(y).log.ledger BY <1>8, <3>1, <3>2
    <3>8. r.ledger[key].checks \in Nat BY <1>8, <3>2, <3>6, <3>7 DEF LedgerOk
    <3> QED BY <2>10, <3>8
  <2>14. m[who] > 0 /\ who \in DOMAIN m
    <3>1. m[who] = who.ledger[key].checks /\ DOMAIN m = S BY <2>9, <2>10
    <3>2. who.ledger[key].checks > 0 BY <1>8, <2>2, <2>4, <2>5
    <3> QED BY <2>9, <3>1, <3>2
  <2>15. IsFiniteSet(DOMAIN m) /\ \A k \in DOMAIN m : m[k] \in Nat
    <3>1. DOMAIN m = S BY <2>10
    <3> QED BY <2>12, <2>13, <3>1
  <2>16. Total(m) > 0
    <3>1. \E k \in DOMAIN m : m[k] > 0 BY <2>14
    <3> QED BY <2>15, <3>1, TotalIs
  <2> QED BY <1>10, <2>11, <2>16
<1> QED BY <1>1, <1>2, <1>6, <1>9, <1>10

LEMMA CoverageKept ==
  ASSUME ReportInv
  PROVE  CoverageHonest
<1>1. ASSUME NEW rids PROVE PerfRuns(rids) \subseteq Good(rids)
  <2>1. "PASS" \in Words BY DEF Words
  <2>2. ASSUME NEW x \in PerfRuns(rids) PROVE x \in Good(rids)
    <3>1. x \in AllRuns /\ x[1] \in rids /\ FirstWord(R(x).vfile) = "PASS" BY DEF PerfRuns
    <3>2. Says(x, "PASS") BY <2>1, <3>1, FirstIs
    <3> QED BY <3>1, <3>2 DEF Good
  <2> QED BY <2>2
<1> QED BY <1>1, BinsKept, RulesKept DEF CoverageHonest

\* The coverage that fc_report.py merges, of one regression or of all, is that of
\* the runs whose verdict is PASS: a bin is hit exactly when one of them hit it,
\* every other bin that they declare is a hole, and a hit on an illegal bin is
\* listed apart and counts for neither; perf_report.py averages such runs only;
\* and rule_inventory.py calls no rule fired that fired in no run that passed or
\* failed as expected, nor one "never runs" that such a run checked, but for
\* the runs of which it cannot know.
THEOREM CoverageIsHonest == Spec => []CoverageHonest
<1> QED BY ReportsAreKept, CoverageKept, PTL

\* The rows of a regression that is over are as many as its runs.
LEMMA CompleteKept ==
  ASSUME ReportInv
  PROVE  ResultsComplete
<1> SUFFICES ASSUME NEW r \in Rid, csv[r] # NoFile, Waiting(r) = {}
             PROVE  Len(csv[r]) = Cardinality(RunsIn(r))
  BY DEF ResultsComplete
<1>1. CsvOk(r) /\ RunsOk(r) /\ Collected(r) BY DEF ReportInv
<1>2. InFlight(r) = {} /\ csv[r] = rows[r] BY <1>1 DEF CsvOk
<1>3. Ended(r) = DOMAIN run[r]
  <2>1. ASSUME NEW i \in DOMAIN run[r] PROVE run[r][i].pc = "ended"
    <3>1. RunOk(run[r][i], run[r][i].job.e.test) BY <1>1 DEF RunsOk
    <3>2. run[r][i].pc \in {"queued", "made", "judging", "ended"} BY <3>1 DEF RunOk
    <3>3. run[r][i].pc \notin {"made", "judging"} BY <1>2 DEF InFlight
    <3>4. run[r][i].pc # "queued" BY DEF Waiting
    <3> QED BY <3>2, <3>3, <3>4
  <2> QED BY <2>1 DEF Ended
<1>4. PICK pos : rows[r] \in Seq(ToSet(rows[r])) /\ pos \in Bijection(DOMAIN rows[r], Ended(r))
  BY <1>1 DEF Collected
<1>5. DOMAIN rows[r] = 1..Len(rows[r]) /\ Len(rows[r]) \in Nat BY <1>4
<1> DEFINE g == [j \in DOMAIN rows[r] |-> <<r, pos[j]>>]
<1>6. g \in Bijection(DOMAIN rows[r], RunsIn(r))
  <2>1. /\ pos \in [DOMAIN rows[r] -> DOMAIN run[r]]
        /\ \A i, j \in DOMAIN rows[r] : pos[i] = pos[j] => i = j
        /\ \A i \in DOMAIN run[r] : \E j \in DOMAIN rows[r] : pos[j] = i
    BY <1>3, <1>4 DEF Bijection, Injection, Surjection, IsInjective
  <2>2. g \in [DOMAIN rows[r] -> RunsIn(r)] BY <2>1 DEF RunsIn
  <2>3. \A i, j \in DOMAIN rows[r] : g[i] = g[j] => i = j BY <2>1
  <2>4. \A y \in RunsIn(r) : \E j \in DOMAIN rows[r] : g[j] = y BY <2>1 DEF RunsIn
  <2> HIDE DEF g
  <2> QED BY <2>2, <2>3, <2>4 DEF Bijection, Injection, Surjection, IsInjective
<1>7. IsFiniteSet(DOMAIN rows[r]) /\ Cardinality(DOMAIN rows[r]) = Len(rows[r])
  BY <1>5, FS_Interval
<1>8. Cardinality(RunsIn(r)) = Cardinality(DOMAIN rows[r])
  <2> HIDE DEF g
  <2> QED BY <1>6, <1>7, FS_Bijection DEF ExistsBijection
<1> QED BY <1>2, <1>7, <1>8

\* When run_list.py has written the CSV and no run was left waiting, there is one
\* row for every run of the list: none is lost, and none is collected twice.
\* (ListsAgree has this as one of its parts.)
THEOREM NoResultMissing == Spec => []ResultsComplete
<1> QED BY ReportsAreKept, CompleteKept, PTL

-----------------------------------------------------------------------------
(* The testlists: what reading them gives.                                 *)

\* The tests and groups that the files hold, the tests as a list knows them, and
\* the lists of these, whose tests have names of their own.
TestsIn(fs) == UNION {ToSet(fs[p].tests) : p \in DOMAIN fs}
GroupsIn(fs) == UNION {ToSet(fs[p].groups) : p \in DOMAIN fs}
ItemsIn(fs) == {[t |-> t, name |-> t.name, source |-> p] : t \in TestsIn(fs), p \in DOMAIN fs}
ListsOf(fs) ==
  {l \in [ok : BOOLEAN, tests : Seq(ItemsIn(fs)), groups : Seq(GroupsIn(fs))] :
     l.ok => Distinct(l.tests)}

\* A list that cannot be read is one of what reading may give.
LEMMA NoListIs ==
  ASSUME NEW fs
  PROVE  NoList \in ListsOf(fs)
BY DEF NoList, ListsOf

\* A list with what it includes is a list.
LEMMA ListOfIs ==
  ASSUME NEW fs, NEW path \in DOMAIN fs, FileOk(fs[path]), NEW n \in Nat,
         NEW parts \in [1..n -> ListsOf(fs)]
  PROVE  ListOf(path, fs[path], parts) \in ListsOf(fs)
<1> DEFINE file == fs[path]
           own == [i \in DOMAIN file.tests |-> [t |-> file.tests[i], name |-> file.tests[i].name,
                                                source |-> path]]
           tests == FlattenSeq([i \in DOMAIN parts |-> parts[i].tests]) \o own
           groups == FlattenSeq([i \in DOMAIN parts |-> parts[i].groups]) \o file.groups
<1>1. file.tests \in Seq(TestsIn(fs)) /\ file.groups \in Seq(GroupsIn(fs))
  <2>1. ToSet(file.tests) \subseteq TestsIn(fs) /\ ToSet(file.groups) \subseteq GroupsIn(fs)
    BY DEF TestsIn, GroupsIn
  <2>2. file.tests \in Seq(ToSet(file.tests)) /\ file.groups \in Seq(ToSet(file.groups))
    BY DEF FileOk, IsSeq
  <2> HIDE DEF file
  <2> QED BY <2>1, <2>2, SeqMonotonic
<1>2. own \in Seq(ItemsIn(fs))
  <2>1. \A i \in DOMAIN file.tests : file.tests[i] \in TestsIn(fs) BY <1>1
  <2>2. \A i \in DOMAIN file.tests : own[i] \in ItemsIn(fs)
    <3> HIDE DEF file
    <3> QED BY <2>1 DEF ItemsIn
  <2>3. DOMAIN own = 1..Len(file.tests) /\ Len(file.tests) \in Nat BY <1>1
  <2>4. own = [i \in 1..Len(file.tests) |-> own[i]] BY <2>3
  <2> HIDE DEF own, file
  <2> QED BY <2>2, <2>3, <2>4
<1>3. \A i \in 1..n : parts[i].tests \in Seq(ItemsIn(fs)) /\ parts[i].groups \in Seq(GroupsIn(fs))
  BY DEF ListsOf
<1>4. DOMAIN parts = 1..n OBVIOUS
<1>5. /\ [i \in DOMAIN parts |-> parts[i].tests] \in [1..n -> Seq(ItemsIn(fs))]
      /\ [i \in DOMAIN parts |-> parts[i].groups] \in [1..n -> Seq(GroupsIn(fs))]
  BY <1>3, <1>4
<1>6. /\ FlattenSeq([i \in DOMAIN parts |-> parts[i].tests]) \in Seq(ItemsIn(fs))
      /\ FlattenSeq([i \in DOMAIN parts |-> parts[i].groups]) \in Seq(GroupsIn(fs))
  BY <1>5, FlattenIs
<1>7. tests \in Seq(ItemsIn(fs)) /\ groups \in Seq(GroupsIn(fs))
  <2> HIDE DEF own, file
  <2> QED BY <1>1, <1>2, <1>6
<1> HIDE DEF tests, groups
<1>8. Distinct(tests) => [ok |-> TRUE, tests |-> tests, groups |-> groups] \in ListsOf(fs)
  BY <1>7 DEF ListsOf
<1>9. \/ ListOf(path, fs[path], parts) = NoList
      \/ Distinct(tests) /\ ListOf(path, fs[path], parts) = [ok |-> TRUE, tests |-> tests, groups |-> groups]
  BY DEF ListOf, tests, groups, own, file
<1> QED BY <1>8, <1>9, NoListIs

\* The recursive function that reads a list with its includes exists.  D holds the
\* lists that may still be read: whatever they may, there is what each list gives.
LEMMA ReadingEnds ==
  ASSUME NEW fs, IsFiniteSet(DOMAIN fs), \A p \in DOMAIN fs : FileOk(fs[p])
  PROVE  LET D == DOMAIN fs
             Part(g, T, inc) == IF inc \in T THEN g[T \ {inc}][inc] ELSE NoList
             Read(g, T, p) == ListOf(p, fs[p],
                                [i \in DOMAIN fs[p].includes |-> Part(g, T, fs[p].includes[i])])
         IN  \E g \in [SUBSET D -> [D -> ListsOf(fs)]] : \A T \in SUBSET D, p \in D : g[T][p] = Read(g, T, p)
<1> DEFINE D == DOMAIN fs
           V == [D -> ListsOf(fs)]
           Part(g, T, inc) == IF inc \in T THEN g[T \ {inc}][inc] ELSE NoList
           Parts(g, T, p) == [i \in DOMAIN fs[p].includes |-> Part(g, T, fs[p].includes[i])]
           Read(g, T, p) == ListOf(p, fs[p], Parts(g, T, p))
           Small(m) == {T \in SUBSET D : Cardinality(T) < m}
           Of(m) == {g \in [Small(m) -> V] : \A T \in Small(m), p \in D : g[T][p] = Read(g, T, p)}
           B == {m \in Nat : Of(m) = {}}
<1>1. \A T \in SUBSET D : IsFiniteSet(T) /\ Cardinality(T) \in Nat BY FS_Subset, FS_CardinalityType
<1>2. ASSUME NEW m \in Nat, NEW g \in [Small(m) -> V], NEW T \in SUBSET D, Cardinality(T) <= m, NEW p \in D
      PROVE Read(g, T, p) \in ListsOf(fs)
  <2>1. ASSUME NEW inc PROVE Part(g, T, inc) \in ListsOf(fs)
    <3>1. CASE inc \in T
      <4>1. Cardinality(T \ {inc}) = Cardinality(T) - 1 BY <1>1, <3>1, FS_RemoveElement
      <4>2. T \ {inc} \in Small(m) BY <1>1, <1>2, <4>1
      <4>3. g[T \ {inc}] \in V BY <1>2, <4>2
      <4>4. inc \in D BY <1>2, <3>1
      <4> HIDE DEF Small
      <4> QED BY <3>1, <4>3, <4>4
    <3> QED BY <3>1, NoListIs
  <2>2. DOMAIN fs[p].includes = 1..Len(fs[p].includes) /\ Len(fs[p].includes) \in Nat
    BY <1>2 DEF FileOk, IsSeq
  <2>3. Parts(g, T, p) \in [1..Len(fs[p].includes) -> ListsOf(fs)]
    <3> HIDE DEF Part
    <3> QED BY <2>1, <2>2
  <2> HIDE DEF Parts, Small
  <2> QED BY <1>2, <2>2, <2>3, ListOfIs
<1>3. \A m \in Nat : Of(m) # {}
  <2>1. SUFFICES ASSUME B # {} PROVE FALSE
    <3> HIDE DEF Of
    <3> QED BY <2>1
  <2>2. PICK m \in B : \A l \in B : m <= l
    <3>1. B \subseteq Nat
      <4> HIDE DEF Of
      <4> QED OBVIOUS
    <3> HIDE DEF B
    <3> QED BY <2>1, <3>1, LeastOf
  <2>3. m \in Nat /\ Of(m) = {}
    <3> HIDE DEF Of
    <3> QED BY <2>2
  <2>4. CASE m = 0
    <3>1. Small(0) = {} BY <1>1
    <3> DEFINE g == [T \in {} |-> T]
    <3>2. g \in Of(0) BY <3>1
    <3> HIDE DEF Of
    <3> QED BY <2>3, <2>4, <3>2
  <2>5. CASE m # 0
    <3>1. m - 1 \in Nat /\ m - 1 < m BY <2>3, <2>5
    <3>2. m - 1 \notin B
      <4> HIDE DEF B
      <4> QED BY <2>2, <2>3, <3>1
    <3>3. PICK g : g \in Of(m - 1)
      <4> HIDE DEF Of
      <4> QED BY <3>1, <3>2
    <3>4. g \in [Small(m - 1) -> V] /\ \A T \in Small(m - 1), p \in D : g[T][p] = Read(g, T, p)
      <4> HIDE DEF Small, V, Read
      <4> QED BY <3>3
    <3> DEFINE h == [T \in Small(m) |-> [p \in D |-> Read(g, T, p)]]
    <3>5. ASSUME NEW T \in Small(m) PROVE T \in SUBSET D /\ Cardinality(T) <= m - 1
      BY <1>1, <2>3, <3>1, <3>5
    <3>6. h \in [Small(m) -> V]
      <4>1. ASSUME NEW T \in Small(m), NEW p \in D PROVE Read(g, T, p) \in ListsOf(fs)
        <5>1. T \in SUBSET D /\ Cardinality(T) <= m - 1 BY <3>5, <4>1
        <5> HIDE DEF Small, Read, V
        <5> QED BY <1>2, <3>1, <3>4, <4>1, <5>1
      <4> HIDE DEF Small, Read
      <4> QED BY <4>1
    <3>7. ASSUME NEW T \in Small(m), NEW p \in D PROVE h[T][p] = Read(h, T, p)
      <4>1. h[T][p] = Read(g, T, p)
        <5> HIDE DEF Small, Read
        <5> QED BY <3>7
      <4>2. ASSUME NEW inc PROVE Part(g, T, inc) = Part(h, T, inc)
        <5>1. CASE inc \in T
          <6> DEFINE W == T \ {inc}
          <6>1. T \in SUBSET D /\ Cardinality(T) <= m - 1 BY <3>5, <3>7
          <6>2. Cardinality(W) = Cardinality(T) - 1 BY <1>1, <5>1, <6>1, FS_RemoveElement
          <6>3. W \in Small(m - 1) /\ W \in Small(m) /\ inc \in D BY <1>1, <2>3, <5>1, <6>1, <6>2
          <6>4. g[W][inc] = Read(g, W, inc)
            <7> HIDE DEF Small, Read, W, V
            <7> QED BY <3>4, <6>3
          <6>5. h[W][inc] = Read(g, W, inc)
            <7> HIDE DEF Small, Read, W
            <7> QED BY <6>3
          <6> HIDE DEF h, Small, Read, V
          <6> QED BY <5>1, <6>4, <6>5
        <5> QED BY <5>1
      <4>3. Parts(g, T, p) = Parts(h, T, p)
        <5> HIDE DEF Part, h, Small
        <5> QED BY <4>2
      <4> HIDE DEF Parts, h, Small
      <4> QED BY <4>1, <4>3
    <3>8. h \in Of(m)
      <4> HIDE DEF h, Small, Read, V
      <4> QED BY <3>6, <3>7
    <3> HIDE DEF Of
    <3> QED BY <2>3, <3>8
  <2> HIDE DEF Of, B
  <2> QED BY <2>4, <2>5
<1>4. IsFiniteSet(D) /\ Cardinality(D) \in Nat BY FS_CardinalityType
<1>5. PICK g : g \in Of(Cardinality(D) + 1)
  <2> HIDE DEF Of
  <2> QED BY <1>3, <1>4
<1>6. Small(Cardinality(D) + 1) = SUBSET D
  <2>1. \A T \in SUBSET D : Cardinality(T) <= Cardinality(D) BY <1>4, FS_Subset
  <2> QED BY <1>1, <1>4, <2>1
<1>7. g \in [SUBSET D -> V] /\ \A T \in SUBSET D, p \in D : g[T][p] = Read(g, T, p)
  <2> HIDE DEF Small, V, Read
  <2> QED BY <1>5, <1>6
<1> QED
  <2> HIDE DEF ListsOf
  <2> QED BY <1>7

\* What is read is a list, whatever includes what.
LEMMA LoadedIs ==
  ASSUME NEW fs, IsFiniteSet(DOMAIN fs), \A p \in DOMAIN fs : FileOk(fs[p]), NEW path
  PROVE  Loaded(fs, path) \in ListsOf(fs)
<1> DEFINE D == DOMAIN fs
           Ats == D \X SUBSET D
           left(at) == D \ (at[2] \cup {at[1]})
           part(load, at, inc) == IF inc \in D \ (at[2] \cup {at[1]})
                                  THEN load[<<inc, at[2] \cup {at[1]}>>] ELSE NoList
           parts(load, at) == [i \in DOMAIN fs[at[1]].includes |-> part(load, at, fs[at[1]].includes[i])]
           read(load, at) == ListOf(at[1], fs[at[1]], parts(load, at))
           Part(g, T, inc) == IF inc \in T THEN g[T \ {inc}][inc] ELSE NoList
           Parts(g, T, p) == [i \in DOMAIN fs[p].includes |-> Part(g, T, fs[p].includes[i])]
           Read(g, T, p) == ListOf(p, fs[p], Parts(g, T, p))
<1>1. PICK g \in [SUBSET D -> [D -> ListsOf(fs)]] : \A T \in SUBSET D, p \in D : g[T][p] = Read(g, T, p)
  BY ReadingEnds
<1> DEFINE h == [at \in Ats |-> g[left(at)][at[1]]]
<1>2. ASSUME NEW at \in Ats PROVE h[at] = read(h, at)
  <2>1. left(at) \in SUBSET D /\ at[1] \in D /\ at[2] \in SUBSET D OBVIOUS
  <2>2. h[at] = Read(g, left(at), at[1])
    <3>1. h[at] = g[left(at)][at[1]] OBVIOUS
    <3> HIDE DEF h, left, Read
    <3> QED BY <1>1, <2>1, <3>1
  <2>3. ASSUME NEW inc PROVE Part(g, left(at), inc) = part(h, at, inc)
    <3>1. CASE inc \in left(at)
      <4> DEFINE next == <<inc, at[2] \cup {at[1]}>>
      <4>1. next \in Ats /\ next[1] = inc /\ left(next) = left(at) \ {inc} BY <2>1, <3>1
      <4>2. h[next] = g[left(next)][next[1]] BY <4>1
      <4>3. part(h, at, inc) = h[next] BY <3>1
      <4> HIDE DEF h, next, left
      <4> QED BY <3>1, <4>1, <4>2, <4>3
    <3>2. CASE inc \notin left(at) BY <3>2
    <3> QED BY <3>1, <3>2
  <2>4. Parts(g, left(at), at[1]) = parts(h, at)
    <3> HIDE DEF Part, part, h, left
    <3> QED BY <2>3
  <2> HIDE DEF h, left, Parts, parts
  <2> QED BY <2>2, <2>4
<1>3. h = [at \in Ats |-> read(h, at)]
  <2>1. h = [at \in Ats |-> h[at]] OBVIOUS
  <2> HIDE DEF h, read, Ats
  <2> QED BY <1>2, <2>1
<1>4. PICK load : /\ load = [at \in Ats |-> read(load, at)]
                  /\ Loaded(fs, path) = IF path \in D THEN load[<<path, {}>>] ELSE NoList
  <2>1. \E l : l = [at \in Ats |-> read(l, at)] BY <1>3
  <2> DEFINE it == CHOOSE l : l = [at \in Ats |-> read(l, at)]
  <2>2. it = [at \in Ats |-> read(it, at)] BY <2>1
  <2>3. Loaded(fs, path) = IF path \in D THEN it[<<path, {}>>] ELSE NoList BY DEF Loaded
  <2> HIDE DEF it
  <2> QED BY <2>2, <2>3
<1> HIDE DEF h
<1> DEFINE Bad == {at \in Ats : load[at] \notin ListsOf(fs)}
           B == {left(at) : at \in Bad}
<1>5. Bad = {}
  <2>1. SUFFICES ASSUME Bad # {} PROVE FALSE OBVIOUS
  <2>2. PICK U \in B : \A W \in SUBSET U : W # U => W \notin B
    <3>1. B \subseteq SUBSET D OBVIOUS
    <3>2. B # {}
      <4> HIDE DEF Bad, left
      <4> QED BY <2>1
    <3> HIDE DEF B
    <3> QED BY <3>1, <3>2, SmallestSubset
  <2>3. PICK at \in Bad : U = left(at)
    <3> HIDE DEF Bad, left
    <3> QED BY <2>2
  <2>4. at \in Ats /\ load[at] \notin ListsOf(fs) /\ load[at] = read(load, at)
    <3>1. at \in Ats /\ load[at] \notin ListsOf(fs) OBVIOUS
    <3> HIDE DEF read, Ats, Bad
    <3> QED BY <1>4, <3>1
  <2>5. ASSUME NEW inc PROVE part(load, at, inc) \in ListsOf(fs)
    <3>1. CASE inc \in left(at)
      <4> DEFINE next == <<inc, at[2] \cup {at[1]}>>
      <4>1. next \in Ats /\ left(next) = left(at) \ {inc} BY <2>4, <3>1
      <4>2. next \notin Bad
        <5>1. left(next) \in SUBSET U /\ left(next) # U
          <6> HIDE DEF left, next
          <6> QED BY <2>3, <3>1, <4>1
        <5>2. left(next) \notin B
          <6> HIDE DEF B, left, next
          <6> QED BY <2>2, <5>1
        <5> HIDE DEF Bad, left, next
        <5> QED BY <5>2
      <4>3. load[next] \in ListsOf(fs)
        <5> HIDE DEF next
        <5> QED BY <4>1, <4>2
      <4> QED BY <3>1, <4>3
    <3>2. CASE inc \notin left(at) BY <3>2, NoListIs
    <3> QED BY <3>1, <3>2
  <2>6. at[1] \in DOMAIN fs BY <2>4
  <2>7. DOMAIN fs[at[1]].includes = 1..Len(fs[at[1]].includes) /\ Len(fs[at[1]].includes) \in Nat
    BY <2>6 DEF FileOk, IsSeq
  <2>8. parts(load, at) \in [1..Len(fs[at[1]].includes) -> ListsOf(fs)]
    <3> HIDE DEF part
    <3> QED BY <2>5, <2>7
  <2>9. read(load, at) \in ListsOf(fs)
    <3> HIDE DEF parts
    <3> QED BY <2>6, <2>7, <2>8, ListOfIs
  <2> HIDE DEF read
  <2> QED BY <2>4, <2>9
<1>6. path \in D => load[<<path, {}>>] \in ListsOf(fs)
  <2>1. path \in D => <<path, {}>> \in Ats OBVIOUS
  <2>2. \A at \in Ats : load[at] \in ListsOf(fs)
    <3> HIDE DEF Ats
    <3> QED BY <1>5
  <2> HIDE DEF Ats
  <2> QED BY <2>1, <2>2
<1> QED BY <1>4, <1>6, NoListIs

-----------------------------------------------------------------------------
(* The jobs that are made of a list, and the runs that are due.            *)

\* A sequence that is no longer than the set of its elements has none twice.
LEMMA AsManyAsDiffer ==
  ASSUME NEW V, NEW s \in Seq(V), ~(Cardinality(ToSet(s)) < Len(s))
  PROVE  IsInjective(s)
<1>1. s \in [1..Len(s) -> V] /\ Len(s) \in Nat OBVIOUS
<1>2. s \in Surjection(1..Len(s), ToSet(s)) BY <1>1 DEF Surjection, ToSet
<1>3. IsFiniteSet(1..Len(s)) /\ Cardinality(1..Len(s)) = Len(s)
  <2>1. \A m \in Nat : IsFiniteSet(1..m) /\ Cardinality(1..m) = m BY FS_Interval
  <2> QED BY <1>1, <2>1
<1>4. /\ IsFiniteSet(ToSet(s)) /\ Cardinality(ToSet(s)) <= Len(s)
      /\ (Cardinality(ToSet(s)) = Len(s) <=> s \in Injection(1..Len(s), ToSet(s)))
  BY <1>2, <1>3, FS_Surjection
<1>5. Cardinality(ToSet(s)) \in Nat BY <1>4, FS_CardinalityType
<1>6. s \in Injection(1..Len(s), ToSet(s)) BY <1>1, <1>4, <1>5
<1> QED BY <1>6 DEF Injection

\* The names of tests that are distinct are.
LEMMA NamesDiffer ==
  ASSUME NEW n \in Nat, NEW s, DOMAIN s = 1..n, Len(s) = n, Distinct(s)
  PROVE  \A i, j \in 1..n : s[i].name = s[j].name => i = j
<1> DEFINE g == [i \in 1..n |-> s[i].name]
           T == {g[i] : i \in 1..n}
<1>1. Names(s) = T BY DEF Names
<1>2. g \in Surjection(1..n, T) BY DEF Surjection
<1>3. IsFiniteSet(1..n) /\ Cardinality(1..n) = n BY FS_Interval
<1>4. Cardinality(T) = n BY <1>1 DEF Distinct
<1>5. g \in Injection(1..n, T)
  <2> HIDE DEF g, T
  <2> QED BY <1>2, <1>3, <1>4, FS_SurjSameCardinalityImpliesInj
<1>6. \A i, j \in 1..n : g[i] = g[j] => i = j
  <2> HIDE DEF g
  <2> QED BY <1>5 DEF Injection, IsInjective
<1> QED BY <1>6

\* The seeds of a scenario are its, in order.
SeedsIn(e, cap) == {k \in DOMAIN e.seeds : cap = 0 \/ k <= cap}
JobOfSeed(e, seed, target) == [e |-> e, seed |-> seed, target |-> target]
LEMMA EachSeedIs ==
  ASSUME NEW e, e.seeds \in Seq(Int), NEW cap \in Nat, NEW target
  PROVE  \E m \in Nat :
           /\ SeedsIn(e, cap) = 1..m
           /\ EachSeed(e, cap, target) = [k \in 1..m |-> JobOfSeed(e, e.seeds[k], target)]
<1>1. DOMAIN e.seeds = 1..Len(e.seeds) /\ Len(e.seeds) \in Nat OBVIOUS
<1>2. CASE cap = 0
  <2>1. SeedsIn(e, cap) = 1..Len(e.seeds) BY <1>1, <1>2 DEF SeedsIn
  <2>2. FirstSeeds(e, cap) = e.seeds BY <1>2 DEF FirstSeeds
  <2>3. EachSeed(e, cap, target) = [k \in 1..Len(e.seeds) |-> JobOfSeed(e, e.seeds[k], target)]
    BY <1>1, <2>2 DEF EachSeed, JobOfSeed
  <2> QED BY <1>1, <2>1, <2>3
<1>3. CASE cap # 0
  <2> DEFINE m == IF cap <= Len(e.seeds) THEN cap ELSE Len(e.seeds)
             S == {cap, Len(e.seeds)}
  <2>1. Min(S) = m
    <3>1. m \in S /\ \A y \in S : m <= y BY <1>1
    <3>2. \A x \in S : (\A y \in S : x <= y) => x = m BY <1>1
    <3> HIDE DEF m, S
    <3> QED BY <3>1, <3>2 DEF Min
  <2>2. m \in Nat /\ m <= Len(e.seeds) BY <1>1
  <2>3. SeedsIn(e, cap) = 1..m BY <1>1, <1>3 DEF SeedsIn
  <2>4. FirstSeeds(e, cap) = SubSeq(e.seeds, 1, m) BY <1>3, <2>1 DEF FirstSeeds
  <2> HIDE DEF m
  <2>5. PICK u : u = SubSeq(e.seeds, 1, m) OBVIOUS
  <2>6. DOMAIN u = 1..m /\ \A k \in 1..m : u[k] = e.seeds[k]
    <3>1. \A k \in 1..m : e.seeds[k] \in Int BY <1>1, <2>2
    <3>2. /\ u \in Seq(Int) /\ Len(u) = IF 1 <= m THEN m - 1 + 1 ELSE 0
          /\ \A k \in 1..m - 1 + 1 : u[k] = e.seeds[1 + k - 1]
      BY <2>2, <2>5, <3>1, SubSeqProperties
    <3>3. Len(u) = m /\ m - 1 + 1 = m /\ \A k \in 1..m : 1 + k - 1 = k BY <2>2, <3>2
    <3> QED BY <3>2, <3>3
  <2>7. EachSeed(e, cap, target) = [k \in DOMAIN u |-> [e |-> e, seed |-> u[k], target |-> target]]
    BY <2>4, <2>5 DEF EachSeed
  <2>8. EachSeed(e, cap, target) = [k \in 1..m |-> JobOfSeed(e, e.seeds[k], target)]
    BY <2>6, <2>7 DEF JobOfSeed
  <2> QED BY <2>2, <2>3, <2>8
<1> QED BY <1>2, <1>3

\* Two rows that are the same have the same parts.
LEMMA SameTriple ==
  ASSUME NEW a, NEW b, NEW c, NEW d, NEW e, NEW f, <<a, b, c>> = <<d, e, f>>
  PROVE  a = d /\ b = e /\ c = f
OBVIOUS

\* Scenarios that differ in name, some of which run, each once for each of its
\* seeds: as many jobs as there are pairs of a scenario that runs and a seed.
JobsIn(n, c, K, cap, target) == [i \in 1..n |-> IF i \in K THEN EachSeed(c[i], cap, target) ELSE <<>>]
JobsGiven(n, c, K, cap, target, jobs) ==
  /\ n \in Nat /\ cap \in Nat /\ K \subseteq 1..n
  /\ \A i, j \in 1..n : c[i].name = c[j].name => i = j
  /\ \A i \in 1..n : c[i].seeds \in Seq(Int) /\ IsInjective(c[i].seeds)
  /\ jobs = FlattenSeq(JobsIn(n, c, K, cap, target))
JobsMade(c, K, cap, jobs) ==
  /\ Len(jobs) = Cardinality(RunsOf(jobs))
  /\ \A x : x \in RunsOf(jobs) <=>
         \E i \in K : \E k \in SeedsIn(c[i], cap) : x = <<c[i].name, c[i].ids, c[i].seeds[k]>>

LEMMA JobsOnce ==
  \A n, c, K, cap, target, jobs : JobsGiven(n, c, K, cap, target, jobs) => JobsMade(c, K, cap, jobs)
<1> SUFFICES ASSUME NEW n, NEW c, NEW K, NEW cap, NEW target, NEW jobs,
                    JobsGiven(n, c, K, cap, target, jobs)
             PROVE  JobsMade(c, K, cap, jobs)
  OBVIOUS
<1>0. /\ n \in Nat /\ cap \in Nat /\ K \subseteq 1..n
      /\ \A i, j \in 1..n : c[i].name = c[j].name => i = j
      /\ \A i \in 1..n : c[i].seeds \in Seq(Int) /\ IsInjective(c[i].seeds)
      /\ jobs = FlattenSeq(JobsIn(n, c, K, cap, target))
  BY DEF JobsGiven
<1> USE <1>0
<1> DEFINE job(i, k) == JobOfSeed(c[i], c[i].seeds[k], target)
           V == UNION {{job(i, k) : k \in SeedsIn(c[i], cap)} : i \in 1..n}
           each(i) == IF i \in K THEN EachSeed(c[i], cap, target) ELSE <<>>
           ss == [i \in 1..n |-> each(i)]
           of(x) == <<x.e.name, x.e.ids, x.seed>>
<1>1. ASSUME NEW i \in 1..n
      PROVE  /\ ss[i] \in Seq(V) /\ IsInjective(ss[i])
             /\ ToSet(ss[i]) = IF i \in K THEN {job(i, k) : k \in SeedsIn(c[i], cap)} ELSE {}
  <2>0. ss[i] = each(i) OBVIOUS
  <2>1. CASE i \notin K
    <3>1. ss[i] = <<>> BY <2>0, <2>1
    <3> QED BY <2>1, <3>1 DEF ToSet, IsInjective
  <2>2. CASE i \in K
    <3>1. PICK m \in Nat : /\ SeedsIn(c[i], cap) = 1..m
                           /\ EachSeed(c[i], cap, target) = [k \in 1..m |-> job(i, k)]
      <4>1. \A e : e.seeds \in Seq(Int) => \E m \in Nat :
                      /\ SeedsIn(e, cap) = 1..m
                      /\ EachSeed(e, cap, target) = [k \in 1..m |-> JobOfSeed(e, e.seeds[k], target)]
        BY EachSeedIs
      <4>2. c[i].seeds \in Seq(Int) OBVIOUS
      <4> HIDE DEF V, ss, each
      <4> QED BY <4>1, <4>2
    <3>2. PICK s : s = [k \in 1..m |-> job(i, k)] OBVIOUS
    <3>3. ss[i] = s BY <2>0, <2>2, <3>1, <3>2
    <3>4. \A k \in 1..m : job(i, k) \in V
      <4> HIDE DEF job
      <4> QED BY <3>1
    <3>5. s \in Seq(V)
      <4> HIDE DEF V, job
      <4> QED BY <3>2, <3>4
    <3>6. ToSet(s) = {job(i, k) : k \in SeedsIn(c[i], cap)} BY <3>1, <3>2 DEF ToSet
    <3>7. IsInjective(s)
      <4>1. \A k \in 1..m : k \in DOMAIN c[i].seeds BY <3>1 DEF SeedsIn
      <4>2. ASSUME NEW k \in 1..m, NEW l \in 1..m, job(i, k) = job(i, l) PROVE k = l
        <5>1. c[i].seeds[k] = c[i].seeds[l] BY <4>2 DEF JobOfSeed
        <5> QED BY <4>1, <5>1 DEF IsInjective
      <4> HIDE DEF job
      <4> QED BY <3>2, <4>2 DEF IsInjective
    <3> HIDE DEF V, job, ss
    <3> QED BY <2>2, <3>3, <3>5, <3>6, <3>7
  <2> QED BY <2>1, <2>2
<1>2. ASSUME NEW i \in 1..n, NEW j \in 1..n, NEW k, NEW l,
             job(i, k).e.name = job(j, l).e.name PROVE i = j
  BY <1>2 DEF JobOfSeed
<1>3. \A i, j \in 1..n : i # j => ToSet(ss[i]) \cap ToSet(ss[j]) = {}
  <2> SUFFICES ASSUME NEW i \in 1..n, NEW j \in 1..n, i # j, NEW x, x \in ToSet(ss[i]), x \in ToSet(ss[j])
               PROVE  FALSE
    OBVIOUS
  <2>1. (\E k : x = job(i, k)) /\ (\E l : x = job(j, l))
    <3>1. ASSUME NEW m \in 1..n, x \in ToSet(ss[m]) PROVE \E k : x = job(m, k)
      <4> HIDE DEF ss, job
      <4>1. ToSet(ss[m]) \subseteq {job(m, k) : k \in SeedsIn(c[m], cap)} BY <1>1
      <4> QED BY <3>1, <4>1
    <3> HIDE DEF ss, job
    <3> QED BY <3>1
  <2>2. PICK k, l : x = job(i, k) /\ x = job(j, l)
    <3> HIDE DEF ss, job
    <3> QED BY <2>1
  <2> QED BY <1>2, <2>2
<1>4. ss \in [1..n -> Seq(V)]
  <2>1. ss = [i \in 1..n |-> ss[i]] OBVIOUS
  <2> HIDE DEF ss, V
  <2> QED BY <1>1, <2>1
<1>5. /\ jobs \in Seq(V) /\ IsInjective(jobs)
      /\ \A x : x \in ToSet(jobs) <=> \E i \in 1..n : x \in ToSet(ss[i])
  <2>1. jobs = FlattenSeq(ss) BY DEF JobsIn
  <2>2. \A i \in 1..n : IsInjective(ss[i]) BY <1>1
  <2> HIDE DEF ss, V
  <2>3. /\ FlattenSeq(ss) \in Seq(V) /\ IsInjective(FlattenSeq(ss))
        /\ \A x : x \in ToSet(FlattenSeq(ss)) <=> \E i \in 1..n : x \in ToSet(ss[i])
    <3> HIDE DEF ss, V, each, job, of
    <3> QED BY <1>3, <1>4, <2>2, FlattenIs
  <2> HIDE DEF ss, V
  <2> QED BY <2>1, <2>3
<1>6. ToSet(jobs) = UNION {{job(i, k) : k \in SeedsIn(c[i], cap)} : i \in K}
  <2>1. ASSUME NEW x
        PROVE  x \in ToSet(jobs) <=> \E i \in K : x \in {job(i, k) : k \in SeedsIn(c[i], cap)}
    <3>1. x \in ToSet(jobs) <=> \E i \in 1..n : x \in ToSet(ss[i])
      <4> HIDE DEF ss, V
      <4> QED BY <1>5
    <3>2. \A i \in K : i \in 1..n OBVIOUS
    <3> HIDE DEF ss, job, V
    <3> QED BY <1>1, <3>1, <3>2
  <2> HIDE DEF ss, job, V
  <2> QED BY <2>1
<1>7. DOMAIN jobs = 1..Len(jobs) /\ Len(jobs) \in Nat
  <2> HIDE DEF V
  <2> QED BY <1>5
<1>8. \A x \in ToSet(jobs) : \E i \in K : \E k \in SeedsIn(c[i], cap) : x = job(i, k)
  <2> HIDE DEF job
  <2> QED BY <1>6
<1>9. ASSUME NEW i, NEW k PROVE of(job(i, k)) = <<c[i].name, c[i].ids, c[i].seeds[k]>>
  BY DEF JobOfSeed
<1>10. ASSUME NEW y
       PROVE  y \in RunsOf(jobs) <=>
                \E i \in K : \E k \in SeedsIn(c[i], cap) : y = <<c[i].name, c[i].ids, c[i].seeds[k]>>
  <2>1. RunsOf(jobs) = {of(x) : x \in ToSet(jobs)} BY DEF RunsOf, ToSet
  <2>2. y \in RunsOf(jobs) <=> \E i \in K : \E k \in SeedsIn(c[i], cap) : y = of(job(i, k))
    <3> HIDE DEF of, job
    <3> QED BY <1>6, <2>1
  <2> QED BY <2>2 DEF JobOfSeed
<1> DEFINE q == [a \in 1..Len(jobs) |-> of(jobs[a])]
<1>11. ASSUME NEW a \in 1..Len(jobs), NEW b \in 1..Len(jobs), of(jobs[a]) = of(jobs[b]) PROVE a = b
  <2>1. jobs[a] \in ToSet(jobs) /\ jobs[b] \in ToSet(jobs) BY <1>7 DEF ToSet
  <2>2. PICK i, k : i \in K /\ jobs[a] = job(i, k)
    <3> HIDE DEF job
    <3> QED BY <1>8, <2>1
  <2>3. PICK j, l : j \in K /\ jobs[b] = job(j, l)
    <3> HIDE DEF job
    <3> QED BY <1>8, <2>1
  <2>4. c[i].name = c[j].name /\ c[i].seeds[k] = c[j].seeds[l]
    <3>1. /\ of(jobs[a]) = <<c[i].name, c[i].ids, c[i].seeds[k]>>
          /\ of(jobs[b]) = <<c[j].name, c[j].ids, c[j].seeds[l]>>
      BY <1>9, <2>2, <2>3
    <3>2. PICK y, z : y = of(jobs[a]) /\ z = of(jobs[b]) OBVIOUS
    <3>3. y = z BY <1>11, <3>2
    <3>4. <<c[i].name, c[i].ids, c[i].seeds[k]>> = <<c[j].name, c[j].ids, c[j].seeds[l]>>
      <4> HIDE DEF of, job
      <4> QED BY <3>1, <3>2, <3>3
    <3> HIDE DEF job, of
    <3> QED BY <3>4, SameTriple
  <2>5. i = j BY <2>2, <2>3, <2>4
  <2>6. job(i, k) = job(j, l) BY <2>4, <2>5 DEF JobOfSeed
  <2> HIDE DEF job
  <2> QED BY <1>5, <1>7, <2>2, <2>3, <2>6 DEF IsInjective
<1>12. q \in Bijection(1..Len(jobs), RunsOf(jobs))
  <2>1. RunsOf(jobs) = {of(jobs[a]) : a \in 1..Len(jobs)} BY <1>7 DEF RunsOf
  <2>2. q \in [1..Len(jobs) -> RunsOf(jobs)]
    <3> HIDE DEF of
    <3> QED BY <2>1
  <2>3. \A a, b \in 1..Len(jobs) : q[a] = q[b] => a = b
    <3> HIDE DEF of
    <3> QED BY <1>11
  <2>4. \A y \in RunsOf(jobs) : \E a \in 1..Len(jobs) : q[a] = y
    <3> HIDE DEF of
    <3> QED BY <2>1
  <2> HIDE DEF q
  <2> QED BY <2>2, <2>3, <2>4 DEF Bijection, Injection, Surjection, IsInjective
<1>13. IsFiniteSet(1..Len(jobs)) /\ Cardinality(1..Len(jobs)) = Len(jobs)
  <2>1. \A m \in Nat : IsFiniteSet(1..m) /\ Cardinality(1..m) = m BY FS_Interval
  <2> QED BY <1>7, <2>1
<1>14. Cardinality(RunsOf(jobs)) = Len(jobs)
  <2> HIDE DEF q
  <2> QED BY <1>12, <1>13, FS_Bijection DEF ExistsBijection
<1> QED BY <1>10, <1>14 DEF JobsMade

\* The seeds of a scenario count up from its first.
LEMMA SeedsAre ==
  ASSUME NEW t, t.seed \in Int, t.reseed \in Int, t.reseed >= 1
  PROVE  SeedsOf(t) \in Seq(Int) /\ IsInjective(SeedsOf(t))
<1>1. SeedsOf(t) = [k \in 1..t.reseed |-> t.seed + k - 1] /\ t.reseed \in Nat BY DEF SeedsOf
<1>2. PICK s : s = SeedsOf(t) OBVIOUS
<1>3. s \in Seq(Int) BY <1>1, <1>2
<1>4. ASSUME NEW k \in 1..t.reseed, NEW l \in 1..t.reseed, s[k] = s[l] PROVE k = l
  <2>1. t.seed + k - 1 = t.seed + l - 1 BY <1>1, <1>2, <1>4
  <2> QED BY <2>1
<1>5. IsInjective(s) BY <1>1, <1>2, <1>4 DEF IsInjective
<1> QED BY <1>2, <1>3, <1>5

\* es is the flat view of a list of n tests that check_testlists.py accepts.
EntriesOk(list, es, tb, n) ==
  /\ DOMAIN list.tests = 1..n /\ DOMAIN es = 1..n
  /\ \A i, j \in 1..n : es[i].name = es[j].name => i = j
  /\ \A i \in 1..n :
       /\ es[i].name = list.tests[i].name /\ es[i].name = list.tests[i].t.name
       /\ es[i].seeds \in Seq(Int) /\ IsInjective(es[i].seeds)
       /\ es[i].fixed => es[i].tb = tb
       /\ ~es[i].blocked => ~list.tests[i].t.blocked
       /\ tb \notin {"t1", "reg"} => \A target \in ToSet(Targets[tb]) : es[i].target \in {AnyTarget, target}

\* Every entry of an accepted list has a name of its own, seeds that differ, and
\* a bench and a target that the driver and the sweep read alike.
LEMMA EntriesAre ==
  ASSUME NEW fs, NEW side, FilesOk(fs), TargetsOk, NEW tb \in TBs, CheckBench(fs, side, tb)
  PROVE  \E n \in Nat :
           EntriesOk(Loaded(fs, Aggregate[tb]), ListEntries(fs, Aggregate[tb], side), tb, n)
<1> DEFINE list == Loaded(fs, Aggregate[tb])
           es == ListEntries(fs, Aggregate[tb], side)
           n == Len(list.tests)
<1>1. list \in ListsOf(fs) BY LoadedIs DEF FilesOk
<1>2. ListOk(list, tb, side) BY DEF CheckBench
<1>3. /\ list.tests \in Seq(ItemsIn(fs)) /\ Distinct(list.tests)
      /\ \A i \in DOMAIN list.tests : ScenarioOk(list, list.tests[i], tb, side)
  <2> HIDE DEF list
  <2> QED BY <1>1, <1>2 DEF ListsOf, ListOk
<1>4. n \in Nat /\ DOMAIN list.tests = 1..n
  <2> HIDE DEF list
  <2> QED BY <1>3
<1>5. \A i, j \in 1..n : list.tests[i].name = list.tests[j].name => i = j
  <2> DEFINE s == list.tests
  <2>1. n = Len(s) /\ DOMAIN s = 1..n /\ Distinct(s) BY <1>3, <1>4
  <2> HIDE DEF list, s, n
  <2>2. \A i, j \in 1..n : s[i].name = s[j].name => i = j BY <1>4, <2>1, NamesDiffer
  <2> QED BY <2>2 DEF s
<1>6. ASSUME NEW i \in 1..n
      PROVE  LET test == list.tests[i] IN
             /\ test.name = test.t.name /\ test.t.seed \in Int /\ test.t.reseed \in Int
             /\ test.t.reseed >= 1 /\ BenchOf(test.source, "") \in {"", tb}
             /\ test.t.target # AnyTarget => test.t.target \in ToSet(Targets[tb])
  <2>1. list.tests[i] \in ItemsIn(fs) /\ list.tests[i] \in ToSet(list.tests)
        /\ ScenarioOk(list, list.tests[i], tb, side)
    <3> HIDE DEF list, n
    <3> QED BY <1>3, <1>4 DEF ToSet
  <2> DEFINE test == list.tests[i]
  <2>2. BenchOf(test.source, "") \in {"", tb} BY <2>1 DEF FilesOk
  <2> HIDE DEF list
  <2>3. PICK t \in TestsIn(fs), p \in DOMAIN fs : test = [t |-> t, name |-> t.name, source |-> p]
    BY <2>1 DEF ItemsIn
  <2>4. test.t = t /\ test.name = t.name BY <2>3
  <2>5. PICK f \in DOMAIN fs : t \in ToSet(fs[f].tests) BY <2>3 DEF TestsIn
  <2>6. t.seed \in Int /\ t.reseed \in Int BY <2>5 DEF FilesOk, FileOk
  <2>7. test.t.reseed >= 1 /\ (test.t.target # AnyTarget => test.t.target \in ToSet(Targets[tb]))
    BY <2>1 DEF ScenarioOk
  <2> HIDE DEF test
  <2> QED BY <2>2, <2>4, <2>6, <2>7 DEF test
<1>7. DOMAIN es = 1..n BY <1>4 DEF ListEntries
<1>8. ASSUME NEW i \in 1..n
      PROVE  /\ es[i].name = list.tests[i].t.name /\ es[i].seeds = SeedsOf(list.tests[i].t)
             /\ es[i].target = list.tests[i].t.target
             /\ es[i].blocked = (list.tests[i].t.name \in side.blocked \/ list.tests[i].t.blocked)
             /\ es[i].tb = BenchOf(list.tests[i].source, "t1")
             /\ es[i].fixed = (BenchOf(list.tests[i].source, "") # "")
  BY <1>4 DEF ListEntries
<1>9. ASSUME NEW i \in 1..n, es[i].fixed PROVE es[i].tb = tb
  <2> DEFINE source == list.tests[i].source
  <2>1. BenchOf(source, "") # "" /\ BenchOf(source, "") \in {"", tb} BY <1>6, <1>8, <1>9
  <2>2. es[i].tb = BenchOf(source, "t1") BY <1>8
  <2> HIDE DEF source, es
  <2>3. BenchOf(source, "t1") = tb BY <2>1 DEF BenchOf
  <2> QED BY <2>2, <2>3
<1>10. ASSUME NEW i \in 1..n, tb \notin {"t1", "reg"}, NEW target \in ToSet(Targets[tb])
       PROVE  es[i].target \in {AnyTarget, target}
  <2>1. DOMAIN Targets[tb] = {1} BY <1>10 DEF TargetsOk
  <2>2. ToSet(Targets[tb]) = {Targets[tb][1]} BY <2>1 DEF ToSet
  <2>3. es[i].target # AnyTarget => es[i].target \in ToSet(Targets[tb]) BY <1>6, <1>8
  <2> HIDE DEF es
  <2> QED BY <1>10, <2>2, <2>3
<1>11. ASSUME NEW i \in 1..n PROVE es[i].seeds \in Seq(Int) /\ IsInjective(es[i].seeds)
  <2> DEFINE t == list.tests[i].t
  <2>1. t.seed \in Int /\ t.reseed \in Int /\ t.reseed >= 1 BY <1>6
  <2>2. es[i].seeds = SeedsOf(t) BY <1>8
  <2> HIDE DEF t, es
  <2> QED BY <2>1, <2>2, SeedsAre
<1>12. ASSUME NEW i \in 1..n, ~es[i].blocked PROVE ~list.tests[i].t.blocked
  <2>1. es[i].blocked = (list.tests[i].t.name \in side.blocked \/ list.tests[i].t.blocked) BY <1>8
  <2> HIDE DEF es, list
  <2> QED BY <1>12, <2>1
<1>13. EntriesOk(list, es, tb, n)
  <2>1. \A i \in 1..n : es[i].name = list.tests[i].name /\ es[i].name = list.tests[i].t.name
    BY <1>6, <1>8
  <2> HIDE DEF es, list, n
  <2>2. \A i, j \in 1..n : es[i].name = es[j].name => i = j BY <1>5, <2>1
  <2> QED BY <1>4, <1>7, <1>9, <1>10, <1>11, <1>12, <2>1, <2>2 DEF EntriesOk
<1> HIDE DEF es, list, n
<1> QED BY <1>4, <1>13 DEF es, list

\* The driver runs what is due, each once.
LEMMA DriverRuns ==
  ASSUME NEW fs, NEW side, FilesOk(fs), TargetsOk, NEW tb \in TBs, CheckBench(fs, side, tb),
         NEW target, tb \notin {"t1", "reg"} => target \in ToSet(Targets[tb]), NEW cap \in Nat,
         NEW jobs, jobs = DriverJobs(fs, <<Aggregate[tb]>>, <<>>, side, tb, target, cap),
         NEW due, due = Due(ToSet(ListEntries(fs, Aggregate[tb], side)), target, cap)
  PROVE  Len(jobs) = Cardinality(due) /\ RunsOf(jobs) = due
<1> DEFINE es == ListEntries(fs, Aggregate[tb], side)
           list == Loaded(fs, Aggregate[tb])
           runs(e) == /\ ~e.blocked /\ (e.fixed => e.tb = tb)
                      /\ tb \in {"t1", "reg"} => e.target \in {AnyTarget, target}
<1>1. PICK n \in Nat : EntriesOk(list, es, tb, n) BY EntriesAre
<1>2. FlattenSeq([i \in DOMAIN <<Aggregate[tb]>> |-> Select(fs, <<Aggregate[tb]>>[i], <<>>, side)]) = es
  <2>1. [i \in DOMAIN <<Aggregate[tb]>> |-> Select(fs, <<Aggregate[tb]>>[i], <<>>, side)]
          = [i \in {1} |-> es]
    <3> HIDE DEF es
    <3>1. DOMAIN <<Aggregate[tb]>> = {1} /\ <<Aggregate[tb]>>[1] = Aggregate[tb] OBVIOUS
    <3>2. Select(fs, Aggregate[tb], <<>>, side) = es BY DEF Select, es
    <3> QED BY <3>1, <3>2
  <2> HIDE DEF es
  <2> QED BY <2>1, FlattenOne
<1> DEFINE K == {i \in 1..n : runs(es[i])}
<1>3. jobs = FlattenSeq(JobsIn(n, es, K, cap, target))
  <2>1. DOMAIN es = 1..n
    <3> HIDE DEF es, list
    <3> QED BY <1>1 DEF EntriesOk
  <2>2. jobs = FlattenSeq([i \in DOMAIN es |-> IF runs(es[i]) THEN EachSeed(es[i], cap, target) ELSE <<>>])
    <3> HIDE DEF es
    <3> QED BY <1>2 DEF DriverJobs
  <2>3. [i \in DOMAIN es |-> IF runs(es[i]) THEN EachSeed(es[i], cap, target) ELSE <<>>]
          = JobsIn(n, es, K, cap, target)
    <3> HIDE DEF es, runs
    <3> QED BY <2>1 DEF JobsIn
  <2> HIDE DEF es, runs, K
  <2> QED BY <2>2, <2>3
<1>4. ASSUME NEW x
      PROVE  x \in due <=> \E i \in K : \E k \in SeedsIn(es[i], cap) : x = <<es[i].name, es[i].ids, es[i].seeds[k]>>
  <2>1. ASSUME NEW i \in 1..n PROVE i \in K <=> ~es[i].blocked /\ es[i].target \in {AnyTarget, target}
    <3>1. /\ es[i].fixed => es[i].tb = tb
          /\ tb \notin {"t1", "reg"} => \A y \in ToSet(Targets[tb]) : es[i].target \in {AnyTarget, y}
      <4> HIDE DEF es, list
      <4> QED BY <1>1 DEF EntriesOk
    <3> HIDE DEF es
    <3> QED BY <3>1
  <2>2. ToSet(es) = {es[i] : i \in 1..n}
    <3> HIDE DEF es, list
    <3> QED BY <1>1 DEF EntriesOk, ToSet
  <2>3. K \subseteq 1..n OBVIOUS
  <2>4. x \in due <=> \E e \in ToSet(es) : /\ ~e.blocked /\ e.target \in {AnyTarget, target}
                                          /\ \E k \in SeedsIn(e, cap) : x = <<e.name, e.ids, e.seeds[k]>>
    <3> HIDE DEF K
    <3> QED BY DEF Due, SeedsIn
  <2> HIDE DEF es, K
  <2> QED BY <2>1, <2>2, <2>3, <2>4
<1> QED
  <2>1. /\ \A i, j \in 1..n : es[i].name = es[j].name => i = j
        /\ \A i \in 1..n : es[i].seeds \in Seq(Int) /\ IsInjective(es[i].seeds)
    <3> HIDE DEF es, list
    <3> QED BY <1>1 DEF EntriesOk
  <2>2. K \subseteq 1..n OBVIOUS
  <2> HIDE DEF es, K
  <2>3. /\ Len(jobs) = Cardinality(RunsOf(jobs))
        /\ \A x : x \in RunsOf(jobs) <=>
               \E i \in K : \E k \in SeedsIn(es[i], cap) : x = <<es[i].name, es[i].ids, es[i].seeds[k]>>
    <3>1. JobsGiven(n, es, K, cap, target, jobs) BY <1>3, <2>1, <2>2 DEF JobsGiven
    <3>2. JobsMade(es, K, cap, jobs) BY <3>1, JobsOnce
    <3> QED BY <3>2 DEF JobsMade
  <2>4. RunsOf(jobs) = due BY <1>4, <2>3
  <2> QED BY <2>3, <2>4

\* The one whose name it is.
LEMMA NamedIs ==
  ASSUME NEW s, NEW name, name \in Names(s)
  PROVE  \E i \in DOMAIN s : Named(s, name) = s[i] /\ s[i].name = name
<1> DEFINE i == CHOOSE i \in DOMAIN s : s[i].name = name
<1>1. \E j \in DOMAIN s : s[j].name = name BY DEF Names
<1>2. i \in DOMAIN s /\ s[i].name = name BY <1>1
<1>3. Named(s, name) = s[i] BY DEF Named
<1> HIDE DEF i
<1> QED BY <1>2, <1>3

\* With nothing taken, all of it is left.
LEMMA WithoutNone ==
  ASSUME NEW s, IsSeq(s)
  PROVE  /\ Without(s, {}) \in Seq(ToSet(s)) /\ ToSet(Without(s, {})) = ToSet(s)
         /\ IsInjective(s) => IsInjective(Without(s, {}))
<1> DEFINE V == ToSet(s)
           n == Len(s)
           ss == [i \in 1..n |-> <<s[i]>>]
<1>1. s \in Seq(V) BY DEF IsSeq
<1>2. n \in Nat /\ DOMAIN s = 1..n /\ \A i \in 1..n : s[i] \in V
  <2> HIDE DEF V
  <2> QED BY <1>1
<1>3. Without(s, {}) = FlattenSeq(ss)
  <2>1. [i \in DOMAIN s |-> IF s[i] \in {} THEN <<>> ELSE <<s[i]>>] = ss
    <3> HIDE DEF n
    <3> QED BY <1>2
  <2> HIDE DEF ss
  <2> QED BY <2>1 DEF Without
<1>4. \A i \in 1..n : ss[i] = <<s[i]>> OBVIOUS
<1>5. \A y : ToSet(<<y>>) = {y} /\ IsInjective(<<y>>) BY DEF ToSet, IsInjective
<1>6. \A y \in V : <<y>> \in Seq(V)
  <2> HIDE DEF V
  <2> QED OBVIOUS
<1>7. ss \in [1..n -> Seq(V)]
  <2> HIDE DEF V, n
  <2> QED BY <1>2, <1>6
<1>8. \A i \in 1..n : ToSet(ss[i]) = {s[i]} /\ IsInjective(ss[i])
  <2> HIDE DEF ss, n
  <2> QED BY <1>4, <1>5
<1>9. V = {s[i] : i \in 1..n}
  <2> HIDE DEF n
  <2> QED BY <1>2 DEF ToSet
<1> HIDE DEF V, n, ss
<1>10. /\ FlattenSeq(ss) \in Seq(V)
       /\ \A x : x \in ToSet(FlattenSeq(ss)) <=> \E k \in 1..n : x \in ToSet(ss[k])
       /\ (/\ \A k \in 1..n : IsInjective(ss[k])
           /\ \A k, l \in 1..n : k # l => ToSet(ss[k]) \cap ToSet(ss[l]) = {})
          => IsInjective(FlattenSeq(ss))
  BY <1>2, <1>7, FlattenIs
<1>11. ToSet(FlattenSeq(ss)) = V
  <2>1. ASSUME NEW x PROVE x \in ToSet(FlattenSeq(ss)) <=> x \in V
    <3>1. x \in ToSet(FlattenSeq(ss)) <=> \E k \in 1..n : x \in ToSet(ss[k]) BY <1>10
    <3>2. x \in V <=> \E k \in 1..n : x = s[k] BY <1>9
    <3>3. \A k \in 1..n : x \in ToSet(ss[k]) <=> x = s[k] BY <1>8
    <3> QED BY <3>1, <3>2, <3>3
  <2> QED BY <2>1
<1>12. ASSUME IsInjective(s) PROVE IsInjective(FlattenSeq(ss))
  <2>1. \A k, l \in 1..n : s[k] = s[l] => k = l BY <1>2, <1>12 DEF IsInjective
  <2>2. \A k, l \in 1..n : k # l => ToSet(ss[k]) \cap ToSet(ss[l]) = {} BY <1>8, <2>1
  <2> QED BY <1>8, <1>10, <2>2
<1> QED BY <1>3, <1>10, <1>11, <1>12 DEF V

\* One item asks for its members.
LEMMA NamesOfOne ==
  ASSUME NEW list, NEW item, NEW V, Members(list, item, <<>>) \in Seq(V)
  PROVE  NamesOf(list, <<item>>) = Members(list, item, <<>>)
<1> DEFINE M(ns) == Members(list, item, ns)
           Of(f) == [s \in SUBSET {1} |-> IF s = {} THEN <<>>
                       ELSE f[s \ {Max(s)}] \o Members(list, <<item>>[Max(s)], f[s \ {Max(s)}])]
           g == [s \in SUBSET {1} |-> IF s = {} THEN <<>> ELSE Members(list, item, <<>>)]
<1>1. Max({1}) = 1 BY DEF Max
<1>2. DOMAIN <<item>> = {1} /\ <<item>>[1] = item OBVIOUS
<1>3. \A s \in SUBSET {1} : s = {} \/ s = {1} OBVIOUS
<1>4. <<>> \o Members(list, item, <<>>) = Members(list, item, <<>>)
  OBVIOUS
<1>5. g = Of(g)
  <2>1. g[{}] = <<>> /\ g[{1}] = Members(list, item, <<>>) OBVIOUS
  <2>2. g[{1} \ {1}] = <<>>
    <3>1. {1} \ {1} = {} OBVIOUS
    <3> QED BY <2>1, <3>1
  <2>3. Of(g)[{}] = <<>> /\ Of(g)[{1}] = g[{1} \ {Max({1})}] \o Members(list, <<item>>[Max({1})], g[{1} \ {Max({1})}])
    OBVIOUS
  <2>4. Of(g)[{1}] = Members(list, item, <<>>)
    <3> HIDE DEF g
    <3> QED BY <1>1, <1>2, <1>4, <2>2, <2>3
  <2>5. ASSUME NEW s \in SUBSET {1} PROVE g[s] = Of(g)[s]
    <3> HIDE DEF g, Of
    <3> QED BY <1>3, <2>1, <2>3, <2>4
  <2>6. DOMAIN g = SUBSET {1} /\ DOMAIN Of(g) = SUBSET {1} OBVIOUS
  <2>7. g = [s \in SUBSET {1} |-> g[s]] /\ Of(g) = [s \in SUBSET {1} |-> Of(g)[s]] OBVIOUS
  <2> HIDE DEF g, Of
  <2> QED BY <2>5, <2>7
<1>6. \E f : f = Of(f) /\ NamesOf(list, <<item>>) = f[{1}]
  BY <1>2, <1>5 DEF NamesOf, FoldLeft, MapThenFoldSet
<1>7. PICK f : f = Of(f) /\ NamesOf(list, <<item>>) = f[{1}] BY <1>6
<1>8. f[{}] = <<>> /\ f[{1}] = f[{1} \ {Max({1})}] \o Members(list, <<item>>[Max({1})], f[{1} \ {Max({1})}])
  BY <1>7
<1>9. {1} \ {1} = {} OBVIOUS
<1>10. f[{1}] = <<>> \o Members(list, item, <<>>) 
  <2> HIDE DEF Of
  <2> QED BY <1>1, <1>2, <1>8, <1>9
<1> QED BY <1>4, <1>7, <1>10

\* What the sweep selects by the group `all`: scenarios of the list, none twice,
\* with every one that is not blocked.
Selects(c, m, es, n) ==
  /\ DOMAIN c = 1..m
  /\ \A i, j \in 1..m : c[i].name = c[j].name => i = j
  /\ \A i \in 1..m : \E j \in 1..n : c[i] = es[j]
  /\ \A j \in 1..n : ~es[j].blocked => \E i \in 1..m : c[i] = es[j]

LEMMA AllSelects ==
  ASSUME NEW fs, NEW side, FilesOk(fs), NEW tb \in TBs, CheckBench(fs, side, tb),
         <<"all">> \in All(fs, tb), ~TwiceInAGroup(fs, tb), NEW n \in Nat,
         EntriesOk(Loaded(fs, Aggregate[tb]), ListEntries(fs, Aggregate[tb], side), tb, n)
  PROVE  \E m \in Nat : Selects(Select(fs, Aggregate[tb], <<"all">>, side), m,
                                ListEntries(fs, Aggregate[tb], side), n)
<1> DEFINE es == ListEntries(fs, Aggregate[tb], side)
           list == Loaded(fs, Aggregate[tb])
           c == Select(fs, Aggregate[tb], <<"all">>, side)
<1>0. EntriesOk(list, es, tb, n) OBVIOUS
<1>1. list \in ListsOf(fs) BY LoadedIs DEF FilesOk
<1>2. ListOk(list, tb, side) BY DEF CheckBench
<1>3. "all" \in Names(list.groups)
  <2>1. <<"all">> \in IF "all" \in Names(list.groups) THEN {<<"all">>} ELSE {} BY DEF All
  <2> HIDE DEF list
  <2> QED BY <2>1
<1>4. PICK a \in DOMAIN list.groups : Named(list.groups, "all") = list.groups[a]
  <2> HIDE DEF list
  <2> QED BY <1>3, NamedIs
<1> DEFINE G == list.groups[a].tests
<1>5. IsSeq(G)
  <2>1. list.groups \in Seq(GroupsIn(fs))
    <3> HIDE DEF list
    <3> QED BY <1>1 DEF ListsOf
  <2>2. list.groups[a] \in GroupsIn(fs)
    <3> HIDE DEF list
    <3> QED BY <1>4, <2>1
  <2>3. PICK p \in DOMAIN fs : list.groups[a] \in ToSet(fs[p].groups)
    <3> HIDE DEF list
    <3> QED BY <2>2 DEF GroupsIn
  <2>4. \A group \in ToSet(fs[p].groups) : IsSeq(group.tests) BY DEF FilesOk, FileOk
  <2> HIDE DEF list
  <2> QED BY <2>3, <2>4
<1>6. IsInjective(G)
  <2>1. ~(Cardinality(ToSet(G)) < Len(G))
    <3>1. a \in DOMAIN list.groups BY <1>4
    <3> QED BY <3>1 DEF TwiceInAGroup
  <2>2. G \in Seq(ToSet(G))
    <3> HIDE DEF G
    <3> QED BY <1>5 DEF IsSeq
  <2> HIDE DEF G
  <2> QED BY <2>1, <2>2, AsManyAsDiffer
<1>7. ToSet(G) \subseteq Names(list.tests)
  <2>1. \A i \in DOMAIN list.groups : ToSet(list.groups[i].tests) \subseteq Names(list.tests)
    <3> HIDE DEF list
    <3> QED BY <1>2 DEF ListOk
  <2> HIDE DEF list
  <2> QED BY <1>4, <2>1
<1> DEFINE names == Without(G, {})
<1>8. names \in Seq(ToSet(G)) /\ ToSet(names) = ToSet(G) /\ IsInjective(names)
  <2> HIDE DEF G
  <2> QED BY <1>5, <1>6, WithoutNone
<1>9. Members(list, "all", <<>>) = names
  <2>1. ToSet(<<>>) = {} BY DEF ToSet
  <2> HIDE DEF list
  <2>2. Members(list, "all", <<>>) = Without(Named(list.groups, "all").tests, ToSet(<<>>))
    BY <1>3 DEF Members
  <2> QED BY <1>4, <2>1, <2>2
<1>10. NamesOf(list, <<"all">>) = names
  <2>1. \A l, item, V : Members(l, item, <<>>) \in Seq(V) => NamesOf(l, <<item>>) = Members(l, item, <<>>)
    BY NamesOfOne
  <2> HIDE DEF list, names
  <2> QED BY <1>8, <1>9, <2>1
<1>11. DOMAIN es = 1..n /\ DOMAIN list.tests = 1..n /\ \A i \in 1..n : es[i].name = list.tests[i].name
  <2> HIDE DEF es, list
  <2> QED BY <1>0 DEF EntriesOk
<1>12. Names(es) = Names(list.tests)
  <2> HIDE DEF es, list
  <2> QED BY <1>11 DEF Names
<1>13. c = [i \in DOMAIN names |-> Named(es, names[i])]
  <2>1. <<"all">> # <<>> OBVIOUS
  <2>2. ToSet(NamesOf(list, <<"all">>)) \subseteq Names(es)
    <3> HIDE DEF es, list, names, G
    <3> QED BY <1>7, <1>8, <1>10, <1>12
  <2>3. c = IF ToSet(NamesOf(list, <<"all">>)) \subseteq Names(es)
            THEN [i \in DOMAIN NamesOf(list, <<"all">>) |-> Named(es, NamesOf(list, <<"all">>)[i])] ELSE <<>>
    <3> HIDE DEF es, list
    <3> QED BY <2>1 DEF Select, es, list
  <2> HIDE DEF es, list, names, c
  <2> QED BY <1>10, <2>2, <2>3
<1> DEFINE m == Len(names)
<1>14. m \in Nat /\ DOMAIN names = 1..m
  <2> HIDE DEF names
  <2> QED BY <1>8
<1>15. ASSUME NEW i \in 1..m PROVE \E j \in 1..n : c[i] = es[j] /\ es[j].name = names[i]
  <2> HIDE DEF es, list, G, names, c, m
  <2>1. names[i] \in Names(es) BY <1>7, <1>8, <1>12, <1>14
  <2>2. c[i] = Named(es, names[i]) BY <1>13, <1>14
  <2> QED BY <1>11, <2>1, <2>2, NamedIs
<1>16. \A i, j \in 1..n : es[i].name = es[j].name => i = j
  <2> HIDE DEF es, list
  <2> QED BY <1>0 DEF EntriesOk
<1>17. ASSUME NEW j \in 1..n, ~es[j].blocked PROVE \E i \in 1..m : c[i] = es[j]
  <2>1. ~list.tests[j].t.blocked /\ es[j].name = list.tests[j].t.name
    <3> HIDE DEF es, list
    <3> QED BY <1>0, <1>17 DEF EntriesOk
  <2>2. ScenarioOk(list, list.tests[j], tb, side)
    <3> HIDE DEF list
    <3> QED BY <1>2, <1>11 DEF ListOk
  <2>3. list.tests[j].t.name \in ToSet(Named(list.groups, "all").tests)
    <3> HIDE DEF list
    <3> QED BY <1>3, <2>1, <2>2 DEF ScenarioOk, Grouped
  <2> HIDE DEF es, list, G, names, c, m
  <2>4. es[j].name \in ToSet(names) BY <1>4, <1>8, <2>1, <2>3 DEF G
  <2>5. PICK i \in 1..m : names[i] = es[j].name BY <1>14, <2>4 DEF ToSet
  <2>6. PICK k \in 1..n : c[i] = es[k] /\ es[k].name = names[i] BY <1>15
  <2> QED BY <1>16, <2>5, <2>6
<1>18. ASSUME NEW i \in 1..m, NEW j \in 1..m, c[i].name = c[j].name PROVE i = j
  <2> HIDE DEF es, list, G, names, c, m
  <2>1. c[i].name = names[i] /\ c[j].name = names[j] BY <1>15
  <2> QED BY <1>8, <1>14, <1>18, <2>1 DEF IsInjective
<1>19. DOMAIN c = 1..m
  <2> HIDE DEF es, list, G, names, c, m
  <2> QED BY <1>13, <1>14
<1>20. m \in Nat /\ Selects(c, m, es, n)
  <2> HIDE DEF es, list, G, names, c, m
  <2> QED BY <1>14, <1>15, <1>17, <1>18, <1>19 DEF Selects
<1> HIDE DEF m, names, G, list
<1> QED BY <1>20

\* The sweep of the group `all` runs what is due, each once.
LEMMA SweepRuns ==
  ASSUME NEW fs, NEW side, FilesOk(fs), TargetsOk, NEW tb \in TBs, CheckBench(fs, side, tb),
         <<"all">> \in All(fs, tb), ~TwiceInAGroup(fs, tb), NEW target, NEW cap \in Nat,
         NEW jobs, jobs = SweepJobs(fs, <<"all">>, side, tb, <<target>>, cap),
         NEW due, due = Due(ToSet(ListEntries(fs, Aggregate[tb], side)), target, cap)
  PROVE  Len(jobs) = Cardinality(due) /\ RunsOf(jobs) = due
<1> DEFINE es == ListEntries(fs, Aggregate[tb], side)
           list == Loaded(fs, Aggregate[tb])
           c == Select(fs, Aggregate[tb], <<"all">>, side)
           runs(e) == ~e.blocked /\ e.target \in {AnyTarget, target}
<1>1. PICK n \in Nat : EntriesOk(list, es, tb, n) BY EntriesAre
<1>0. PICK m \in Nat : Selects(c, m, es, n) BY <1>1, AllSelects
<1>2. /\ DOMAIN c = 1..m
      /\ \A i, j \in 1..m : c[i].name = c[j].name => i = j
      /\ \A i \in 1..m : \E j \in 1..n : c[i] = es[j]
      /\ \A j \in 1..n : ~es[j].blocked => \E i \in 1..m : c[i] = es[j]
  <2> HIDE DEF c, es
  <2> QED BY <1>0 DEF Selects
<1> DEFINE K == {i \in 1..m : runs(c[i])}
<1>3. jobs = FlattenSeq(JobsIn(m, c, K, cap, target))
  <2> DEFINE leaves(t) == FlattenSeq([i \in DOMAIN c |->
                            IF ~c[i].blocked /\ c[i].target \in {AnyTarget, t} THEN EachSeed(c[i], cap, t) ELSE <<>>])
  <2>1. jobs = FlattenSeq([i \in DOMAIN <<target>> |-> leaves(<<target>>[i])])
    <3> HIDE DEF c
    <3> QED BY DEF SweepJobs, c
  <2>2. [i \in DOMAIN <<target>> |-> leaves(<<target>>[i])] = [i \in {1} |-> leaves(target)]
    <3>1. DOMAIN <<target>> = {1} /\ <<target>>[1] = target OBVIOUS
    <3> HIDE DEF leaves
    <3> QED BY <3>1
  <2>3. jobs = leaves(target)
    <3> HIDE DEF leaves
    <3> QED BY <2>1, <2>2, FlattenOne
  <2>4. [i \in DOMAIN c |-> IF runs(c[i]) THEN EachSeed(c[i], cap, target) ELSE <<>>]
          = JobsIn(m, c, K, cap, target)
    <3> HIDE DEF c, runs
    <3> QED BY <1>2 DEF JobsIn
  <2>5. leaves(target) = FlattenSeq([i \in DOMAIN c |-> IF runs(c[i]) THEN EachSeed(c[i], cap, target) ELSE <<>>])
    <3> HIDE DEF c
    <3> QED OBVIOUS
  <2> HIDE DEF c, runs, K, leaves
  <2> QED BY <2>3, <2>4, <2>5
<1>4. ToSet(es) = {es[i] : i \in 1..n}
  <2> HIDE DEF es, list
  <2> QED BY <1>1 DEF EntriesOk, ToSet
<1>5. ASSUME NEW x
      PROVE  x \in due <=> \E i \in K : \E k \in SeedsIn(c[i], cap) : x = <<c[i].name, c[i].ids, c[i].seeds[k]>>
  <2>1. \A i \in 1..m : i \in K <=> ~c[i].blocked /\ c[i].target \in {AnyTarget, target}
    <3> HIDE DEF c
    <3> QED OBVIOUS
  <2>2. K \subseteq 1..m OBVIOUS
  <2>3. x \in due <=> \E e \in ToSet(es) : /\ ~e.blocked /\ e.target \in {AnyTarget, target}
                                          /\ \E k \in SeedsIn(e, cap) : x = <<e.name, e.ids, e.seeds[k]>>
    <3> HIDE DEF K
    <3> QED BY DEF Due, SeedsIn
  <2> HIDE DEF es, c, K
  <2>4. ASSUME x \in due
        PROVE  \E i \in K : \E k \in SeedsIn(c[i], cap) : x = <<c[i].name, c[i].ids, c[i].seeds[k]>>
    <3>1. PICK e \in ToSet(es) : /\ ~e.blocked /\ e.target \in {AnyTarget, target}
                                 /\ \E k \in SeedsIn(e, cap) : x = <<e.name, e.ids, e.seeds[k]>>
      BY <2>3, <2>4
    <3>2. PICK j \in 1..n : e = es[j] BY <1>4
    <3>3. PICK i \in 1..m : c[i] = e BY <1>2, <3>1, <3>2
    <3> QED BY <2>1, <3>1, <3>3
  <2>5. ASSUME \E i \in K : \E k \in SeedsIn(c[i], cap) : x = <<c[i].name, c[i].ids, c[i].seeds[k]>>
        PROVE  x \in due
    <3>1. PICK i \in K : \E k \in SeedsIn(c[i], cap) : x = <<c[i].name, c[i].ids, c[i].seeds[k]>> BY <2>5
    <3>2. c[i] \in ToSet(es) BY <1>2, <1>4, <2>2
    <3> QED BY <2>1, <2>2, <2>3, <3>1, <3>2
  <2> QED BY <2>4, <2>5
<1> QED
  <2>1. \A i \in 1..n : es[i].seeds \in Seq(Int) /\ IsInjective(es[i].seeds)
    <3> HIDE DEF es, list
    <3> QED BY <1>1 DEF EntriesOk
  <2>2. K \subseteq 1..m OBVIOUS
  <2> HIDE DEF es, c, K
  <2>3. \A i \in 1..m : c[i].seeds \in Seq(Int) /\ IsInjective(c[i].seeds) BY <1>2, <2>1
  <2>4. JobsGiven(m, c, K, cap, target, jobs) BY <1>2, <1>3, <2>2, <2>3 DEF JobsGiven
  <2>5. JobsMade(c, K, cap, jobs) BY <2>4, JobsOnce
  <2>6. RunsOf(jobs) = due BY <1>5, <2>5 DEF JobsMade
  <2> QED BY <2>5, <2>6 DEF JobsMade

\* Lists that check_testlists.py accepts give the driver and the sweep the same runs.
LEMMA SameGridHolds ==
  ASSUME NEW fs, NEW side, FilesOk(fs), TargetsOk
  PROVE  SameGrid(fs, side)
<1> SUFFICES ASSUME CheckLists(fs, side), NEW tb \in TBs,
                    NEW target \in ToSet(Targets[tb]), NEW cap \in 0..2
             PROVE  LET due == Due(ToSet(ListEntries(fs, Aggregate[tb], side)), target, cap)
                        driver == DriverJobs(fs, <<Aggregate[tb]>>, <<>>, side, tb, target, cap)
                    IN  /\ Len(driver) = Cardinality(due) /\ RunsOf(driver) = due
                        /\ ~TwiceInAGroup(fs, tb) => \A items \in All(fs, tb) :
                             LET sweep == SweepJobs(fs, items, side, tb, <<target>>, cap)
                             IN  Len(sweep) = Cardinality(due) /\ RunsOf(sweep) = due
  BY DEF SameGrid
<1>1. CheckBench(fs, side, tb) BY DEF CheckLists
<1>2. cap \in Nat OBVIOUS
<1> DEFINE due == Due(ToSet(ListEntries(fs, Aggregate[tb], side)), target, cap)
           driver == DriverJobs(fs, <<Aggregate[tb]>>, <<>>, side, tb, target, cap)
<1>3. Len(driver) = Cardinality(due) /\ RunsOf(driver) = due
  <2>1. PICK jobs, d : jobs = driver /\ d = due OBVIOUS
  <2>2. Len(jobs) = Cardinality(d) /\ RunsOf(jobs) = d BY <1>1, <1>2, <2>1, DriverRuns
  <2> HIDE DEF driver, due
  <2> QED BY <2>1, <2>2
<1>4. ASSUME ~TwiceInAGroup(fs, tb), NEW items \in All(fs, tb)
      PROVE  LET sweep == SweepJobs(fs, items, side, tb, <<target>>, cap)
             IN  Len(sweep) = Cardinality(due) /\ RunsOf(sweep) = due
  <2>1. items = <<"all">>
    <3>1. items \in IF "all" \in Names(Loaded(fs, Aggregate[tb]).groups) THEN {<<"all">>} ELSE {}
      BY <1>4 DEF All
    <3> QED BY <3>1
  <2>2. PICK jobs, d : jobs = SweepJobs(fs, <<"all">>, side, tb, <<target>>, cap) /\ d = due OBVIOUS
  <2>3. <<"all">> \in All(fs, tb) BY <1>4, <2>1
  <2>4. Len(jobs) = Cardinality(d) /\ RunsOf(jobs) = d BY <1>1, <1>2, <1>4, <2>2, <2>3, SweepRuns
  <2> HIDE DEF due
  <2> QED BY <2>1, <2>2, <2>4
<1> HIDE DEF due, driver
<1> QED BY <1>3, <1>4 DEF due, driver

\* What is due of a regression is what it runs.
LEMMA DueIsRun ==
  JobsDue
<1> SUFFICES ASSUME NEW r \in Rid
             PROVE  Len(Jobs(r)) = Cardinality(Due(ToSet(ListEntries(Files, Aggregate[BuildOf[r].tb], Side)), Target(r), 0))
  BY DEF JobsDue
<1> DEFINE tb == BuildOf[r].tb
<1>1. tb \in TBs /\ CheckBench(Files, Side, tb)
  <2>1. tb \in TBs /\ CheckLists(Files, Side) BY ReportsAssumption
  <2> HIDE DEF tb
  <2> QED BY <2>1 DEF CheckLists
<1>2. FilesOk(Files) /\ TargetsOk /\ Target(r) \in ToSet(Targets[tb]) BY ListsAssumption
<1>3. PICK jobs, d, target : /\ jobs = Jobs(r) /\ target = Target(r)
                             /\ d = Due(ToSet(ListEntries(Files, Aggregate[tb], Side)), Target(r), 0)
  OBVIOUS
<1>4. jobs = DriverJobs(Files, <<Aggregate[tb]>>, <<>>, Side, tb, target, 0) BY <1>3 DEF Jobs
<1>5. d = Due(ToSet(ListEntries(Files, Aggregate[tb], Side)), target, 0) BY <1>3
<1> HIDE DEF tb
<1>6. Len(jobs) = Cardinality(d) BY <1>1, <1>2, <1>3, <1>4, <1>5, DriverRuns
<1> QED BY <1>3, <1>6 DEF tb

\* The lists there are, and those that might be.
LEMMA GridsHold ==
  GridsAgree
BY ListsAssumption, SameGridHolds DEF GridsAgree

\* Lists that check_testlists.py accepts give run_list.py and the harness's sweep
\* the same scenarios, seeds and plan items, each once; the runs of a regression
\* are those that are due; and what was due has its row when it was not drained.
THEOREM DriversAgree == Spec => []ListsAgree
<1>1. GridsAgree /\ JobsDue BY GridsHold, DueIsRun
<1>2. ReportInv => ListsAgree BY <1>1, CompleteKept DEF ListsAgree
<1> QED BY <1>2, ReportsAreKept, PTL
=============================================================================

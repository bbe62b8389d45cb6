----------------------------- MODULE DvRunList -----------------------------
(***************************************************************************)
(* The regression driver dv/scripts/run_list.py with its control file, the *)
(* file's editor run_ctl.py, its worker threads, the signals it takes, and *)
(* a second driver with the same RID in the same output directory.         *)
(*                                                                         *)
(* A driver is one process: its main thread goes through `phase`, and one  *)
(* thread per launched run follows the output of `make run`.  The control  *)
(* files are shared by every process.  A file is replaced atomically       *)
(* (os.replace), but reading it and replacing it are two steps.            *)
(***************************************************************************)
EXTENDS Integers, FiniteSets, Sequences, Functions

CONSTANTS
  Driver,     \* the run_list.py processes that share one RID and directory
  Run,        \* every (scenario, seed), by its place in the list
  TestOf,     \* the UVM test of the run
  TimeOf,     \* the mean run time of the test in build/metrics.jsonl
  PastFailed, \* the tests that failed in an earlier results*.csv
  Scenarios,  \* cmd: per driver its runs, --ctl, started at all;
              \* events: bound on the edits, signals and SIGTERMs together
  HasHook,    \* the site defines JOB_MODIFY_PRIORITY
  StartJobs,  \* -j
  Output,     \* verdict lines `make run` may print: a set of sequences
  Edits       \* the <<key, text>> an operator may write into a control file

Keys == {"jobs", "pause", "drain", "priority", "order"}
Orders == {"fifo", "shortest", "failed-first"}
Digits == <<"1", "2", "3", "4">>            \* the job counts that occur
Lines == {"PASS", "XFAIL", "FAIL", "XPASS"}
ASSUME RunListAssumption ==
  /\ Run \subseteq Nat
  /\ \A s \in Scenarios :
       /\ s.cmd \in [Driver -> [runs: SUBSET Run, given: BOOLEAN, used: BOOLEAN]]
       /\ \A d, e \in Driver : d # e => s.cmd[d].runs \cap s.cmd[e].runs = {}
       /\ s.events \in Nat /\ StartJobs + s.events <= Len(Digits)
  /\ IsFiniteSet(Run)
  /\ StartJobs \in 1..Len(Digits)
  /\ Output \subseteq Seq(Lines)
  /\ Driver \cap {"", "rid", "given"} = {}  \* no owner, and two paths below

(***************************************************************************)
(* run_ctl.py: what a text means for a key.                                *)
(***************************************************************************)
TrueTexts  == {"1", "true", "yes", "on"}
FalseTexts == {"0", "false", "no", "off"}

\* Mutant: any number of jobs is accepted.
ValidAnyNumber(key, raw) ==
  IF key = "jobs" THEN raw \in Range(Digits) \cup {"0"}
  ELSE CASE key \in {"pause", "drain"} -> raw \in TrueTexts \cup FalseTexts
         [] key = "priority" -> raw # "bad name"
         [] key = "order" -> raw \in Orders

Valid(key, raw) ==
  CASE key = "jobs"             -> raw \in Range(Digits)
    [] key \in {"pause", "drain"} -> raw \in TrueTexts \cup FalseTexts
    [] key = "priority"         -> raw # "bad name"
    [] key = "order"            -> raw \in Orders

\* Mutant: only 1 switches a setting on.
ValueOne(key, raw) ==
  CASE key = "jobs" -> CHOOSE n \in DOMAIN Digits : Digits[n] = raw
    [] key \in {"pause", "drain"} -> raw = "1"
    [] OTHER -> raw

Value(key, raw) ==
  CASE key = "jobs"             -> IF raw = "0" THEN 0 ELSE CHOOSE n \in DOMAIN Digits : Digits[n] = raw
    [] key \in {"pause", "drain"} -> raw \in TrueTexts
    [] OTHER                    -> raw

Text(key, value) ==
  CASE key = "jobs"             -> Digits[value]
    [] key \in {"pause", "drain"} -> IF value THEN "1" ELSE "0"
    [] OTHER                    -> value

\* The verdict of a run from the lines of its make: the first verdict line,
\* marked when an XPASS note stands anywhere; no verdict line is a FAIL.
Verdict(lines) ==
  LET V == SelectSeq(lines, LAMBDA l : l # "XPASS")
      status == IF V = <<>> THEN "FAIL" ELSE Head(V)
  IN IF "XPASS" \in Range(lines) /\ status # "FAIL" THEN status \o "+XPASS" ELSE status

Good(status) == status \in {"PASS", "XFAIL", "PASS+XPASS", "XFAIL+XPASS"}

-----------------------------------------------------------------------------
VARIABLES
  file,     \* path -> control file: exists, pid in its header, key -> text
  cmd,      \* the command line of each driver
  op,       \* the operator's run_ctl.py: idle, or the edit it is making
  phase,    \* where the driver's main thread is
  path,     \* the control file the driver uses
  state,    \* Control.state
  seen,     \* Control.seen
  copy,     \* what run_ctl.write read, until it replaces the file
  signals,  \* the signals list: +1 SIGUSR1, -1 SIGUSR2
  term,     \* SIGTERM was taken
  pending, running, results,   \* the locals of schedule()
  done,     \* the queue.Queue between the threads and schedule()
  thread,   \* what the run's thread has read from make so far
  status,   \* Run.status
  prio,     \* the scheduler priority the run's job has
  rc,       \* exit status of the driver
  events,   \* what is left of the environment's bound
  clean,    \* (history) nobody else was between reading and writing a file the driver took
  late      \* (history) batches launched since the file says pause

files   == <<file, op>>
control == <<path, state, seen, copy, signals, clean>>
pool    == <<pending, running, results, done>>
jobs    == <<thread, status, prio>>
ending  == <<term, rc>>
vars == <<files, control, pool, jobs, ending, phase, cmd, events, late>>

Paths == {"rid", "given"} \cup Driver     \* <rid>.ctl, --ctl, <rid>.<pid>.ctl
Absent == [exists |-> FALSE, owner |-> "", val |-> <<>>]
Idle == [at |-> "idle", path |-> "rid", edit |-> <<"jobs", "1">>, copy |-> Absent]

\* run_ctl.write: set the keys of upd, keep the other lines (and the header).
Written(f, upd) == [f EXCEPT !.exists = TRUE,
  !.val = [k \in DOMAIN f.val \cup DOMAIN upd |->
             IF k \in DOMAIN upd THEN upd[k] ELSE f.val[k]]]
One(k, raw) == [x \in {k} |-> raw]

RunsOf(d) == cmd[d].runs
NoExit == 256     \* no exit status yet
Alive(d) == phase[d] \notin {"absent", "off", "over"}
InSchedule(d) == phase[d] \in {"loop", "bump", "decide", "wait"}

Init ==
  /\ \E s \in Scenarios : cmd = s.cmd /\ events = s.events
  /\ file = [p \in Paths |->      \* a settings file left for --ctl
              IF p = "given" /\ \E d \in Driver : cmd[d].given THEN Written(Absent, One("order", "shortest"))
              ELSE Absent]
  /\ op = Idle
  /\ phase = [d \in Driver |-> IF cmd[d].used THEN "off" ELSE "absent"]
  /\ path = [d \in Driver |-> "rid"]
  /\ state = [d \in Driver |-> [jobs |-> StartJobs, pause |-> FALSE, drain |-> FALSE,
                                priority |-> "", order |-> "fifo"]]
  /\ seen = [d \in Driver |-> [k \in Keys |-> Text(k, state[d][k])]]
  /\ copy = [d \in Driver |-> Absent]
  /\ signals = [d \in Driver |-> <<>>]
  /\ term = [d \in Driver |-> FALSE]
  /\ pending = [d \in Driver |-> RunsOf(d)]
  /\ running = [d \in Driver |-> {}]
  /\ results = [d \in Driver |-> <<>>]
  /\ done = [d \in Driver |-> <<>>]
  /\ thread = [r \in Run |-> "none"]
  /\ status = [r \in Run |-> ""]
  /\ prio = [r \in Run |-> ""]
  /\ rc = [d \in Driver |-> NoExit]
  /\ clean = [d \in Driver |-> FALSE]
  /\ late = [d \in Driver |-> 0]

-----------------------------------------------------------------------------
(***************************************************************************)
(* Control: reading the file.                                              *)
(***************************************************************************)
\* The keys whose text differs from the text last applied, and is valid.
Fresh(old, f) == {k \in DOMAIN f.val :
                    /\ k \notin DOMAIN old \/ old[k] # f.val[k]
                    /\ Valid(k, f.val[k])}
\* Mutant: nothing is applied while the driver is paused.
PolledUnpaused(st, old, f) ==
  [k \in Keys |-> IF k \in Fresh(old, f) /\ ~st["pause"] THEN Value(k, f.val[k]) ELSE st[k]]

Polled(st, old, f) == [k \in Keys |-> IF k \in Fresh(old, f) THEN Value(k, f.val[k]) ELSE st[k]]
SeenNow(old, f) == [k \in DOMAIN old \cup Fresh(old, f) |->
                      IF k \in Fresh(old, f) THEN f.val[k] ELSE old[k]]

\* ctl_paths: the RID's file, unless its header names another live driver.
\* With --ctl the settings of an existing file are applied.
ChoosePath(d) ==
  /\ phase[d] = "off"
  /\ LET owner == file["rid"].owner
         taken == owner # "" /\ owner # d /\ Alive(owner)
         found == cmd[d].given /\ file["given"].exists
     IN /\ path' = [path EXCEPT ![d] = IF cmd[d].given THEN "given"
                                       ELSE IF taken THEN d ELSE "rid"]
        /\ state' = [state EXCEPT ![d] = IF found THEN Polled(@, <<>>, file["given"]) ELSE @]
        /\ seen' = [seen EXCEPT ![d] = IF found THEN SeenNow(<<>>, file["given"]) ELSE @]
  /\ phase' = [phase EXCEPT ![d] = "write"]
  /\ UNCHANGED <<files, copy, signals, clean, pool, jobs, ending, cmd, events>>

\* run_ctl.write with a header: nothing of an older file is kept.
WriteHeader(d) ==
  /\ phase[d] = "write"
  /\ file' = [file EXCEPT ![path[d]] = [exists |-> TRUE, owner |-> d,
                            val |-> [k \in Keys |-> Text(k, state[d][k])]]]
  /\ clean' = [clean EXCEPT ![d] = /\ \A e \in Driver \ {d} : phase[e] \notin {"write", "bump", "remove"}
                                   /\ op.at # "read"]
  /\ phase' = [phase EXCEPT ![d] = "arm"]
  /\ UNCHANGED <<op, path, state, seen, copy, signals, pool, jobs, ending, cmd, events>>

\* The SIGTERM handler is installed only now.
Arm(d) ==
  /\ phase[d] = "arm"
  /\ phase' = [phase EXCEPT ![d] = "loop"]
  /\ UNCHANGED <<files, control, pool, jobs, ending, cmd, events>>

\* poll, then modify_pending for a new priority: it reaches the jobs that make
\* has announced and that have not started.
Poll(d) ==
  /\ phase[d] = "loop"
  /\ LET f == file[path[d]]
         new == Polled(state[d], seen[d], f)
         waiting == {r \in running[d] : thread[r] = "submitted"}
     IN /\ state' = [state EXCEPT ![d] = new]
        /\ seen' = [seen EXCEPT ![d] = SeenNow(@, f)]
        /\ prio' = [r \in Run |->
             IF /\ r \in waiting /\ HasHook
                /\ new["priority"] # state[d]["priority"] /\ new["priority"] # ""
             THEN new["priority"] ELSE prio[r]]
  /\ phase' = [phase EXCEPT ![d] = "decide"]
  /\ UNCHANGED <<files, path, copy, signals, clean, pool, thread, status, ending, cmd, events>>

\* bump_jobs: the settings change at once, the file after run_ctl.write has read it.
Bump(d) ==
  /\ phase[d] = "decide" /\ signals[d] # <<>>
  /\ LET old == state[d]["jobs"]
         new == IF old + Head(signals[d]) < 1 THEN 1 ELSE old + Head(signals[d])
     IN IF new # old
        THEN /\ new \in DOMAIN Digits
             /\ state' = [state EXCEPT ![d]["jobs"] = new]
             /\ seen' = [seen EXCEPT ![d] = [k \in DOMAIN @ \cup {"jobs"} |->
                                    IF k = "jobs" THEN Text(k, new) ELSE @[k]]]
             /\ copy' = [copy EXCEPT ![d] = file[path[d]]]
             /\ phase' = [phase EXCEPT ![d] = "bump"]
        ELSE UNCHANGED <<state, seen, copy, phase>>
  /\ signals' = [signals EXCEPT ![d] = Tail(@)]
  /\ UNCHANGED <<files, path, clean, pool, jobs, ending, cmd, events>>

BumpWrite(d) ==
  /\ phase[d] = "bump"
  /\ file' = [file EXCEPT ![path[d]] = Written(copy[d], One("jobs", Text("jobs", state[d]["jobs"])))]
  /\ copy' = [copy EXCEPT ![d] = Absent]
  /\ phase' = [phase EXCEPT ![d] = "decide"]
  /\ UNCHANGED <<op, path, state, seen, signals, clean, pool, jobs, ending, cmd, events>>

-----------------------------------------------------------------------------
(***************************************************************************)
(* schedule(): launching and collecting.                                   *)
(***************************************************************************)
FailedNow(d) == {TestOf[r] : r \in {x \in Range(results[d]) : ~Good(status[x])}}

\* Order.key: r is launched before s.
Before(d, r, s) ==
  LET rank(x) == CASE state[d]["order"] = "shortest" -> TimeOf[TestOf[x]]
                    [] state[d]["order"] = "failed-first" ->
                         IF TestOf[x] \in PastFailed \cup FailedNow(d) THEN 0 ELSE 1
                    [] OTHER -> 0
  IN rank(r) < rank(s) \/ (rank(r) = rank(s) /\ r < s)

\* The runs one pass of the launch loop takes: while there is room, the first.
Batch(d) ==
  IF state[d]["pause"] \/ state[d]["drain"] THEN {}
  ELSE {r \in pending[d] : Cardinality({s \in pending[d] : Before(d, s, r)})
                             < state[d]["jobs"] - Cardinality(running[d])}

\* Mutant: a drained driver waits for its pending runs.
FinishedAll(d) == running[d] = {} /\ pending[d] = {}

Finished(d) == running[d] = {} /\ (pending[d] = {} \/ state[d]["drain"])

Launch(d) ==
  /\ phase[d] = "decide" /\ signals[d] = <<>>
  /\ ~Finished(d)
  /\ pending' = [pending EXCEPT ![d] = @ \ Batch(d)]
  /\ running' = [running EXCEPT ![d] = @ \cup Batch(d)]
  /\ thread' = [r \in Run |-> IF r \in Batch(d) THEN "make" ELSE thread[r]]
  /\ prio' = [r \in Run |-> IF r \in Batch(d) THEN state[d]["priority"] ELSE prio[r]]
  /\ phase' = [phase EXCEPT ![d] = "wait"]
  /\ UNCHANGED <<files, control, results, done, status, ending, cmd, events>>

Leave(d) ==
  /\ phase[d] = "decide" /\ signals[d] = <<>>
  /\ Finished(d)
  /\ phase' = [phase EXCEPT ![d] = "exit"]
  /\ UNCHANGED <<files, control, pool, jobs, ending, cmd, events>>

\* Mutant: of the runs that have ended only the first is recorded.
CollectFirst(d) ==
  /\ phase[d] = "wait"
  /\ results' = [results EXCEPT ![d] = IF done[d] = <<>> THEN @ ELSE Append(@, Head(done[d]))]
  /\ running' = [running EXCEPT ![d] = @ \ Range(done[d])]
  /\ done' = [done EXCEPT ![d] = <<>>]
  /\ phase' = [phase EXCEPT ![d] = "loop"]
  /\ UNCHANGED <<files, control, pending, jobs, ending, cmd, events>>

\* done.get with a timeout, then everything else that is in the queue.
Collect(d) ==
  /\ phase[d] = "wait"
  /\ results' = [results EXCEPT ![d] = @ \o done[d]]
  /\ running' = [running EXCEPT ![d] = @ \ Range(done[d])]
  /\ done' = [done EXCEPT ![d] = <<>>]
  /\ phase' = [phase EXCEPT ![d] = "loop"]
  /\ UNCHANGED <<files, control, pending, jobs, ending, cmd, events>>

\* run_one: the thread reads the job's number, its start, and the end of make.
Announce(d, r) ==
  /\ Alive(d) /\ r \in running[d]
  /\ \/ thread[r] = "make" /\ thread' = [thread EXCEPT ![r] = "submitted"]
     \/ thread[r] = "submitted" /\ thread' = [thread EXCEPT ![r] = "started"]
  /\ UNCHANGED <<files, control, pool, status, prio, ending, phase, cmd, events>>

MakeEnds(d, r) ==
  /\ Alive(d) /\ r \in running[d]
  /\ thread[r] \in {"make", "submitted", "started"}
  /\ \E lines \in Output : status' = [status EXCEPT ![r] = Verdict(lines)]
  /\ thread' = [thread EXCEPT ![r] = "ended"]
  /\ done' = [done EXCEPT ![d] = Append(@, r)]
  /\ UNCHANGED <<files, control, pending, running, results, prio, ending, phase, cmd, events>>

-----------------------------------------------------------------------------
(***************************************************************************)
(* The end of a driver.                                                    *)
(***************************************************************************)
AfterRemove(d) ==
  /\ phase' = [phase EXCEPT ![d] = IF term[d] THEN "over" ELSE "csv"]
  /\ rc' = [rc EXCEPT ![d] = IF term[d] THEN 143 ELSE @]

\* Mutant: the file is removed whoever owns it.
CheckOwnerNot(d) ==
  /\ phase[d] = "exit"
  /\ phase' = [phase EXCEPT ![d] = "remove"]
  /\ UNCHANGED <<files, control, pool, jobs, term, rc, cmd, events>>

\* remove_ctl: reads the header first, then removes a file of this process.
CheckOwner(d) ==
  /\ phase[d] = "exit"
  /\ IF file[path[d]].exists /\ file[path[d]].owner = d
     THEN phase' = [phase EXCEPT ![d] = "remove"] /\ UNCHANGED rc
     ELSE AfterRemove(d)
  /\ UNCHANGED <<files, control, pool, jobs, term, cmd, events>>

RemoveCtl(d) ==
  /\ phase[d] = "remove"
  /\ file' = [file EXCEPT ![path[d]] = Absent]
  /\ AfterRemove(d)
  /\ UNCHANGED <<op, control, pool, jobs, term, cmd, events>>

\* Mutant: the runs left out do not count.
WriteResultsLaunched(d) ==
  /\ phase[d] = "csv"
  /\ rc' = [rc EXCEPT ![d] = IF \E r \in Range(results[d]) : ~Good(status[r]) THEN 1 ELSE 0]
  /\ phase' = [phase EXCEPT ![d] = "over"]
  /\ UNCHANGED <<files, control, pool, jobs, term, cmd, events>>

\* write_results, and the exit status of main.
WriteResults(d) ==
  /\ phase[d] = "csv"
  /\ rc' = [rc EXCEPT ![d] =
       IF pending[d] # {} \/ \E r \in Range(results[d]) : ~Good(status[r]) THEN 1 ELSE 0]
  /\ phase' = [phase EXCEPT ![d] = "over"]
  /\ UNCHANGED <<files, control, pool, jobs, term, cmd, events>>

\* SIGTERM: inside schedule() it goes through the finally that removes the
\* file; before the handler is there, or after schedule(), the process ends.
Terminate(d) ==
  /\ Alive(d) /\ events > 0
  /\ events' = events - 1
  /\ term' = [term EXCEPT ![d] = TRUE]
  /\ IF InSchedule(d)
     THEN phase' = [phase EXCEPT ![d] = "exit"] /\ UNCHANGED rc
     ELSE phase' = [phase EXCEPT ![d] = "over"] /\ rc' = [rc EXCEPT ![d] = 143]
  /\ UNCHANGED <<files, control, pool, jobs, cmd>>

Kick(d) ==
  /\ InSchedule(d) /\ events > 0
  /\ events' = events - 1
  /\ \E delta \in {1, -1} : signals' = [signals EXCEPT ![d] = Append(@, delta)]
  /\ UNCHANGED <<files, path, state, seen, copy, clean, pool, jobs, ending, phase, cmd>>

-----------------------------------------------------------------------------
(***************************************************************************)
(* The operator's run_ctl.py (or an editor): it looks whether the file is  *)
(* there, reads it, and replaces it.                                       *)
(***************************************************************************)
EditStart(p, e) ==
  /\ op = Idle /\ events > 0 /\ file[p].exists
  /\ op' = [at |-> "checked", path |-> p, edit |-> e, copy |-> Absent]
  /\ events' = events - 1
  /\ UNCHANGED <<file, control, pool, jobs, ending, phase, cmd>>

EditRead ==
  /\ op.at = "checked"
  /\ op' = [op EXCEPT !.at = "read", !.copy = file[op.path]]
  /\ UNCHANGED <<file, control, pool, jobs, ending, phase, cmd, events>>

EditReplace ==
  /\ op.at = "read"
  /\ file' = [file EXCEPT ![op.path] = Written(op.copy, One(op.edit[1], op.edit[2]))]
  /\ op' = Idle
  /\ UNCHANGED <<control, pool, jobs, ending, phase, cmd, events>>

-----------------------------------------------------------------------------
DriverStep(d) ==
  \/ ChoosePath(d) \/ WriteHeader(d) \/ Arm(d) \/ Poll(d) \/ Bump(d) \/ BumpWrite(d)
  \/ Launch(d) \/ Leave(d) \/ Collect(d) \/ CheckOwner(d) \/ RemoveCtl(d) \/ WriteResults(d)
Operator == EditRead \/ EditReplace \/ \E p \in Paths, e \in Edits : EditStart(p, e)
Worker(d, r) == Announce(d, r) \/ MakeEnds(d, r)

SaysPause(d) == LET f == file[path[d]] IN
  f.exists /\ "pause" \in DOMAIN f.val /\ f.val["pause"] \in TrueTexts

\* History: launches of d since its control file asks for a pause.
Record == late' = [d \in Driver |->
  IF ~SaysPause(d) \/ ~SaysPause(d)' THEN 0
  ELSE IF pending'[d] # pending[d] THEN late[d] + 1 ELSE late[d]]

Step == \/ \E d \in Driver : DriverStep(d) \/ Terminate(d) \/ Kick(d)
        \/ \E d \in Driver, r \in Run : Worker(d, r)
        \/ Operator
Next == Step /\ Record

Fairness == \A d \in Driver :
  /\ WF_vars(DriverStep(d) /\ Record)
  /\ \A r \in Run : WF_vars(MakeEnds(d, r) /\ Record)

Spec == Init /\ [][Next]_vars /\ Fairness
-----------------------------------------------------------------------------
(* Every variable has its type. *)
TypeOK ==
  /\ cmd \in {s.cmd : s \in Scenarios} /\ events \in Nat
  /\ DOMAIN file = Paths
  /\ \A p \in Paths : file[p].exists \in BOOLEAN /\ file[p].owner \in Driver \cup {""}
  /\ phase \in [Driver -> {"absent", "off", "write", "arm", "loop", "bump", "decide", "wait",
                           "exit", "remove", "csv", "over"}]
  /\ path \in [Driver -> Paths]
  /\ term \in [Driver -> BOOLEAN]
  /\ \A d \in Driver : state[d]["jobs"] \in DOMAIN Digits
  /\ pending \in [Driver -> SUBSET Run] /\ running \in [Driver -> SUBSET Run]
  /\ results \in [Driver -> Seq(Run)] /\ done \in [Driver -> Seq(Run)]
  /\ thread \in [Run -> {"none", "make", "submitted", "started", "ended"}]

InFlight(d) == {r \in RunsOf(d) : thread[r] \in {"make", "submitted", "started"}}
NoRepeats(s) == \A i, j \in DOMAIN s : s[i] = s[j] => i = j

(* No run is lost, launched twice or reported twice, whatever the order in  *)
(* which threads end while schedule() waits, collects or leaves: each run   *)
(* of a driver is in exactly one of pending, a live thread, the done queue  *)
(* and the results, once; `running` is the live threads and the queue.      *)
EachRunOnce ==
  \A d \in Driver :
    LET queued == Range(done[d])
        told == Range(results[d])
    IN /\ RunsOf(d) = pending[d] \cup InFlight(d) \cup queued \cup told
       /\ running[d] = InFlight(d) \cup queued
       /\ pending[d] \cap (running[d] \cup told) = {} /\ running[d] \cap told = {}
       /\ InFlight(d) \cap queued = {}
       /\ NoRepeats(done[d]) /\ NoRepeats(results[d])

(* The exit status of a driver that was not killed is 0 exactly when every  *)
(* run of its lists was launched, finished and is PASS or XFAIL; a drained  *)
(* driver does not report success for the runs it left out.                 *)
ExitStatusHonest ==
  \A d \in Driver :
    /\ rc[d] = 0 => \A r \in RunsOf(d) : thread[r] = "ended" /\ Good(status[r])
    /\ rc[d] = 1 => \E r \in RunsOf(d) : thread[r] # "ended" \/ ~Good(status[r])
    /\ rc[d] \in {0, 1} => running[d] = {}

(* Once a pause is in the driver's control file, at most the batch that was *)
(* already decided is still launched, although the file, the settings and   *)
(* the signals are changed by three different parties.                      *)
PauseTakesEffect == \A d \in Driver : late[d] <= 1

(* A live driver that took its file while nobody else was between reading   *)
(* and writing or removing one keeps it: no other driver with the RID and   *)
(* no exiting one takes it over or removes it, whatever the operator edits. *)
LiveFileKept ==
  \A d \in Driver : InSchedule(d) /\ clean[d] /\ ~cmd[d].given =>
    file[path[d]].exists /\ file[path[d]].owner = d

(* A driver in schedule() ends, unless it is paused with runs to launch.    *)
PausedWithWork(d) == state[d]["pause"] /\ ~state[d]["drain"] /\ pending[d] # {}
RunsFinish == \A d \in Driver : InSchedule(d) ~> (phase[d] = "over" \/ PausedWithWork(d))

(* A driver that stays in schedule() has in the end every valid setting of  *)
(* its control file, also after a signal, a lost update or an invalid edit. *)
Agrees(d) == LET asked == file[path[d]].val IN
  \A k \in DOMAIN asked : Valid(k, asked[k]) => state[d][k] = Value(k, asked[k])
SettingsFollowFile == \A d \in Driver : <>[]InSchedule(d) => <>[]Agrees(d)
=============================================================================

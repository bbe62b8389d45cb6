-------------------------- MODULE DvRunListProofs --------------------------
(***************************************************************************)
(* What TLAPS proves of the regression driver, for every number of drivers *)
(* and runs, every run list, every output of make and every edit, and every *)
(* interleaving of the drivers' reads, writes and removals of the control   *)
(* file with those of the operator:                                        *)
(*   - no run is lost, launched twice or reported twice, and the exit      *)
(*     status is 0 exactly when all runs of the lists passed;              *)
(*   - the control file of a live driver stays its own, because a driver   *)
(*     looks for a live owner before it takes a path, and a header is      *)
(*     rewritten with what was read;                                       *)
(*   - every variable has its type;                                        *)
(*   - a driver whose file asks for a pause launches at most the batch     *)
(*     that it had already decided on.                                     *)
(***************************************************************************)
EXTENDS DvRunList, SequenceTheorems, TLAPS

Phases == {"absent", "off", "write", "arm", "loop", "bump", "decide", "wait",
           "exit", "remove", "csv", "over"}
Live == {"make", "submitted", "started"}

Typed ==
  /\ cmd \in [Driver -> [runs: SUBSET Run, given: BOOLEAN, used: BOOLEAN]]
  /\ \A d, e \in Driver : d # e => RunsOf(d) \cap RunsOf(e) = {}
  /\ pending \in [Driver -> SUBSET Run] /\ running \in [Driver -> SUBSET Run]
  /\ results \in [Driver -> Seq(Run)] /\ done \in [Driver -> Seq(Run)]
  /\ thread \in [Run -> {"none", "ended"} \cup Live]
  /\ DOMAIN status = Run
  /\ phase \in [Driver -> Phases] /\ rc \in [Driver -> {0, 1, 143, NoExit}]
  /\ term \in [Driver -> BOOLEAN]

\* What a thread has done tells which of the collections its run is in.
ThreadOfRun ==
  \A d \in Driver :
    /\ \A r \in pending[d] : thread[r] = "none"
    /\ \A r \in Range(done[d]) \cup Range(results[d]) : thread[r] = "ended"

PoolInv == Typed /\ EachRunOnce /\ ThreadOfRun

\* A driver is past schedule() without SIGTERM only when nothing runs.
Past(d) == \/ phase[d] \in {"exit", "remove"} /\ ~term[d]
           \/ phase[d] = "csv"
           \/ rc[d] \in {0, 1}
AllGood(d) == \A r \in RunsOf(d) : thread[r] = "ended" /\ Good(status[r])
ExitOf(d) ==
  /\ Past(d) => running[d] = {}
  /\ rc[d] \in {0, 1} => phase[d] = "over"
  /\ rc[d] = 0 => AllGood(d)
  /\ rc[d] = 1 => ~AllGood(d)
ExitInv == \A d \in Driver : ExitOf(d)

-----------------------------------------------------------------------------
(* Lemmas about sequences as queues.                                       *)
LEMMA EmptyRange ==
  ASSUME NEW S, NEW s \in Seq(S), Len(s) = 0
  PROVE  Range(s) = {} /\ NoRepeats(s)
<1>1. DOMAIN s = {}
  OBVIOUS
<1>2. QED BY <1>1 DEF Range, NoRepeats

LEMMA RangeAppend ==
  ASSUME NEW S, NEW s \in Seq(S), NEW x \in S
  PROVE  Range(Append(s, x)) = Range(s) \cup {x}
<1>1. /\ DOMAIN Append(s, x) = 1..(Len(s) + 1) /\ DOMAIN s = 1..Len(s)
      /\ \A i \in 1..Len(s) : Append(s, x)[i] = s[i]
      /\ Append(s, x)[Len(s) + 1] = x /\ Len(s) \in Nat
  OBVIOUS
<1>2. 1..(Len(s) + 1) = 1..Len(s) \cup {Len(s) + 1}
  BY <1>1
<1>3. QED
  BY <1>1, <1>2 DEF Range

LEMMA RangeConcat ==
  ASSUME NEW S, NEW s \in Seq(S), NEW t \in Seq(S)
  PROVE  Range(s \o t) = Range(s) \cup Range(t)
<1> DEFINE u == s \o t
<1>1. /\ DOMAIN u = 1..(Len(s) + Len(t)) /\ DOMAIN s = 1..Len(s) /\ DOMAIN t = 1..Len(t)
      /\ Len(s) \in Nat /\ Len(t) \in Nat
      /\ \A i \in 1..Len(s) : u[i] = s[i]
  OBVIOUS
<1>2. \A i \in 1..Len(t) : u[Len(s) + i] = t[i] /\ Len(s) + i \in DOMAIN u
  BY <1>1
<1>3. \A i \in DOMAIN u : i \in 1..Len(s) \/ (i - Len(s) \in 1..Len(t) /\ u[i] = t[i - Len(s)])
  <2> TAKE i \in DOMAIN u
  <2>1. i \in 1..Len(s) \/ i - Len(s) \in 1..Len(t)
    BY <1>1
  <2>2. ASSUME i - Len(s) \in 1..Len(t) PROVE u[i] = t[i - Len(s)]
    BY <1>1, <1>2, <2>2
  <2>3. QED BY <2>1, <2>2
<1>4. Range(u) \subseteq Range(s) \cup Range(t)
  BY <1>1, <1>3 DEF Range
<1>5. Range(s) \subseteq Range(u)
  BY <1>1 DEF Range
<1>6. Range(t) \subseteq Range(u)
  BY <1>1, <1>2 DEF Range
<1>7. QED
  BY <1>4, <1>5, <1>6

LEMMA AppendNoRepeats ==
  ASSUME NEW S, NEW s \in Seq(S), NEW x \in S, NoRepeats(s), x \notin Range(s)
  PROVE  NoRepeats(Append(s, x))
<1>1. /\ DOMAIN Append(s, x) = 1..(Len(s) + 1) /\ DOMAIN s = 1..Len(s)
      /\ \A i \in 1..Len(s) : Append(s, x)[i] = s[i]
      /\ Append(s, x)[Len(s) + 1] = x /\ Len(s) \in Nat
  OBVIOUS
<1>2. \A i \in 1..(Len(s) + 1) : i \in 1..Len(s) \/ i = Len(s) + 1
  BY <1>1
<1>3. QED
  BY <1>1, <1>2 DEF Range, NoRepeats

LEMMA ConcatNoRepeats ==
  ASSUME NEW S, NEW s \in Seq(S), NEW t \in Seq(S),
         NoRepeats(s), NoRepeats(t), Range(s) \cap Range(t) = {}
  PROVE  NoRepeats(s \o t)
<1> DEFINE u == s \o t
<1>1. /\ DOMAIN u = 1..(Len(s) + Len(t)) /\ DOMAIN s = 1..Len(s) /\ DOMAIN t = 1..Len(t)
      /\ Len(s) \in Nat /\ Len(t) \in Nat
      /\ \A i \in 1..Len(s) : u[i] = s[i]
  OBVIOUS
<1>2. \A i \in DOMAIN u : i \notin 1..Len(s) => i - Len(s) \in 1..Len(t) /\ u[i] = t[i - Len(s)]
  BY <1>1
<1> SUFFICES ASSUME NEW i \in DOMAIN u, NEW j \in DOMAIN u, u[i] = u[j]
             PROVE  i = j
  BY DEF NoRepeats
<1>3. CASE i \in 1..Len(s) /\ j \in 1..Len(s)
  BY <1>1, <1>3 DEF NoRepeats
<1>4. CASE i \notin 1..Len(s) /\ j \notin 1..Len(s)
  <2>1. i - Len(s) = j - Len(s)
    BY <1>1, <1>2, <1>4 DEF NoRepeats
  <2>2. QED BY <1>1, <2>1
<1>5. CASE i \in 1..Len(s) /\ j \notin 1..Len(s)
  BY <1>1, <1>2, <1>5 DEF Range
<1>6. CASE i \notin 1..Len(s) /\ j \in 1..Len(s)
  BY <1>1, <1>2, <1>6 DEF Range
<1>7. QED
  BY <1>3, <1>4, <1>5, <1>6
-----------------------------------------------------------------------------
(* The pool: pending, threads, queue, results.                             *)
PoolVars == <<cmd, pending, running, results, done, thread>>

LEMMA InitPool == ASSUME RunListAssumption, Init PROVE PoolInv
<1>1. Typed
  <2>1. PICK s \in Scenarios : cmd = s.cmd
    BY DEF Init
  <2>2. /\ cmd \in [Driver -> [runs: SUBSET Run, given: BOOLEAN, used: BOOLEAN]]
        /\ \A d, e \in Driver : d # e => cmd[d].runs \cap cmd[e].runs = {}
    BY <2>1 DEF RunListAssumption
  <2>3. \A d \in Driver : RunsOf(d) \in SUBSET Run
    BY <2>2 DEF RunsOf
  <2>3a. /\ pending = [d \in Driver |-> RunsOf(d)] /\ running = [d \in Driver |-> {}]
         /\ results = [d \in Driver |-> <<>>] /\ done = [d \in Driver |-> <<>>]
         /\ thread = [r \in Run |-> "none"] /\ status = [r \in Run |-> ""]
         /\ rc = [d \in Driver |-> NoExit] /\ term = [d \in Driver |-> FALSE]
         /\ phase = [d \in Driver |-> IF cmd[d].used THEN "off" ELSE "absent"]
    BY DEF Init
  <2>4. /\ pending \in [Driver -> SUBSET Run] /\ running \in [Driver -> SUBSET Run]
        /\ results \in [Driver -> Seq(Run)] /\ done \in [Driver -> Seq(Run)]
        /\ thread \in [Run -> {"none", "ended"} \cup Live] /\ DOMAIN status = Run
        /\ phase \in [Driver -> Phases] /\ rc \in [Driver -> {0, 1, 143, NoExit}]
        /\ term \in [Driver -> BOOLEAN]
    BY <2>3, <2>3a, EmptySeq DEF Phases, Live
  <2>5. QED BY <2>2, <2>4 DEF Typed, RunsOf
<1>2. Range(<<>>) = {} /\ NoRepeats(<<>>)
  BY EmptyRange, EmptySeq
<1>3. EachRunOnce
  BY <1>1, <1>2 DEF Init, Typed, EachRunOnce, InFlight, RunsOf
<1>4. ThreadOfRun
  BY <1>1, <1>2 DEF Init, Typed, ThreadOfRun, RunsOf
<1>5. QED
  BY <1>1, <1>3, <1>4 DEF PoolInv

\* Most steps leave the pool alone.
LEMMA PoolFrame ==
  ASSUME PoolInv, UNCHANGED PoolVars, UNCHANGED status,
         phase' \in [Driver -> Phases], rc' \in [Driver -> {0, 1, 143, NoExit}],
         term' \in [Driver -> BOOLEAN]
  PROVE  PoolInv'
<1>1. \A d \in Driver : RunsOf(d)' = RunsOf(d) /\ InFlight(d)' = InFlight(d)
  BY DEF PoolVars, RunsOf, InFlight
<1>2. Typed'
  BY <1>1 DEF PoolInv, PoolVars, Typed
<1>3. EachRunOnce'
  BY <1>1 DEF PoolInv, PoolVars, EachRunOnce, NoRepeats, Range
<1>4. ThreadOfRun'
  BY DEF PoolInv, PoolVars, ThreadOfRun, Range
<1>5. QED
  BY <1>2, <1>3, <1>4 DEF PoolInv

LEMMA LaunchPool == ASSUME PoolInv, NEW d \in Driver, Launch(d) PROVE PoolInv'
<1> DEFINE B == Batch(d)
<1>1. B \subseteq pending[d]
  BY DEF Batch
<1>2. /\ pending' = [pending EXCEPT ![d] = @ \ B] /\ running' = [running EXCEPT ![d] = @ \cup B]
      /\ thread' = [r \in Run |-> IF r \in B THEN "make" ELSE thread[r]]
      /\ phase' = [phase EXCEPT ![d] = "wait"]
      /\ UNCHANGED <<cmd, results, done, status, rc, term>>
  BY DEF Launch, pool, jobs, ending
<1> HIDE DEF B
<1>3. Typed'
  BY <1>1, <1>2 DEF PoolInv, Typed, RunsOf, Phases, Live
<1>4. B \subseteq RunsOf(d) /\ \A e \in Driver : RunsOf(e) \subseteq Run /\ pending[e] \subseteq RunsOf(e)
       /\ Range(done[e]) \cup Range(results[e]) \subseteq RunsOf(e)
  BY <1>1 DEF PoolInv, EachRunOnce, Typed, RunsOf
<1>5. \A e \in Driver \ {d} : B \cap RunsOf(e) = {}
  BY <1>4 DEF PoolInv, Typed
<1>6. \A e \in Driver : RunsOf(e)' = RunsOf(e)
  BY <1>2 DEF RunsOf
<1>7. \A e \in Driver \ {d} : InFlight(e)' = InFlight(e)
  BY <1>2, <1>4, <1>5, <1>6 DEF InFlight, PoolInv, Typed
<1>8. InFlight(d)' = InFlight(d) \cup B
  BY <1>2, <1>4, <1>6 DEF InFlight, PoolInv, Typed
<1>9. ThreadOfRun'
  <2> SUFFICES ASSUME NEW e \in Driver
               PROVE  /\ \A r \in pending'[e] : thread'[r] = "none"
                      /\ \A r \in Range(done'[e]) \cup Range(results'[e]) : thread'[r] = "ended"
    BY DEF ThreadOfRun
  <2>1. CASE e = d
    BY <1>1, <1>2, <1>4, <2>1 DEF PoolInv, Typed, ThreadOfRun
  <2>2. CASE e # d
    BY <1>2, <1>4, <1>5, <2>2 DEF PoolInv, Typed, ThreadOfRun
  <2>3. QED BY <2>1, <2>2
<1>10. EachRunOnce'
  <2> SUFFICES ASSUME NEW e \in Driver
        PROVE /\ RunsOf(e)' = pending'[e] \cup InFlight(e)' \cup Range(done'[e]) \cup Range(results'[e])
              /\ running'[e] = InFlight(e)' \cup Range(done'[e])
              /\ pending'[e] \cap (running'[e] \cup Range(results'[e])) = {}
              /\ running'[e] \cap Range(results'[e]) = {}
              /\ InFlight(e)' \cap Range(done'[e]) = {}
              /\ NoRepeats(done'[e]) /\ NoRepeats(results'[e])
    BY DEF EachRunOnce, NoRepeats, Range
  <2>1. CASE e = d
    BY <1>1, <1>2, <1>6, <1>8, <2>1 DEF PoolInv, Typed, EachRunOnce
  <2>2. CASE e # d
    BY <1>2, <1>6, <1>7, <2>2 DEF PoolInv, Typed, EachRunOnce
  <2>3. QED BY <2>1, <2>2
<1>11. QED
  BY <1>3, <1>9, <1>10 DEF PoolInv

\* What EachRunOnce says of one driver, with the priming spelled out.
Split(e) ==
  /\ RunsOf(e) = pending[e] \cup InFlight(e) \cup Range(done[e]) \cup Range(results[e])
  /\ running[e] = InFlight(e) \cup Range(done[e])
  /\ pending[e] \cap (running[e] \cup Range(results[e])) = {}
  /\ running[e] \cap Range(results[e]) = {} /\ InFlight(e) \cap Range(done[e]) = {}
  /\ NoRepeats(done[e]) /\ NoRepeats(results[e])

LEMMA SplitIsPartition == EachRunOnce <=> \A e \in Driver : Split(e)
BY DEF EachRunOnce, Split

LEMMA CollectPool == ASSUME PoolInv, NEW d \in Driver, Collect(d) PROVE PoolInv'
<1>1. /\ results' = [results EXCEPT ![d] = @ \o done[d]]
      /\ running' = [running EXCEPT ![d] = @ \ Range(done[d])]
      /\ done' = [done EXCEPT ![d] = <<>>] /\ phase' = [phase EXCEPT ![d] = "loop"]
      /\ UNCHANGED <<cmd, pending, thread, status, rc, term>>
  BY DEF Collect, jobs, ending
<1>2. results[d] \in Seq(Run) /\ done[d] \in Seq(Run) /\ results[d] \o done[d] \in Seq(Run)
  BY DEF PoolInv, Typed
<1>3. Typed'
  BY <1>1, <1>2, EmptySeq DEF PoolInv, Typed, RunsOf, Phases
<1>4. Split(d)
  BY SplitIsPartition DEF PoolInv
<1>5. /\ Range(results'[d]) = Range(results[d]) \cup Range(done[d]) /\ NoRepeats(results'[d])
  <2>1. results'[d] = results[d] \o done[d]
    BY <1>1 DEF PoolInv, Typed
  <2>2. Range(results[d]) \cap Range(done[d]) = {}
    BY <1>4 DEF Split
  <2>3. QED BY <1>2, <1>4, <2>1, <2>2, RangeConcat, ConcatNoRepeats DEF Split
<1>6. Range(done'[d]) = {} /\ NoRepeats(done'[d])
  <2>1. done'[d] = <<>>
    BY <1>1 DEF PoolInv, Typed
  <2>2. QED BY <2>1, EmptyRange, EmptySeq
<1>7. \A e \in Driver : RunsOf(e)' = RunsOf(e) /\ InFlight(e)' = InFlight(e)
  BY <1>1 DEF RunsOf, InFlight
<1>8. \A e \in Driver : Split(e)'
  <2> TAKE e \in Driver
  <2>1. CASE e = d
    <3>1. running'[d] = running[d] \ Range(done[d]) /\ pending'[d] = pending[d]
      BY <1>1 DEF PoolInv, Typed
    <3>2. QED BY <1>4, <1>5, <1>6, <1>7, <2>1, <3>1 DEF Split
  <2>2. CASE e # d
    <3>1. Split(e)
      BY SplitIsPartition DEF PoolInv
    <3>2. results'[e] = results[e] /\ running'[e] = running[e] /\ done'[e] = done[e] /\ pending'[e] = pending[e]
      BY <1>1, <2>2 DEF PoolInv, Typed
    <3>3. QED BY <1>7, <3>1, <3>2 DEF Split, Range, NoRepeats
  <2>3. QED BY <2>1, <2>2
<1>9. ThreadOfRun'
  <2> SUFFICES ASSUME NEW e \in Driver
               PROVE  /\ \A r \in pending'[e] : thread'[r] = "none"
                      /\ \A r \in Range(done'[e]) \cup Range(results'[e]) : thread'[r] = "ended"
    BY DEF ThreadOfRun
  <2>1. CASE e = d
    BY <1>1, <1>5, <1>6, <2>1 DEF PoolInv, Typed, ThreadOfRun
  <2>2. CASE e # d
    BY <1>1, <2>2 DEF PoolInv, Typed, ThreadOfRun
  <2>3. QED BY <2>1, <2>2
<1>10. EachRunOnce'
  BY <1>8, SplitIsPartition DEF EachRunOnce, Split
<1>11. QED
  BY <1>3, <1>9, <1>10 DEF PoolInv

\* A run a thread works on is in none of the other places.
LEMMA LiveRun ==
  ASSUME PoolInv, NEW d \in Driver, NEW r \in running[d], thread[r] \in Live
  PROVE  /\ r \in RunsOf(d) /\ r \in InFlight(d) /\ r \in Run
         /\ r \notin pending[d] /\ r \notin Range(done[d]) /\ r \notin Range(results[d])
         /\ \A e \in Driver \ {d} : r \notin RunsOf(e)
<1>1. Split(d)
  BY SplitIsPartition DEF PoolInv
<1>2. r \in RunsOf(d) /\ r \in Run
  BY <1>1 DEF Split, PoolInv, Typed
<1>3. r \in InFlight(d)
  BY <1>2 DEF InFlight, Live
<1>4. QED
  BY <1>1, <1>2, <1>3 DEF Split, PoolInv, Typed

LEMMA AnnouncePool ==
  ASSUME PoolInv, NEW d \in Driver, NEW r \in Run, Announce(d, r)
  PROVE  PoolInv'
<1>1. PICK x \in Live : thread' = [thread EXCEPT ![r] = x]
  BY DEF Announce, Live
<1>2. /\ UNCHANGED <<cmd, pending, running, results, done, status, rc, term, phase>>
      /\ r \in running[d] /\ thread[r] \in Live
  BY DEF Announce, pool, ending, Live
<1>3. Typed'
  BY <1>1, <1>2 DEF PoolInv, Typed, RunsOf
<1>4. /\ r \in RunsOf(d) /\ \A e \in Driver : r \notin pending[e] \cup Range(done[e]) \cup Range(results[e])
  BY <1>2, LiveRun, SplitIsPartition DEF PoolInv, Split
<1>5. \A e \in Driver : RunsOf(e)' = RunsOf(e) /\ InFlight(e)' = InFlight(e)
  BY <1>1, <1>2 DEF RunsOf, InFlight, PoolInv, Typed, Live
<1>6. EachRunOnce'
  BY <1>2, <1>5 DEF PoolInv, EachRunOnce, NoRepeats, Range
<1>7. ThreadOfRun'
  BY <1>1, <1>2, <1>4 DEF PoolInv, ThreadOfRun, Typed, Range
<1>8. QED
  BY <1>3, <1>6, <1>7 DEF PoolInv

LEMMA MakeEndsPool ==
  ASSUME PoolInv, NEW d \in Driver, NEW r \in Run, MakeEnds(d, r)
  PROVE  PoolInv'
<1>1. /\ thread' = [thread EXCEPT ![r] = "ended"] /\ done' = [done EXCEPT ![d] = Append(@, r)]
      /\ UNCHANGED <<cmd, pending, running, results, rc, term, phase>>
      /\ r \in running[d] /\ thread[r] \in Live
      /\ \E v : status' = [status EXCEPT ![r] = v]
  BY DEF MakeEnds, ending, Live
<1>2. /\ r \in RunsOf(d) /\ r \in InFlight(d) /\ r \notin Range(done[d])
      /\ \A e \in Driver : r \notin pending[e] \cup Range(results[e])
      /\ \A e \in Driver \ {d} : r \notin RunsOf(e) /\ r \notin Range(done[e])
  BY <1>1, LiveRun, SplitIsPartition DEF PoolInv, Split
<1>3. done[d] \in Seq(Run) /\ done'[d] = Append(done[d], r)
  BY <1>1 DEF PoolInv, Typed
<1>4. Typed'
  <2>1. DOMAIN status' = Run
    BY <1>1 DEF PoolInv, Typed
  <2>2. done' \in [Driver -> Seq(Run)] /\ thread' \in [Run -> {"none", "ended"} \cup Live]
    BY <1>1, <1>3 DEF PoolInv, Typed
  <2>3. QED BY <1>1, <2>1, <2>2 DEF PoolInv, Typed, RunsOf
<1>5. Range(done'[d]) = Range(done[d]) \cup {r} /\ NoRepeats(done'[d])
  BY <1>2, <1>3, RangeAppend, AppendNoRepeats, SplitIsPartition DEF PoolInv, Split
<1>6. \A e \in Driver : RunsOf(e)' = RunsOf(e)
  BY <1>1 DEF RunsOf
<1>7. InFlight(d)' = InFlight(d) \ {r}
  BY <1>1, <1>2, <1>6 DEF InFlight, PoolInv, Typed
<1>8. \A e \in Driver \ {d} : InFlight(e)' = InFlight(e)
  BY <1>1, <1>2, <1>6 DEF InFlight, PoolInv, Typed
<1>9. \A e \in Driver : Split(e)'
  <2> TAKE e \in Driver
  <2>1. Split(e)
    BY SplitIsPartition DEF PoolInv
  <2>2. CASE e = d
    <3>1. /\ Range(results'[d]) = Range(results[d]) /\ results'[d] = results[d]
          /\ pending'[d] = pending[d] /\ running'[d] = running[d]
      BY <1>1 DEF Range
    <3>2. NoRepeats(results'[d])
      BY <2>1, <2>2, <3>1 DEF Split
    <3>3. QED BY <1>2, <1>5, <1>6, <1>7, <2>1, <2>2, <3>1, <3>2 DEF Split
  <2>3. CASE e # d
    <3>1. done'[e] = done[e]
      BY <1>1, <2>3 DEF PoolInv, Typed
    <3>2. QED BY <1>1, <1>6, <1>8, <2>1, <2>3, <3>1 DEF Split, Range, NoRepeats
  <2>4. QED BY <2>2, <2>3
<1>10. ThreadOfRun'
  <2> SUFFICES ASSUME NEW e \in Driver
               PROVE  /\ \A s \in pending'[e] : thread'[s] = "none"
                      /\ \A s \in Range(done'[e]) \cup Range(results'[e]) : thread'[s] = "ended"
    BY DEF ThreadOfRun
  <2>1. pending[e] \subseteq Run /\ Range(done[e]) \subseteq Run /\ Range(results[e]) \subseteq Run
    BY SplitIsPartition DEF PoolInv, Split, Typed, RunsOf
  <2>2. \A s \in Run : thread'[s] = IF s = r THEN "ended" ELSE thread[s]
    BY <1>1 DEF PoolInv, Typed
  <2>3. Range(done'[e]) \subseteq Range(done[e]) \cup {r}
    <3>1. CASE e = d BY <1>5, <3>1
    <3>2. CASE e # d
      <4>1. done'[e] = done[e]
        BY <1>1, <3>2 DEF PoolInv, Typed
      <4>2. QED BY <4>1 DEF Range
    <3>3. QED BY <3>1, <3>2
  <2>4. Range(results'[e]) = Range(results[e]) /\ pending'[e] = pending[e]
    BY <1>1 DEF Range
  <2>5. QED BY <1>2, <2>1, <2>2, <2>3, <2>4 DEF PoolInv, ThreadOfRun
<1>11. EachRunOnce'
  BY <1>9, SplitIsPartition DEF EachRunOnce, Split
<1>12. QED
  BY <1>4, <1>10, <1>11 DEF PoolInv

\* The steps that only move the main thread, the files or the environment.
Elsewhere(d) ==
  \/ ChoosePath(d) \/ WriteHeader(d) \/ Arm(d) \/ Poll(d) \/ Bump(d) \/ BumpWrite(d)
  \/ Leave(d) \/ CheckOwner(d) \/ RemoveCtl(d) \/ WriteResults(d) \/ Terminate(d) \/ Kick(d)

LEMMA ElsewherePool ==
  ASSUME PoolInv, NEW d \in Driver, Elsewhere(d)
  PROVE  PoolInv' /\ UNCHANGED <<PoolVars, status>>
<1> USE DEF PoolVars, pool, jobs, ending
<1>1. CASE ChoosePath(d) \/ WriteHeader(d) \/ Arm(d) \/ Leave(d)
  <2>1. UNCHANGED <<PoolVars, status, rc, term>> /\ phase' \in [Driver -> Phases]
    <3>1. UNCHANGED <<PoolVars, status, rc, term>>
      BY <1>1 DEF ChoosePath, WriteHeader, Arm, Leave
    <3>2. \E x \in Phases : phase' = [phase EXCEPT ![d] = x]
      BY <1>1 DEF ChoosePath, WriteHeader, Arm, Leave, Phases
    <3>3. QED BY <3>1, <3>2 DEF PoolInv, Typed
  <2>2. QED BY <2>1, PoolFrame DEF PoolInv, Typed
<1>2. CASE Poll(d) \/ Bump(d) \/ BumpWrite(d) \/ Kick(d)
  <2>1. UNCHANGED <<PoolVars, status, rc, term>> /\ phase' \in [Driver -> Phases]
    <3>1. UNCHANGED <<PoolVars, status, rc, term>>
      BY <1>2 DEF Poll, Bump, BumpWrite, Kick
    <3>2. \/ phase' = phase \/ phase' = [phase EXCEPT ![d] = "bump"]
          \/ phase' = [phase EXCEPT ![d] = "decide"]
      BY <1>2 DEF Poll, Bump, BumpWrite, Kick
    <3>3. QED BY <3>1, <3>2 DEF PoolInv, Typed, Phases
  <2>2. QED BY <2>1, PoolFrame DEF PoolInv, Typed
<1>3. CASE CheckOwner(d) \/ RemoveCtl(d) \/ WriteResults(d) \/ Terminate(d)
  <2>1. UNCHANGED <<PoolVars, status>>
    BY <1>3 DEF CheckOwner, RemoveCtl, WriteResults, Terminate, AfterRemove
  <2>2. \E x \in Phases : phase' = [phase EXCEPT ![d] = x]
    BY <1>3 DEF CheckOwner, RemoveCtl, WriteResults, Terminate, AfterRemove, Phases
  <2>3. rc' = rc \/ \E x \in {0, 1, 143, NoExit} : rc' = [rc EXCEPT ![d] = x]
    BY <1>3 DEF CheckOwner, RemoveCtl, WriteResults, Terminate, AfterRemove, PoolInv, Typed
  <2>4. term' = term \/ term' = [term EXCEPT ![d] = TRUE]
    BY <1>3 DEF CheckOwner, RemoveCtl, WriteResults, Terminate, AfterRemove
  <2>5. phase' \in [Driver -> Phases]
    BY <2>2 DEF PoolInv, Typed
  <2>5a. rc \in [Driver -> {0, 1, 143, NoExit}] /\ term \in [Driver -> BOOLEAN]
    BY DEF PoolInv, Typed
  <2>6. rc' \in [Driver -> {0, 1, 143, NoExit}]
    BY <2>3, <2>5a
  <2>7. term' \in [Driver -> BOOLEAN]
    BY <2>4, <2>5a
  <2>8. QED BY <2>1, <2>5, <2>6, <2>7, PoolFrame
<1>4. QED
  BY <1>1, <1>2, <1>3 DEF Elsewhere

LEMMA OperatorFrame ==
  ASSUME Operator PROVE UNCHANGED <<PoolVars, status, phase, rc, term>>
BY DEF Operator, EditStart, EditRead, EditReplace, PoolVars, pool, jobs, ending

\* The disjuncts of Next as the proofs use them.
LEMMA NextCases ==
  ASSUME Next
  PROVE  \/ Operator
         \/ \E d \in Driver :
              \/ Elsewhere(d) \/ Launch(d) \/ Collect(d)
              \/ \E r \in Run : Announce(d, r) \/ MakeEnds(d, r)
BY DEF Next, Step, DriverStep, Worker, Elsewhere

LEMMA NextPool == ASSUME PoolInv, [Next]_vars PROVE PoolInv'
<1>1. CASE Operator
  BY <1>1, OperatorFrame, PoolFrame DEF PoolInv, Typed
<1>2. ASSUME NEW d \in Driver, Elsewhere(d) PROVE PoolInv'
  BY <1>2, ElsewherePool
<1>3. ASSUME NEW d \in Driver, Launch(d) PROVE PoolInv'
  BY <1>3, LaunchPool
<1>4. ASSUME NEW d \in Driver, Collect(d) PROVE PoolInv'
  BY <1>4, CollectPool
<1>5. ASSUME NEW d \in Driver, NEW r \in Run, Announce(d, r) PROVE PoolInv'
  BY <1>5, AnnouncePool
<1>6. ASSUME NEW d \in Driver, NEW r \in Run, MakeEnds(d, r) PROVE PoolInv'
  BY <1>6, MakeEndsPool
<1>7. CASE UNCHANGED vars
  BY <1>7, PoolFrame DEF vars, pool, jobs, ending, PoolVars, PoolInv, Typed
<1>8. QED
  BY <1>1, <1>2, <1>3, <1>4, <1>5, <1>6, <1>7, NextCases

(* No run of a driver is ever lost, launched twice or reported twice,       *)
(* whatever threads, signals, edits and other drivers do (run_list.py's     *)
(* pending, running, done queue and results).                               *)
THEOREM RunsAreConserved == ASSUME RunListAssumption PROVE Spec => []EachRunOnce
<1>1. Init => PoolInv
  BY InitPool
<1>2. PoolInv /\ [Next]_vars => PoolInv'
  BY NextPool
<1>3. PoolInv => EachRunOnce
  BY DEF PoolInv
<1>4. QED
  BY <1>1, <1>2, <1>3, PTL DEF Spec

-----------------------------------------------------------------------------
(* The exit status.                                                        *)
LEMMA ExitFrame ==
  ASSUME NEW e \in Driver, ExitOf(e),
         phase'[e] = phase[e], term'[e] = term[e], rc'[e] = rc[e], running'[e] = running[e],
         RunsOf(e)' = RunsOf(e),
         \A r \in RunsOf(e) : running[e] # {} \/ (thread'[r] = thread[r] /\ status'[r] = status[r])
  PROVE  ExitOf(e)'
<1>1. Past(e)' <=> Past(e)
  BY DEF Past
<1>2. CASE Past(e)
  BY <1>1, <1>2 DEF ExitOf, AllGood, Good, Past
<1>3. CASE ~Past(e)
  BY <1>1, <1>3 DEF ExitOf, Past
<1>4. QED
  BY <1>2, <1>3

LEMMA ExitElsewhere ==
  ASSUME PoolInv, ExitInv, NEW d \in Driver, Elsewhere(d)
  PROVE  ExitInv'
<1>1. UNCHANGED <<PoolVars, status>>
  BY ElsewherePool
<1>2. /\ UNCHANGED <<cmd, pending, running, results, done, thread, status>>
      /\ phase \in [Driver -> Phases] /\ rc \in [Driver -> {0, 1, 143, NoExit}] /\ term \in [Driver -> BOOLEAN]
      /\ ExitOf(d)
  BY <1>1 DEF PoolVars, PoolInv, Typed, ExitInv
<1>3. \A e \in Driver : RunsOf(e)' = RunsOf(e)
  BY <1>2 DEF RunsOf
<1>4. AllGood(d)' <=> AllGood(d)
  BY <1>2, <1>3 DEF AllGood, Good
<1>5. ExitOf(d)'
  <2>1. CASE /\ ChoosePath(d) \/ WriteHeader(d) \/ Arm(d) \/ Poll(d) \/ Bump(d) \/ BumpWrite(d) \/ Kick(d)
    <3>1. /\ phase[d] \in {"off", "write", "arm", "loop", "decide", "bump", "wait"}
          /\ UNCHANGED <<term, rc>>
          /\ \/ phase' = phase
             \/ \E x \in {"write", "arm", "loop", "decide", "bump"} : phase' = [phase EXCEPT ![d] = x]
      BY <2>1 DEF ChoosePath, WriteHeader, Arm, Poll, Bump, BumpWrite, Kick, InSchedule, ending
    <3>2. phase'[d] \in {"off", "write", "arm", "loop", "decide", "bump", "wait"}
      BY <1>2, <3>1
    <3>3. rc[d] \notin {0, 1}
      BY <1>2, <3>1 DEF ExitOf
    <3>4. QED BY <1>2, <3>1, <3>2, <3>3 DEF ExitOf, Past
  <2>2. CASE Leave(d)
    BY <1>2, <2>2 DEF Leave, Finished, ExitOf, Past, ending
  <2>3. CASE CheckOwner(d) \/ RemoveCtl(d)
    <3>1. /\ phase[d] \in {"exit", "remove"} /\ UNCHANGED term
          /\ \/ phase' = [phase EXCEPT ![d] = "remove"] /\ rc' = rc
             \/ term[d] /\ phase' = [phase EXCEPT ![d] = "over"] /\ rc' = [rc EXCEPT ![d] = 143]
             \/ ~term[d] /\ phase' = [phase EXCEPT ![d] = "csv"] /\ rc' = [rc EXCEPT ![d] = @]
      BY <1>2, <2>3 DEF CheckOwner, RemoveCtl, AfterRemove
    <3>2. rc[d] \notin {0, 1}
      BY <1>2, <3>1 DEF ExitOf
    <3>3. ~term[d] => running[d] = {}
      BY <1>2, <3>1 DEF ExitOf, Past
    <3>4. QED BY <1>2, <3>1, <3>2, <3>3 DEF ExitOf, Past
  <2>4. CASE WriteResults(d)
    <3>1. running[d] = {}
      BY <1>2, <2>4 DEF WriteResults, ExitOf, Past
    <3>2. RunsOf(d) = pending[d] \cup Range(results[d])
      BY <3>1, SplitIsPartition DEF PoolInv, Split
    <3>3. \A r \in Range(results[d]) : thread[r] = "ended"
      BY DEF PoolInv, ThreadOfRun
    <3>4. \A r \in pending[d] : thread[r] # "ended"
      BY DEF PoolInv, ThreadOfRun
    <3>5. AllGood(d) <=> pending[d] = {} /\ \A r \in Range(results[d]) : Good(status[r])
      BY <3>2, <3>3, <3>4 DEF AllGood
    <3>6. /\ rc'[d] = IF AllGood(d) THEN 0 ELSE 1
          /\ phase'[d] = "over"
      BY <1>2, <2>4, <3>5 DEF WriteResults
    <3>7. QED BY <1>2, <1>4, <3>1, <3>6 DEF ExitOf, Past
  <2>5. CASE Terminate(d)
    <3>1. /\ phase[d] \notin {"absent", "off", "over"} /\ term'[d] = TRUE
          /\ \/ phase'[d] = "exit" /\ rc' = rc
             \/ phase'[d] = "over" /\ rc'[d] = 143
      BY <1>2, <2>5 DEF Terminate, Alive
    <3>2. rc[d] \notin {0, 1}
      BY <1>2, <3>1 DEF ExitOf
    <3>3. QED BY <1>2, <3>1, <3>2 DEF ExitOf, Past
  <2>6. QED BY <2>1, <2>2, <2>3, <2>4, <2>5 DEF Elsewhere
<1>6. \A e \in Driver \ {d} : phase'[e] = phase[e] /\ term'[e] = term[e] /\ rc'[e] = rc[e]
  <2>1. phase' = phase \/ \E x : phase' = [phase EXCEPT ![d] = x]
    BY DEF Elsewhere, ChoosePath, WriteHeader, Arm, Poll, Bump, BumpWrite, Leave, CheckOwner,
           RemoveCtl, WriteResults, Terminate, Kick, AfterRemove
  <2>2. rc' = rc \/ \E x : rc' = [rc EXCEPT ![d] = x]
    BY DEF Elsewhere, ChoosePath, WriteHeader, Arm, Poll, Bump, BumpWrite, Leave, CheckOwner,
           RemoveCtl, WriteResults, Terminate, Kick, AfterRemove, ending
  <2>3. term' = term \/ term' = [term EXCEPT ![d] = TRUE]
    BY DEF Elsewhere, ChoosePath, WriteHeader, Arm, Poll, Bump, BumpWrite, Leave, CheckOwner,
           RemoveCtl, WriteResults, Terminate, Kick, AfterRemove, ending
  <2>4. QED BY <1>2, <2>1, <2>2, <2>3
<1>7. \A e \in Driver \ {d} : ExitOf(e)'
  BY <1>2, <1>3, <1>6, ExitFrame DEF ExitInv
<1>8. QED
  BY <1>5, <1>7 DEF ExitInv

LEMMA ExitPool ==
  ASSUME PoolInv, ExitInv, NEW d \in Driver, NEW r,
         Launch(d) \/ Collect(d) \/ (r \in Run /\ (Announce(d, r) \/ MakeEnds(d, r)))
  PROVE  ExitInv'
<1>1. /\ UNCHANGED <<cmd, rc, term>> /\ phase \in [Driver -> Phases]
      /\ running \in [Driver -> SUBSET Run] /\ DOMAIN status = Run
      /\ thread \in [Run -> {"none", "ended"} \cup Live]
      /\ \A e \in Driver : RunsOf(e)' = RunsOf(e) /\ RunsOf(e) \subseteq Run
  BY DEF Launch, Collect, Announce, MakeEnds, ending, PoolInv, Typed, RunsOf
<1>2. \A e \in Driver \ {d} : phase'[e] = phase[e] /\ running'[e] = running[e]
  BY <1>1 DEF Launch, Collect, Announce, MakeEnds, pool
<1>3. \A e \in Driver \ {d} : \A x \in RunsOf(e) : thread'[x] = thread[x] /\ status'[x] = status[x]
  <2> SUFFICES ASSUME NEW e \in Driver \ {d}, NEW x \in RunsOf(e)
               PROVE  thread'[x] = thread[x] /\ status'[x] = status[x]
    OBVIOUS
  <2>1. x \in Run /\ x \notin RunsOf(d)
    BY <1>1 DEF PoolInv, Typed
  <2>2. pending[d] \subseteq RunsOf(d) /\ running[d] \subseteq RunsOf(d)
    BY SplitIsPartition DEF PoolInv, Split, InFlight
  <2>3. CASE Launch(d)
    <3>1. x \notin Batch(d)
      BY <2>1, <2>2 DEF Batch
    <3>2. QED BY <1>1, <2>1, <2>3, <3>1 DEF Launch
  <2>4. CASE Collect(d)
    BY <2>4 DEF Collect, jobs
  <2>5. CASE Announce(d, r) \/ MakeEnds(d, r)
    <3>1. r # x
      BY <2>1, <2>2, <2>5 DEF Announce, MakeEnds
    <3>2. \E v : thread' = [thread EXCEPT ![r] = v]
      BY <2>5 DEF Announce, MakeEnds
    <3>3. status' = status \/ \E v : status' = [status EXCEPT ![r] = v]
      BY <2>5 DEF Announce, MakeEnds
    <3>4. QED BY <1>1, <2>1, <3>1, <3>2, <3>3
  <2>6. QED BY <2>3, <2>4, <2>5
<1>4. \A e \in Driver \ {d} : ExitOf(e)'
  BY <1>1, <1>2, <1>3, ExitFrame DEF ExitInv
<1>5. ExitOf(d)'
  <2>1. CASE Launch(d) \/ Collect(d)
    <3>1. phase[d] \in {"decide", "wait"} /\ phase'[d] \in {"wait", "loop"}
      BY <1>1, <2>1 DEF Launch, Collect
    <3>2. QED BY <1>1, <3>1 DEF ExitInv, ExitOf, Past
  <2>2. CASE Announce(d, r) \/ MakeEnds(d, r)
    <3>1. r \in running[d] /\ phase' = phase
      BY <2>2 DEF Announce, MakeEnds
    <3>2. ~Past(d)
      BY <3>1 DEF ExitInv, ExitOf
    <3>3. ~Past(d)'
      BY <1>1, <3>1, <3>2 DEF Past
    <3>4. QED BY <3>3 DEF ExitOf, Past
  <2>3. QED BY <2>1, <2>2
<1>6. QED
  BY <1>4, <1>5 DEF ExitInv

LEMMA ExitStart ==
  ASSUME NEW d \in Driver, phase[d] \in {"off", "absent"}, rc[d] = NoExit
  PROVE  ExitOf(d)
<1>1. rc[d] # 0 /\ rc[d] # 1
  BY DEF NoExit
<1>2. ~Past(d)
  BY <1>1 DEF Past
<1>3. QED BY <1>1, <1>2 DEF ExitOf

LEMMA InitExit == ASSUME Init PROVE ExitInv
<1>1. rc = [d \in Driver |-> NoExit]
  BY DEF Init
<1>2. phase = [d \in Driver |-> IF cmd[d].used THEN "off" ELSE "absent"]
  BY DEF Init
<1>3. \A d \in Driver : rc[d] = NoExit /\ phase[d] \in {"off", "absent"}
  BY <1>1, <1>2
<1>4. QED BY <1>3, ExitStart DEF ExitInv

(* run_list.py exits with 0 exactly when every run of its lists was         *)
(* launched, finished and passed: a drained driver, a failed run or a run   *)
(* whose thread had not ended can not be reported as success.               *)
THEOREM ExitStatusIsHonest == ASSUME RunListAssumption PROVE Spec => []ExitStatusHonest
<1>1. Init => PoolInv /\ ExitInv
  <2> SUFFICES ASSUME Init PROVE PoolInv /\ ExitInv
    OBVIOUS
  <2>1. QED BY InitPool, InitExit
<1>2. PoolInv /\ ExitInv /\ [Next]_vars => PoolInv' /\ ExitInv'
  <2> SUFFICES ASSUME PoolInv, ExitInv, [Next]_vars PROVE PoolInv' /\ ExitInv'
    OBVIOUS
  <2>1. CASE Operator
    <3>1. UNCHANGED <<cmd, pending, running, results, done, thread, status, phase, rc, term>>
      BY <2>1, OperatorFrame DEF PoolVars
    <3>2. PoolInv'
      BY <3>1, PoolFrame DEF PoolInv, Typed, PoolVars
    <3>3. ExitInv'
      BY <3>1, ExitFrame DEF ExitInv, RunsOf
    <3>4. QED BY <3>2, <3>3
  <2>2. CASE UNCHANGED vars
    <3>1. UNCHANGED <<cmd, pending, running, results, done, thread, status, phase, rc, term>>
      BY <2>2 DEF vars, pool, jobs, ending
    <3>2. PoolInv'
      BY <3>1, PoolFrame DEF PoolInv, Typed, PoolVars
    <3>3. ExitInv'
      BY <3>1, ExitFrame DEF ExitInv, RunsOf
    <3>4. QED BY <3>2, <3>3
  <2>3. ASSUME NEW d \in Driver, Elsewhere(d) PROVE PoolInv' /\ ExitInv'
    BY <2>3, ElsewherePool, ExitElsewhere
  <2>4. ASSUME NEW d \in Driver, NEW r \in Run, Announce(d, r) \/ MakeEnds(d, r) PROVE PoolInv' /\ ExitInv'
    BY <2>4, AnnouncePool, MakeEndsPool, ExitPool
  <2>5. ASSUME NEW d \in Driver, Launch(d) \/ Collect(d) PROVE PoolInv' /\ ExitInv'
    <3>1. PoolInv'
      BY <2>5, LaunchPool, CollectPool
    <3>2. ExitInv'
      BY <2>5, ExitPool
    <3>3. QED BY <3>1, <3>2
  <2>6. QED BY <2>1, <2>2, <2>3, <2>4, <2>5, NextCases
<1>3. ExitInv => ExitStatusHonest
  BY DEF ExitInv, ExitOf, Past, AllGood, ExitStatusHonest
<1>4. QED
  BY <1>1, <1>2, <1>3, PTL DEF Spec

Fields == {"exists", "owner", "val"}
Chosen(d) == IF phase[d] \in {"absent", "off"} THEN {"rid"}
             ELSE IF cmd[d].given THEN {"given"} ELSE {"rid", d}

FileTyped ==
  /\ DOMAIN file = Paths /\ \A p \in Paths : DOMAIN file[p] = Fields
  /\ DOMAIN op = {"at", "path", "edit", "copy"} /\ op.path \in Paths
  /\ DOMAIN op.copy = Fields
  /\ DOMAIN copy = Driver /\ \A d \in Driver : DOMAIN copy[d] = Fields
  /\ DOMAIN clean = Driver
  /\ DOMAIN path = Driver /\ \A d \in Driver : path[d] \in Chosen(d)

Holds(d) ==
  phase[d] \in {"arm", "loop", "bump", "decide", "wait"} /\ clean[d] /\ ~cmd[d].given

\* The file is the driver's, and whoever is about to write it has read it so.
Owned(d) ==
  /\ file[path[d]].exists /\ file[path[d]].owner = d
  /\ op.at = "read" /\ op.path = path[d] => op.copy.owner = d
  /\ \A e \in Driver :
       path[e] = path[d] =>
          /\ phase[e] \notin {"write", "remove"}
          /\ phase[e] = "bump" => copy[e].owner = d

FileInv == FileTyped /\ \A d \in Driver : Holds(d) => Owned(d)

-----------------------------------------------------------------------------
\* run_ctl.write keeps the header.
LEMMA WrittenHeader ==
  ASSUME NEW f, NEW upd, DOMAIN f = Fields
  PROVE  /\ DOMAIN Written(f, upd) = Fields
         /\ Written(f, upd).exists /\ Written(f, upd).owner = f.owner
BY DEF Written, Fields

LEMMA ChosenPaths ==
  ASSUME NEW d \in Driver, FileTyped PROVE path[d] \in Paths
BY DEF FileTyped, Chosen, Paths

\* What the invariant is about.
FileVars == <<file, op, path, copy, clean>>

LEMMA FileFrame ==
  ASSUME FileInv, PoolInv, UNCHANGED <<FileVars, cmd>>,
         NEW d \in Driver, \A e \in Driver \ {d} : phase'[e] = phase[e],
         \/ phase' = phase
         \/ /\ phase[d] \in {"arm", "loop", "bump", "decide", "wait"}
            /\ phase'[d] \in {"loop", "decide", "wait", "exit", "over"}
         \/ phase[d] \notin {"absent", "off"} /\ phase'[d] \in {"csv", "over", "exit"}
  PROVE  FileInv'
<1>1. UNCHANGED <<file, op, path, copy, clean, cmd>>
  BY DEF FileVars
<1>2. FileTyped'
  <2>1. \A e \in Driver : Chosen(e)' = Chosen(e)
    BY <1>1 DEF Chosen
  <2>2. QED BY <1>1, <2>1 DEF FileInv, FileTyped
<1>3. ASSUME NEW h \in Driver, Holds(h)' PROVE Owned(h)'
  <2>1. Holds(h)
    BY <1>1, <1>3 DEF Holds
  <2>2. Owned(h)
    BY <2>1 DEF FileInv
  <2>3. \A e \in Driver : /\ phase'[e] \in {"write", "remove"} => phase[e] \in {"write", "remove"}
                          /\ phase'[e] = "bump" => phase[e] = "bump"
    OBVIOUS
  <2>4. QED BY <1>1, <2>2, <2>3 DEF Owned
<1>4. QED
  BY <1>2, <1>3 DEF FileInv

-----------------------------------------------------------------------------
(* The steps that touch the files.                                         *)

LEMMA ChoosePathFile ==
  ASSUME RunListAssumption, PoolInv, FileInv, NEW d \in Driver, ChoosePath(d)
  PROVE  FileInv'
<1> DEFINE owner == file["rid"].owner
           taken == owner # "" /\ owner # d /\ Alive(owner)
<1>1. /\ phase[d] = "off" /\ phase' = [phase EXCEPT ![d] = "write"]
      /\ path' = [path EXCEPT ![d] = IF cmd[d].given THEN "given"
                                     ELSE IF taken THEN d ELSE "rid"]
      /\ UNCHANGED <<file, op, copy, clean, cmd>>
  BY DEF ChoosePath, files
<1> HIDE DEF taken
<1>2. /\ phase'[d] = "write" /\ \A e \in Driver \ {d} : phase'[e] = phase[e] /\ path'[e] = path[e]
      /\ path'[d] = IF cmd[d].given THEN "given" ELSE IF taken THEN d ELSE "rid"
      /\ DOMAIN path' = Driver
  BY <1>1 DEF PoolInv, Typed, FileInv, FileTyped
<1>3. FileTyped'
  BY <1>1, <1>2 DEF FileInv, FileTyped, Chosen
<1>4. ASSUME NEW h \in Driver, Holds(h)' PROVE Owned(h)'
  <2>1. h # d /\ Holds(h)
    BY <1>1, <1>2, <1>4 DEF Holds
  <2>2. Owned(h)
    BY <2>1 DEF FileInv
  <2>3. path'[h] = path[h] /\ path[h] \in {"rid", h}
    BY <1>2, <2>1 DEF FileInv, FileTyped, Chosen, Holds
  <2>4. path'[d] # path[h]
    <3>1. d # "rid" /\ h # "rid" /\ h # "given" /\ h # ""
      BY DEF RunListAssumption
    <3>2. CASE cmd[d].given \/ taken
      BY <1>2, <2>1, <2>3, <3>1, <3>2
    <3>3. CASE ~cmd[d].given /\ ~taken
      <4>1. SUFFICES ASSUME path[h] = "rid" PROVE FALSE
        BY <1>2, <3>3
      <4>2. owner = h
        BY <2>2, <4>1 DEF Owned
      <4>3. Alive(h)
        BY <2>1 DEF Alive, Holds
      <4>4. QED BY <2>1, <3>1, <3>3, <4>2, <4>3 DEF taken
    <3>4. QED BY <3>2, <3>3
  <2>5. \A e \in Driver : path'[e] = path'[h] =>
            e # d /\ path[e] = path[h] /\ phase'[e] = phase[e]
    BY <1>2, <2>3, <2>4
  <2>6. QED BY <1>1, <2>2, <2>3, <2>5 DEF Owned
<1>5. QED
  BY <1>3, <1>4 DEF FileInv

LEMMA WriteHeaderFile ==
  ASSUME PoolInv, FileInv, NEW d \in Driver, WriteHeader(d)
  PROVE  FileInv'
<1>1. /\ phase[d] = "write" /\ phase' = [phase EXCEPT ![d] = "arm"]
      /\ \E v : file' = [file EXCEPT ![path[d]] = [exists |-> TRUE, owner |-> d, val |-> v]]
      /\ clean' = [clean EXCEPT ![d] =
                     /\ \A e \in Driver \ {d} : phase[e] \notin {"write", "bump", "remove"}
                     /\ op.at # "read"]
      /\ UNCHANGED <<op, path, copy, cmd>>
  BY DEF WriteHeader
<1>2. path[d] \in Paths /\ DOMAIN file = Paths
  BY ChosenPaths DEF FileInv, FileTyped
<1>3. /\ phase'[d] = "arm" /\ \A e \in Driver \ {d} : phase'[e] = phase[e] /\ clean'[e] = clean[e]
      /\ clean'[d] <=> /\ \A e \in Driver \ {d} : phase[e] \notin {"write", "bump", "remove"}
                       /\ op.at # "read"
      /\ DOMAIN clean' = Driver
  BY <1>1 DEF PoolInv, Typed, FileInv, FileTyped
<1>4. /\ DOMAIN file' = Paths /\ \A p \in Paths : p # path[d] => file'[p] = file[p]
      /\ file'[path[d]].exists /\ file'[path[d]].owner = d /\ DOMAIN file'[path[d]] = Fields
  BY <1>1, <1>2 DEF Fields
<1>5. FileTyped'
  <2>1. \A e \in Driver : Chosen(e)' = Chosen(e)
    BY <1>1, <1>3 DEF Chosen
  <2>2. \A p \in Paths : DOMAIN file'[p] = Fields
    BY <1>4 DEF FileInv, FileTyped
  <2>3. QED BY <1>1, <1>3, <1>4, <2>1, <2>2 DEF FileInv, FileTyped
<1>6. ASSUME NEW h \in Driver, Holds(h)' PROVE Owned(h)'
  <2>1. CASE h = d
    <3>1. op.at # "read" /\ \A e \in Driver \ {d} : phase[e] \notin {"write", "bump", "remove"}
      BY <1>3, <1>6, <2>1 DEF Holds
    <3>2. QED BY <1>1, <1>3, <1>4, <2>1, <3>1 DEF Owned
  <2>2. CASE h # d
    <3>1. Holds(h)
      BY <1>1, <1>3, <1>6, <2>2 DEF Holds
    <3>2. Owned(h)
      BY <3>1 DEF FileInv
    <3>3. path[d] # path[h]
      BY <1>1, <3>2 DEF Owned
    <3>4. path[h] \in Paths
      BY ChosenPaths DEF FileInv
    <3>5. file'[path[h]] = file[path[h]]
      BY <1>4, <3>3, <3>4
    <3>6. QED BY <1>1, <1>3, <2>2, <3>2, <3>3, <3>5 DEF Owned
  <2>3. QED BY <2>1, <2>2
<1>7. QED
  BY <1>5, <1>6 DEF FileInv

LEMMA BumpFile ==
  ASSUME PoolInv, FileInv, NEW d \in Driver, Bump(d)
  PROVE  FileInv'
<1>1. /\ phase[d] = "decide" /\ UNCHANGED <<file, op, path, clean, cmd>>
      /\ \/ UNCHANGED <<copy, phase>>
         \/ /\ copy' = [copy EXCEPT ![d] = file[path[d]]]
            /\ phase' = [phase EXCEPT ![d] = "bump"]
  BY DEF Bump, files
<1>2. CASE UNCHANGED <<copy, phase>>
  BY <1>1, <1>2, FileFrame DEF FileVars
<1>3. CASE /\ copy' = [copy EXCEPT ![d] = file[path[d]]]
           /\ phase' = [phase EXCEPT ![d] = "bump"]
  <2>1. /\ phase'[d] = "bump" /\ copy'[d] = file[path[d]] /\ DOMAIN copy' = Driver
        /\ \A e \in Driver \ {d} : phase'[e] = phase[e] /\ copy'[e] = copy[e]
    BY <1>3 DEF PoolInv, Typed, FileInv, FileTyped
  <2>2. FileTyped'
    <3>1. \A e \in Driver : Chosen(e)' = Chosen(e)
      BY <1>1, <2>1 DEF Chosen
    <3>2. DOMAIN copy'[d] = Fields
      BY <2>1, ChosenPaths DEF FileInv, FileTyped
    <3>3. QED BY <1>1, <2>1, <3>1, <3>2 DEF FileInv, FileTyped
  <2>3. ASSUME NEW h \in Driver, Holds(h)' PROVE Owned(h)'
    <3>1. Holds(h)
      BY <1>1, <2>1, <2>3 DEF Holds
    <3>2. Owned(h)
      BY <3>1 DEF FileInv
    <3>3. QED BY <1>1, <2>1, <3>2 DEF Owned
  <2>4. QED BY <2>2, <2>3 DEF FileInv
<1>4. QED BY <1>1, <1>2, <1>3

LEMMA BumpWriteFile ==
  ASSUME PoolInv, FileInv, NEW d \in Driver, BumpWrite(d)
  PROVE  FileInv'
<1>1. /\ phase[d] = "bump" /\ phase' = [phase EXCEPT ![d] = "decide"]
      /\ \E u : file' = [file EXCEPT ![path[d]] = Written(copy[d], u)]
      /\ copy' = [copy EXCEPT ![d] = Absent]
      /\ UNCHANGED <<op, path, clean, cmd>>
  BY DEF BumpWrite
<1>2. path[d] \in Paths /\ DOMAIN file = Paths /\ DOMAIN copy[d] = Fields
  BY ChosenPaths DEF FileInv, FileTyped
<1>3. PICK u : file' = [file EXCEPT ![path[d]] = Written(copy[d], u)]
  BY <1>1
<1>4. /\ phase'[d] = "decide" /\ copy'[d] = Absent /\ DOMAIN copy' = Driver
      /\ \A e \in Driver \ {d} : phase'[e] = phase[e] /\ copy'[e] = copy[e]
  BY <1>1 DEF PoolInv, Typed, FileInv, FileTyped
<1>5. /\ DOMAIN file' = Paths /\ \A p \in Paths : p # path[d] => file'[p] = file[p]
      /\ file'[path[d]] = Written(copy[d], u)
  BY <1>2, <1>3
<1>6. /\ file'[path[d]].exists /\ file'[path[d]].owner = copy[d].owner
      /\ DOMAIN file'[path[d]] = Fields
  BY <1>2, <1>5, WrittenHeader
<1>7. FileTyped'
  <2>1. \A e \in Driver : Chosen(e)' = Chosen(e)
    BY <1>1, <1>4 DEF Chosen
  <2>2. \A p \in Paths : DOMAIN file'[p] = Fields
    BY <1>5, <1>6 DEF FileInv, FileTyped
  <2>3. DOMAIN copy'[d] = Fields
    BY <1>4 DEF Absent, Fields
  <2>4. QED BY <1>1, <1>4, <1>5, <2>1, <2>2, <2>3 DEF FileInv, FileTyped
<1>8. ASSUME NEW h \in Driver, Holds(h)' PROVE Owned(h)'
  <2>1. Holds(h)
    BY <1>1, <1>4, <1>8 DEF Holds
  <2>2. Owned(h) /\ path[h] \in Paths
    BY <2>1, ChosenPaths DEF FileInv
  <2>3. file'[path[h]].exists /\ file'[path[h]].owner = h
    <3>1. CASE path[h] = path[d]
      BY <1>1, <1>6, <2>2, <3>1 DEF Owned
    <3>2. CASE path[h] # path[d]
      BY <1>5, <2>2, <3>2 DEF Owned
    <3>3. QED BY <3>1, <3>2
  <2>4. QED BY <1>1, <1>4, <2>2, <2>3 DEF Owned
<1>9. QED
  BY <1>7, <1>8 DEF FileInv

LEMMA CheckOwnerFile ==
  ASSUME PoolInv, FileInv, NEW d \in Driver, CheckOwner(d)
  PROVE  FileInv'
<1>1. /\ phase[d] = "exit" /\ UNCHANGED <<FileVars, cmd>>
      /\ \/ file[path[d]].owner = d /\ phase' = [phase EXCEPT ![d] = "remove"]
         \/ \E x \in {"csv", "over"} : phase' = [phase EXCEPT ![d] = x]
  BY DEF CheckOwner, AfterRemove, FileVars, files, control
<1>2. CASE \E x \in {"csv", "over"} : phase' = [phase EXCEPT ![d] = x]
  <2>1. phase'[d] \in {"csv", "over"} /\ \A e \in Driver \ {d} : phase'[e] = phase[e]
    BY <1>2 DEF PoolInv, Typed
  <2>2. QED BY <1>1, <2>1, FileFrame
<1>3. CASE file[path[d]].owner = d /\ phase' = [phase EXCEPT ![d] = "remove"]
  <2>1. phase'[d] = "remove" /\ \A e \in Driver \ {d} : phase'[e] = phase[e]
    BY <1>3 DEF PoolInv, Typed
  <2>2. UNCHANGED <<file, op, path, copy, clean, cmd>>
    BY <1>1 DEF FileVars
  <2>3. FileTyped'
    <3>1. \A e \in Driver : Chosen(e)' = Chosen(e)
      BY <1>1, <2>1, <2>2 DEF Chosen
    <3>2. QED BY <2>2, <3>1 DEF FileInv, FileTyped
  <2>4. ASSUME NEW h \in Driver, Holds(h)' PROVE Owned(h)'
    <3>1. h # d /\ Holds(h)
      BY <2>1, <2>2, <2>4 DEF Holds
    <3>2. Owned(h)
      BY <3>1 DEF FileInv
    <3>3. path[d] # path[h]
      BY <1>3, <3>1, <3>2 DEF Owned
    <3>4. QED BY <2>1, <2>2, <3>2, <3>3 DEF Owned
  <2>5. QED BY <2>3, <2>4 DEF FileInv
<1>4. QED BY <1>1, <1>2, <1>3

LEMMA RemoveCtlFile ==
  ASSUME PoolInv, FileInv, NEW d \in Driver, RemoveCtl(d)
  PROVE  FileInv'
<1>1. /\ phase[d] = "remove" /\ UNCHANGED <<op, path, copy, clean, cmd>>
      /\ file' = [file EXCEPT ![path[d]] = Absent]
      /\ \E x \in {"csv", "over"} : phase' = [phase EXCEPT ![d] = x]
  BY DEF RemoveCtl, AfterRemove, control
<1>2. phase'[d] \in {"csv", "over"} /\ \A e \in Driver \ {d} : phase'[e] = phase[e]
  BY <1>1 DEF PoolInv, Typed
<1>3. /\ DOMAIN file' = Paths /\ \A p \in Paths : p # path[d] => file'[p] = file[p]
      /\ \A p \in Paths : DOMAIN file'[p] = Fields
  BY <1>1 DEF FileInv, FileTyped, Absent, Fields
<1>4. FileTyped'
  <2>1. \A e \in Driver : Chosen(e)' = Chosen(e)
    BY <1>1, <1>2 DEF Chosen
  <2>2. QED BY <1>1, <1>3, <2>1 DEF FileInv, FileTyped
<1>5. ASSUME NEW h \in Driver, Holds(h)' PROVE Owned(h)'
  <2>1. Holds(h)
    BY <1>1, <1>2, <1>5 DEF Holds
  <2>2. Owned(h) /\ path[h] \in Paths
    BY <2>1, ChosenPaths DEF FileInv
  <2>3. path[d] # path[h]
    BY <1>1, <2>2 DEF Owned
  <2>4. file'[path[h]] = file[path[h]]
    BY <1>3, <2>2, <2>3
  <2>5. QED BY <1>1, <1>2, <2>2, <2>4 DEF Owned
<1>6. QED
  BY <1>4, <1>5 DEF FileInv

\* The operator writes back the header that he read.
LEMMA OperatorFile ==
  ASSUME FileInv, Operator
  PROVE  FileInv'
<1>1. UNCHANGED <<phase, path, copy, clean, cmd>>
  BY DEF Operator, EditStart, EditRead, EditReplace, control
<1>2. \A e \in Driver : Chosen(e)' = Chosen(e)
  BY <1>1 DEF Chosen
<1>3. CASE \E p \in Paths, e \in Edits : EditStart(p, e)
  <2>1. PICK p \in Paths, e \in Edits : EditStart(p, e)
    BY <1>3
  <2>2. file' = file /\ op' = [at |-> "checked", path |-> p, edit |-> e, copy |-> Absent]
    BY <2>1 DEF EditStart
  <2>3. FileTyped'
    BY <1>1, <1>2, <2>2 DEF FileInv, FileTyped, Absent, Fields
  <2>4. \A h \in Driver : Holds(h)' => Owned(h)'
    BY <1>1, <2>2 DEF FileInv, Holds, Owned
  <2>5. QED BY <2>3, <2>4 DEF FileInv
<1>4. CASE EditRead
  <2>1. file' = file /\ op' = [op EXCEPT !.at = "read", !.copy = file[op.path]]
    BY <1>4 DEF EditRead
  <2>2. DOMAIN op' = DOMAIN op /\ op'.path = op.path /\ op'.copy = file[op.path]
    BY <2>1 DEF FileInv, FileTyped
  <2>3. FileTyped'
    BY <1>1, <1>2, <2>1, <2>2 DEF FileInv, FileTyped
  <2>4. \A h \in Driver : Holds(h)' => Owned(h)'
    BY <1>1, <2>1, <2>2 DEF FileInv, Holds, Owned
  <2>5. QED BY <2>3, <2>4 DEF FileInv
<1>5. CASE EditReplace
  <2>1. /\ op.at = "read" /\ op' = Idle
        /\ \E u : file' = [file EXCEPT ![op.path] = Written(op.copy, u)]
    BY <1>5 DEF EditReplace
  <2>2. PICK u : file' = [file EXCEPT ![op.path] = Written(op.copy, u)]
    BY <2>1
  <2>3. op.path \in Paths /\ DOMAIN file = Paths /\ DOMAIN op.copy = Fields
    BY DEF FileInv, FileTyped
  <2>4. /\ DOMAIN file' = Paths /\ \A p \in Paths : p # op.path => file'[p] = file[p]
        /\ file'[op.path] = Written(op.copy, u)
    BY <2>2, <2>3
  <2>5. /\ file'[op.path].exists /\ file'[op.path].owner = op.copy.owner
        /\ DOMAIN file'[op.path] = Fields
    BY <2>3, <2>4, WrittenHeader
  <2>6. FileTyped'
    <3>1. \A p \in Paths : DOMAIN file'[p] = Fields
      BY <2>4, <2>5 DEF FileInv, FileTyped
    <3>2. DOMAIN op' = {"at", "path", "edit", "copy"} /\ op'.path \in Paths /\ DOMAIN op'.copy = Fields
      BY <2>1 DEF Idle, Absent, Fields, Paths
    <3>3. QED BY <1>1, <1>2, <2>4, <3>1, <3>2 DEF FileInv, FileTyped
  <2>7. ASSUME NEW h \in Driver, Holds(h)' PROVE Owned(h)'
    <3>1. Holds(h)
      BY <1>1, <2>7 DEF Holds
    <3>2. Owned(h) /\ path[h] \in Paths
      BY <3>1, ChosenPaths DEF FileInv
    <3>3. file'[path[h]].exists /\ file'[path[h]].owner = h
      <4>1. CASE path[h] = op.path
        BY <2>1, <2>5, <3>2, <4>1 DEF Owned
      <4>2. CASE path[h] # op.path
        BY <2>4, <3>2, <4>2 DEF Owned
      <4>3. QED BY <4>1, <4>2
    <3>4. QED BY <1>1, <2>1, <3>2, <3>3 DEF Owned, Idle
  <2>8. QED BY <2>6, <2>7 DEF FileInv
<1>6. QED BY <1>3, <1>4, <1>5 DEF Operator

-----------------------------------------------------------------------------
LEMMA InitFile == ASSUME RunListAssumption, Init PROVE FileInv
<1>1. /\ file = [p \in Paths |->
            IF p = "given" /\ \E d \in Driver : cmd[d].given THEN Written(Absent, One("order", "shortest"))
            ELSE Absent]
      /\ op = Idle /\ path = [d \in Driver |-> "rid"] /\ copy = [d \in Driver |-> Absent]
      /\ clean = [d \in Driver |-> FALSE]
      /\ phase = [d \in Driver |-> IF cmd[d].used THEN "off" ELSE "absent"]
  BY DEF Init
<1>2. DOMAIN Absent = Fields /\ DOMAIN Written(Absent, One("order", "shortest")) = Fields
  BY WrittenHeader DEF Absent, Fields
<1>3. FileTyped
  BY <1>1, <1>2 DEF FileTyped, Idle, Chosen, Paths
<1>4. \A d \in Driver : ~Holds(d)
  BY <1>1 DEF Holds
<1>5. QED BY <1>3, <1>4 DEF FileInv

LEMMA NextFile ==
  ASSUME RunListAssumption, PoolInv, FileInv, [Next]_vars PROVE FileInv'
<1>1. CASE Operator BY <1>1, OperatorFile
<1>2. CASE UNCHANGED vars
  <2>1. UNCHANGED <<file, op, path, copy, clean, phase, cmd>>
    BY <1>2 DEF vars, files, control
  <2>2. QED BY <2>1 DEF FileInv, FileTyped, Chosen, Holds, Owned
<1>3. ASSUME NEW d \in Driver,
             \/ Arm(d) \/ Poll(d) \/ Launch(d) \/ Leave(d) \/ Collect(d)
             \/ WriteResults(d) \/ Terminate(d) \/ Kick(d)
      PROVE  FileInv'
  <2>1. UNCHANGED <<FileVars, cmd>>
    BY <1>3 DEF Arm, Poll, Launch, Leave, Collect, WriteResults, Terminate, Kick,
                FileVars, files, control
  <2>2. \/ phase' = phase
        \/ /\ phase[d] \in {"arm", "loop", "bump", "decide", "wait"}
           /\ \E x \in {"loop", "decide", "wait", "exit", "over"} : phase' = [phase EXCEPT ![d] = x]
        \/ /\ phase[d] \notin {"absent", "off"}
           /\ \E x \in {"csv", "over", "exit"} : phase' = [phase EXCEPT ![d] = x]
    BY <1>3 DEF Arm, Poll, Launch, Leave, Collect, WriteResults, Terminate, Kick, Alive
  <2>3. /\ \A e \in Driver \ {d} : phase'[e] = phase[e]
        /\ \/ phase' = phase
           \/ /\ phase[d] \in {"arm", "loop", "bump", "decide", "wait"}
              /\ phase'[d] \in {"loop", "decide", "wait", "exit", "over"}
           \/ phase[d] \notin {"absent", "off"} /\ phase'[d] \in {"csv", "over", "exit"}
    BY <2>2 DEF PoolInv, Typed
  <2>4. QED BY <2>1, <2>3, FileFrame
<1>4. ASSUME NEW d \in Driver, NEW r \in Run, Announce(d, r) \/ MakeEnds(d, r)
      PROVE  FileInv'
  <2>1. UNCHANGED <<FileVars, cmd>> /\ phase' = phase
    BY <1>4 DEF Announce, MakeEnds, FileVars, files, control
  <2>2. QED BY <2>1, FileFrame
<1>5. ASSUME NEW d \in Driver,
             \/ ChoosePath(d) \/ WriteHeader(d) \/ Bump(d) \/ BumpWrite(d)
             \/ CheckOwner(d) \/ RemoveCtl(d)
      PROVE  FileInv'
  BY <1>5, ChoosePathFile, WriteHeaderFile, BumpFile, BumpWriteFile, CheckOwnerFile,
     RemoveCtlFile
<1>6. QED
  BY <1>1, <1>2, <1>3, <1>4, <1>5, NextCases DEF Elsewhere

(* A driver that took its file alone keeps it as long as it schedules runs *)
(* (run_list.py's ctl_paths and remove_ctl, run_ctl.py's write): no other  *)
(* driver takes it over or removes it, and no edit loses its header.       *)
THEOREM FileIsKept == ASSUME RunListAssumption PROVE Spec => []LiveFileKept
<1>1. Init => PoolInv /\ FileInv
  BY InitPool, InitFile
<1>2. PoolInv /\ FileInv /\ [Next]_vars => PoolInv' /\ FileInv'
  <2>1. PoolInv /\ FileInv /\ [Next]_vars => FileInv'
    BY NextFile
  <2>2. PoolInv /\ [Next]_vars => PoolInv'
    BY NextPool
  <2>3. QED BY <2>1, <2>2
<1>3. FileInv => LiveFileKept
  BY DEF FileInv, Holds, Owned, LiveFileKept, InSchedule
<1>4. QED
  BY <1>1, <1>2, <1>3, PTL DEF Spec
-----------------------------------------------------------------------------
(* The settings: what Control holds, and what a pause in the file does.    *)

HeaderOK(f) == f.exists \in BOOLEAN /\ f.owner \in Driver \cup {""}

\* A pause that Control has seen in the file is in effect.
Applied(st, old) ==
  "pause" \in DOMAIN old /\ old["pause"] \in TrueTexts => st["pause"]

SettingsOf(d) ==
  /\ DOMAIN state[d] = Keys
  /\ state[d]["jobs"] \in DOMAIN Digits
  /\ Applied(state[d], seen[d])

SettingsInv ==
  /\ cmd \in {s.cmd : s \in Scenarios} /\ events \in Nat
  /\ path \in [Driver -> Paths]
  /\ DOMAIN state = Driver /\ DOMAIN seen = Driver
  /\ \A d \in Driver : SettingsOf(d)
  /\ \A p \in Paths : HeaderOK(file[p])
  /\ HeaderOK(op.copy)
  /\ \A d \in Driver : HeaderOK(copy[d])

\* A driver that has launched since its file asks for a pause has polled the
\* file, or is about to.
LateOf(d) ==
  /\ late[d] \in {0, 1}
  /\ late[d] = 1 =>
       /\ SaysPause(d)
       /\ phase[d] \notin {"absent", "off", "write", "arm"}
       /\ phase[d] \in {"decide", "bump"} => state[d]["pause"]

LateInv == \A d \in Driver : LateOf(d)

\* The texts of the control file that stand for a value.
LEMMA KeyFacts ==
  /\ "jobs" \in Keys /\ "pause" \in Keys
  /\ DOMAIN Digits = 1..4
  /\ \A raw : Valid("jobs", raw) => Value("jobs", raw) \in DOMAIN Digits
  /\ \A raw \in TrueTexts : Valid("pause", raw)
  /\ \A raw : raw \in TrueTexts => Value("pause", raw)
<1>1. "jobs" \in Keys /\ "pause" \in Keys /\ DOMAIN Digits = 1..4
  BY DEF Keys, Digits
<1>2. ASSUME NEW raw, Valid("jobs", raw) PROVE Value("jobs", raw) \in DOMAIN Digits
  <2>1. \E n \in DOMAIN Digits : Digits[n] = raw
    BY <1>2 DEF Valid, Range
  <2>2. raw # "0"
    BY <2>1, <1>1 DEF Digits
  <2>3. Value("jobs", raw) = CHOOSE n \in DOMAIN Digits : Digits[n] = raw
    BY <2>2 DEF Value
  <2>. QED
    BY <2>1, <2>3
<1>3. ASSUME NEW raw \in TrueTexts PROVE Valid("pause", raw) /\ Value("pause", raw)
  BY <1>3 DEF Valid, Value
<1>. QED
  BY <1>1, <1>2, <1>3

\* poll() on any text of the file.
LEMMA PollFacts ==
  ASSUME NEW st, NEW old, NEW f,
         DOMAIN st = Keys, st["jobs"] \in DOMAIN Digits, Applied(st, old)
  PROVE  /\ DOMAIN Polled(st, old, f) = Keys
         /\ Polled(st, old, f)["jobs"] \in DOMAIN Digits
         /\ Applied(Polled(st, old, f), SeenNow(old, f))
         /\ "pause" \in DOMAIN f.val /\ f.val["pause"] \in TrueTexts
              => Polled(st, old, f)["pause"]
<1>. DEFINE new == Polled(st, old, f)
            now == SeenNow(old, f)
            F == Fresh(old, f)
<1>1. /\ DOMAIN new = Keys
      /\ \A k \in Keys : new[k] = IF k \in F THEN Value(k, f.val[k]) ELSE st[k]
      /\ DOMAIN now = DOMAIN old \cup F
      /\ \A k \in DOMAIN now : now[k] = IF k \in F THEN f.val[k] ELSE old[k]
  BY DEF Polled, SeenNow
<1>2. \A k : k \in F <=> /\ k \in DOMAIN f.val
                         /\ k \notin DOMAIN old \/ old[k] # f.val[k]
                         /\ Valid(k, f.val[k])
  BY DEF Fresh
<1>. HIDE DEF new, now, F
<1>3. new["jobs"] \in DOMAIN Digits
  BY <1>1, <1>2, KeyFacts
<1>4. Applied(new, now)
  <2>. SUFFICES ASSUME "pause" \in DOMAIN now, now["pause"] \in TrueTexts
                PROVE  new["pause"]
    BY DEF Applied
  <2>1. CASE "pause" \in F
    <3>1. f.val["pause"] \in TrueTexts /\ new["pause"] = Value("pause", f.val["pause"])
      BY <1>1, <2>1, KeyFacts
    <3>. QED
      BY <3>1, KeyFacts
  <2>2. CASE "pause" \notin F
    <3>1. "pause" \in DOMAIN old /\ old["pause"] \in TrueTexts /\ new["pause"] = st["pause"]
      BY <1>1, <2>2, KeyFacts
    <3>. QED
      BY <3>1 DEF Applied
  <2>. QED
    BY <2>1, <2>2
<1>5. ASSUME "pause" \in DOMAIN f.val, f.val["pause"] \in TrueTexts
      PROVE  new["pause"]
  <2>1. CASE "pause" \in F
    <3>1. new["pause"] = Value("pause", f.val["pause"])
      BY <1>1, <2>1, KeyFacts
    <3>. QED
      BY <1>5, <3>1, KeyFacts
  <2>2. CASE "pause" \notin F
    <3>1. "pause" \in DOMAIN old /\ old["pause"] = f.val["pause"]
      BY <1>2, <1>5, <2>2, KeyFacts
    <3>2. new["pause"] = st["pause"]
      BY <1>1, <2>2, KeyFacts
    <3>. QED
      BY <1>5, <3>1, <3>2 DEF Applied
  <2>. QED
    BY <2>1, <2>2
<1>. QED
  BY <1>1, <1>3, <1>4, <1>5 DEF new, now

\* A rewritten file keeps an owner that is a driver or nobody.
LEMMA WrittenOK ==
  ASSUME NEW f, NEW upd, DOMAIN f = Fields, HeaderOK(f)
  PROVE  HeaderOK(Written(f, upd))
BY WrittenHeader DEF HeaderOK

LEMMA AbsentOK == HeaderOK(Absent)
BY DEF HeaderOK, Absent

\* What the settings of the invariant are about.
SettingVars == <<cmd, events, path, state, seen>>

\* A step that changes no setting and writes only headers that it has read.
LEMMA SettingsFrame ==
  ASSUME SettingsInv, FileInv, UNCHANGED <<cmd, path, state, seen>>, events' \in Nat,
         \A p \in Paths : HeaderOK(file'[p]),
         HeaderOK(op'.copy),
         \A d \in Driver : HeaderOK(copy'[d])
  PROVE  SettingsInv'
BY DEF SettingsInv, SettingsOf, HeaderOK, Applied

\* ctl_paths: the settings come from the command line and a file that was given.
LEMMA ChoosePathSettings ==
  ASSUME SettingsInv, NEW d \in Driver, ChoosePath(d)
  PROVE  SettingsInv'
<1>. DEFINE f == file["given"]
            found == cmd[d].given /\ f.exists
            p == IF cmd[d].given THEN "given"
                 ELSE IF file["rid"].owner # "" /\ file["rid"].owner # d /\ Alive(file["rid"].owner)
                 THEN d ELSE "rid"
            new == IF found THEN Polled(state[d], <<>>, f) ELSE state[d]
            now == IF found THEN SeenNow(<<>>, f) ELSE seen[d]
<1>1. /\ UNCHANGED <<file, op, copy, cmd, events>>
      /\ path' = [path EXCEPT ![d] = p]
      /\ state' = [state EXCEPT ![d] = new]
      /\ seen' = [seen EXCEPT ![d] = now]
  BY DEF ChoosePath, files
<1>2. DOMAIN new = Keys /\ new["jobs"] \in DOMAIN Digits /\ Applied(new, now)
  <2>1. Applied(state[d], <<>>)
    BY DEF Applied
  <2>2. CASE found
    BY <2>1, <2>2, PollFacts DEF SettingsInv, SettingsOf
  <2>3. CASE ~found
    BY <2>3 DEF SettingsInv, SettingsOf
  <2>. QED
    BY <2>2, <2>3
<1>3. p \in Paths
  BY DEF Paths
<1>. HIDE DEF new, now, p
<1>4. /\ state'[d] = new /\ seen'[d] = now
      /\ \A e \in Driver \ {d} : state'[e] = state[e] /\ seen'[e] = seen[e]
      /\ DOMAIN state' = Driver /\ DOMAIN seen' = Driver
      /\ path' \in [Driver -> Paths]
  BY <1>1, <1>3 DEF SettingsInv
<1>5. SettingsOf(d)'
  BY <1>2, <1>4 DEF SettingsOf, Applied
<1>6. \A e \in Driver \ {d} : SettingsOf(e)'
  BY <1>4 DEF SettingsInv, SettingsOf, Applied
<1>. QED
  BY <1>1, <1>4, <1>5, <1>6 DEF SettingsInv, HeaderOK

\* After a poll the driver is paused if its file says so.
LEMMA PollSettings ==
  ASSUME SettingsInv, NEW d \in Driver, Poll(d)
  PROVE  /\ SettingsInv'
         /\ SaysPause(d) => state'[d]["pause"]
<1>. DEFINE new == Polled(state[d], seen[d], file[path[d]])
            now == SeenNow(seen[d], file[path[d]])
<1>1. /\ UNCHANGED <<file, op, copy, cmd, events, path>>
      /\ state' = [state EXCEPT ![d] = new]
      /\ seen' = [seen EXCEPT ![d] = SeenNow(@, file[path[d]])]
  BY DEF Poll, files
<1>2. /\ state'[d] = new /\ seen'[d] = now
      /\ \A e \in Driver \ {d} : state'[e] = state[e] /\ seen'[e] = seen[e]
      /\ DOMAIN state' = Driver /\ DOMAIN seen' = Driver
  BY <1>1 DEF SettingsInv
<1>3. /\ DOMAIN new = Keys /\ new["jobs"] \in DOMAIN Digits /\ Applied(new, now)
      /\ SaysPause(d) => new["pause"]
  BY PollFacts DEF SettingsInv, SettingsOf, SaysPause
<1>. HIDE DEF new, now
<1>4. SettingsOf(d)'
  BY <1>2, <1>3 DEF SettingsOf, Applied
<1>5. \A e \in Driver \ {d} : SettingsOf(e)'
  BY <1>2 DEF SettingsInv, SettingsOf, Applied
<1>. QED
  BY <1>1, <1>2, <1>3, <1>4, <1>5 DEF SettingsInv, HeaderOK

\* A signal changes the number of jobs and nothing else.
LEMMA BumpSettings ==
  ASSUME SettingsInv, FileInv, NEW d \in Driver, Bump(d)
  PROVE  /\ SettingsInv'
         /\ \A e \in Driver : state[e]["pause"] => state'[e]["pause"]
<1>1. /\ UNCHANGED <<file, op, cmd, events, path>>
      /\ \/ UNCHANGED <<state, seen, copy>>
         \/ \E n \in DOMAIN Digits :
              /\ state' = [state EXCEPT ![d]["jobs"] = n]
              /\ seen' = [seen EXCEPT ![d] = [k \in DOMAIN @ \cup {"jobs"} |->
                                     IF k = "jobs" THEN Text(k, n) ELSE @[k]]]
              /\ copy' = [copy EXCEPT ![d] = file[path[d]]]
  BY DEF Bump, files
<1>2. CASE UNCHANGED <<state, seen, copy>>
  BY <1>1, <1>2, SettingsFrame DEF SettingsInv, HeaderOK
<1>3. ASSUME NEW n \in DOMAIN Digits,
             state' = [state EXCEPT ![d]["jobs"] = n],
             seen' = [seen EXCEPT ![d] = [k \in DOMAIN @ \cup {"jobs"} |->
                                     IF k = "jobs" THEN Text(k, n) ELSE @[k]]],
             copy' = [copy EXCEPT ![d] = file[path[d]]]
      PROVE  /\ SettingsInv'
             /\ \A e \in Driver : state[e]["pause"] => state'[e]["pause"]
  <2>1. /\ DOMAIN state' = Driver /\ DOMAIN seen' = Driver
        /\ \A e \in Driver \ {d} : state'[e] = state[e] /\ seen'[e] = seen[e]
        /\ state'[d] = [state[d] EXCEPT !["jobs"] = n]
        /\ DOMAIN seen'[d] = DOMAIN seen[d] \cup {"jobs"}
        /\ \A k \in DOMAIN seen[d] : k # "jobs" => seen'[d][k] = seen[d][k]
    BY <1>3 DEF SettingsInv
  <2>2. /\ DOMAIN state'[d] = Keys /\ state'[d]["jobs"] = n
        /\ state'[d]["pause"] = state[d]["pause"]
    BY <2>1, KeyFacts DEF SettingsInv, SettingsOf
  <2>3. Applied(state'[d], seen'[d])
    BY <2>1, <2>2 DEF SettingsInv, SettingsOf, Applied
  <2>4. SettingsOf(d)'
    BY <2>2, <2>3 DEF SettingsOf, Applied
  <2>5. \A e \in Driver \ {d} : SettingsOf(e)'
    BY <2>1 DEF SettingsInv, SettingsOf, Applied
  <2>6. \A e \in Driver : HeaderOK(copy'[e])
    BY <1>3 DEF SettingsInv, FileInv, FileTyped
  <2>7. \A e \in Driver : state[e]["pause"] => state'[e]["pause"]
    BY <2>1, <2>2
  <2>. QED
    BY <1>1, <2>1, <2>4, <2>5, <2>6, <2>7 DEF SettingsInv, HeaderOK
<1>. QED
  BY <1>1, <1>2, <1>3

\* The steps that replace or remove a file.
LEMMA FilesSettings ==
  ASSUME SettingsInv, FileInv, NEW d \in Driver,
         WriteHeader(d) \/ BumpWrite(d) \/ RemoveCtl(d)
  PROVE  SettingsInv' /\ UNCHANGED <<state, seen>>
<1>1. /\ UNCHANGED <<cmd, path, state, seen, op, events>>
      /\ \/ copy' = copy
         \/ copy' = [copy EXCEPT ![d] = Absent]
  BY DEF WriteHeader, BumpWrite, RemoveCtl, control
<1>2. PICK f : HeaderOK(f) /\ file' = [file EXCEPT ![path[d]] = f]
  <2>1. CASE WriteHeader(d)
    <3>1. PICK v : file' = [file EXCEPT ![path[d]] = [exists |-> TRUE, owner |-> d, val |-> v]]
      BY <2>1 DEF WriteHeader
    <3>2. HeaderOK([exists |-> TRUE, owner |-> d, val |-> v])
      BY DEF HeaderOK
    <3>. QED
      BY <3>1, <3>2
  <2>2. CASE BumpWrite(d)
    <3>1. PICK u : file' = [file EXCEPT ![path[d]] = Written(copy[d], u)]
      BY <2>2 DEF BumpWrite
    <3>2. HeaderOK(Written(copy[d], u))
      BY WrittenOK DEF SettingsInv, FileInv, FileTyped
    <3>. QED
      BY <3>1, <3>2
  <2>3. CASE RemoveCtl(d)
    BY <2>3, AbsentOK DEF RemoveCtl
  <2>. QED
    BY <2>1, <2>2, <2>3
<1>3. \A p \in Paths : HeaderOK(file'[p])
  BY <1>2 DEF SettingsInv, FileInv, FileTyped
<1>4. \A e \in Driver : HeaderOK(copy'[e])
  BY <1>1, AbsentOK DEF SettingsInv, FileInv, FileTyped
<1>5. HeaderOK(op'.copy) /\ events' \in Nat
  BY <1>1 DEF SettingsInv
<1>. QED
  BY <1>1, <1>3, <1>4, <1>5, SettingsFrame

\* run_ctl.py changes files only.
LEMMA OperatorSettings ==
  ASSUME SettingsInv, FileInv, Operator
  PROVE  SettingsInv' /\ UNCHANGED <<state, seen, pending, phase>>
<1>1. UNCHANGED <<cmd, path, state, seen, copy, pending, phase>>
  BY DEF Operator, EditStart, EditRead, EditReplace, control, pool
<1>2. events' \in Nat
  BY DEF Operator, EditStart, EditRead, EditReplace, SettingsInv
<1>3. (\A p \in Paths : HeaderOK(file'[p])) /\ HeaderOK(op'.copy)
  <2>1. ASSUME NEW p \in Paths, NEW e \in Edits, EditStart(p, e)
        PROVE  file' = file /\ op'.copy = Absent
    BY <2>1 DEF EditStart
  <2>2. CASE EditRead
    <3>1. file' = file /\ op' = [op EXCEPT !.at = "read", !.copy = file[op.path]]
      BY <2>2 DEF EditRead
    <3>2. op'.copy = file[op.path] /\ op.path \in Paths
      BY <3>1 DEF FileInv, FileTyped
    <3>. QED
      BY <3>1, <3>2 DEF SettingsInv
  <2>3. CASE EditReplace
    <3>1. PICK u : file' = [file EXCEPT ![op.path] = Written(op.copy, u)]
      BY <2>3 DEF EditReplace
    <3>2. HeaderOK(Written(op.copy, u))
      BY WrittenOK DEF SettingsInv, FileInv, FileTyped
    <3>3. op'.copy = Absent
      BY <2>3 DEF EditReplace, Idle
    <3>. QED
      BY <3>1, <3>2, <3>3, AbsentOK DEF SettingsInv, FileInv, FileTyped
  <2>. QED
    BY <2>1, <2>2, <2>3, AbsentOK DEF Operator, SettingsInv
<1>4. \A d \in Driver : HeaderOK(copy'[d])
  BY <1>1 DEF SettingsInv
<1>. QED
  BY <1>1, <1>2, <1>3, <1>4, SettingsFrame

\* The other steps touch neither settings nor files.
LEMMA OtherSettings ==
  ASSUME SettingsInv, FileInv, NEW d \in Driver, NEW r,
         \/ Arm(d) \/ Launch(d) \/ Leave(d) \/ Collect(d) \/ CheckOwner(d)
         \/ WriteResults(d) \/ Terminate(d) \/ Kick(d)
         \/ Announce(d, r) \/ MakeEnds(d, r)
  PROVE  SettingsInv' /\ UNCHANGED <<state, seen>>
<1>1. UNCHANGED <<cmd, path, state, seen, file, op, copy>>
  BY DEF Arm, Launch, Leave, Collect, CheckOwner, WriteResults, Terminate, Kick,
         Announce, MakeEnds, files, control
<1>2. events' = events \/ (events > 0 /\ events' = events - 1)
  BY DEF Arm, Launch, Leave, Collect, CheckOwner, WriteResults, Terminate, Kick,
         Announce, MakeEnds
<1>3. events' \in Nat
  BY <1>2 DEF SettingsInv
<1>. QED
  BY <1>1, <1>3, SettingsFrame DEF SettingsInv, HeaderOK

\* The settings that a driver starts with.
LEMMA InitSettings == ASSUME RunListAssumption, Init PROVE SettingsInv
<1>1. /\ file = [p \in Paths |->
            IF p = "given" /\ \E d \in Driver : cmd[d].given THEN Written(Absent, One("order", "shortest"))
            ELSE Absent]
      /\ op = Idle /\ path = [d \in Driver |-> "rid"] /\ copy = [d \in Driver |-> Absent]
      /\ state = [d \in Driver |-> [jobs |-> StartJobs, pause |-> FALSE, drain |-> FALSE,
                                    priority |-> "", order |-> "fifo"]]
      /\ seen = [d \in Driver |-> [k \in Keys |-> Text(k, state[d][k])]]
  BY DEF Init
<1>2. cmd \in {s.cmd : s \in Scenarios} /\ events \in Nat
  BY DEF Init, RunListAssumption
<1>3. HeaderOK(Written(Absent, One("order", "shortest"))) /\ HeaderOK(Absent)
  BY AbsentOK, WrittenOK DEF Absent, Fields
<1>4. /\ \A p \in Paths : HeaderOK(file[p])
      /\ HeaderOK(op.copy)
      /\ \A d \in Driver : HeaderOK(copy[d])
  BY <1>1, <1>3 DEF Idle
<1>5. \A d \in Driver : SettingsOf(d)
  <2>. TAKE d \in Driver
  <2>1. /\ state[d] = [jobs |-> StartJobs, pause |-> FALSE, drain |-> FALSE,
                       priority |-> "", order |-> "fifo"]
        /\ seen[d] = [k \in Keys |-> Text(k, state[d][k])]
    BY <1>1
  <2>2. /\ DOMAIN state[d] = Keys /\ state[d]["jobs"] = StartJobs
        /\ state[d]["pause"] = FALSE
    <3>. DEFINE rec == [jobs |-> StartJobs, pause |-> FALSE, drain |-> FALSE,
                        priority |-> "", order |-> "fifo"]
    <3>1. DOMAIN rec = Keys
      BY DEF Keys
    <3>2. rec["jobs"] = StartJobs
      OBVIOUS
    <3>3. rec["pause"] = FALSE
      OBVIOUS
    <3>. QED
      BY <2>1, <3>1, <3>2, <3>3
  <2>3. StartJobs \in DOMAIN Digits
    <3>1. Len(Digits) = 4
      BY DEF Digits
    <3>. QED
      BY <3>1, KeyFacts DEF RunListAssumption
  <2>4. seen[d]["pause"] = "0"
    BY <2>1, <2>2, KeyFacts DEF Text
  <2>5. seen[d]["pause"] \notin TrueTexts
    BY <2>4 DEF TrueTexts
  <2>. QED
    BY <2>2, <2>3, <2>5 DEF SettingsOf, Applied
<1>6. path \in [Driver -> Paths] /\ DOMAIN state = Driver /\ DOMAIN seen = Driver
  BY <1>1 DEF Paths
<1>. QED
  BY <1>2, <1>4, <1>5, <1>6 DEF SettingsInv

\* Every step keeps the settings in range, and what was seen applied.
LEMMA NextSettings ==
  ASSUME FileInv, SettingsInv, [Next]_vars PROVE SettingsInv'
<1>1. CASE Operator
  BY <1>1, OperatorSettings
<1>2. CASE UNCHANGED vars
  <2>1. UNCHANGED <<cmd, events, path, state, seen, file, op, copy>>
    BY <1>2 DEF vars, files, control
  <2>. QED
    BY <2>1 DEF SettingsInv, SettingsOf, Applied, HeaderOK
<1>3. ASSUME NEW d \in Driver, Elsewhere(d) PROVE SettingsInv'
  BY <1>3, ChoosePathSettings, PollSettings, BumpSettings, FilesSettings, OtherSettings
     DEF Elsewhere
<1>4. ASSUME NEW d \in Driver, Launch(d) \/ Collect(d) PROVE SettingsInv'
  BY <1>4, OtherSettings
<1>5. ASSUME NEW d \in Driver, NEW r \in Run, Announce(d, r) \/ MakeEnds(d, r)
      PROVE  SettingsInv'
  BY <1>5, OtherSettings
<1>. QED
  BY <1>1, <1>2, <1>3, <1>4, <1>5, NextCases

RunListInv == PoolInv /\ FileInv /\ SettingsInv

\* The pool, the files and the settings together are an invariant.
LEMMA RunListInvariant == ASSUME RunListAssumption PROVE Spec => []RunListInv
<1>1. Init => RunListInv
  BY InitPool, InitFile, InitSettings DEF RunListInv
<1>2. RunListInv /\ [Next]_vars => RunListInv'
  <2>. SUFFICES ASSUME RunListInv, [Next]_vars PROVE RunListInv'
    OBVIOUS
  <2>1. PoolInv'
    BY NextPool DEF RunListInv
  <2>2. FileInv'
    BY NextFile DEF RunListInv
  <2>3. SettingsInv'
    BY NextSettings DEF RunListInv
  <2>. QED
    BY <2>1, <2>2, <2>3 DEF RunListInv
<1>. QED
  BY <1>1, <1>2, PTL DEF Spec

(* Every variable of run_list.py's driver keeps its type: a job count that *)
(* an edit or a signal sets is one that exists, a header names a driver or *)
(* nobody, and the queues hold runs of the list.                           *)
THEOREM RunListTypes == ASSUME RunListAssumption PROVE Spec => []TypeOK
<1>1. RunListInv => TypeOK
  <2>. SUFFICES ASSUME RunListInv PROVE TypeOK
    OBVIOUS
  <2>1. /\ phase \in [Driver -> {"absent", "off", "write", "arm", "loop", "bump", "decide",
                                 "wait", "exit", "remove", "csv", "over"}]
        /\ term \in [Driver -> BOOLEAN]
        /\ pending \in [Driver -> SUBSET Run] /\ running \in [Driver -> SUBSET Run]
        /\ results \in [Driver -> Seq(Run)] /\ done \in [Driver -> Seq(Run)]
    BY DEF RunListInv, PoolInv, Typed, Phases
  <2>2. thread \in [Run -> {"none", "make", "submitted", "started", "ended"}]
    <3>1. {"none", "ended"} \cup Live = {"none", "make", "submitted", "started", "ended"}
      BY DEF Live
    <3>. QED
      BY <3>1 DEF RunListInv, PoolInv, Typed
  <2>3. /\ cmd \in {s.cmd : s \in Scenarios} /\ events \in Nat
        /\ path \in [Driver -> Paths]
        /\ \A d \in Driver : state[d]["jobs"] \in DOMAIN Digits
        /\ \A p \in Paths : HeaderOK(file[p])
    BY DEF RunListInv, SettingsInv, SettingsOf
  <2>4. DOMAIN file = Paths
    BY DEF RunListInv, FileInv, FileTyped
  <2>. QED
    BY <2>1, <2>2, <2>3, <2>4 DEF TypeOK, HeaderOK
<1>. QED
  BY <1>1, RunListInvariant, PTL

-----------------------------------------------------------------------------
(* What a pause in the file does.                                          *)

\* The part of Record that is about d.
Counted(d) ==
  late'[d] = IF ~SaysPause(d) \/ ~SaysPause(d)' THEN 0
             ELSE IF pending'[d] # pending[d] THEN late[d] + 1 ELSE late[d]

\* A step in which d launches nothing.
LEMMA LateKept ==
  ASSUME NEW d \in Driver, LateOf(d), Counted(d),
         pending'[d] = pending[d],
         late[d] = 1 =>
           /\ phase'[d] \notin {"absent", "off", "write", "arm"}
           /\ phase'[d] \in {"decide", "bump"} => state'[d]["pause"]
  PROVE  LateOf(d)'
BY DEF LateOf, Counted

\* After one launch the driver knows of the pause: the next batch is empty.
LEMMA LaunchLate ==
  ASSUME PoolInv, SettingsInv, NEW d \in Driver, LateOf(d), Counted(d), Launch(d)
  PROVE  LateOf(d)'
<1>1. /\ phase[d] = "decide" /\ phase'[d] = "wait"
      /\ pending'[d] = pending[d] \ Batch(d)
  BY DEF Launch, PoolInv, Typed
<1>2. CASE late[d] = 1
  <2>1. Batch(d) = {}
    BY <1>1, <1>2 DEF LateOf, Batch
  <2>. QED
    BY <1>1, <2>1, LateKept
<1>3. CASE late[d] = 0
  BY <1>1, <1>3 DEF Counted, LateOf
<1>. QED
  BY <1>2, <1>3 DEF LateOf

\* The other steps of the driver launch nothing.
LEMMA ElsewhereLate ==
  ASSUME PoolInv, FileInv, SettingsInv, NEW d \in Driver, LateOf(d), Counted(d), Elsewhere(d)
  PROVE  LateOf(d)'
<1>1. pending'[d] = pending[d] /\ DOMAIN phase = Driver
  BY ElsewherePool DEF PoolVars, PoolInv, Typed
<1>2. CASE ChoosePath(d) \/ WriteHeader(d) \/ Arm(d)
  <2>1. phase[d] \in {"off", "write", "arm"}
    BY <1>2 DEF ChoosePath, WriteHeader, Arm
  <2>. QED
    BY <1>1, <2>1, LateKept DEF LateOf
<1>3. CASE Poll(d)
  <2>1. phase'[d] = "decide"
    BY <1>1, <1>3 DEF Poll
  <2>. QED
    BY <1>1, <1>3, <2>1, PollSettings, LateKept DEF LateOf
<1>4. CASE Bump(d) \/ BumpWrite(d)
  <2>1. phase[d] \in {"decide", "bump"} /\ phase'[d] \in {"decide", "bump"}
    BY <1>1, <1>4 DEF Bump, BumpWrite
  <2>2. state[d]["pause"] => state'[d]["pause"]
    BY <1>4, BumpSettings, FilesSettings
  <2>. QED
    BY <1>1, <2>1, <2>2, LateKept DEF LateOf
<1>5. CASE \/ Leave(d) \/ CheckOwner(d) \/ RemoveCtl(d) \/ WriteResults(d) \/ Terminate(d)
  <2>1. phase'[d] \in {"exit", "remove", "csv", "over"}
    BY <1>1, <1>5 DEF Leave, CheckOwner, RemoveCtl, WriteResults, Terminate, AfterRemove
  <2>. QED
    BY <1>1, <2>1, LateKept
<1>6. CASE Kick(d)
  <2>1. phase' = phase /\ state' = state
    BY <1>6 DEF Kick
  <2>. QED
    BY <1>1, <2>1, LateKept DEF LateOf
<1>. QED
  BY <1>2, <1>3, <1>4, <1>5, <1>6 DEF Elsewhere

\* A step of somebody else.
LEMMA OthersLate ==
  ASSUME NEW e \in Driver, LateOf(e), Counted(e),
         pending'[e] = pending[e], phase'[e] = phase[e], state'[e] = state[e]
  PROVE  LateOf(e)'
BY LateKept DEF LateOf

\* Every step keeps it.
LEMMA NextLate ==
  ASSUME RunListInv, LateInv, [Next]_vars PROVE LateInv'
<1>. USE DEF RunListInv
<1>1. CASE UNCHANGED vars
  <2>1. UNCHANGED <<late, file, path, phase, state>>
    BY <1>1 DEF vars, files, control
  <2>. QED
    BY <2>1 DEF LateInv, LateOf, SaysPause
<1>2. ASSUME Next, NEW e \in Driver PROVE LateOf(e)'
  <2>1. Counted(e) /\ LateOf(e)
    BY <1>2 DEF Next, Record, Counted, LateInv
  <2>2. CASE Operator
    BY <2>1, <2>2, OperatorSettings, OthersLate
  <2>3. ASSUME NEW d \in Driver, Elsewhere(d) PROVE LateOf(e)'
    <3>1. CASE d = e
      BY <2>1, <2>3, <3>1, ElsewhereLate
    <3>2. CASE d # e
      <4>1. pending' = pending
        BY <2>3, ElsewherePool DEF PoolVars
      <4>2. phase' = phase \/ \E x : phase' = [phase EXCEPT ![d] = x]
        BY <2>3 DEF Elsewhere, ChoosePath, WriteHeader, Arm, Poll, Bump, BumpWrite, Leave,
                    CheckOwner, RemoveCtl, WriteResults, Terminate, Kick, AfterRemove
      <4>3. state' = state \/ \E x : state' = [state EXCEPT ![d] = x]
        <5>1. CASE ChoosePath(d) \/ Poll(d)
          BY <5>1 DEF ChoosePath, Poll
        <5>2. CASE Bump(d)
          BY <5>2 DEF Bump
        <5>3. CASE WriteHeader(d) \/ BumpWrite(d) \/ RemoveCtl(d)
          BY <5>3, FilesSettings
        <5>4. CASE \/ Arm(d) \/ Leave(d) \/ CheckOwner(d) \/ WriteResults(d)
                   \/ Terminate(d) \/ Kick(d)
          BY <5>4, OtherSettings
        <5>. QED
          BY <2>3, <5>1, <5>2, <5>3, <5>4 DEF Elsewhere
      <4>4. phase'[e] = phase[e] /\ state'[e] = state[e]
        BY <3>2, <4>2, <4>3 DEF PoolInv, Typed, SettingsInv
      <4>. QED
        BY <2>1, <4>1, <4>4, OthersLate
    <3>. QED
      BY <3>1, <3>2
  <2>4. ASSUME NEW d \in Driver, Launch(d) PROVE LateOf(e)'
    <3>1. CASE d = e
      BY <2>1, <2>4, <3>1, LaunchLate
    <3>2. CASE d # e
      <4>1. pending'[e] = pending[e] /\ phase'[e] = phase[e]
        BY <2>4, <3>2 DEF Launch, PoolInv, Typed
      <4>. QED
        BY <2>1, <2>4, <4>1, OtherSettings, OthersLate
    <3>. QED
      BY <3>1, <3>2
  <2>5. ASSUME NEW d \in Driver, Collect(d) PROVE LateOf(e)'
    <3>1. pending' = pending /\ state' = state
      BY <2>5, OtherSettings DEF Collect
    <3>2. IF d = e THEN phase'[e] = "loop" ELSE phase'[e] = phase[e]
      BY <2>5 DEF Collect, PoolInv, Typed
    <3>. QED
      BY <2>1, <3>1, <3>2, LateKept DEF LateOf
  <2>6. ASSUME NEW d \in Driver, NEW r \in Run, Announce(d, r) \/ MakeEnds(d, r)
        PROVE  LateOf(e)'
    <3>1. UNCHANGED <<pending, phase, state>>
      BY <2>6, OtherSettings DEF Announce, MakeEnds, pool
    <3>. QED
      BY <2>1, <3>1, OthersLate
  <2>. QED
    BY <1>2, <2>2, <2>3, <2>4, <2>5, <2>6, NextCases
<1>. QED
  BY <1>1, <1>2 DEF LateInv

LEMMA LateBound == ASSUME LateInv PROVE PauseTakesEffect
<1>1. \A x \in {0, 1} : x <= 1
  OBVIOUS
<1>2. \A d \in Driver : late[d] \in {0, 1}
  BY DEF LateInv, LateOf
<1>. QED
  BY <1>1, <1>2 DEF PauseTakesEffect

LEMMA LateStarts == ASSUME Init PROVE LateInv
<1>1. 0 \in {0, 1} /\ 0 # 1
  OBVIOUS
<1>2. \A d \in Driver : late[d] = 0
  BY DEF Init
<1>. QED
  BY <1>1, <1>2 DEF LateInv, LateOf

(* Once its control file asks for a pause, a driver launches at most the   *)
(* batch it had decided on (run_list.py's Control.poll and the launch loop *)
(* of schedule()): whatever the operator, the signals and other drivers do *)
(* to the file in between, the next poll finds the pause and it stays in   *)
(* effect until the file says something else.                              *)
THEOREM PauseWorks == ASSUME RunListAssumption PROVE Spec => []PauseTakesEffect
<1>1. Init => RunListInv /\ LateInv
  BY InitPool, InitFile, InitSettings, LateStarts DEF RunListInv
<1>2. RunListInv /\ RunListInv' /\ LateInv /\ [Next]_vars => LateInv'
  BY NextLate
<1>3. LateInv => PauseTakesEffect
  BY LateBound
<1>. QED
  BY <1>1, <1>2, <1>3, RunListInvariant, PTL DEF Spec
=============================================================================

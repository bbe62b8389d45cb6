------------------------------ MODULE DvCompare ------------------------------
(***************************************************************************)
(* compare_results.py: did any run of one regression get worse in another?  *)
(* A row of a results CSV is [test, args, seed, status, dir, build], where   *)
(* dir is the RID in the name of the run directory, build what the name of   *)
(* the CSV's directory says, and status a verdict with its XPASS note.       *)
(***************************************************************************)
EXTENDS Integers, Sequences, SequencesExt, FiniteSets

CONSTANT ConfigArg   \* +aou_config=...

Rank(status) == CASE status.word = "PASS" -> 0 [] status.word = "XFAIL" -> 1 [] OTHER -> 2

\* +aou_config says what the build says; the sort makes the order of arguments
\* immaterial, so they are a set.
NormArgs(args) == args \ {ConfigArg}
RunKey(row) == <<row.build, row.test, NormArgs(row.args), row.seed>>

\* The rows of one side, by <<file, row>>, in file and row order.
RowsFrom(csvs, rid) ==
  [p \in {q \in UNION {{f} \X (DOMAIN csvs[f]) : f \in DOMAIN csvs} : csvs[q[1]][q[2]].dir = rid} |->
     csvs[p[1]][p[2]]]
UpTo(q, p) == q[1] < p[1] \/ (q[1] = p[1] /\ q[2] <= p[2])

\* Mutant: repeated runs share one key, so the last row is kept.
OccurrenceOne(side, p) == 1

\* The same key may occur again: the n-th on one side is paired with the n-th
\* on the other.
Occurrence(side, p) ==
  Cardinality({q \in DOMAIN side : UpTo(q, p) /\ RunKey(side[q]) = RunKey(side[p])})
KeyOf(side, p) == <<RunKey(side[p]), Occurrence(side, p)>>

\* One side by key; with repeated keys a later row replaces an earlier.
Load(side) ==
  LET last(places) == CHOOSE p \in places : \A q \in places : UpTo(q, p)
  IN  [k \in {KeyOf(side, p) : p \in DOMAIN side} |->
         side[last({p \in DOMAIN side : KeyOf(side, p) = k})]]

Degraded(base, after) ==
  {k \in DOMAIN base \cap DOMAIN after : Rank(after[k].status) > Rank(base[k].status)}
Dropped(base, after) == DOMAIN base \ DOMAIN after

\* The exit status: 2 when a side is empty, 1 when something got worse.
Compare(base, after) ==
  IF DOMAIN base = {} \/ DOMAIN after = {} THEN 2
  ELSE IF Degraded(base, after) \cup Dropped(base, after) # {} THEN 1 ELSE 0
=============================================================================

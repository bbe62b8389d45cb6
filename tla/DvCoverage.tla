------------------------------ MODULE DvCoverage -----------------------------
(***************************************************************************)
(* fc_report.py and merge_axi4_fc.py: the union of the functional coverage  *)
(* of runs.  A run writes fc.json, every declared bin of the bench with its  *)
(* hits, and a text report of the AXI4 monitors; a bin is named by group,    *)
(* point and bin.  Percentages and the layout of the reports are left out.   *)
(***************************************************************************)
EXTENDS Integers, Sequences, SequencesExt, Functions, FiniteSets

\* What a run may write: counts are naturals.
FcOk(fc) ==
  /\ \A b \in DOMAIN fc.json : fc.json[b].hits \in Nat /\ fc.json[b].illegal \in BOOLEAN
  /\ fc.axi4 \in Seq(ToSet(fc.axi4)) /\ \A i \in DOMAIN fc.axi4 : fc.axi4[i][2] \in Nat
LedgerOk(ledger) ==
  \A key \in DOMAIN ledger : ledger[key].checks \in Nat /\ ledger[key].fires \in Nat

NewDb == [b \in {} |-> [hits |-> 0, runs |-> 0, illegal |-> FALSE]]
BinOf(db, b) == IF b \in DOMAIN db THEN db[b] ELSE [hits |-> 0, runs |-> 0, illegal |-> FALSE]

\* One bin of one report is added; bins are created as they are met.
AddBin(bin, hits, illegal) ==
  [hits |-> bin.hits + hits, runs |-> bin.runs + (IF hits > 0 THEN 1 ELSE 0),
   illegal |-> bin.illegal \/ illegal]

\* fc.json: every bin with its hits and whether it is illegal.
MergeJson(db, json) ==
  [b \in DOMAIN db \cup DOMAIN json |->
     IF b \in DOMAIN json THEN AddBin(BinOf(db, b), json[b].hits, json[b].illegal) ELSE db[b]]

Total(counts) == FoldFunction(+, 0, counts)
\* The BIN lines of a text report are summed by bin, which has no illegal mark.
LinesOf(lines, b) == {i \in DOMAIN lines : lines[i][1] = b}
BinCounts(lines) ==
  [b \in {lines[i][1] : i \in DOMAIN lines} |-> Total([i \in LinesOf(lines, b) |-> lines[i][2]])]
MergeAxi4(db, lines) ==
  LET counts == BinCounts(lines)
  IN  [b \in DOMAIN db \cup DOMAIN counts |->
         IF b \in DOMAIN counts THEN AddBin(BinOf(db, b), counts[b], FALSE) ELSE db[b]]

\* reports: what each run that counts wrote, <<run, report>>; fc.json may be
\* missing.  Sums and unions: the order of the runs is immaterial.
AddReport(r, db) == MergeAxi4(MergeJson(db, r[2].json), r[2].axi4)
Merge(reports) == FoldSet(AddReport, NewDb, reports)

Counted(db) == {b \in DOMAIN db : ~db[b].illegal}
Hit(db) == {b \in Counted(db) : db[b].hits > 0}
Tally(db) == [hit |-> Cardinality(Hit(db)), total |-> Cardinality(Counted(db))]
Holes(db) == {b \in Counted(db) : db[b].hits = 0}
IllegalHits(db) == {b \in DOMAIN db : db[b].illegal /\ db[b].hits > 0}

-----------------------------------------------------------------------------
\* rule_inventory.py: which rules the checkers of the bench have checked.  A
\* row of rules.csv is [scope, kind, who, via]: the primary checker `who` if
\* kind is "checker", the rule it reports under if "via".  A run is [id, word,
\* t1, ledger], a ledger <<rule, checker>> -> [checks, fires].

Trusted(run) == run.word \in {"PASS", "XFAIL"}
With(runs, key) == {run \in runs : key \in DOMAIN run.ledger}
\* Checks count on the DUT only, and where the run passed or failed as expected.
Checks(runs, key) ==
  Total([run \in {r \in With(runs, key) : Trusted(r) /\ r.t1} |-> run.ledger[key].checks])
Fires(runs, key) == {run \in With(runs, key) : run.ledger[key].fires > 0}
\* The key of the ledger that is evidence for a rule.
Primary(rules, rule) ==
  LET under == IF rules[rule].kind = "via" THEN rules[rule].via ELSE rule
  IN  <<under, rules[under].who>>
RuleStatus(rules, runs, rule) ==
  LET row == rules[rule]
      key == Primary(rules, rule)
  IN  CASE row.scope = "N/A" -> "n/a"
        [] row.scope # "N/A" /\ row.kind \notin {"checker", "via"} -> row.kind
        [] OTHER -> IF Checks(runs, key) = 0 /\ Fires(runs, key) = {} THEN "never runs"
                    ELSE IF \E run \in Fires(runs, key) : Trusted(run) THEN "fired" ELSE "hit"
=============================================================================

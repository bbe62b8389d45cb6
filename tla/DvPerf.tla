------------------------------- MODULE DvPerf --------------------------------
(***************************************************************************)
(* The performance gate.  perf_model.py turns the windows of                *)
(* docs/perf_scenarios.yaml into two tables, compiled into the bench: the   *)
(* windows aou_perf_vseq drives, and the bytes per cycle that an external   *)
(* packing model (d2d_model) says every link should carry.  The bench gates *)
(* its own windows (aou_perf_chk) and writes perf.json; `check` judges the  *)
(* perf.json files against the table as it is now, and with the external    *)
(* model at hand also compares the table with one made from the sources.    *)
(*                                                                         *)
(* Bytes per cycle are in units of 1/100000, shares of messages in units of *)
(* 1/10^7, tolerances in percent.  A burst starts aligned, so its address   *)
(* matters only where a window would cross 4 KB.  One side's traffic is a    *)
(* set of bursts [rp, kind, size, width, beat, partial, count].              *)
(***************************************************************************)
EXTENDS DvSimCfg, FiniteSetsExt

CONSTANTS
  Sources,      \* the contents docs/perf_scenarios.yaml may have
  Overrides,    \* the contents perf_overrides.yaml may have: sets of [key, tol]
  RunDirs(_, _, _),  \* d2d_model.run_dirs: FDI bytes and the bursts of A and B
  MinBytes,     \* +perf_kb in bytes
  Tests,        \* how a run sets the DUT and the remote die, [split, fullPct], and what
                \* its links measure, [pct, cycles, ss, ok, gap, skew]: [build, outcome]
  Budget        \* bound on edits of the YAML files; there is one run

VARIABLES
  source, override,  \* the two YAML files: a set of windows, a set of overrides
  targets, windows,  \* the two generated tables
  pending,           \* `targets` has written the first table only
  bench,             \* the tables compiled into the bench
  stamp,             \* the tables written since the build of build.stamp started
  building,          \* a build: [pc, newer], the tables written since it started
  runs,              \* perf.json and the bench's own gate, per run
  budget
vars == <<source, override, targets, windows, pending, bench, stamp, building, runs, budget>>
yaml == <<source, override>>
built == <<bench, stamp, building>>
NoBuild == [pc |-> "none", newer |-> {}]

Configs == ReadConfigs

Axi4K == 4096
EpsBytes == 256
DefaultTol == 3
Unit == 100000
MixUnit == 10000000
Dirs == {"l2r", "r2l"}
NoTarget == [model |-> -1, tol |-> 0, mix |-> [k \in {} |-> 0]]

\* The function of S, chosen so that comparing it computes each value once.
Memo(f(_), S) == CHOOSE g \in {<<>>, [x \in S |-> f(x)]} : DOMAIN g = S

\* The greatest common divisor of some counts.
Euclid[a \in Nat, b \in Nat] == IF b = 0 THEN a ELSE Euclid[b, a % b]
Gcd(counts) == IF counts = {} THEN 1 ELSE FoldSet(LAMBDA n, g : Euclid[n, g], 0, counts)

-----------------------------------------------------------------------------
\* The traffic of a window [scn, name, dir, wr, beats, bytes, offset, partial,
\* rps, widest, remote, configs, optional] on a config.  rps = {}: every RP;
\* widest < 0: the RPs share alike.

RPs(cfg) == DOMAIN cfg.rpBytes
Issuing(w, cfg) == IF w.rps = {} THEN RPs(cfg) ELSE w.rps \cap RPs(cfg)
Widest(w, cfg) ==
  CHOOSE r \in Issuing(w, cfg) : \A q \in Issuing(w, cfg) :
    LET b == cfg.rpBytes IN b[q] < b[r] \/ (b[q] = b[r] /\ r <= q)

\* The share of RP r of the transactions and of each kind, as fractions.
Share(w, cfg, r) ==
  LET others == Cardinality(Issuing(w, cfg)) - 1 IN
  CASE w.widest < 0 -> <<1, others + 1>>
    [] others = 0 -> <<1, 1>>
    [] r = Widest(w, cfg) -> <<w.widest, 100>>
    [] OTHER -> <<100 - w.widest, 100 * others>>
Fraction(w) == [k \in {"W", "R"} |-> IF k = "W" THEN w.wr ELSE 100 - w.wr]
Kinds(w) == {k \in {"W", "R"} : Fraction(w)[k] > 0}

\* Mutant: the period makes the shares of the RPs whole, not those of the kinds.
PeriodOfRPs(w, cfg) ==
  CHOOSE n \in 1..100 * Cardinality(RPs(cfg)) :
    /\ \A r \in Issuing(w, cfg) : (n * Share(w, cfg, r)[1]) % Share(w, cfg, r)[2] = 0
    /\ \A m \in 1..n - 1 :
         \E r \in Issuing(w, cfg) : (m * Share(w, cfg, r)[1]) % Share(w, cfg, r)[2] # 0

\* The least number of transactions of which every RP and kind has a whole
\* number: the lcm of the reduced denominators.
Period(w, cfg) ==
  LET whole(n) == \A r \in Issuing(w, cfg), k \in Kinds(w) :
        (n * Share(w, cfg, r)[1] * Fraction(w)[k]) % (Share(w, cfg, r)[2] * 100) = 0
  IN  CHOOSE n \in 1..10000 * Cardinality(RPs(cfg)) : whole(n) /\ \A m \in 1..n - 1 : ~whole(m)
PeriodOf == Memo(LAMBDA e : Period(e[1], e[2]), (UNION Sources) \X {Configs[c] : c \in DOMAIN Configs})
Weights(w, cfg) ==
  [r \in RPs(cfg) |-> IF r \in Issuing(w, cfg)
                    THEN (Share(w, cfg, r)[1] * PeriodOf[<<w, cfg>>]) \div Share(w, cfg, r)[2] ELSE 0]

\* The bytes of a beat, narrowed until the burst fits in 4 KB.
AxSize(beats, width) ==
  Max({s \in {width \div 2^k : k \in 0..10} : s = 1 \/ (s > 0 /\ beats * s <= Axi4K)})
Burst(w, width) ==
  IF w.bytes > 0 THEN [beat |-> width, size |-> w.bytes]
  ELSE [beat |-> AxSize(w.beats, width), size |-> w.beats * AxSize(w.beats, width)]
RemoteWidth(w, r) == IF r \in DOMAIN w.remote THEN w.remote[r] ELSE w.remote[1]

Side(w, cfg, width) ==
  {e \in {[rp |-> r, kind |-> k, size |-> Burst(w, width[r]).size, width |-> width[r],
           beat |-> Burst(w, width[r]).beat, partial |-> w.partial /\ k = "W",
           count |-> (Share(w, cfg, r)[1] * Fraction(w)[k] * PeriodOf[<<w, cfg>>])
                        \div (Share(w, cfg, r)[2] * 100)] :
          r \in Issuing(w, cfg), k \in Kinds(w)} : e.count > 0}
LocalWidth(cfg, r) == cfg.rpBytes[r]
\* window_sides is None when a burst of either side would cross 4 KB.
Drivable(w, cfg) == \A r \in Issuing(w, cfg) :
  \A width \in {LocalWidth(cfg, r), RemoteWidth(w, r)} : w.offset + Burst(w, width).size <= Axi4K
WindowSides(w, cfg) ==
  [local |-> IF w.dir = "r2l" THEN {} ELSE Side(w, cfg, [r \in RPs(cfg) |-> LocalWidth(cfg, r)]),
   remote |-> IF w.dir = "l2r" THEN {} ELSE Side(w, cfg, [r \in RPs(cfg) |-> RemoteWidth(w, r)])]

-----------------------------------------------------------------------------
\* The external model of a window's traffic, by link.

Txns(side, g) == {[e EXCEPT !.count = @ \div g] : e \in side}
ModelWindow(fdi, sides) ==
  LET g == Gcd({e.count : e \in sides.local \cup sides.remote})
      local == Txns(sides.local, g)
      remote == Txns(sides.remote, g)
  IN  IF local # {} THEN LET m == RunDirs(fdi, local, remote) IN [l2r |-> m.AB, r2l |-> m.BA]
      ELSE LET m == RunDirs(fdi, remote, {}) IN [l2r |-> m.BA, r2l |-> m.AB]

Total(msgs) == FoldFunction(+, 0, msgs)
MixFractions(msgs) ==
  [k \in DOMAIN msgs |-> IF Total(msgs) = 0 THEN 0 ELSE (msgs[k] * MixUnit) \div Total(msgs)]

-----------------------------------------------------------------------------
\* The two tables.

Entries(src, optional) ==
  {e \in [config : DOMAIN Configs, w : src] :
     /\ e.w.optional => optional
     /\ e.w.configs = {} \/ e.config \in e.w.configs
     /\ Drivable(e.w, Configs[e.config])}
Key(c, phy, w, d) == <<c, phy, w.scn, w.name, d>>
TolOf(ovr, key) == IF \E o \in ovr : o.key = key THEN (CHOOSE o \in ovr : o.key = key).tol
                   ELSE DefaultTol

\* A target for every link that carries data, on every PHY of the config.
LinksOf(e) == {[e |-> e, phy |-> phy, d |-> d] : phy \in DOMAIN Configs[e.config].phyBytes, d \in Dirs}
ModelOf(link) ==
  LET model(cfg) == ModelWindow(cfg.phyBytes[link.phy], WindowSides(link.e.w, cfg))[link.d]
  IN  model(Configs[link.e.config])
Models == Memo(ModelOf, UNION {LinksOf(e) : e \in Entries(UNION Sources, TRUE)})

\* No override at first, outcomes of their types, and naturals for an answer of
\* the external model to what it is asked: bytes are carried by messages.
ASSUME PerfAssumption ==
  /\ {} \in Overrides /\ \A ovr \in Overrides : \A o \in ovr : o.tol \in Nat
  /\ \A test \in Tests : LET o == test.outcome IN
       o.pct \in Nat /\ o.cycles \in Nat \ {0} /\ o.gap \in Int /\ {o.ok, o.ss} \subseteq BOOLEAN
  /\ \A l \in DOMAIN Models : LET msgs == Models[l].msgs IN
       /\ Models[l].bpc \in Nat /\ IsFiniteSet(DOMAIN msgs) /\ \A k \in DOMAIN msgs : msgs[k] \in Nat
       /\ Models[l].bpc > 0 => DOMAIN msgs # {}

GenTargets(src, ovr, optional) ==
  LET key(l) == Key(l.e.config, l.phy, l.e.w, l.d)
      row(model, k) == [model |-> model.bpc, tol |-> TolOf(ovr, k), mix |-> MixFractions(model.msgs)]
      rows(gated) == [k \in {key(l) : l \in gated} |-> row(Models[CHOOSE l \in gated : key(l) = k], k)]
  IN  rows({l \in UNION {LinksOf(e) : e \in Entries(src, optional)} : Models[l].bpc > 0})

\* The table holds four digits of a model and six of a share.
Rounded(x) == ((x + 5) \div 10) * 10
Written(rows) ==
  [k \in DOMAIN rows |->
     [model |-> Rounded(rows[k].model), tol |-> rows[k].tol,
      mix |-> [m \in DOMAIN rows[k].mix |-> Rounded(rows[k].mix[m])]]]
TargetOf(table, key) == IF key \in DOMAIN table THEN table[key] ELSE NoTarget

\* The windows that aou_perf_vseq drives, each with the weights of the RPs.
GenWindows(src, optional) ==
  {[config |-> e.config, w |-> e.w, weight |-> Weights(e.w, Configs[e.config])] : e \in Entries(src, optional)}

\* Both, for every content of their sources.
Tables ==
  LET whole(rows) == Memo(LAMBDA k : rows[k], DOMAIN rows)
  IN  Memo(LAMBDA t : whole(GenTargets(t[1], t[2], t[3])), Sources \X Overrides \X BOOLEAN)
WindowTables == Memo(LAMBDA t : GenWindows(t[1], t[2]), Sources \X BOOLEAN)

-----------------------------------------------------------------------------
\* The bench drives a window.

\* Payload of one period on a link, in hundredths: a side's writes and the
\* other side's reads.
PeriodBytes(e, cfg, d) ==
  LET issued(side, r) ==
        IF side = "l2r" THEN IF e.w.dir = "r2l" THEN 0 ELSE Burst(e.w, LocalWidth(cfg, r)).size
        ELSE IF e.w.dir = "l2r" THEN 0 ELSE Burst(e.w, RemoteWidth(e.w, r)).size
      other == CHOOSE x \in Dirs : x # d
  IN  FoldFunction(+, 0, [r \in RPs(cfg) |->
         e.weight[r] * (e.w.wr * issued(d, r) + (100 - e.w.wr) * issued(other, r))])
\* Enough periods that every link with data carries MinBytes.
Periods(e) ==
  LET periods(least) == (MinBytes * 100 + least - 1) \div least
  IN  periods(Min({PeriodBytes(e, Configs[e.config], d) : d \in Dirs} \ {0}))

\* Every side of RP r issues n transactions, writes and reads alternating at
\* wr percent; txn_hist counts them by shape.
Shaped(e, r, width, n) ==
  LET writes == (n * e.w.wr) \div 100
      row(k, count) == [rp |-> r, kind |-> k, size |-> Burst(e.w, width).size, width |-> width,
                        beat |-> Burst(e.w, width).beat, partial |-> k = "W" /\ e.w.partial,
                        count |-> count]
  IN  {x \in {row("W", writes), row("R", n - writes)} : x.count > 0}
Hist(e, cfg, m) ==
  LET of(width) == UNION {Shaped(e, r, width[r], m * e.weight[r]) : r \in RPs(cfg)}
  IN  [local |-> IF e.w.dir = "r2l" THEN {} ELSE of([r \in RPs(cfg) |-> LocalWidth(cfg, r)]),
       remote |-> IF e.w.dir = "l2r" THEN {} ELSE of([r \in RPs(cfg) |-> RemoteWidth(e.w, r)])]

\* Link d carries the writes of one side and the reads of the other.
Crossing(sides, d) ==
  {x \in sides.local : (x.kind = "W") = (d = "l2r")} \cup
  {x \in sides.remote : (x.kind = "W") = (d = "r2l")}
Bytes(side) == MapThenSumSet(LAMBDA x : x.size * x.count, side)

-----------------------------------------------------------------------------
\* perf_model.py reads a run.

\* A local burst as the DUT sends it, in pieces of so many beats (0: whole),
\* and a remote full-strobe write, of which fullPct percent are WriteDataFull.
DutSplit(x, beats) ==
  LET piece == beats * x.beat IN
  IF beats = 0 \/ x.size <= piece THEN {x}
  ELSE {y \in {[x EXCEPT !.size = piece, !.count = @ * (x.size \div piece)],
                [x EXCEPT !.size = @ % piece]} : y.size > 0}
FullSplit(x, pct) ==
  LET full == (x.count * pct + 50) \div 100 IN
  IF x.kind = "R" \/ x.partial THEN {x}
  ELSE {y \in {[x EXCEPT !.count = full], [x EXCEPT !.partial = TRUE, !.count = @ - full]} :
          y.count > 0}
RunSides(build, hist) ==
  [local |-> UNION {DutSplit(x, build.split) : x \in hist.local},
   remote |-> UNION {FullSplit(x, build.fullPct) : x \in hist.remote}]
ModelRun(x) == ModelWindow(Configs[x.win.config].phyBytes[x.phy], RunSides(x.build, x.hist))

Abs(n) == IF n < 0 THEN -n ELSE n
\* T1-P04: a count may differ from its share by one message, or 0.2 percent.
Skewed(msgs, mix) ==
  LET tot == Total(msgs)
      share(k) == IF k \in DOMAIN mix THEN mix[k] \div 10 ELSE 0
      count(k) == IF k \in DOMAIN msgs THEN msgs[k] ELSE 0
  IN  /\ tot > 0
      /\ \E k \in DOMAIN msgs \cup DOMAIN mix :
           Abs(count(k) * (MixUnit \div 10) - share(k) * tot) > Max({MixUnit \div 10, 2000 * tot})

\* `check` asks for no share of a target without any.
MixFails(msgs, mix) == mix # <<>> /\ Skewed(msgs, mix)

\* T1-P02 and T1-P03; cap is what the link could carry of its own messages.
Below(link, target) == link.bpc * 100 < (100 - target.tol) * target.model
OneFlit(link) == (EpsBytes * Unit) \div link.cycles
Above(link, target, cap) == link.bpc > Max({target.model, cap}) + OneFlit(link)

\* Mutant: two decimals.
JNumOfTwo(x) == ((x + 500) \div 1000) * 1000
\* A number in perf.json, with three decimals.  Payload and cycles lose nothing by
\* it; the cap does, and it is there only if the window had a steady state.
JNum(x) == ((x + 50) \div 100) * 100
ReadCap(link) == IF link.ss THEN JNum(link.mixCap) ELSE 0

\* The checks that a link fails against its target.
Judge(link, target) ==
  {c \in {"ABOVE", "BELOW", "MIX", "SHORT"} :
     CASE c = "ABOVE" -> Above(link, target, ReadCap(link))
       [] c = "BELOW" -> Below(link, target)
       [] c = "MIX" -> MixFails(link.msgs, target.mix)
       [] OTHER -> ~link.ok}
Silent == [data |-> FALSE, bpc |-> 0, cycles |-> 1, mixCap |-> 0, ss |-> FALSE, ok |-> FALSE, msgs |-> <<>>]

\* A link of a run against a table: the failed checks, or "skipped" without
\* data and target.
Judged(table, x, d) ==
  LET key == Key(x.win.config, x.phy, x.win.w, d)
      link == IF x.links[d].data THEN x.links[d] ELSE Silent
  IN  IF key \notin DOMAIN table THEN IF link.data THEN {"NO_TARGET"} ELSE {"skipped"}
      ELSE Judge(link, table[key])

\* aou_perf_chk judges the same link while the bench runs, with the table
\* compiled into it.
Gate(table, win, phy, d, link) ==
  LET key == Key(win.config, phy, win.w, d) IN
  IF key \notin DOMAIN table THEN IF link.data THEN "failed" ELSE "skipped"
  ELSE IF ~link.data \/ ~link.ok \/ Below(link, table[key])
          \/ Above(link, table[key], link.mixCap) \/ Skewed(link.msgs, table[key].mix)
       THEN "failed" ELSE "passed"

\* Mutant: a tolerance may differ.
DriftsButTol(fresh, table, k) ==
  \/ k \notin DOMAIN fresh \cap DOMAIN table
  \/ Abs(fresh[k].model - table[k].model) > Max({table[k].model \div 10000, 5})

\* A target of the table differs from one made from the sources by more than
\* the digits it is written with.
Drifts(fresh, table, k) ==
  \/ k \notin DOMAIN fresh \cap DOMAIN table
  \/ fresh[k].tol # table[k].tol
  \/ Abs(fresh[k].model - table[k].model) > Max({table[k].model \div 10000, 5})
  \/ \E m \in DOMAIN fresh[k].mix \cup DOMAIN table[k].mix :
       LET share(mix) == IF m \in DOMAIN mix THEN mix[m] ELSE 0
       IN  Abs(share(fresh[k].mix) - share(table[k].mix)) > 20
\* The optional windows are compared when the table has them.
Optional(table) == \E k \in DOMAIN table : k[3] = "S6"
Fresh == Tables[<<source, override, Optional(targets)>>]
Drift(fresh) == {k \in DOMAIN fresh \cup DOMAIN targets : Drifts(fresh, targets, k)}

\* The exit status of `check`; live: the external model is at hand.
CheckExit(live, fresh) ==
  IF (live /\ Drift(fresh) # {})
     \/ (\E x \in runs, d \in Dirs : Judged(targets, x, d) \notin {{}, {"skipped"}})
  THEN 1 ELSE 0

-----------------------------------------------------------------------------
Init ==
  /\ source \in Sources /\ override = {}
  /\ targets = Written(Tables[<<source, {}, FALSE>>]) /\ windows = WindowTables[<<source, FALSE>>]
  /\ pending = "no" /\ bench = [targets |-> targets, windows |-> windows]
  /\ stamp = {} /\ building = NoBuild /\ runs = {} /\ budget = Budget
Spend == budget > 0 /\ budget' = budget - 1

EditScenarios(src) ==
  /\ Spend /\ source' = src
  /\ UNCHANGED <<override, targets, windows, pending, built, runs>>
EditOverrides(ovr) ==
  /\ Spend /\ override' = ovr
  /\ UNCHANGED <<source, targets, windows, pending, built, runs>>

\* `targets` writes one table, then reads the scenarios again for the other;
\* it may be killed in between.  A table is newer than every build before.
Newer(table) ==
  /\ stamp' = stamp \cup {table}
  /\ building' = IF building = NoBuild THEN building ELSE [building EXCEPT !.newer = @ \cup {table}]
WriteTargets(optional) ==
  /\ pending = "no"
  /\ targets' = Written(Tables[<<source, override, optional>>]) /\ Newer("targets")
  /\ pending' = IF optional THEN "all" ELSE "usual"
  /\ UNCHANGED <<yaml, windows, bench, runs, budget>>
WriteWindows ==
  /\ pending # "no" /\ pending' = "no"
  /\ windows' = WindowTables[<<source, pending = "all">>] /\ Newer("windows")
  /\ UNCHANGED <<yaml, targets, bench, runs, budget>>
Killed ==
  /\ pending # "no" /\ pending' = "no"
  /\ UNCHANGED <<yaml, targets, windows, built, runs, budget>>

\* `make build` writes the stamp beside the old one, compiles, and puts it in
\* place: a build that fails leaves the stamp of the one before.
BuildStarts ==
  /\ building = NoBuild /\ building' = [pc |-> "started", newer |-> {}]
  /\ UNCHANGED <<yaml, targets, windows, pending, bench, stamp, runs, budget>>
Compile ==
  /\ building.pc = "started" /\ building' = [building EXCEPT !.pc = "compiled"]
  /\ bench' = [targets |-> targets, windows |-> windows]
  /\ UNCHANGED <<yaml, targets, windows, pending, stamp, runs, budget>>
BuildEnds ==
  /\ building.pc = "compiled" /\ stamp' = building.newer /\ building' = NoBuild
  /\ UNCHANGED <<yaml, targets, windows, pending, bench, runs, budget>>
BuildFails ==
  /\ building # NoBuild /\ building' = NoBuild
  /\ UNCHANGED <<yaml, targets, windows, pending, bench, stamp, runs, budget>>

\* A run of one window, which warns when a source is newer than the stamp; the
\* YAML files are not sources.  A window of fixed size is refused.  What a link
\* measured is relative to its target: pct percent of it, gap more than the cap of
\* its messages, skew more messages.
Driven == Memo(LAMBDA win : Hist(win, Configs[win.config], Periods(win)), UNION {WindowTables[t] : t \in DOMAIN WindowTables})
Carried(win, phy) ==
  LET times(msgs, g) == Memo(LAMBDA k : msgs[k] * g, DOMAIN msgs)
      carried(model, g) == [d \in Dirs |-> times(model[d].msgs, g)]
      of(sides) == carried(ModelWindow(Configs[win.config].phyBytes[phy], sides),
                           Gcd({e.count : e \in sides.local \cup sides.remote}))
  IN  of(Driven[win])
Measured(win, msgs, target, d, o) ==
  LET bpc == ((IF target = NoTarget THEN Unit ELSE target.model) \div 100) * o.pct IN
  [data |-> Crossing(Driven[win], d) # {}, bpc |-> bpc, cycles |-> o.cycles, mixCap |-> Max({0, bpc - o.gap}),
   ss |-> o.ss, ok |-> o.ok /\ o.ss,
   msgs |-> [k \in DOMAIN msgs |-> msgs[k] + (IF k = "data" THEN o.skew ELSE 0)]]
Run(win, phy, msgs, test) ==
  LET compiled == [d \in Dirs |-> TargetOf(bench.targets, Key(win.config, phy, win.w, d))]
      link(d) == Measured(win, msgs[d], compiled[d], d, test.outcome)
      links == Memo(link, Dirs)
  IN  /\ runs = {} /\ win.w.bytes = 0
      /\ runs' = {[win |-> win, phy |-> phy, build |-> test.build, periods |-> Periods(win),
                   hist |-> Driven[win], links |-> links, compiled |-> compiled, warned |-> stamp # {},
                   current |-> bench = [targets |-> targets, windows |-> windows],
                   gate |-> [d \in Dirs |-> Gate(bench.targets, win, phy, d, links[d])]]}
      /\ UNCHANGED <<yaml, targets, windows, pending, built, budget>>

Next ==
  \/ \E src \in Sources \ {source} : EditScenarios(src)
  \/ \E ovr \in Overrides \ {override} : EditOverrides(ovr)
  \/ \E optional \in BOOLEAN : WriteTargets(optional)
  \/ WriteWindows \/ Killed \/ BuildStarts \/ Compile \/ BuildEnds \/ BuildFails
  \/ \E win \in bench.windows : \E phy \in DOMAIN Configs[win.config].phyBytes :
       LET msgs == Carried(win, phy) IN \E test \in Tests : Run(win, phy, msgs, test)
Spec == Init /\ [][Next]_vars

-----------------------------------------------------------------------------
Pattern(x) == WindowSides(x.win.w, Configs[x.win.config])
Times(side, n) == {[e EXCEPT !.count = @ * n] : e \in side}
Of(side, r, k) == {e \in side : e.rp = r /\ e.kind = k}

\* What the bench drives is what the model was given: whole periods of the
\* window's pattern, so a plain run's own model is the table's, every link that
\* the model gives data carries at least MinBytes, and however the run splits
\* its bursts, each RP's writes and reads move the same bytes.
RunMatchesTable == \A x \in runs :
  LET sides == RunSides(x.build, x.hist)
      one == Pattern(x)
      pattern == [local |-> Times(one.local, x.periods), remote |-> Times(one.remote, x.periods)]
      fdi == Configs[x.win.config].phyBytes[x.phy]
      model == ModelWindow(fdi, one)
  IN  /\ \A r \in RPs(Configs[x.win.config]), k \in {"W", "R"}, s \in DOMAIN pattern :
           Bytes(Of(sides[s], r, k)) = Bytes(Of(pattern[s], r, k))
      /\ x.build = [split |-> 0, fullPct |-> 100] => sides = pattern /\ ModelRun(x) = model
      /\ \A d \in Dirs : LET bytes == Bytes(Crossing(x.hist, d)) IN
           IF model[d].bpc > 0 THEN bytes >= MinBytes ELSE bytes = 0

\* Run x was built with the targets of today.
SameTargets(x) == \A d \in Dirs :
  TargetOf(targets, Key(x.win.config, x.phy, x.win.w, d)) = x.compiled[d]
\* A rate so close to the cap plus one flit that the third decimal of the cap decides.
AtCap(link) == Abs(link.bpc - OneFlit(link) - link.mixCap) <= 50

\* The gate in the bench and `check` agree on every link whose target has not
\* changed since the bench was built, to the digits of perf.json: only a rate
\* within half a digit of the bound that the cap sets may be ABOVE for one of them.
\* A run that was not warned of a stale build used the tables as they were.
GateAgrees == \A x \in runs :
  /\ x.warned \/ x.current
  /\ SameTargets(x) => \A d \in Dirs : LET judged == Judged(targets, x, d) IN
       /\ x.gate[d] = "skipped" <=> judged = {"skipped"}
       /\ x.gate[d] = "passed" => judged \subseteq {"ABOVE"}
       /\ AtCap(x.links[d]) \/ (x.gate[d] = "passed" <=> judged = {})

\* Run x reached, on link d, what the table fresh asks of it to the digits of a
\* written table: data crossed exactly the links that have a row.
Met(fresh, x, d) ==
  LET key == Key(x.win.config, x.phy, x.win.w, d)
      link == x.links[d]
      due == fresh[key]
  IN  /\ link.data <=> key \in DOMAIN fresh
      /\ link.data => link.bpc >= (due.model \div 100) * (100 - due.tol) - due.model \div 5000 - 200

Honest(fresh) ==
  /\ targets = Written(fresh) => Drift(fresh) = {}
  /\ CheckExit(TRUE, fresh) = 0 => \A x \in runs, d \in Dirs : Met(fresh, x, d)

\* A table made from the sources as they are does not drift; and if a check
\* with the external model succeeds, every run it read met the sources' own
\* target on each link with data, to the digits of the table.
CheckIsHonest == Honest(Fresh)
=============================================================================

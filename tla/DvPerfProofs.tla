---------------------------- MODULE DvPerfProofs -----------------------------
(***************************************************************************)
(* What TLAPS proves of the performance gate, for every set of windows and *)
(* overrides, every answer of the external model in naturals, every result *)
(* of a run, and every order of edits, writes of the tables, kills, builds *)
(* and runs.                                                               *)
(***************************************************************************)
EXTENDS DvPerf, FoldLemmas

-----------------------------------------------------------------------------
(* The inductive invariant.                                                *)

\* Both tables as they are.
Now == [targets |-> targets, windows |-> windows]
\* The types of a row, of a table, and of what is measured on a link.
RowTyped(row) ==
  /\ row = [model |-> row.model, tol |-> row.tol, mix |-> row.mix]
  /\ row.model \in Nat /\ row.tol \in Nat
  /\ row.mix = [m \in DOMAIN row.mix |-> row.mix[m]] /\ \A m \in DOMAIN row.mix : row.mix[m] \in Nat
  /\ DOMAIN row.mix # {}
Table(T) == T = [k \in DOMAIN T |-> T[k]] /\ \A k \in DOMAIN T : RowTyped(T[k])
LinkTyped(link) ==
  /\ link.data \in BOOLEAN /\ link.ok \in BOOLEAN /\ link.bpc \in Nat /\ OneFlit(link) \in Nat
  /\ link.mixCap \in Nat /\ (link.ok => link.ss)
\* Run x was gated by the table T, on every link.
GateOf(T, x) == \A d \in Dirs :
  LET key == Key(x.win.config, x.phy, x.win.w, d) IN
  /\ LinkTyped(x.links[d]) /\ x.compiled[d] = TargetOf(T, key)
  /\ x.gate[d] = Gate(T, x.win, x.phy, d, x.links[d])
\* A run that was not warned of a stale bench had the current tables, and was
\* gated by some table.
Sound(x) == (x.warned \/ x.current) /\ \E T : Table(T) /\ GateOf(T, x)

\* The shape of a build and of the bench.
Built ==
  /\ building = [pc |-> building.pc, newer |-> building.newer]
  /\ building.pc = "none" => building = NoBuild
  /\ bench = [targets |-> bench.targets, windows |-> bench.windows]
\* The inductive invariant: a bench without a stamp has the tables as they are,
\* and so has one that is being built once it is compiled and no table was
\* written since.  It outlasts an edit, a killed `targets` and a failed build.
PerfInv ==
  /\ source \in Sources /\ override \in Overrides
  /\ Table(targets) /\ Table(bench.targets) /\ Built
  /\ stamp = {} => bench = Now
  /\ building.pc = "compiled" /\ building.newer = {} => bench = Now
  /\ \A x \in runs : Sound(x)

-----------------------------------------------------------------------------
(* The tables that are generated and written.                              *)

\* A sum of finitely many natural counts is natural.
LEMMA TotalIsNatural ==
  ASSUME NEW m, IsFiniteSet(DOMAIN m), \A k \in DOMAIN m : m[k] \in Nat
  PROVE  Total(m) \in Nat
<1>1. Total(m) = SumOf(m)
  BY DEF Total, SumOf, FoldFunction, FoldFunctionOnSet, MapThenFoldSet
<1> QED BY <1>1, SumIs

\* Memo gives back the very function.
LEMMA Chosen ==
  ASSUME NEW S, NEW g, g = [x \in S |-> g[x]]
  PROVE  (CHOOSE h \in {<<>>, g} : DOMAIN h = S) = g
<1>1. CASE S = {}
  <2>1. g = <<>> BY <1>1
  <2> QED BY <2>1
<1>2. CASE S # {}
  <2>1. DOMAIN <<>> # S BY <1>2
  <2>2. DOMAIN g = S OBVIOUS
  <2> QED BY <2>1, <2>2
<1> QED BY <1>1, <1>2

\* Models is the external model's answer for each link of any window.
LEMMA ModelsDefined ==
  LET S == UNION {LinksOf(e) : e \in Entries(UNION Sources, TRUE)}
  IN  Models = [l \in S |-> ModelOf(l)] /\ DOMAIN Models = S
<1> DEFINE S == UNION {LinksOf(e) : e \in Entries(UNION Sources, TRUE)}
           g == [l \in S |-> ModelOf(l)]
<1>1. g = [l \in S |-> g[l]] OBVIOUS
<1>2. Models = CHOOSE h \in {<<>>, g} : DOMAIN h = S
  BY DEF Models, Memo
<1>3. Models = g
  <2> HIDE DEF g, S
  <2> QED BY <1>1, <1>2, Chosen
<1> QED BY <1>3

\* A quotient of naturals is natural.
LEMMA Division ==
  ASSUME NEW a \in Nat, NEW b \in Nat, b > 0 PROVE a \div b \in Nat
OBVIOUS

\* The shares of the messages are naturals.
LEMMA MixTyped ==
  ASSUME NEW m, IsFiniteSet(DOMAIN m), \A k \in DOMAIN m : m[k] \in Nat
  PROVE  /\ MixFractions(m) = [k \in DOMAIN m |-> MixFractions(m)[k]]
         /\ DOMAIN MixFractions(m) = DOMAIN m
         /\ \A k \in DOMAIN m : MixFractions(m)[k] \in Nat
<1>1. Total(m) \in Nat BY TotalIsNatural
<1>2. ASSUME NEW k \in DOMAIN m, Total(m) # 0 PROVE (m[k] * MixUnit) \div Total(m) \in Nat
  <2>1. m[k] * MixUnit \in Nat BY DEF MixUnit
  <2> HIDE DEF MixUnit
  <2> QED BY <1>1, <1>2, <2>1, Division
<1> QED BY <1>1, <1>2 DEF MixFractions

\* A share or a figure as the table writes it is off by half of the last digit
\* at most.
LEMMA RoundingIsNear ==
  ASSUME NEW n \in Nat
  PROVE  Rounded(n) \in Nat /\ n - 4 <= Rounded(n) /\ Rounded(n) <= n + 5
BY DEF Rounded

\* Every link has a natural tolerance.
LEMMA TolTyped ==
  ASSUME NEW ovr \in Overrides, NEW key
  PROVE  TolOf(ovr, key) \in Nat
<1>1. CASE \E o \in ovr : o.key = key
  <2>1. (CHOOSE o \in ovr : o.key = key) \in ovr BY <1>1
  <2> QED BY <1>1, <2>1, PerfAssumption DEF TolOf
<1>2. CASE ~\E o \in ovr : o.key = key
  BY <1>2 DEF TolOf, DefaultTol
<1> QED BY <1>1, <1>2

\* Every link of the windows in a source was given to the external model.
LEMMA LinksKnown ==
  ASSUME NEW src \in Sources, NEW optional \in BOOLEAN,
         NEW l \in UNION {LinksOf(e) : e \in Entries(src, optional)}
  PROVE  l \in DOMAIN Models
<1>1. PICK e \in Entries(src, optional) : l \in LinksOf(e)
  OBVIOUS
<1>2. e \in Entries(UNION Sources, TRUE)
  BY <1>1 DEF Entries
<1> QED BY <1>1, <1>2, ModelsDefined

\* `targets` generates rows of naturals.
LEMMA GeneratedTyped ==
  ASSUME NEW src \in Sources, NEW ovr \in Overrides, NEW optional \in BOOLEAN
  PROVE  Table(GenTargets(src, ovr, optional))
<1> DEFINE key(l) == Key(l.e.config, l.phy, l.e.w, l.d)
           row(model, k) == [model |-> model.bpc, tol |-> TolOf(ovr, k), mix |-> MixFractions(model.msgs)]
           gated == {l \in UNION {LinksOf(e) : e \in Entries(src, optional)} : Models[l].bpc > 0}
           of(k) == CHOOSE l \in gated : key(l) = k
           T == [k \in {key(l) : l \in gated} |-> row(Models[of(k)], k)]
<1>1. GenTargets(src, ovr, optional) = T
  BY DEF GenTargets
<1>2. ASSUME NEW k \in DOMAIN T PROVE RowTyped(T[k])
  <2>1. of(k) \in gated
    <3>1. \E l \in gated : key(l) = k OBVIOUS
    <3> HIDE DEF gated, key
    <3> QED BY <3>1
  <2>2. of(k) \in UNION {LinksOf(e) : e \in Entries(src, optional)}
    <3> HIDE DEF of
    <3> QED BY <2>1
  <2>3. of(k) \in DOMAIN Models
    <3> HIDE DEF of, gated
    <3> QED BY <2>2, LinksKnown
  <2> DEFINE model == Models[of(k)]
  <2>4. /\ model.bpc \in Nat /\ IsFiniteSet(DOMAIN model.msgs)
        /\ \A m \in DOMAIN model.msgs : model.msgs[m] \in Nat
        /\ model.bpc > 0 => DOMAIN model.msgs # {}
    <3> HIDE DEF of, gated
    <3> QED BY <2>3, PerfAssumption
  <2>6. model.bpc > 0
    <3> HIDE DEF of
    <3> QED BY <2>1
  <2>5. /\ T[k] = [model |-> model.bpc, tol |-> TolOf(ovr, k), mix |-> MixFractions(model.msgs)]
    OBVIOUS
  <2> HIDE DEF model, T
  <2> QED BY <2>4, <2>5, <2>6, TolTyped, MixTyped DEF RowTyped
<1>3. T = [k \in DOMAIN T |-> T[k]]
  OBVIOUS
<1> HIDE DEF T
<1> QED BY <1>1, <1>2, <1>3 DEF Table

\* Tables is the generated table, computed once.
LEMMA TablesDefined ==
  ASSUME NEW src \in Sources, NEW ovr \in Overrides, NEW optional \in BOOLEAN
  PROVE  Tables[<<src, ovr, optional>>] = GenTargets(src, ovr, optional)
<1> DEFINE S == Sources \X Overrides \X BOOLEAN
           whole(rows) == Memo(LAMBDA k : rows[k], DOMAIN rows)
           g == [t \in S |-> whole(GenTargets(t[1], t[2], t[3]))]
<1>1. Tables = CHOOSE h \in {<<>>, g} : DOMAIN h = S
  BY DEF Tables, Memo
<1>2. g = [t \in S |-> g[t]] OBVIOUS
<1>3. Tables = g
  <2> HIDE DEF g, S
  <2> QED BY <1>1, <1>2, Chosen
<1>4. <<src, ovr, optional>> \in S
  OBVIOUS
<1>5. Tables[<<src, ovr, optional>>] = whole(GenTargets(src, ovr, optional))
  <2>1. g[<<src, ovr, optional>>] = whole(GenTargets(src, ovr, optional))
    <3> HIDE DEF whole
    <3> QED BY <1>4
  <2> HIDE DEF g, whole
  <2> QED BY <1>3, <2>1
<1> DEFINE T == GenTargets(src, ovr, optional)
<1>6. T = [k \in DOMAIN T |-> T[k]]
  BY GeneratedTyped DEF Table
<1>7. whole(T) = CHOOSE h \in {<<>>, T} : DOMAIN h = DOMAIN T
  <2> HIDE DEF T
  <2> QED BY <1>6 DEF Memo
<1>8. whole(T) = T
  <2> HIDE DEF T, whole
  <2> QED BY <1>6, <1>7, Chosen
<1> QED BY <1>5, <1>8

\* The table as written has the same links and tolerances, the figures rounded.
LEMMA WrittenTyped ==
  ASSUME NEW rows, Table(rows)
  PROVE  /\ Table(Written(rows)) /\ DOMAIN Written(rows) = DOMAIN rows
         /\ \A k \in DOMAIN rows :
              /\ Written(rows)[k].model = Rounded(rows[k].model) /\ Written(rows)[k].tol = rows[k].tol
              /\ DOMAIN Written(rows)[k].mix = DOMAIN rows[k].mix
              /\ \A m \in DOMAIN rows[k].mix : Written(rows)[k].mix[m] = Rounded(rows[k].mix[m])
<1> DEFINE out(k) == [model |-> Rounded(rows[k].model), tol |-> rows[k].tol,
                      mix |-> [m \in DOMAIN rows[k].mix |-> Rounded(rows[k].mix[m])]]
<1>1. Written(rows) = [k \in DOMAIN rows |-> out(k)]
  BY DEF Written
<1>3. ASSUME NEW k \in DOMAIN rows PROVE RowTyped(out(k))
  <2>1. RowTyped(rows[k]) BY DEF Table
  <2>2. Rounded(rows[k].model) \in Nat /\ \A m \in DOMAIN rows[k].mix : Rounded(rows[k].mix[m]) \in Nat
    BY <2>1, RoundingIsNear DEF RowTyped
  <2> QED BY <2>1, <2>2 DEF RowTyped
<1>4. Table(Written(rows))
  <2> HIDE DEF out
  <2> QED BY <1>1, <1>3 DEF Table
<1> QED BY <1>1, <1>4

\* What `targets` writes is a table.
LEMMA WrittenTables ==
  ASSUME NEW src \in Sources, NEW ovr \in Overrides, NEW optional \in BOOLEAN
  PROVE  Table(Tables[<<src, ovr, optional>>]) /\ Table(Written(Tables[<<src, ovr, optional>>]))
BY GeneratedTyped, TablesDefined, WrittenTyped

-----------------------------------------------------------------------------
(* The steps.                                                              *)

\* The tables, the bench and the runs are as PerfInv says at first.
LEMMA InitPerf == Init => PerfInv
<1> SUFFICES ASSUME Init PROVE PerfInv
  OBVIOUS
<1>1. source \in Sources /\ override \in Overrides /\ runs = {}
  BY PerfAssumption DEF Init
<1>2. Table(targets) /\ bench.targets = targets
  BY <1>1, WrittenTables DEF Init
<1>3. Built /\ (building.pc = "none") /\ bench = Now
  BY DEF Init, Built, NoBuild, Now
<1> QED BY <1>1, <1>2, <1>3 DEF PerfInv

\* What a run left is not changed by a later step.
LEMMA SoundStays ==
  ASSUME NEW x, Sound(x) PROVE Sound(x)'
BY DEF Sound, GateOf, Dirs, LinkTyped, OneFlit, TargetOf, Gate

\* An edit of the YAML files changes neither the tables nor the bench.
LEMMA EditsPerf ==
  ASSUME PerfInv,
         \/ \E src \in Sources \ {source} : EditScenarios(src)
         \/ \E ovr \in Overrides \ {override} : EditOverrides(ovr)
         \/ UNCHANGED vars
  PROVE  PerfInv'
<1>1. /\ source' \in Sources /\ override' \in Overrides
      /\ UNCHANGED <<targets, windows, bench, stamp, building, runs>>
  BY DEF PerfInv, EditScenarios, EditOverrides, Spend, vars, built
<1> QED BY <1>1, SoundStays DEF PerfInv, Built, Now

\* Writing a table marks the bench as stale, and a build that is under way.
LEMMA WritePerf ==
  ASSUME PerfInv, (\E optional \in BOOLEAN : WriteTargets(optional)) \/ WriteWindows
  PROVE  PerfInv'
<1>1. PICK table \in {"targets", "windows"} : Newer(table)
  BY DEF WriteTargets, WriteWindows
<1>2. UNCHANGED <<source, override, bench, runs>>
  BY DEF WriteTargets, WriteWindows, yaml
<1>3. Table(targets)'
  <2>1. CASE WriteWindows BY <2>1 DEF WriteWindows, PerfInv
  <2>2. ASSUME NEW optional \in BOOLEAN, WriteTargets(optional) PROVE Table(targets')
    BY <2>2, WrittenTables DEF WriteTargets, PerfInv
  <2> QED BY <2>1, <2>2
<1>4. stamp' # {} BY <1>1 DEF Newer
<1>5. building' = [pc |-> building'.pc, newer |-> building'.newer] /\ building'.pc = building.pc
  BY <1>1 DEF Newer, PerfInv, Built, NoBuild
<1>6. building.pc # "none" => building'.newer # {}
  BY <1>1 DEF Newer, PerfInv, Built, NoBuild
<1>7. building.pc = "none" => building' = building
  BY <1>1 DEF Newer, PerfInv, Built
<1>8. Built'
  BY <1>2, <1>5, <1>7 DEF Built, PerfInv, NoBuild
<1>9. building'.pc = "compiled" => building'.newer # {}
  BY <1>5, <1>6
<1> QED BY <1>2, <1>3, <1>4, <1>8, <1>9, SoundStays DEF PerfInv

\* A build compiles the tables as they are; it ends without a stamp only if no
\* table was written since it started.
LEMMA BuildPerf ==
  ASSUME PerfInv, Killed \/ BuildStarts \/ Compile \/ BuildEnds \/ BuildFails
  PROVE  PerfInv'
<1>1. UNCHANGED <<source, override, targets, windows, runs>>
  BY DEF Killed, BuildStarts, Compile, BuildEnds, BuildFails, yaml
<1>2. Now' = Now BY <1>1 DEF Now
<1>3. \A x \in runs' : Sound(x)'
  BY <1>1, SoundStays DEF PerfInv
<1>4. CASE Killed
  BY <1>1, <1>2, <1>3, <1>4 DEF PerfInv, Killed, built, Built
<1>5. CASE BuildStarts
  BY <1>1, <1>2, <1>3, <1>5 DEF PerfInv, BuildStarts, Built
<1>6. CASE Compile
  <2>1. bench' = Now /\ bench'.targets = targets /\ stamp' = stamp
    BY <1>6 DEF Compile, Now
  <2>2. building' = [pc |-> "compiled", newer |-> building.newer]
    BY <1>6 DEF Compile, PerfInv, Built
  <2>3. Built' BY <2>1, <2>2 DEF Built, Now
  <2> QED BY <1>1, <1>2, <1>3, <2>1, <2>3 DEF PerfInv
<1>7. CASE BuildEnds
  BY <1>1, <1>2, <1>3, <1>7 DEF PerfInv, BuildEnds, Built, NoBuild
<1>8. CASE BuildFails
  BY <1>1, <1>2, <1>3, <1>8 DEF PerfInv, BuildFails, Built, NoBuild
<1> QED BY <1>4, <1>5, <1>6, <1>7, <1>8

\* The larger of two numbers.
LEMMA MaxOfTwo ==
  ASSUME NEW g \in Int, NEW h \in Int
  PROVE  Max({g, h}) = IF h >= g THEN h ELSE g
<1> DEFINE S == {g, h}
<1>1. \E x \in S : \A y \in S : x >= y
  <2>1. CASE h >= g BY <2>1
  <2>2. CASE ~(h >= g) BY <2>2
  <2> QED BY <2>1, <2>2
<1>2. Max(S) \in S /\ \A y \in S : Max(S) >= y
  <2> HIDE DEF S
  <2> QED BY <1>1 DEF Max
<1> QED BY <1>2

\* What the bench measures on a link is a natural rate and a natural cap, and only a
\* steady window is long enough.
LEMMA MeasuredTyped ==
  ASSUME NEW win, NEW msgs, NEW target, NEW d, NEW test \in Tests,
         target = NoTarget \/ target.model \in Nat
  PROVE  LinkTyped(Measured(win, msgs, target, d, test.outcome))
<1> DEFINE o == test.outcome
           rate == IF target = NoTarget THEN Unit ELSE target.model
           bpc == (rate \div 100) * o.pct
           mixCap == Max({0, bpc - o.gap})
           ok == o.ok /\ o.ss
<1>1. /\ o.pct \in Nat /\ o.cycles \in Nat \ {0} /\ o.gap \in Int
      /\ o.ok \in BOOLEAN /\ o.ss \in BOOLEAN
  BY PerfAssumption
<1>2. bpc \in Nat
  <2>1. rate \in Nat BY DEF Unit
  <2>2. rate \div 100 \in Nat
    <3> HIDE DEF rate
    <3> QED BY <2>1
  <2> HIDE DEF rate, o
  <2>3. \A a, b \in Nat : a * b \in Nat OBVIOUS
  <2> QED BY <1>1, <2>2, <2>3
<1>3. mixCap \in Nat
  <2> DEFINE h == bpc - o.gap
  <2>1. h \in Int
    <3> HIDE DEF bpc, o
    <3> QED BY <1>1, <1>2
  <2> HIDE DEF h
  <2>2. Max({0, h}) = IF h >= 0 THEN h ELSE 0 BY <2>1, MaxOfTwo
  <2>3. Max({0, h}) \in Nat BY <2>1, <2>2
  <2> QED BY <2>3 DEF h
<1> DEFINE link == Measured(win, msgs, target, d, o)
<1>4. /\ link.data = (Crossing(Driven[win], d) # {}) /\ link.bpc = bpc /\ link.ok = ok
      /\ link.cycles = o.cycles /\ link.mixCap = mixCap /\ link.ss = o.ss
  BY Zenon DEF Measured
<1>5. OneFlit(link) \in Nat
  <2>1. EpsBytes * Unit \in Nat BY DEF EpsBytes, Unit
  <2>2. link.cycles \in Nat /\ link.cycles > 0
    <3> HIDE DEF link, o
    <3> QED BY <1>1, <1>4
  <2> DEFINE a == EpsBytes * Unit
             b == link.cycles
  <2>3. a \div b \in Nat
    <3> HIDE DEF a, b
    <3>1. a \in Nat /\ b \in Nat /\ b > 0 BY <2>1, <2>2 DEF a, b
    <3> QED BY <3>1, Division
  <2> QED BY <2>3 DEF OneFlit
<1>6. link.mixCap \in Nat /\ (link.ok => link.ss)
  <2> HIDE DEF link, mixCap, o
  <2> QED BY <1>1, <1>3, <1>4
<1>7. link.data \in BOOLEAN /\ link.ok \in BOOLEAN /\ link.bpc \in Nat
  <2> HIDE DEF link, bpc, o
  <2> QED BY <1>1, <1>2, <1>4
<1> HIDE DEF link
<1>8. LinkTyped(link) BY <1>5, <1>6, <1>7 DEF LinkTyped
<1> QED BY <1>8 DEF link

\* A run is gated by the table that is compiled into the bench.
LEMMA RunPerf ==
  ASSUME PerfInv, NEW win \in bench.windows, NEW phy, NEW msgs, NEW test \in Tests,
         Run(win, phy, msgs, test)
  PROVE  PerfInv'
<1> DEFINE compiled == [d \in Dirs |-> TargetOf(bench.targets, Key(win.config, phy, win.w, d))]
           link(d) == Measured(win, msgs[d], compiled[d], d, test.outcome)
           made == [d \in Dirs |-> link(d)]
           links == Memo(link, Dirs)
           run == [win |-> win, phy |-> phy, build |-> test.build, periods |-> Periods(win),
                   hist |-> Driven[win], links |-> links, compiled |-> compiled, warned |-> stamp # {},
                   current |-> bench = [targets |-> targets, windows |-> windows],
                   gate |-> [d \in Dirs |-> Gate(bench.targets, win, phy, d, links[d])]]
<1>1. runs' = {run} /\ UNCHANGED <<source, override, targets, windows, bench, stamp, building>>
  BY DEF Run, yaml, built
<1>2. links = made
  <2>1. made = [d \in Dirs |-> made[d]] OBVIOUS
  <2>2. links = CHOOSE h \in {<<>>, made} : DOMAIN h = Dirs BY DEF Memo
  <2> HIDE DEF made, links
  <2> QED BY <2>1, <2>2, Chosen
<1>3. ASSUME NEW d \in Dirs PROVE LinkTyped(links[d])
  <2> DEFINE target == TargetOf(bench.targets, Key(win.config, phy, win.w, d))
  <2>1. target = NoTarget \/ target.model \in Nat
    BY DEF TargetOf, PerfInv, Table, RowTyped
  <2>2. compiled[d] = target OBVIOUS
  <2>3. links[d] = Measured(win, msgs[d], compiled[d], d, test.outcome)
    <3> HIDE DEF links, compiled
    <3> QED BY <1>2
  <2> HIDE DEF links, compiled, target
  <2> QED BY <2>1, <2>2, <2>3, MeasuredTyped
<1>4. GateOf(bench.targets, run)
  <2>1. /\ run.win = win /\ run.phy = phy /\ run.links = links /\ run.compiled = compiled
        /\ run.gate = [d \in Dirs |-> Gate(bench.targets, win, phy, d, links[d])]
    OBVIOUS
  <2>2. ASSUME NEW d \in Dirs
        PROVE  compiled[d] = TargetOf(bench.targets, Key(win.config, phy, win.w, d))
    OBVIOUS
  <2> HIDE DEF run, links, compiled
  <2> QED BY <1>3, <2>1, <2>2 DEF GateOf
<1>5. Sound(run)
  <2>1. run.warned = (stamp # {}) /\ run.current = (bench = [targets |-> targets, windows |-> windows])
    OBVIOUS
  <2> HIDE DEF run
  <2> QED BY <1>4, <2>1 DEF Sound, PerfInv, Now
<1>6. PICK x : x = run
  OBVIOUS
<1>7. Sound(x)'
  <2>1. Sound(x)
    <3> HIDE DEF run
    <3> QED BY <1>5, <1>6
  <2> QED BY <2>1, SoundStays
<1>8. runs' = {x}
  <2> HIDE DEF run
  <2> QED BY <1>1, <1>6
<1> HIDE DEF run, compiled, links
<1> QED BY <1>1, <1>7, <1>8 DEF PerfInv, Built, Now

\* PerfInv is an invariant, whatever the sources, the external model and the
\* runs, and whatever order of edits, writes and builds.
THEOREM TablesAreTyped == Spec => []PerfInv
<1>1. Init => PerfInv
  BY InitPerf
<1>2. PerfInv /\ [Next]_vars => PerfInv'
  <2> SUFFICES ASSUME PerfInv, [Next]_vars PROVE PerfInv'
    OBVIOUS
  <2>1. CASE \/ \E src \in Sources \ {source} : EditScenarios(src)
             \/ \E ovr \in Overrides \ {override} : EditOverrides(ovr)
             \/ UNCHANGED vars
    BY <2>1, EditsPerf
  <2>2. CASE (\E optional \in BOOLEAN : WriteTargets(optional)) \/ WriteWindows
    BY <2>2, WritePerf
  <2>3. CASE Killed \/ BuildStarts \/ Compile \/ BuildEnds \/ BuildFails
    BY <2>3, BuildPerf
  <2>4. CASE \E win \in bench.windows : \E phy \in DOMAIN Configs[win.config].phyBytes :
               LET msgs == Carried(win, phy) IN \E test \in Tests : Run(win, phy, msgs, test)
    <3>1. PICK win \in bench.windows : \E phy \in DOMAIN Configs[win.config].phyBytes :
            \E test \in Tests : Run(win, phy, Carried(win, phy), test)
      BY <2>4
    <3> QED BY <3>1, RunPerf
  <2> QED BY <2>1, <2>2, <2>3, <2>4 DEF Next
<1> QED BY <1>1, <1>2, PTL DEF Spec

-----------------------------------------------------------------------------
(* The gate and the check.                                                 *)

\* No row equals the mark of a link without one.
LEMMA RowsDiffer ==
  ASSUME NEW T, Table(T), NEW k
  PROVE  /\ k \in DOMAIN T <=> TargetOf(T, k) # NoTarget
         /\ k \in DOMAIN T => TargetOf(T, k) = T[k]
<1>1. NoTarget.model = -1
  BY DEF NoTarget
<1>2. k \in DOMAIN T => T[k].model \in Nat
  BY DEF Table, RowTyped
<1>3. ASSUME k \in DOMAIN T PROVE T[k] # NoTarget
  BY <1>1, <1>2, <1>3
<1> QED BY <1>3 DEF TargetOf

\* `check` accepts a link with a row if no class of failure applies.
LEMMA JudgeEmpty ==
  ASSUME NEW link, NEW t, link.ok \in BOOLEAN
  PROVE  /\ Judge(link, t) \subseteq {"ABOVE"} <=>
              link.ok /\ ~Below(link, t) /\ ~MixFails(link.msgs, t.mix)
         /\ Judge(link, t) = {} <=> /\ link.ok /\ ~Below(link, t) /\ ~Above(link, t, ReadCap(link))
                                    /\ ~MixFails(link.msgs, t.mix)
         /\ Judge(link, t) # {"skipped"}
<1> DEFINE bad(c) == CASE c = "ABOVE" -> Above(link, t, ReadCap(link))
       [] c = "BELOW" -> Below(link, t)
       [] c = "MIX" -> MixFails(link.msgs, t.mix)
       [] OTHER -> ~link.ok
<1>1. Judge(link, t) = {c \in {"ABOVE", "BELOW", "MIX", "SHORT"} : bad(c)}
  BY DEF Judge
<1>2. Judge(link, t) # {"skipped"}
  <2>1. "skipped" \notin {"ABOVE", "BELOW", "MIX", "SHORT"} OBVIOUS
  <2> QED BY <1>1, <2>1
<1>3. /\ bad("ABOVE") <=> Above(link, t, ReadCap(link))
      /\ bad("BELOW") <=> Below(link, t)
      /\ bad("MIX") <=> MixFails(link.msgs, t.mix)
      /\ bad("SHORT") <=> ~link.ok
  BY Zenon
<1> HIDE DEF bad
<1> QED BY <1>1, <1>2, <1>3

\* A number in perf.json is off by half of its last digit at most.
LEMMA JNumIsNear ==
  ASSUME NEW n \in Nat
  PROVE  JNum(n) \in Nat /\ n - 49 <= JNum(n) /\ JNum(n) <= n + 50
BY DEF JNum

\* A link is above one of two bounds only if it is at the cap, where the caps
\* differ by half a digit.
LEMMA AboveByOne ==
  ASSUME NEW link, LinkTyped(link), link.ok, NEW t, t.model \in Nat,
         ~(Above(link, t, ReadCap(link)) <=> Above(link, t, link.mixCap))
  PROVE  AtCap(link)
<1> DEFINE m == t.model
           b == link.bpc
           e == OneFlit(link)
           c == ReadCap(link)
           f == link.mixCap
<1>1. m \in Nat /\ b \in Nat /\ e \in Nat /\ c \in Nat /\ f \in Nat /\ f - 49 <= c /\ c <= f + 50
  BY JNumIsNear DEF LinkTyped, ReadCap
<1>2. ~(b > Max({m, c}) + e <=> b > Max({m, f}) + e)
  BY DEF Above
<1> HIDE DEF m, b, e, c, f
<1>3. Max({m, c}) = (IF c >= m THEN c ELSE m) /\ Max({m, f}) = (IF f >= m THEN f ELSE m)
  BY <1>1, MaxOfTwo
<1>4. -50 <= b - e - f /\ b - e - f <= 50
  BY <1>1, <1>2, <1>3
<1>5. Abs(b - e - f) <= 50
  BY <1>1, <1>4 DEF Abs
<1> QED BY <1>5 DEF AtCap, b, e, f

\* The gate in the bench and `check` judge a link alike by equal rows, but for a
\* rate at the cap.
LEMMA GateIsJudge ==
  ASSUME NEW x, NEW T, NEW U, Table(T), Table(U), GateOf(T, x), NEW d \in Dirs,
         TargetOf(U, Key(x.win.config, x.phy, x.win.w, d)) = x.compiled[d]
  PROVE  /\ x.gate[d] = "skipped" <=> Judged(U, x, d) = {"skipped"}
         /\ x.gate[d] = "passed" => Judged(U, x, d) \subseteq {"ABOVE"}
         /\ AtCap(x.links[d]) \/ (x.gate[d] = "passed" <=> Judged(U, x, d) = {})
<1> DEFINE key == Key(x.win.config, x.phy, x.win.w, d)
           link == x.links[d]
           seen == IF link.data THEN link ELSE Silent
<1>1. LinkTyped(link) /\ x.compiled[d] = TargetOf(T, key) /\ x.gate[d] = Gate(T, x.win, x.phy, d, link)
  BY DEF GateOf
<1>2. (key \in DOMAIN T <=> key \in DOMAIN U) /\ (key \in DOMAIN T => T[key] = U[key])
  BY <1>1, RowsDiffer
<1>3. /\ seen.ok \in BOOLEAN /\ (seen.ok => link.data /\ seen = link)
      /\ link.data => seen = link
  BY <1>1 DEF LinkTyped, Silent
<1>4. CASE key \notin DOMAIN U
  <2>1. Judged(U, x, d) = IF seen.data THEN {"NO_TARGET"} ELSE {"skipped"}
    BY <1>4 DEF Judged
  <2>2. seen.data = link.data
    BY <1>1 DEF LinkTyped, Silent
  <2>3. x.gate[d] = IF link.data THEN "failed" ELSE "skipped"
    BY <1>1, <1>2, <1>4 DEF Gate
  <2>4. link.data \in BOOLEAN BY <1>1 DEF LinkTyped
  <2> HIDE DEF seen, link
  <2> QED BY <2>1, <2>2, <2>3, <2>4
<1>5. CASE key \in DOMAIN U
  <2> DEFINE row == U[key]
  <2>1. Judged(U, x, d) = Judge(seen, row)
    BY <1>5 DEF Judged
  <2>2. /\ Judge(seen, row) \subseteq {"ABOVE"} <=>
             seen.ok /\ ~Below(seen, row) /\ ~MixFails(seen.msgs, row.mix)
        /\ Judge(seen, row) = {} <=> /\ seen.ok /\ ~Below(seen, row) /\ ~Above(seen, row, ReadCap(seen))
                                     /\ ~MixFails(seen.msgs, row.mix)
        /\ Judge(seen, row) # {"skipped"}
    <3> HIDE DEF seen, row
    <3> QED BY <1>3, JudgeEmpty
  <2>3. x.gate[d] = IF ~link.data \/ ~link.ok \/ Below(link, row) \/ Above(link, row, link.mixCap)
                         \/ Skewed(link.msgs, row.mix) THEN "failed" ELSE "passed"
    BY <1>1, <1>2, <1>5 DEF Gate
  <2>4. RowTyped(row) BY <1>5 DEF Table
  <2>5. row.model \in Nat /\ (MixFails(link.msgs, row.mix) <=> Skewed(link.msgs, row.mix))
    <3>1. row.mix # <<>> BY <2>4 DEF RowTyped
    <3> HIDE DEF row
    <3> QED BY <2>4, <3>1 DEF RowTyped, MixFails
  <2>6. link.data \in BOOLEAN /\ link.ok \in BOOLEAN
    BY <1>1 DEF LinkTyped
  <2>7. /\ x.gate[d] = "passed" => Judge(seen, row) \subseteq {"ABOVE"}
        /\ AtCap(link) \/ (x.gate[d] = "passed" <=> Judge(seen, row) = {})
    <3>1. CASE link.data
      <4>1. seen = link BY <1>3, <3>1
      <4>2. \/ ~link.ok \/ AtCap(link)
            \/ (Above(link, row, ReadCap(link)) <=> Above(link, row, link.mixCap))
        <5> HIDE DEF link, row
        <5> QED BY <1>1, <2>5, AboveByOne
      <4> HIDE DEF seen, link, row
      <4> QED BY <2>2, <2>3, <2>5, <2>6, <3>1, <4>1, <4>2
    <3>2. CASE ~link.data
      <4>1. ~seen.ok BY <1>3, <3>2
      <4> HIDE DEF seen, link, row
      <4> QED BY <2>2, <2>3, <3>2, <4>1
    <3> QED BY <2>6, <3>1, <3>2
  <2>8. x.gate[d] # "skipped"
    <3> HIDE DEF seen, link, row
    <3> QED BY <2>3
  <2> HIDE DEF seen, link, row
  <2> QED BY <2>1, <2>2, <2>7, <2>8 DEF link
<1> QED BY <1>4, <1>5

\* The gate of the bench and `check` agree, to the digits of perf.json, on every
\* link whose target did not change, and a run that was not warned used the tables
\* as they were: perf_model.py, aou_perf_mon, aou_perf_chk and the stamp of the
\* Makefile together.
THEOREM GateIsCheck == Spec => []GateAgrees
<1>1. PerfInv => GateAgrees
  <2> SUFFICES ASSUME PerfInv PROVE GateAgrees
    OBVIOUS
  <2>1. ASSUME NEW x \in runs PROVE x.warned \/ x.current
    BY DEF PerfInv, Sound
  <2>2. ASSUME NEW x \in runs, NEW d \in Dirs, SameTargets(x)
        PROVE  LET judged == Judged(targets, x, d) IN
               /\ x.gate[d] = "skipped" <=> judged = {"skipped"}
               /\ x.gate[d] = "passed" => judged \subseteq {"ABOVE"}
               /\ AtCap(x.links[d]) \/ (x.gate[d] = "passed" <=> judged = {})
    <3>1. PICK T : Table(T) /\ GateOf(T, x) BY DEF PerfInv, Sound
    <3>2. Table(targets) BY DEF PerfInv
    <3>3. TargetOf(targets, Key(x.win.config, x.phy, x.win.w, d)) = x.compiled[d]
      BY <2>2 DEF SameTargets
    <3> QED BY <3>1, <3>2, <3>3, GateIsJudge
  <2> QED BY <2>1, <2>2 DEF GateAgrees
<1> QED BY <1>1, TablesAreTyped, PTL

\* The figure F does not drift from the written figure T; bpc reaches T within
\* the tolerance; and what that leaves of F.
Close(F, T) == ~(Abs(F - T) > Max({T \div 10000, 5}))
Reaches(bpc, tol, T) == ~(bpc * 100 < (100 - tol) * T)
Owed(F, tol) == (F \div 100) * (100 - tol) - F \div 5000 - 200

\* A rate within tolerance of a written figure is within tolerance of the figure
\* it was written from, to the digits of the table.
LEMMA WithinDigits ==
  ASSUME NEW F \in Nat, NEW T \in Nat, NEW tol \in Nat, NEW bpc \in Nat,
         Close(F, T), Reaches(bpc, tol, T)
  PROVE  bpc >= Owed(F, tol)
<1> DEFINE q == F \div 100
           p == 100 - tol
           e == Max({T \div 10000, 5})
<1>1. /\ T \div 10000 \in Nat /\ F \div 5000 \in Nat /\ q \in Nat /\ 100 * q <= F
      /\ 10000 * (T \div 10000) <= T /\ F < 5000 * (F \div 5000) + 5000
  OBVIOUS
<1>2. e \in Nat /\ (e = T \div 10000 \/ e = 5)
  <2> DEFINE h == T \div 10000
  <2>1. h \in Nat BY <1>1
  <2>2. Max({h, 5}) = h \/ Max({h, 5}) = 5
    <3> HIDE DEF h
    <3> QED BY <2>1, MaxOfTwo
  <2> QED BY <2>1, <2>2
<1>3. F - T <= e /\ T - F <= e
  BY <1>2 DEF Abs, Close
<1>4. e <= F \div 5000 + 200
  <2>1. CASE e = 5 BY <1>1, <2>1
  <2>2. CASE e = T \div 10000
    <3>1. 10000 * e <= F + e BY <1>1, <1>3, <2>2
    <3> HIDE DEF e
    <3> QED BY <1>1, <1>2, <3>1
  <2> QED BY <1>2, <2>1, <2>2
<1>5. CASE tol <= 100
  <2>1. p \in Nat /\ p <= 100 BY <1>5
  <2>2. bpc * 100 >= p * T BY <2>1 DEF Reaches
  <2> HIDE DEF p, e, q
  <2>3. \A x, y, z \in Int : x \in Nat /\ y <= z => x * y <= x * z
    OBVIOUS
  <2>4. p * (F - e) <= p * T
    <3>1. F - e <= T BY <1>2, <1>3
    <3> QED BY <1>2, <2>1, <2>3, <3>1
  <2>5. p * (100 * q - e) <= p * (F - e)
    <3>1. 100 * q - e <= F - e BY <1>1, <1>2
    <3> QED BY <1>1, <1>2, <2>1, <2>3, <3>1
  <2>6. p * (100 * q - e) = 100 * (p * q) - p * e
    BY <1>1, <1>2, <2>1
  <2>7. p * e <= 100 * e
    BY <1>2, <2>1
  <2>8. p * q \in Int /\ p * e \in Int /\ p * T \in Int /\ p * (F - e) \in Int /\ q * p = p * q
    BY <1>1, <1>2, <2>1
  <2>9. bpc >= p * q - e
    BY <1>2, <2>2, <2>4, <2>5, <2>6, <2>7, <2>8
  <2>10. bpc >= q * p - F \div 5000 - 200
    BY <1>1, <1>2, <1>4, <2>8, <2>9
  <2> QED BY <2>10 DEF p, q, Owed
<1>6. CASE tol > 100
  <2>1. p \in Int /\ p < 0 BY <1>6
  <2>2. q * p <= 0
    <3> HIDE DEF p, q
    <3> QED BY <1>1, <2>1
  <2>3. q * p \in Int
    <3> HIDE DEF p, q
    <3> QED BY <1>1, <2>1
  <2>4. bpc >= q * p - F \div 5000 - 200
    <3> HIDE DEF p, q
    <3> QED BY <1>1, <2>2, <2>3
  <2> QED BY <2>4 DEF Owed
<1> QED BY <1>5, <1>6

\* A table compared with itself as written does not drift: rounding stays below
\* what counts as drift.
LEMMA FreshNeverDrifts ==
  ASSUME Table(Fresh), targets = Written(Fresh)
  PROVE  Drift(Fresh) = {}
<1> SUFFICES ASSUME NEW k \in DOMAIN Fresh \cup DOMAIN targets, Drifts(Fresh, targets, k)
             PROVE  FALSE
  BY DEF Drift
<1>1. DOMAIN targets = DOMAIN Fresh /\ k \in DOMAIN Fresh
  BY WrittenTyped
<1>2. RowTyped(Fresh[k]) BY <1>1 DEF Table
<1> DEFINE F == Fresh[k].model
           T == targets[k].model
<1>3. /\ F \in Nat /\ T = Rounded(F) /\ targets[k].tol = Fresh[k].tol
      /\ DOMAIN targets[k].mix = DOMAIN Fresh[k].mix
      /\ \A m \in DOMAIN Fresh[k].mix : /\ Fresh[k].mix[m] \in Nat
                                        /\ targets[k].mix[m] = Rounded(Fresh[k].mix[m])
  BY <1>1, <1>2, WrittenTyped DEF RowTyped
<1>4. ~(Abs(F - T) > Max({T \div 10000, 5}))
  <2>1. T \in Nat /\ F - 4 <= T /\ T <= F + 5 BY <1>3, RoundingIsNear
  <2>2. Max({T \div 10000, 5}) \in Int /\ Max({T \div 10000, 5}) >= 5
    <3>1. T \div 10000 \in Int BY <2>1
    <3> HIDE DEF T
    <3> QED BY <3>1, MaxOfTwo
  <2> HIDE DEF F, T
  <2> QED BY <1>3, <2>1, <2>2 DEF Abs
<1>5. PICK m \in DOMAIN Fresh[k].mix \cup DOMAIN targets[k].mix :
        LET share(mix) == IF m \in DOMAIN mix THEN mix[m] ELSE 0
        IN  Abs(share(Fresh[k].mix) - share(targets[k].mix)) > 20
  BY <1>1, <1>3, <1>4 DEF Drifts
<1> DEFINE s == Fresh[k].mix[m]
           t == targets[k].mix[m]
<1>6. s \in Nat /\ t = Rounded(s) /\ Abs(s - t) > 20
  BY <1>3, <1>5
<1>7. t \in Nat /\ s - 4 <= t /\ t <= s + 5
  BY <1>6, RoundingIsNear
<1> HIDE DEF s, t
<1> QED BY <1>6, <1>7 DEF Abs

\* Without drift, both tables have the link,
LEMMA DriftsOutside ==
  ASSUME NEW k, ~Drifts(Fresh, targets, k)
  PROVE  k \in DOMAIN Fresh /\ k \in DOMAIN targets
  BY DEF Drifts

\* the same tolerance, and figures that are close.
LEMMA DriftsRow ==
  ASSUME NEW k, ~Drifts(Fresh, targets, k)
  PROVE  /\ Fresh[k].tol = targets[k].tol
         /\ Close(Fresh[k].model, targets[k].model)
  BY DEF Drifts, Close

\* If `check` with the external model exits with 0, every link of every run met
\* what the sources ask.
LEMMA SuccessMeansMet ==
  ASSUME PerfInv, Table(Fresh), CheckExit(TRUE, Fresh) = 0,
         NEW x \in runs, NEW d \in Dirs
  PROVE  Met(Fresh, x, d)
<1> DEFINE key == Key(x.win.config, x.phy, x.win.w, d)
           link == x.links[d]
           seen == IF link.data THEN link ELSE Silent
<1>1. Drift(Fresh) = {} /\ Judged(targets, x, d) \in {{}, {"skipped"}}
  BY DEF CheckExit
<1>2. ASSUME NEW k \in DOMAIN Fresh \cup DOMAIN targets PROVE ~Drifts(Fresh, targets, k)
  BY <1>1 DEF Drift
<1>3. key \in DOMAIN Fresh <=> key \in DOMAIN targets
  <2>1. \A k \in DOMAIN Fresh \cup DOMAIN targets : k \in DOMAIN Fresh /\ k \in DOMAIN targets
    <3> HIDE DEF key, link, seen
    <3> TAKE k \in DOMAIN Fresh \cup DOMAIN targets
    <3>1. ~Drifts(Fresh, targets, k) BY <1>2
    <3> QED BY <3>1, DriftsOutside
  <2>2. key \in DOMAIN Fresh => key \in DOMAIN targets
    <3> HIDE DEF key, link, seen
    <3> QED BY <2>1
  <2>3. key \in DOMAIN targets => key \in DOMAIN Fresh
    <3> HIDE DEF key, link, seen
    <3> QED BY <2>1
  <2> QED BY <2>2, <2>3
<1>4. LinkTyped(link)
  BY DEF PerfInv, Sound, GateOf
<1>5. seen.ok \in BOOLEAN /\ (seen.ok => link.data) /\ (link.data => seen = link) /\ seen.data = link.data
  BY <1>4 DEF LinkTyped, Silent
<1>6. CASE key \notin DOMAIN targets
  <2>1. Judged(targets, x, d) = IF seen.data THEN {"NO_TARGET"} ELSE {"skipped"}
    BY <1>6 DEF Judged
  <2>2. {"NO_TARGET"} \notin {{}, {"skipped"}} OBVIOUS
  <2>3. ~link.data
    <3> HIDE DEF seen, link
    <3> QED BY <1>1, <1>5, <2>1, <2>2
  <2> QED BY <1>3, <1>6, <2>3 DEF Met, Owed
<1>7. CASE key \in DOMAIN targets
  <2> DEFINE row == targets[key]
  <2>1. Judged(targets, x, d) = Judge(seen, row)
    BY <1>7 DEF Judged
  <2>2. seen.ok /\ ~Below(seen, row)
    <3> HIDE DEF seen, row
    <3> QED BY <1>1, <1>5, <2>1, JudgeEmpty
  <2>3. link.data /\ ~Below(link, row)
    <3> HIDE DEF seen, row, link
    <3> QED BY <1>5, <2>2
  <2>4. key \in DOMAIN Fresh BY <1>3, <1>7
  <2>5. Fresh[key].tol = row.tol /\ Close(Fresh[key].model, row.model)
    BY <1>2, <2>4, DriftsRow
  <2>6. Fresh[key].model \in Nat /\ row.model \in Nat /\ row.tol \in Nat /\ link.bpc \in Nat
    BY <1>4, <1>7, <2>4 DEF PerfInv, Table, RowTyped, LinkTyped
  <2>7. Reaches(link.bpc, row.tol, row.model)
    BY <2>3 DEF Below, Reaches
  <2>8. link.bpc >= Owed(Fresh[key].model, Fresh[key].tol)
    <3> DEFINE F == Fresh[key].model
               n == Fresh[key].tol
               b == link.bpc
               T == row.model
    <3>1. /\ F \in Nat /\ T \in Nat /\ n \in Nat /\ b \in Nat
          /\ Close(F, T) /\ Reaches(b, n, T)
      BY <2>5, <2>6, <2>7
    <3>2. b >= Owed(F, n)
      <4> HIDE DEF F, n, b, T
      <4> QED BY <3>1, WithinDigits
    <3> QED BY <3>2
  <2> QED BY <2>3, <2>4, <2>8 DEF Met, Owed
<1> QED BY <1>6, <1>7

\* `check` with the external model never blames a table that was made from the
\* sources, and its exit status 0 means that every run met the sources' targets:
\* no target and no run is missed by it.
THEOREM CheckHonest == Spec => []CheckIsHonest
<1>1. PerfInv => CheckIsHonest
  <2> SUFFICES ASSUME PerfInv PROVE CheckIsHonest
    OBVIOUS
  <2>1. Table(Fresh)
    <3>1. Optional(targets) \in BOOLEAN BY DEF Optional
    <3> QED BY <3>1, WrittenTables DEF PerfInv, Fresh
  <2>2. targets = Written(Fresh) => Drift(Fresh) = {}
    BY <2>1, FreshNeverDrifts
  <2>3. CheckExit(TRUE, Fresh) = 0 => \A x \in runs, d \in Dirs : Met(Fresh, x, d)
    BY <2>1, SuccessMeansMet
  <2> QED BY <2>2, <2>3 DEF CheckIsHonest, Honest
<1> QED BY <1>1, TablesAreTyped, PTL
=============================================================================

----------------------------- MODULE MCDvReports -----------------------------
(* Two regressions of the same list on one build: a test that two scenarios  *)
(* run alike and that may show one known bug with a general symptom, and      *)
(* scenarios that run on another target, or not at all.                       *)
EXTENDS DvReports

CONSTANTS base, after

entry(test, when, errors, bug, requires, seedDep) ==
  [test |-> test, when |-> when, errors |-> errors, bug |-> bug, requires |-> requires, seedDep |-> seedDep]
MCExpected == <<
  entry("t1", "none", {"wrong_id"}, "B1", "none", FALSE),
  entry("*", "none", {"not_drained"}, "B1", "B1", TRUE),
  entry("t1", "narrow", {"wrong_id"}, "B2", "none", FALSE)>>

bin(hits, illegal) == [hits |-> hits, illegal |-> illegal]
json(a, b) == [x \in {"len1", "len16", "bad"} |->
                 CASE x = "len1" -> bin(a, FALSE) [] x = "len16" -> bin(b, FALSE) [] OTHER -> bin(b, TRUE)]
fc(a, b, c) == [json |-> json(a, b), axi4 |-> <<<<"axi4.aw", c>>, <<"axi4.ar", 0>>, <<"axi4.aw", a>>>>]
check(a, b) == (<<"R1", "chk">> :> [checks |-> a, fires |-> b])
log(errors, f, checks) == [summary |-> TRUE, errors |-> errors, marks |-> {}, fc |-> f, ledger |-> checks]
MCLogsOf == [t \in {"t1", "t2", "rt"} |->
  IF t = "t1" THEN {log({}, fc(1, 0, 0), check(2, 0)), log({"not_drained"}, fc(1, 0, 0), check(1, 1)),
                    log({"wrong_id", "not_drained", "stop"}, fc(0, 1, 1), check(0, 1))}
  ELSE IF t = "t2" THEN {log({}, fc(0, 1, 0), <<>>)} ELSE {PartialLog}]
rule(scope, kind, who, via) == [scope |-> scope, kind |-> kind, who |-> who, via |-> via]
MCRules == [x \in {"R1", "R2", "R3", "R4"} |->
  CASE x = "R1" -> rule("in", "checker", "chk", "") [] x = "R2" -> rule("in", "via", "", "R1")
    [] x = "R3" -> rule("N/A", "", "", "") [] OTHER -> rule("in", "by test", "", "")]

MCRid == {base, after}
TwoRids == Permutations(MCRid)

on(config) == [config |-> config, assert |-> FALSE]
define(name, value) == [name |-> name, rp |-> -1, value |-> value]
bench(list, agents) == [list |-> list, defaults |-> agents, targets |-> <<
  [name |-> on("1x512"), defines |-> <<define("AOU_RP_COUNT", 1)>>],
  [name |-> on("2x256"), defines |-> <<define("AOU_RP_COUNT", 2), define("AOU_RP_DATA_W", 256)>>],
  [name |-> [config |-> "1x512", assert |-> TRUE],
   defines |-> <<define("AOU_RP_COUNT", 1), define("ASSERTION_ON", 0)>>]>>]
MCSimCfg == [tb \in {"t1", "reg"} |->
  IF tb = "t1" THEN bench("uvm_tests", <<define("AOU_T1_AXI_AGENTS", 0)>>) ELSE bench("reg", <<>>)]
MCClasses == [tb \in {"t1", "reg"} |-> IF tb = "t1" THEN {"t1", "t2"} ELSE {"rt"}]
MCBuildOf == [r \in MCRid |-> [tb |-> "t1", config |-> "1x512", assert |-> FALSE]]
MCAssertBuild == [r \in MCRid |-> [MCBuildOf[r] EXCEPT !.assert = TRUE]]

\* Two scenarios a and b that run the same, c and e on one target each, d blocked.
test(name, cls, target, reseed, args, blocked) ==
  [name |-> name, cls |-> cls, target |-> target, seed |-> 1, reseed |-> reseed, args |-> args,
   blocked |-> blocked]
file(includes, tests, groups) == [includes |-> includes, tests |-> tests, groups |-> groups]
group(name, tests) == [name |-> name, tests |-> tests, count |-> Len(tests)]
same(name, blocked) == test(name, "t1", AnyTarget, 1, {"+n=4", "+waves"}, blocked)
lists(includes, groups, reg) == [path \in {"uvm_tests", "sanity", "assertions", "loop", "reg"} |->
  CASE path = "uvm_tests" -> file(includes, <<test("c", "t2", on("2x256"), 3, {}, FALSE)>>, groups)
    [] path = "sanity" -> file(<<>>, <<same("a", FALSE), same("b", FALSE), same("d", TRUE)>>, <<>>)
    [] path = "assertions" ->
         file(<<>>, <<test("e", "t2", [config |-> "1x512", assert |-> TRUE], 1, {}, FALSE)>>, <<>>)
    [] path = "loop" -> file(<<"uvm_tests">>, <<>>, <<>>)
    [] OTHER -> file(<<>>, <<test("r", "rt", AnyTarget, 2, {}, FALSE)>>, reg)]
everything == <<group("all", <<"a", "b", "c", "e">>)>>
MCFiles == lists(<<"sanity", "assertions">>, everything, <<>>)
MCSide ==
  [ids |-> [n \in {"a", "b", "d", "e", "r"} |->
              CASE n \in {"a", "b"} -> {<<1, 1>>, <<1, 2>>, <<1, 3>>} [] n = "e" -> {<<2, 1>>} [] OTHER -> {<<2, 2>>}],
   blocked |-> {"d"}]
MCVariants ==
  {<<lists(includes, groups, reg), side>> :
     includes \in {<<"sanity", "assertions">>, <<"assertions", "sanity">>, <<"sanity">>,
                    <<"sanity", "assertions", "sanity">>, <<"sanity", "loop">>, <<"sanity", "none">>},
     groups \in {<<>>, everything, <<group("all", <<"c", "b", "a">>)>>, <<group("all", <<"a", "b", "c">>)>>,
                  <<group("all", <<"a", "b", "c", "d", "e">>)>>, <<group("all", <<"a", "b", "c", "e", "a">>)>>,
                  <<[everything[1] EXCEPT !.count = 3]>>, everything \o everything,
                  <<group("smoke", <<"a">>), everything[1]>>},
     reg \in {<<>>, <<group("all", <<"r">>)>>, <<group("all", <<"r", "x">>)>>},
     side \in {MCSide, [MCSide EXCEPT !.blocked = {}], [MCSide EXCEPT !.blocked = {"b", "d"}]}}

row(id) == [id |-> id, title |-> "old", prio |-> "P1"]
MCOldPlan == <<row(<<1, 1>>), row(<<1, 2>>), row(<<2, 1>>)>>
fix(id) == [id |-> id, add |-> "no", title |-> "unset", prio |-> "unset", into |-> NoId,
            dropped |-> FALSE, note |-> TRUE]
merge(id, into) == [fix(id) EXCEPT !.into = into]
add(id, kind) == [fix(id) EXCEPT !.add = kind, !.title = "new", !.prio = "P0"]
MCCorrections == {<<>>,
  <<merge(<<1, 2>>, <<1, 1>>), merge(<<1, 1>>, <<2, 1>>)>>,
  <<[fix(<<2, 1>>) EXCEPT !.dropped = TRUE], add(<<2, 2>>, "added"), merge(<<1, 2>>, <<1, 3>>),
    add(<<1, 3>>, "yes"), [fix(<<1, 1>>) EXCEPT !.title = "new", !.prio = "P0"]>>}
=============================================================================

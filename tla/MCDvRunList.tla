---------------------------- MODULE MCDvRunList ----------------------------
(* Either one driver with three runs of two tests, with or without --ctl,  *)
(* or two drivers that are started with the same RID at any time.          *)
EXTENDS DvRunList

MCDriver == {"d1", "d2"}
MCRun == 1..3
MCTestOf == <<"long", "short", "short">>
MCTimeOf == [t \in {"long", "short"} |-> IF t = "long" THEN 9 ELSE 1]
MCOutput == {<<"XPASS", "PASS">>, <<>>}
MCEdits == {<<"pause", "on">>, <<"drain", "1">>, <<"priority", "50">>, <<"jobs", "0">>}

Command(runs, given, used) == [runs |-> runs, given |-> given, used |-> used]
NotUsed == Command({}, FALSE, FALSE)
Both(c1, c2) == [d1 |-> c1, d2 |-> c2]
MCScenarios == {
  [cmd |-> Both(Command({1, 2, 3}, FALSE, TRUE), NotUsed), events |-> 2],
  [cmd |-> Both(Command({1, 2}, TRUE, TRUE), NotUsed), events |-> 1],
  [cmd |-> Both(Command({1}, FALSE, TRUE), Command({}, FALSE, TRUE)), events |-> 1]}
=============================================================================

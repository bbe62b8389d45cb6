------------------------------- MODULE DvPlan --------------------------------
(***************************************************************************)
(* The test plan: gen_plan_items.py makes the plan items from the old plan   *)
(* and a list of corrections, or rebuilds the old plan from its own output;  *)
(* plan_status.py gives each item the status of the scenarios that list it.  *)
(* An item id is <<section, number>>; titles and priorities are tokens.      *)
(***************************************************************************)
EXTENDS Integers, Sequences, SequencesExt, FiniteSets

NoId == <<0, 0>>
Unset == "unset"
PlanRow(item) == [id |-> item.id, title |-> item.title, prio |-> item.prio]

\* A row of the old plan as an item, before any correction.
Item(row) == [id |-> row.id, title |-> row.title, prio |-> row.prio, into |-> NoId,
              dropped |-> FALSE, oldTitle |-> Unset, oldPrio |-> Unset]
ById(items) == [id \in {items[i].id : i \in DOMAIN items} |->
                  items[CHOOSE i \in DOMAIN items : items[i].id = id]]
Peers(items, id) == {i \in DOMAIN items : items[i].id[1] = id[1]}
New(c) == [Item(c) EXCEPT !.dropped = c.add = "added" /\ c.dropped]

\* A correction is [id, add, title, prio, into, dropped, note]; add is "no",
\* "yes" (add: yes) or "added" (added: <source>).  Both kinds of new item go
\* behind the last of their section; the second must also have a higher number.
CanAdd(items, c) ==
  /\ c.id \notin DOMAIN ById(items) /\ Peers(items, c.id) # {}
  /\ c.title # Unset /\ c.prio # Unset /\ c.note
  /\ c.add = "added" => \A i \in Peers(items, c.id) : items[i].id[2] <= c.id[2]
AddItem(items, c) == InsertAt(items, Max(Peers(items, c.id)) + 1, New(c))

\* Mutant: the new title is kept as the old one.
CorrectedLate(item, c) ==
  [item EXCEPT !.title = IF c.title # Unset THEN c.title ELSE @,
               !.oldTitle = IF c.title # Unset THEN c.title ELSE @,
               !.prio = IF c.prio # Unset THEN c.prio ELSE @,
               !.oldPrio = IF c.prio \notin {Unset, item.prio} THEN item.prio ELSE @,
               !.into = IF c.into # NoId THEN c.into ELSE @,
               !.dropped = @ \/ c.dropped]

\* What one correction does to an item that exists.
Corrected(item, c) ==
  [item EXCEPT !.title = IF c.title # Unset THEN c.title ELSE @,
               !.oldTitle = IF c.title # Unset THEN item.title ELSE @,
               !.prio = IF c.prio # Unset THEN c.prio ELSE @,
               !.oldPrio = IF c.prio \notin {Unset, item.prio} THEN item.prio ELSE @,
               !.into = IF c.into # NoId THEN c.into ELSE @,
               !.dropped = @ \/ c.dropped]

\* One correction applied to [items, ok]; ok is FALSE once there was an error.
Step(acc, c) ==
  LET known == c.id \in DOMAIN ById(acc.items) IN
  CASE c.add # "no" -> IF CanAdd(acc.items, c)
                       THEN [acc EXCEPT !.items = AddItem(@, c)] ELSE [acc EXCEPT !.ok = FALSE]
    [] known -> [items |-> [i \in DOMAIN acc.items |->
                              IF acc.items[i].id = c.id THEN Corrected(acc.items[i], c)
                              ELSE acc.items[i]],
                 ok |-> acc.ok /\ c.note]
    [] OTHER -> [acc EXCEPT !.ok = FALSE]

\* Mutant: the target must exist.
MergesExist(items) ==
  \A i \in DOMAIN items : items[i].into # NoId => items[i].into \in DOMAIN ById(items)

\* A duplicate must report through an item that is itself reported.
MergesResolve(items) ==
  \A i \in DOMAIN items : items[i].into # NoId =>
    /\ items[i].into \in DOMAIN ById(items)
    /\ LET target == ById(items)[items[i].into] IN target.into = NoId /\ ~target.dropped

\* The new items of the kind add: yes come first, then the rest in file order.
ApplyCorrections(items, corrections) ==
  LET first == FoldLeft(Step, [items |-> items, ok |-> TRUE],
                        SelectSeq(corrections, LAMBDA c : c.add = "yes"))
      all == FoldLeft(Step, first, SelectSeq(corrections, LAMBDA c : c.add # "yes"))
  IN  [all EXCEPT !.ok = @ /\ MergesResolve(all.items)]

\* The old plan's rows, rebuilt from an output: new items dropped, every
\* correction undone.
ItemsFromOutput(items, corrections) ==
  LET added == {corrections[i].id : i \in {j \in DOMAIN corrections : corrections[j].add # "no"}}
      old(item) == [id |-> item.id,
                    title |-> IF item.oldTitle # Unset THEN item.oldTitle ELSE item.title,
                    prio |-> IF item.oldPrio # Unset THEN item.oldPrio ELSE item.prio]
      kept == SelectSeq(items, LAMBDA item : item.id \notin added)
  IN  [i \in DOMAIN kept |-> old(kept[i])]
Generate(rows, corrections) == ApplyCorrections([i \in DOMAIN rows |-> Item(rows[i])], corrections)

\* The id that a listed id reports through, and the status of an item of which
\* the scenarios es are known: verdicts[e] is the set of verdicts of its runs.
Aliases(items) == [id \in {items[i].id : i \in {j \in DOMAIN items : items[j].into # NoId}} |->
                     ById(items)[id].into]
Alias(items, id) == IF id \in DOMAIN Aliases(items) THEN Aliases(items)[id] ELSE id
ScenarioStatus(es, verdicts, blocked) ==
  CASE \E e \in es : "PASS" \in verdicts[e] -> "covered"
    [] \E e \in es : "FAIL" \in verdicts[e] -> "failing"
    [] \E e \in es : "XFAIL" \in verdicts[e] -> "xfail-only"
    [] es # {} /\ es \subseteq blocked -> "blocked"
    [] OTHER -> "not covered"
ItemStatus(item, es, verdicts, blocked) ==
  CASE item.into # NoId -> "merged"
    [] item.dropped -> "dropped"
    [] OTHER -> ScenarioStatus(es, verdicts, blocked)
=============================================================================

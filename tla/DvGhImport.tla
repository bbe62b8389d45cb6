----------------------------- MODULE DvGhImport -----------------------------
(***************************************************************************)
(* From bug drafts to GitHub issues: dv/scripts/bugs/gh_import.py --apply   *)
(* creates, links and closes the issues one GitHub call at a time and notes *)
(* each issue in its draft; rewrite_refs.py then replaces the citations of  *)
(* the drafts in the bench, and gen_readme.py writes README.md and          *)
(* index.csv, which list them.  Each may be killed between any two steps    *)
(* and is run again; the drafts are edited meanwhile.                       *)
(*                                                                         *)
(* GitHub is outside the repository and is modelled as the importer uses    *)
(* it: an issue keeps its number, its body and its marker.                  *)
(***************************************************************************)
EXTENDS Integers, Sequences, SequencesExt, FiniteSets

CONSTANTS
  Draft,      \* the draft ids that occur, in the order the importer takes them
  Starts,     \* the drafts there may be at first: a set of functions on Draft
  Revisions,  \* the <<id, draft>> an editor may write: he deletes and empties none
  File,       \* files of the bench, by their place in the walk
  Cites,      \* file -> the draft ids it cites, in order
  Budget,     \* bound on the edits, crashes and closings by others
  Overlap     \* gen_readme may run while one of the others runs

States == {"absent", "torn", "open", "resolved", "merged", "closed"}
Meta == [state: States, into: Draft \cup {0}, blocked: SUBSET Draft, refs: SUBSET Draft]
ASSUME ImportAssumption ==
  /\ Draft \subseteq Nat \ {0} /\ File \subseteq Nat /\ Budget \in Nat /\ Overlap \in BOOLEAN
  /\ Starts \subseteq [Draft -> Meta] /\ Revisions \subseteq Draft \X Meta
  /\ \A r \in Revisions : r[2].state \notin {"absent", "torn"}
  /\ Cites \in [File -> Seq(Draft)]

VARIABLES
  draft,   \* the draft files: front matter, draft ids in the body, issue_github
  issues,  \* GitHub: the issues, by number
  pc,      \* what the import is doing
  loaded,  \* the drafts as gen_readme.load read them
  made,    \* draft -> the issue it has: number, resolved label, state
  calls,   \* what is left of pass 2 and the write-back: a set of calls
  held,    \* write_back: the text of the draft it has truncated
  fresh,   \* the last import ended, and no draft has changed since
  bench,   \* file -> the issue number that replaced each citation, or 0
  torn,    \* the files of the bench that were truncated and not written
  rw,      \* rewrite_refs: at, issue map, files to do, new text, left or unknown, status
  pages,   \* page -> the rows it lists; one that was truncated is not whole
  gen,     \* gen_readme: at, the rows it has made, the pages to write
  budget

import == <<pc, loaded, made, calls, held, fresh>>
rewrite == <<bench, torn, rw>>
tables == <<pages, gen>>
vars == <<draft, issues, import, rewrite, tables, budget>>

NoIssue == [num |-> 0, resolved |-> FALSE, state |-> "open"]
NoText == [meta |-> CHOOSE m \in Meta : TRUE, issue |-> 0]
IsPresent(x) == x.meta.state # "absent"
Present == {d \in Draft : IsPresent(draft[d])}
Least(S) == CHOOSE d \in S : \A e \in S : d <= e

\* parse and validate: a file without front matter, a chain of merges and a
\* reference to a missing draft are errors.
Torn == {d \in Present : draft[d].meta.state = "torn"}
Coherent == \A d \in Present \ Torn : LET m == draft[d].meta IN
  /\ m.state = "merged" <=> m.into # 0
  /\ m.state = "merged" => m.into \in Present /\ draft[m.into].meta.state # "merged"
  /\ m.blocked \subseteq Present \ {d}
Loads == Torn = {} /\ Coherent
Apart(at) == Overlap \/ at = "idle"

\* The rows of the generated pages: a draft with those merged into it and its
\* issue.
Row(d) == [meta |-> draft[d].meta, issue |-> draft[d].issue,
           includes |-> {x \in Present : draft[x].meta.state = "merged" /\ draft[x].meta.into = d}]
Table == [d \in Present |-> Row(d)]
Page == {"readme", "index"}
Listing(rows) == [whole |-> TRUE, rows |-> rows]
NoGen == [at |-> "idle", rows |-> <<>>, todo |-> <<>>]

Init ==
  /\ \E s \in Starts : draft = [d \in Draft |-> [meta |-> s[d], issue |-> 0]]
  /\ issues = <<>>
  /\ pc = "idle" /\ loaded = draft /\ made = [d \in Draft |-> NoIssue] /\ calls = {}
  /\ held = NoText /\ fresh = FALSE
  /\ bench = [f \in File |-> [i \in DOMAIN Cites[f] |-> 0]]
  /\ torn = {}
  /\ rw = [at |-> "idle", map |-> [d \in Draft |-> 0], todo |-> {}, text |-> <<>>,
           left |-> FALSE, rc |-> 0]
  /\ pages = [p \in Page |-> Listing(<<>>)] /\ gen = NoGen
  /\ budget = Budget

-----------------------------------------------------------------------------
(***************************************************************************)
(* What an issue says.                                                     *)
(***************************************************************************)
Loaded == {d \in Draft : IsPresent(loaded[d])}

\* issue_for: a reference to a draft becomes a placeholder, any other stays text.
Body(d) == LET m == loaded[d].meta IN
  {<<"placeholder", x>> : x \in (m.refs \cup m.blocked) \cap Loaded}
    \cup {<<"text", x>> : x \in m.refs \ Loaded}

ResolvePlaceholders(body) ==
  {IF t[1] = "placeholder" THEN <<"issue", t[2], made[t[2]].num>> ELSE t : t \in body}

IsResolved(m) == m.state = "resolved"
Closes(m) == m.state \in {"merged", "closed"}
Reason(m) == IF m.state = "merged" THEN "duplicate" ELSE "given"

\* The calls of pass 2 and the write-back: the pass, the draft, the place
\* among the calls for the draft, and the blocker.
BodyCall(d)     == <<2, d, 1, 0>>
BlockCall(d, b) == <<2, d, 2, b>>
LabelCall(d)    == <<2, d, 3, 0>>

\* Mutant: the issue is closed before the comment names the other one.
CommentCallLast(d) == <<2, d, 6, 0>>

CommentCall(d)  == <<2, d, 4, 0>>
CloseCall(d)    == <<2, d, 5, 0>>
SaveCall(d)     == <<3, d, 0, 0>>

Earlier(c, e) == \E i \in 1..4 : c[i] < e[i] /\ \A j \in 1..i-1 : c[j] = e[j]

\* Mutant: the label is set but never dropped.
CallsForAddOnly(d) == LET m == loaded[d].meta IN
  {BodyCall(d)}
    \cup {BlockCall(d, b) : b \in m.blocked}
    \cup (IF IsResolved(m) /\ ~made[d].resolved THEN {LabelCall(d)} ELSE {})
    \cup (IF Closes(m) /\ made[d].state # "closed"
          THEN {CloseCall(d)} \cup (IF m.state = "merged" THEN {CommentCall(d)} ELSE {})
          ELSE {})

\* The calls of pass 2 for one draft: labels and state are those that
\* existing_issues or create_issue returned.
CallsFor(d) == LET m == loaded[d].meta IN
  {BodyCall(d)}
    \cup {BlockCall(d, b) : b \in m.blocked}
    \cup (IF IsResolved(m) # made[d].resolved THEN {LabelCall(d)} ELSE {})
    \cup (IF Closes(m) /\ made[d].state # "closed"
          THEN {CloseCall(d)} \cup (IF m.state = "merged" THEN {CommentCall(d)} ELSE {})
          ELSE {})

Pass2 == (UNION {CallsFor(d) : d \in Loaded}) \cup {SaveCall(d) : d \in Loaded}

-----------------------------------------------------------------------------
(***************************************************************************)
(* gh_import.py --apply.                                                   *)
(***************************************************************************)
ImportStart ==
  /\ pc = "idle" /\ ~fresh /\ Loads /\ Apart(gen.at)
  /\ loaded' = draft
  /\ pc' = "labels"
  /\ UNCHANGED <<draft, issues, made, calls, held, fresh, rewrite, tables, budget>>

EnsureLabels ==
  /\ pc = "labels"
  /\ pc' = "find"
  /\ UNCHANGED <<draft, issues, loaded, made, calls, held, fresh, rewrite, tables, budget>>

\* Mutant: the list holds the open issues only.
MarkedOpen(d) == {n \in DOMAIN issues : issues[n].id = d /\ issues[n].state = "open"}

\* Mutant: a body that names the draft is taken for its issue.
MarkedMention(d) ==
  {n \in DOMAIN issues : issues[n].id = d \/ \E t \in issues[n].body : t[2] = d}

\* The issues with the draft's marker; of several the last one listed.
Marked(d) == {n \in DOMAIN issues : issues[n].id = d}
Found(d) == IF Marked(d) = {} THEN NoIssue
            ELSE LET n == CHOOSE n \in Marked(d) : \A k \in Marked(d) : n >= k
                 IN [num |-> n, resolved |-> issues[n].resolved, state |-> issues[n].state]

ExistingIssues ==
  /\ pc = "find"
  /\ made' = [d \in Draft |-> Found(d)]
  /\ pc' = "create"
  /\ UNCHANGED <<draft, issues, loaded, calls, held, fresh, rewrite, tables, budget>>

Missing == {d \in Loaded : made[d].num = 0}

\* Mutant: the reply's id is taken for the issue's number.
CreateIssueId ==
  /\ pc = "create" /\ Missing # {}
  /\ LET d == Least(Missing)
         resolved == IsResolved(loaded[d].meta)
     IN /\ issues' = Append(issues, [id |-> d, body |-> Body(d), resolved |-> resolved,
                                     state |-> "open", reason |-> "", comments |-> <<>>, deps |-> {}])
        /\ made' = [made EXCEPT ![d] = [num |-> 10 * (Len(issues) + 1), resolved |-> resolved,
                                        state |-> "open"]]
  /\ UNCHANGED <<draft, pc, loaded, calls, held, fresh, rewrite, tables, budget>>

\* Pass 1: the issue is created open, its body still with placeholders.
CreateIssue ==
  /\ pc = "create" /\ Missing # {}
  /\ LET d == Least(Missing)
         resolved == IsResolved(loaded[d].meta)
     IN /\ issues' = Append(issues, [id |-> d, body |-> Body(d), resolved |-> resolved,
                                     state |-> "open", reason |-> "", comments |-> <<>>, deps |-> {}])
        /\ made' = [made EXCEPT ![d] = [num |-> Len(issues) + 1, resolved |-> resolved,
                                        state |-> "open"]]
  /\ UNCHANGED <<draft, pc, loaded, calls, held, fresh, rewrite, tables, budget>>

StartPass2 ==
  /\ pc = "create" /\ Missing = {}
  /\ calls' = Pass2
  /\ pc' = "link"
  /\ UNCHANGED <<draft, issues, loaded, made, held, fresh, rewrite, tables, budget>>

\* The next call of pass 2 or of the write-back.
Up(c) == c \in calls /\ \A e \in calls \ {c} : Earlier(c, e)
Turn(c) == pc = "link" /\ Up(c)
Call(c, d, update) ==
  /\ Turn(c)
  /\ calls' = calls \ {c}
  /\ issues' = [issues EXCEPT ![made[d].num] = update]
  /\ UNCHANGED <<draft, pc, loaded, made, held, fresh, rewrite, tables, budget>>
Mine(d) == issues[made[d].num]

UpdateBody(d) == Call(BodyCall(d), d, [Mine(d) EXCEPT !.body = ResolvePlaceholders(Body(d))])
AddBlockedBy(d, b) == Call(BlockCall(d, b), d, [Mine(d) EXCEPT !.deps = @ \cup {made[b].num}])
SyncResolvedLabel(d) ==
  Call(LabelCall(d), d, [Mine(d) EXCEPT !.resolved = IsResolved(loaded[d].meta)])
CommentDuplicate(d) ==
  Call(CommentCall(d), d, [Mine(d) EXCEPT !.comments = Append(@, made[loaded[d].meta.into].num)])
CloseIssue(d) ==
  Call(CloseCall(d), d, [Mine(d) EXCEPT !.state = "closed", !.reason = Reason(loaded[d].meta)])

\* write_back: the file is opened for writing, which empties it, then written.
WriteBackOpen(d) ==
  /\ Turn(SaveCall(d))
  /\ held' = draft[d]
  /\ draft' = [draft EXCEPT ![d].meta.state = "torn"]
  /\ pc' = "save"
  /\ UNCHANGED <<issues, loaded, made, calls, fresh, rewrite, tables, budget>>

WriteBackText(d) ==
  /\ pc = "save" /\ Up(SaveCall(d))
  /\ draft' = [draft EXCEPT ![d] = [held EXCEPT !.issue = made[d].num]]
  /\ held' = NoText
  /\ calls' = calls \ {SaveCall(d)}
  /\ pc' = "link"
  /\ UNCHANGED <<issues, loaded, made, fresh, rewrite, tables, budget>>

ImportEnds ==
  /\ pc = "link" /\ calls = {}
  /\ pc' = "idle"
  /\ fresh' = \A d \in Draft : draft[d].meta = loaded[d].meta
  /\ UNCHANGED <<draft, issues, loaded, made, calls, held, rewrite, tables, budget>>

\* gh exits with an error, its reply is lost, or the importer is killed.
ImportFails ==
  /\ pc # "idle" /\ budget > 0
  /\ budget' = budget - 1
  /\ pc' = "idle" /\ calls' = {} /\ held' = NoText
  /\ made' = [d \in Draft |-> NoIssue]
  /\ UNCHANGED <<draft, issues, loaded, fresh, rewrite, tables>>

-----------------------------------------------------------------------------
(***************************************************************************)
(* rewrite_refs.py.                                                        *)
(***************************************************************************)
Unreplaced(text) == \E i \in DOMAIN text : text[i] = 0

\* Mutant: closed drafts are left out of the map.
RewriteStartOpen ==
  /\ rw.at = "idle" /\ Loads /\ Apart(gen.at)
  /\ \E f \in File : Unreplaced(bench[f])
  /\ rw' = [rw EXCEPT !.at = "scan", !.todo = File, !.left = FALSE, !.rc = 0,
              !.map = [d \in Draft |-> IF Closes(draft[d].meta) THEN 0 ELSE draft[d].issue]]
  /\ UNCHANGED <<draft, issues, import, bench, torn, tables, budget>>

\* issue_map; the drafts must load.
RewriteStart ==
  /\ rw.at = "idle" /\ Loads /\ Apart(gen.at)
  /\ \E f \in File : Unreplaced(bench[f])
  /\ rw' = [rw EXCEPT !.at = "scan", !.todo = File, !.left = FALSE, !.rc = 0,
                      !.map = [d \in Draft |-> draft[d].issue]]
  /\ UNCHANGED <<draft, issues, import, bench, torn, tables, budget>>

Replaced(f) == [i \in DOMAIN bench[f] |-> IF bench[f][i] = 0 THEN rw.map[Cites[f][i]] ELSE bench[f][i]]

\* A file is read; one with something to replace is emptied for writing.
RewriteFile ==
  /\ rw.at = "scan" /\ rw.todo # {}
  /\ LET f == Least(rw.todo)
         new == Replaced(f)
         left == rw.left \/ Unreplaced(new)
     IN IF new = bench[f]
        THEN /\ rw' = [rw EXCEPT !.todo = @ \ {f}, !.left = left]
             /\ UNCHANGED <<bench, torn>>
        ELSE /\ rw' = [rw EXCEPT !.at = "write", !.text = new, !.left = left]
             /\ bench' = [bench EXCEPT ![f] = <<>>]
             /\ torn' = torn \cup {f}
  /\ UNCHANGED <<draft, issues, import, tables, budget>>

RewriteText ==
  /\ rw.at = "write"
  /\ LET f == Least(rw.todo) IN
       /\ bench' = [bench EXCEPT ![f] = rw.text]
       /\ torn' = torn \ {f}
       /\ rw' = [rw EXCEPT !.at = "scan", !.text = <<>>, !.todo = @ \ {f}]
  /\ UNCHANGED <<draft, issues, import, tables, budget>>

RewriteEnds ==
  /\ rw.at = "scan" /\ rw.todo = {}
  /\ rw' = [rw EXCEPT !.at = "idle", !.rc = IF rw.left THEN 1 ELSE 0]
  /\ UNCHANGED <<draft, issues, import, bench, torn, tables, budget>>

RewriteFails ==
  /\ rw.at # "idle" /\ budget > 0
  /\ budget' = budget - 1
  /\ rw' = [rw EXCEPT !.at = "idle", !.todo = {}, !.text = <<>>, !.rc = 1]
  /\ UNCHANGED <<draft, issues, import, bench, torn, tables>>

-----------------------------------------------------------------------------
(***************************************************************************)
(* gen_readme.py.                                                          *)
(***************************************************************************)
OutOfDate == SelectSeq(<<"readme", "index">>, LAMBDA p : pages[p] # Listing(Table))

\* The drafts must load, and README.md must have the markers of its table.
GenStart ==
  /\ gen.at = "idle" /\ Loads /\ Apart(pc) /\ Apart(rw.at)
  /\ Present # {} /\ pages["readme"].whole
  /\ OutOfDate # <<>>
  /\ gen' = [at |-> "open", rows |-> Table, todo |-> OutOfDate]
  /\ UNCHANGED <<draft, issues, import, rewrite, pages, budget>>

GenOpen ==
  /\ gen.at = "open"
  /\ pages' = [pages EXCEPT ![Head(gen.todo)] = [whole |-> FALSE, rows |-> <<>>]]
  /\ gen' = [gen EXCEPT !.at = "write"]
  /\ UNCHANGED <<draft, issues, import, rewrite, budget>>

GenText ==
  /\ gen.at = "write"
  /\ pages' = [pages EXCEPT ![Head(gen.todo)] = Listing(gen.rows)]
  /\ gen' = IF Tail(gen.todo) = <<>> THEN NoGen ELSE [gen EXCEPT !.at = "open", !.todo = Tail(@)]
  /\ UNCHANGED <<draft, issues, import, rewrite, budget>>

GenFails ==
  /\ gen.at # "idle" /\ budget > 0
  /\ budget' = budget - 1
  /\ gen' = NoGen
  /\ UNCHANGED <<draft, issues, import, rewrite, pages>>

-----------------------------------------------------------------------------
(***************************************************************************)
(* People: they edit drafts, put back what a crash has emptied, and close  *)
(* issues on GitHub (as a merged pull request does).                       *)
(***************************************************************************)
Revise(d, m) ==
  /\ budget > 0 /\ draft[d].meta.state # "torn"
  /\ draft' = [draft EXCEPT ![d].meta = m]
  /\ fresh' = FALSE
  /\ budget' = budget - 1
  /\ UNCHANGED <<issues, pc, loaded, made, calls, held, rewrite, tables>>

RestoreDraft(d) ==
  /\ pc # "save" /\ draft[d].meta.state = "torn"
  /\ draft' = [draft EXCEPT ![d] = loaded[d]]
  /\ UNCHANGED <<issues, import, rewrite, tables, budget>>

RestoreFile(f) ==
  /\ rw.at = "idle" /\ f \in torn
  /\ bench' = [bench EXCEPT ![f] = [i \in DOMAIN Cites[f] |-> 0]]
  /\ torn' = torn \ {f}
  /\ UNCHANGED <<draft, issues, import, rw, tables, budget>>

\* The page, with its markers and an empty table.
RestorePage(p) ==
  /\ gen.at = "idle" /\ ~pages[p].whole
  /\ pages' = [pages EXCEPT ![p] = Listing(<<>>)]
  /\ UNCHANGED <<draft, issues, import, rewrite, gen, budget>>

ClosedByOthers(n) ==
  /\ budget > 0 /\ issues[n].state = "open"
  /\ issues' = [issues EXCEPT ![n].state = "closed", ![n].reason = "others"]
  /\ budget' = budget - 1
  /\ UNCHANGED <<draft, import, rewrite, tables>>

-----------------------------------------------------------------------------
Pass2Step == \E d \in Draft :
  \/ UpdateBody(d) \/ SyncResolvedLabel(d) \/ CommentDuplicate(d) \/ CloseIssue(d)
  \/ WriteBackOpen(d) \/ WriteBackText(d)
  \/ \E b \in Draft : AddBlockedBy(d, b)
Import == ImportStart \/ EnsureLabels \/ ExistingIssues \/ CreateIssue \/ StartPass2
            \/ Pass2Step \/ ImportEnds
Rewrite == RewriteStart \/ RewriteFile \/ RewriteText \/ RewriteEnds
Generate == GenStart \/ GenOpen \/ GenText
Restore == \/ \E d \in Draft : RestoreDraft(d)
           \/ \E f \in File : RestoreFile(f)
           \/ \E p \in Page : RestorePage(p)

Next == \/ Import \/ ImportFails \/ Rewrite \/ RewriteFails \/ Generate \/ GenFails \/ Restore
        \/ \E r \in Revisions : Revise(r[1], r[2])
        \/ \E n \in DOMAIN issues : ClosedByOthers(n)

\* The programs are run in turns, and people put back what they find empty,
\* between two runs of what empties it.
Fairness == WF_vars(Import) /\ WF_vars(Rewrite) /\ SF_vars(Generate) /\ SF_vars(Restore)
Spec == Init /\ [][Next]_vars /\ Fairness
-----------------------------------------------------------------------------
(* Every variable has its type; an issue number is one that GitHub gave. *)
TypeOK ==
  LET Num == 0..Len(issues)
  IN /\ DOMAIN draft = Draft /\ DOMAIN loaded = Draft
     /\ \A d \in Draft : draft[d].meta \in Meta /\ draft[d].issue \in Num
     /\ made \in [Draft -> [num: Num, resolved: BOOLEAN, state: {"open", "closed"}]]
     /\ pc \in {"idle", "labels", "find", "create", "link", "save"}
     /\ rw.at \in {"idle", "scan", "write"} /\ rw.todo \subseteq File /\ torn \subseteq File
     /\ gen.at \in {"idle", "open", "write"} /\ (gen.at = "idle" <=> gen.todo = <<>>)
     /\ fresh \in BOOLEAN /\ budget \in 0..Budget

(* However often the import fails, loses a reply or is run again, and       *)
(* whoever closes issues meanwhile, a draft has at most one issue.          *)
OneIssuePerDraft ==
  \A m, n \in DOMAIN issues : issues[m].id = issues[n].id => m = n

(* What refers to a draft refers to its issue, through the marker, the      *)
(* issue number, the write-back and the map of another program: the note in *)
(* a draft, each citation the bench got, each row of the generated pages    *)
(* and each link in a body, which is a placeholder until then.              *)
CitationsRight ==
  /\ \A d \in Draft : draft[d].issue # 0 => issues[draft[d].issue].id = d
  /\ \A f \in File : \A i \in DOMAIN bench[f] :
       bench[f][i] # 0 => issues[bench[f][i]].id = Cites[f][i]
  /\ \A p \in Page : \A d \in DOMAIN pages[p].rows :
       pages[p].rows[d].issue # 0 => issues[pages[p].rows[d].issue].id = d
  /\ \A n \in DOMAIN issues : \A t \in issues[n].body :
       t[1] = "issue" => t[3] \in DOMAIN issues /\ issues[t[3]].id = t[2]

(* When an import ends, the issue of each draft it read has the resolved    *)
(* label exactly if the draft is resolved, is closed if the draft is merged *)
(* or closed, links every draft it refers to and has every blocker; and     *)
(* the draft notes the issue.                                               *)
ImportMirrors ==
  pc = "link" /\ calls = {} =>
    \A d \in Loaded :
      LET m == loaded[d].meta
          i == issues[made[d].num]
      IN /\ i.id = d /\ i.resolved = IsResolved(m)
         /\ Closes(m) => i.state = "closed"
         /\ \A x \in (m.refs \cup m.blocked) \cap Loaded : \E t \in i.body : t[1] = "issue" /\ t[2] = x
         /\ \A b \in m.blocked : \E k \in i.deps : issues[k].id = b
         /\ draft[d].issue = made[d].num

(* An issue is closed as a duplicate only after a comment has named the     *)
(* issue of the draft it was merged into.                                   *)
DuplicateNamed ==
  [][\A n \in DOMAIN issues :
       issues'[n].reason = "duplicate" /\ issues[n].reason # "duplicate" =>
         /\ issues[n].comments # <<>>
         /\ issues[Last(issues[n].comments)].id = loaded[issues[n].id].meta.into]_vars

(* With the drafts in order, people who put back what a crash emptied and   *)
(* run the programs again end with every draft filed, every citation of a   *)
(* draft replaced, and both pages listing the drafts as they are.           *)
WorkFinishes == <>[]Coherent =>
  /\ <>[](Present # {} => \A p \in Page : pages[p] = Listing(Table))
  /\ <>[](\A d \in Present : draft[d].issue # 0)
  /\ <>[](\A f \in File : /\ f \notin torn
                        /\ \A i \in DOMAIN bench[f] : bench[f][i] = 0 => Cites[f][i] \notin Present)
=============================================================================

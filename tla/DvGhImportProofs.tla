-------------------------- MODULE DvGhImportProofs --------------------------
(***************************************************************************)
(* What TLAPS proves of the import of bug drafts, for every set of drafts, *)
(* files, citations and edits, and any number of crashes and reruns: a     *)
(* draft has at most one issue, whatever refers to a draft by an issue     *)
(* number refers to its own issue, an import that ends leaves every issue  *)
(* as its draft says, and no issue is closed as a duplicate of nothing.    *)
(***************************************************************************)
EXTENDS DvGhImport, WellFoundedInduction, SequenceTheorems, TLAPS

IssueShape(i) ==
  i = [id |-> i.id, body |-> i.body, resolved |-> i.resolved, state |-> i.state,
       reason |-> i.reason, comments |-> i.comments, deps |-> i.deps]
Filed ==
  /\ Len(issues) \in Nat /\ issues = [n \in 1..Len(issues) |-> issues[n]]
  /\ \A n \in DOMAIN issues : IssueShape(issues[n])

Note == [meta: Meta, issue: Nat]
Typed ==
  /\ draft \in [Draft -> Note] /\ loaded \in [Draft -> Note] /\ held \in Note
  /\ made = [d \in Draft |-> made[d]] /\ \A d \in Draft : made[d].num \in Nat
  /\ bench = [f \in File |-> bench[f]]
  /\ rw = [at |-> rw.at, map |-> rw.map, todo |-> rw.todo, text |-> rw.text,
           left |-> rw.left, rc |-> rw.rc]
  /\ rw.map \in [Draft -> Nat] /\ rw.todo \subseteq File
  /\ pages = [p \in Page |-> pages[p]]
  /\ gen = [at |-> gen.at, rows |-> gen.rows, todo |-> gen.todo]

\* An issue number that stands for draft d is that of an issue of d.
Right(n, d) == n # 0 => n \in DOMAIN issues /\ issues[n].id = d
NotesRight == \A d \in Draft :
  Right(draft[d].issue, d) /\ Right(loaded[d].issue, d) /\ Right(made[d].num, d) /\ Right(rw.map[d], d)

\* The citations of a file, or of the text that is about to replace them.
TextRight(text, f) == \A i \in DOMAIN text : i \in DOMAIN Cites[f] /\ Right(text[i], Cites[f][i])
BenchRight ==
  /\ \A f \in File : TextRight(bench[f], f)
  /\ rw.at = "write" => rw.todo # {} /\ TextRight(rw.text, Least(rw.todo))
BodiesRight == \A n \in DOMAIN issues : \A t \in issues[n].body :
  t[1] = "issue" => t[3] \in DOMAIN issues /\ issues[t[3]].id = t[2]

\* The rows of the pages, and those that gen_readme.py has made for them.
RowsRight(rows) == \A d \in DOMAIN rows : Right(rows[d].issue, d)
TablesRight == RowsRight(gen.rows) /\ \A p \in Page : RowsRight(pages[p].rows)

\* Between the listing and the last creation a draft without an issue in
\* `made` has none; afterwards every draft that was loaded has one.
ListingCurrent == pc = "create" => \A d \in Draft :
  made[d].num = 0 => \A n \in DOMAIN issues : issues[n].id # d
AllMade == pc \in {"link", "save"} => \A d \in Loaded : made[d].num # 0

IInv == /\ Filed /\ Typed /\ NotesRight /\ BenchRight /\ BodiesRight /\ TablesRight
        /\ ListingCurrent /\ AllMade /\ OneIssuePerDraft

\* A step may add issues and change them; it takes none away.
Kept == \A n \in DOMAIN issues : n \in DOMAIN issues' /\ issues'[n].id = issues[n].id

-----------------------------------------------------------------------------
(* A non-empty set of numbers has a least one: the drafts and the files     *)
(* are taken in that order.                                                 *)
LEMMA LeastExists ==
  ASSUME NEW S, S \subseteq Nat, S # {}
  PROVE  \E x \in S : \A y \in S : x <= y
<1>1. \E x \in S : \A y \in S : ~(<<y, x>> \in OpToRel(<, Nat))
  BY NatLessThanWellFounded, WFMin
<1>2. PICK x \in S : \A y \in S : ~(<<y, x>> \in OpToRel(<, Nat))
  BY <1>1
<1>3. \A y \in S : x <= y
  <2> SUFFICES ASSUME NEW y \in S PROVE x <= y
    OBVIOUS
  <2>1. <<y, x>> \in Nat \X Nat /\ <<y, x>>[1] = y /\ <<y, x>>[2] = x
    OBVIOUS
  <2>2. ~(y < x)
    BY <1>2, <2>1 DEF OpToRel
  <2> QED BY <2>2
<1> QED BY <1>3

(* So Least, which CHOOSEs it, is an element of the set.                    *)
LEMMA LeastIn ==
  ASSUME NEW S, S \subseteq Nat, S # {}
  PROVE  Least(S) \in S
BY LeastExists DEF Least

(* Closing, labelling or commenting on an issue keeps every issue's draft.  *)
LEMMA EditKeeps ==
  ASSUME Filed, NEW n, NEW u,
         n \in DOMAIN issues => IssueShape(u) /\ u.id = issues[n].id,
         issues' = [issues EXCEPT ![n] = u]
  PROVE  Filed' /\ Kept /\ DOMAIN issues' = DOMAIN issues
<1>1. issues \in Seq({issues[k] : k \in 1..Len(issues)})
  BY DEF Filed
<1>2. DOMAIN issues' = DOMAIN issues
  OBVIOUS
<1>3. /\ issues' = [k \in 1..Len(issues) |-> IF k = n THEN u ELSE issues[k]]
      /\ DOMAIN issues = 1..Len(issues)
  BY <1>1 DEF Filed
<1>4. Len(issues') = Len(issues)
  BY <1>2, <1>3 DEF Filed
<1> QED BY <1>2, <1>3, <1>4 DEF Filed, Kept

(* So does filing a new one, which comes last.                              *)
LEMMA AppendKeeps ==
  ASSUME Filed, NEW u, IssueShape(u), issues' = Append(issues, u)
  PROVE  /\ Filed' /\ Kept
         /\ DOMAIN issues' = DOMAIN issues \cup {Len(issues) + 1}
         /\ issues'[Len(issues) + 1] = u /\ Len(issues) + 1 \notin DOMAIN issues
<1>1. issues \in Seq({issues[k] : k \in 1..Len(issues)} \cup {u})
  BY DEF Filed
<1>2. DOMAIN issues = 1..Len(issues) /\ Len(issues) \in Nat
  BY <1>1
<1>3. /\ Len(issues') = Len(issues) + 1 /\ DOMAIN issues' = 1..Len(issues) + 1
      /\ \A k \in 1..Len(issues) : issues'[k] = issues[k]
      /\ issues'[Len(issues) + 1] = u
  BY <1>1
<1>4. issues' \in Seq({issues[k] : k \in 1..Len(issues)} \cup {u})
  BY <1>1
<1>5. issues' = [k \in 1..Len(issues') |-> issues'[k]]
  BY <1>4, LenProperties
<1>6. \A k \in DOMAIN issues' : IssueShape(issues'[k])
  BY <1>2, <1>3 DEF Filed
<1> QED BY <1>2, <1>3, <1>5, <1>6 DEF Filed, Kept

(* The number of the issue that a draft has in GitHub, or 0 for none.       *)
LEMMA FoundRight ==
  ASSUME Filed, NEW d \in Draft
  PROVE  /\ Found(d).num \in Nat /\ Right(Found(d).num, d)
         /\ Found(d).num = 0 => Marked(d) = {}
<1>1. DOMAIN issues = 1..Len(issues) /\ Len(issues) \in Nat
  BY DEF Filed
<1>2. CASE Marked(d) = {}
  BY <1>2 DEF Found, NoIssue, Right
<1>3. CASE Marked(d) # {}
  <2> DEFINE n == CHOOSE n \in Marked(d) : \A k \in Marked(d) : n >= k
  <2>1. \E m \in Marked(d) : \A k \in Marked(d) : m >= k
    <3>1. {Len(issues) - k : k \in Marked(d)} \subseteq Nat
      BY <1>1 DEF Marked
    <3>2. PICK x \in {Len(issues) - k : k \in Marked(d)} :
            \A y \in {Len(issues) - k : k \in Marked(d)} : x <= y
      <4> DEFINE S == {Len(issues) - k : k \in Marked(d)}
      <4>1. S \subseteq Nat /\ S # {}
        BY <1>3, <3>1
      <4>2. \E z \in S : \A y \in S : z <= y
        BY <4>1, LeastExists
      <4> QED BY <4>2
    <3>3. PICK m \in Marked(d) : x = Len(issues) - m
      BY <3>2
    <3>4. \A k \in Marked(d) : m >= k
      <4> SUFFICES ASSUME NEW k \in Marked(d) PROVE m >= k
        OBVIOUS
      <4>1. m \in Nat /\ k \in Nat
        BY <1>1 DEF Marked
      <4>2. Len(issues) - m <= Len(issues) - k
        BY <3>2, <3>3
      <4> QED BY <1>1, <4>1, <4>2
    <3> QED BY <3>4
  <2>2. n \in Marked(d)
    BY <2>1
  <2> HIDE DEF n
  <2>3. n \in 1..Len(issues) /\ issues[n].id = d
    BY <1>1, <2>2 DEF Marked
  <2>4. Found(d) = [num |-> n, resolved |-> issues[n].resolved, state |-> issues[n].state]
    BY <1>3 DEF Found, n
  <2> QED BY <1>1, <2>3, <2>4 DEF Right
<1> QED BY <1>2, <1>3
-----------------------------------------------------------------------------
(* The empty text of a file that is being written is a note, without number. *)
LEMMA NoTextTyped == NoText \in Note
<1>1. [state |-> "absent", into |-> 0, blocked |-> {}, refs |-> {}] \in Meta
  BY DEF Meta, States
<1>2. (CHOOSE m \in Meta : TRUE) \in Meta
  BY <1>1
<1> QED BY <1>2 DEF NoText, Note

(* Initially nothing is filed and nothing refers to an issue.               *)
LEMMA InitIInv == Init => IInv
<1> SUFFICES ASSUME Init PROVE IInv
  OBVIOUS
<1> USE DEF Init
<1>1. Len(issues) = 0 /\ DOMAIN issues = {} /\ issues = [n \in 1..0 |-> issues[n]]
  OBVIOUS
<1>2. Filed /\ BodiesRight /\ ListingCurrent /\ AllMade /\ OneIssuePerDraft
  BY <1>1 DEF Filed, BodiesRight, ListingCurrent, AllMade, OneIssuePerDraft
<1>3. PICK s \in Starts : draft = [d \in Draft |-> [meta |-> s[d], issue |-> 0]]
  OBVIOUS
<1>4. s \in [Draft -> Meta] /\ NoText \in Note
  BY ImportAssumption, NoTextTyped
<1>5. Typed
  BY <1>3, <1>4 DEF Typed, Note, NoIssue, NoGen
<1>6. NotesRight
  BY <1>3 DEF NotesRight, Right, NoIssue
<1>7. BenchRight
  <2> SUFFICES ASSUME NEW f \in File PROVE TextRight(bench[f], f)
    BY DEF BenchRight
  <2> QED BY DEF TextRight, Right
<1>8. TablesRight
  BY DEF TablesRight, RowsRight, Listing, NoGen
<1> QED BY <1>2, <1>5, <1>6, <1>7, <1>8 DEF IInv

(* Rows stay right when issues are added or changed.                        *)
LEMMA RowsKept ==
  ASSUME Kept, TablesRight, UNCHANGED tables
  PROVE  TablesRight'
BY DEF Kept, TablesRight, RowsRight, Right, tables

(* A step that changes one issue, keeps its draft and leaves the rest alone. *)
LEMMA EditStep ==
  ASSUME IInv, NEW n, NEW u, issues' = [issues EXCEPT ![n] = u],
         n \in DOMAIN issues =>
           /\ IssueShape(u) /\ u.id = issues[n].id
           /\ \A t \in u.body : t[1] = "issue" => t[3] \in DOMAIN issues /\ issues[t[3]].id = t[2],
         UNCHANGED <<draft, loaded, made, held, pc, bench, rw, tables>>
  PROVE  IInv'
<1>1. Filed' /\ Kept /\ DOMAIN issues' = DOMAIN issues
  BY EditKeeps DEF IInv
<1>2. \A k \in DOMAIN issues : issues'[k] = IF k = n THEN u ELSE issues[k]
  OBVIOUS
<1>3. \A k \in DOMAIN issues : issues'[k].id = issues[k].id
  BY <1>1 DEF Kept
<1>4. Typed' /\ TablesRight'
  BY <1>1, RowsKept DEF IInv, Typed, tables
<1>5. NotesRight'
  BY <1>1, <1>3 DEF IInv, NotesRight, Right
<1>6. BenchRight'
  BY <1>1, <1>3 DEF IInv, BenchRight, TextRight, Right
<1>7. BodiesRight'
  <2> SUFFICES ASSUME NEW k \in DOMAIN issues, NEW t \in issues'[k].body, t[1] = "issue"
               PROVE  t[3] \in DOMAIN issues /\ issues'[t[3]].id = t[2]
    BY <1>1 DEF BodiesRight
  <2>1. t[3] \in DOMAIN issues /\ issues[t[3]].id = t[2]
    BY <1>2 DEF IInv, BodiesRight
  <2> QED BY <1>3, <2>1
<1>8. ListingCurrent' /\ AllMade' /\ OneIssuePerDraft'
  BY <1>1, <1>3 DEF IInv, ListingCurrent, AllMade, OneIssuePerDraft, Loaded, IsPresent
<1> QED BY <1>1, <1>4, <1>5, <1>6, <1>7, <1>8 DEF IInv

(* Pass 1 files an issue for a draft that has none.                         *)
LEMMA CreateStep == IInv /\ CreateIssue => IInv'
<1> SUFFICES ASSUME IInv, CreateIssue PROVE IInv'
  OBVIOUS
<1> DEFINE d == Least(Missing)
           new == [id |-> d, body |-> Body(d), resolved |-> IsResolved(loaded[d].meta),
                   state |-> "open", reason |-> "", comments |-> <<>>, deps |-> {}]
           mine == [num |-> Len(issues) + 1, resolved |-> IsResolved(loaded[d].meta), state |-> "open"]
<1>1. /\ pc = "create" /\ Missing # {} /\ issues' = Append(issues, new)
      /\ made' = [made EXCEPT ![d] = mine]
      /\ UNCHANGED <<draft, pc, loaded, held, bench, rw, tables>>
  BY DEF CreateIssue, rewrite
<1>2. d \in Draft /\ made[d].num = 0
  <2>1. Missing \subseteq Nat /\ Missing \subseteq Draft
    BY ImportAssumption DEF Missing, Loaded
  <2>2. d \in Missing
    BY <1>1, <2>1, LeastIn
  <2> QED BY <2>1, <2>2 DEF Missing
<1>3. /\ new = [id |-> new.id, body |-> new.body, resolved |-> new.resolved, state |-> new.state,
               reason |-> new.reason, comments |-> new.comments, deps |-> new.deps]
      /\ new.id = d /\ new.body = Body(d) /\ mine.num = Len(issues) + 1
  OBVIOUS
<1> HIDE DEF d, new, mine
<1>4. /\ Filed' /\ Kept /\ DOMAIN issues' = DOMAIN issues \cup {Len(issues) + 1}
      /\ issues'[Len(issues) + 1] = new /\ Len(issues) + 1 \notin DOMAIN issues
  BY <1>1, <1>3, AppendKeeps DEF IInv, IssueShape
<1>5. \A k \in DOMAIN issues : issues'[k].id = issues[k].id /\ issues'[k] = issues[k]
  <2>1. DOMAIN issues = 1..Len(issues) /\ issues \in Seq({issues[k] : k \in 1..Len(issues)} \cup {new})
    BY DEF IInv, Filed
  <2> QED BY <1>1, <2>1
<1>6. Len(issues) \in Nat /\ DOMAIN made = Draft
  BY DEF IInv, Filed, Typed
<1>7. Typed' /\ TablesRight'
  BY <1>1, <1>3, <1>4, <1>6, RowsKept DEF IInv, Typed, tables
<1>8. NotesRight'
  <2> SUFFICES ASSUME NEW e \in Draft PROVE NotesRight!(e)'
    BY DEF NotesRight
  <2>1. Right(draft[e].issue, e)' /\ Right(loaded[e].issue, e)' /\ Right(rw.map[e], e)'
    BY <1>1, <1>4, <1>5 DEF IInv, NotesRight, Right
  <2>2. Right(made[e].num, e)'
    BY <1>1, <1>3, <1>4, <1>5, <1>6 DEF IInv, NotesRight, Right
  <2> QED BY <2>1, <2>2
<1>9. BenchRight'
  BY <1>1, <1>4, <1>5 DEF IInv, BenchRight, TextRight, Right
<1>10. BodiesRight'
  <2> SUFFICES ASSUME NEW k \in DOMAIN issues', NEW t \in issues'[k].body, t[1] = "issue"
               PROVE  t[3] \in DOMAIN issues' /\ issues'[t[3]].id = t[2]
    BY DEF BodiesRight
  <2>1. CASE k \in DOMAIN issues
    BY <1>4, <1>5, <2>1 DEF IInv, BodiesRight
  <2>2. CASE k = Len(issues) + 1
    <3>1. t \in Body(d)
      BY <1>3, <1>4, <2>2
    <3>2. t[1] \in {"placeholder", "text"}
      BY <3>1 DEF Body
    <3> QED BY <3>2
  <2> QED BY <1>4, <2>1, <2>2
<1>11. ListingCurrent'
  <2> SUFFICES ASSUME NEW e \in Draft, made'[e].num = 0, NEW k \in DOMAIN issues'
               PROVE  issues'[k].id # e
    BY DEF ListingCurrent
  <2>1. e # d /\ made[e].num = 0
    BY <1>1, <1>3, <1>6
  <2>2. CASE k \in DOMAIN issues
    BY <1>1, <1>5, <2>1, <2>2 DEF IInv, ListingCurrent
  <2>3. CASE k = Len(issues) + 1
    BY <1>3, <1>4, <2>1, <2>3
  <2> QED BY <1>4, <2>2, <2>3
<1>12. AllMade'
  BY <1>1 DEF AllMade
<1>13. OneIssuePerDraft'
  <2> SUFFICES ASSUME NEW m \in DOMAIN issues', NEW k \in DOMAIN issues', issues'[m].id = issues'[k].id
               PROVE  m = k
    BY DEF OneIssuePerDraft
  <2>1. \A j \in DOMAIN issues : issues'[j].id # d
    BY <1>1, <1>2, <1>5 DEF IInv, ListingCurrent
  <2>2. CASE m \in DOMAIN issues /\ k \in DOMAIN issues
    BY <1>5, <2>2 DEF IInv, OneIssuePerDraft
  <2> QED BY <1>3, <1>4, <2>1, <2>2
<1> QED BY <1>4, <1>7, <1>8, <1>9, <1>10, <1>11, <1>12, <1>13 DEF IInv

(* Pass 2: an issue's body, blockers, label, comments and state.            *)
LEMMA Pass2CallStep ==
  ASSUME IInv, NEW d \in Draft, NEW b \in Draft,
         \/ UpdateBody(d) \/ AddBlockedBy(d, b) \/ SyncResolvedLabel(d)
         \/ CommentDuplicate(d) \/ CloseIssue(d)
  PROVE  IInv'
<1>1. PICK c, u : Call(c, d, u) /\ \/ u = [Mine(d) EXCEPT !.body = ResolvePlaceholders(Body(d))]
                                   \/ u = [Mine(d) EXCEPT !.deps = @ \cup {made[b].num}]
                                   \/ u = [Mine(d) EXCEPT !.resolved = IsResolved(loaded[d].meta)]
                                   \/ u = [Mine(d) EXCEPT !.comments = Append(@, made[loaded[d].meta.into].num)]
                                   \/ u = [Mine(d) EXCEPT !.state = "closed", !.reason = Reason(loaded[d].meta)]
  BY DEF UpdateBody, AddBlockedBy, SyncResolvedLabel, CommentDuplicate, CloseIssue
<1> DEFINE n == made[d].num
<1>2. /\ pc = "link" /\ issues' = [issues EXCEPT ![n] = u]
      /\ UNCHANGED <<draft, loaded, made, held, pc, bench, rw, tables>>
  BY <1>1 DEF Call, Turn, rewrite
<1>3. ASSUME n \in DOMAIN issues
      PROVE  /\ IssueShape(u) /\ u.id = issues[n].id
             /\ \A t \in u.body : t[1] = "issue" => t[3] \in DOMAIN issues /\ issues[t[3]].id = t[2]
  <2> DEFINE i == issues[n]
  <2>1. IssueShape(i) /\ Mine(d) = i
    BY <1>3 DEF IInv, Filed, Mine
  <2> HIDE DEF i
  <2>2. IssueShape(u) /\ u.id = i.id /\ (u.body = i.body \/ u.body = ResolvePlaceholders(Body(d)))
    BY <1>1, <2>1 DEF IssueShape
  <2>3. \A t \in i.body : t[1] = "issue" => t[3] \in DOMAIN issues /\ issues[t[3]].id = t[2]
    BY <1>3 DEF IInv, BodiesRight, i
  <2>4. ASSUME NEW t \in ResolvePlaceholders(Body(d)), t[1] = "issue"
        PROVE  t[3] \in DOMAIN issues /\ issues[t[3]].id = t[2]
    <3>1. PICK q \in Body(d) :
            t = IF q[1] = "placeholder" THEN <<"issue", q[2], made[q[2]].num>> ELSE q
      BY DEF ResolvePlaceholders
    <3>2. \/ \E x \in Loaded : q = <<"placeholder", x>>
          \/ \E x : q = <<"text", x>>
      BY DEF Body
    <3>3. PICK x \in Loaded : q = <<"placeholder", x>>
      BY <2>4, <3>1, <3>2
    <3>4. t[2] = x /\ t[3] = made[x].num
      BY <3>1, <3>3
    <3>5. x \in Draft /\ made[x].num # 0
      BY <1>2 DEF IInv, AllMade, Loaded
    <3> QED BY <3>4, <3>5 DEF IInv, NotesRight, Right
  <2> QED BY <2>2, <2>3, <2>4 DEF i
<1> HIDE DEF n
<1> QED BY <1>2, <1>3, EditStep

(* Somebody else closes an issue.                                            *)
LEMMA ClosedStep ==
  ASSUME IInv, NEW n \in DOMAIN issues, ClosedByOthers(n)
  PROVE  IInv'
<1> DEFINE u == [issues[n] EXCEPT !.state = "closed", !.reason = "others"]
<1>1. issues' = [issues EXCEPT ![n] = u] /\ UNCHANGED <<draft, loaded, made, held, pc, bench, rw, tables>>
  <2>1. issues' = [issues EXCEPT ![n].state = "closed", ![n].reason = "others"]
    BY DEF ClosedByOthers
  <2>2. DOMAIN issues = 1..Len(issues) /\ issues = [k \in DOMAIN issues |-> issues[k]]
    BY DEF IInv, Filed
  <2>3. issues' = [issues EXCEPT ![n] = u]
    BY <2>1, <2>2
  <2> QED BY <2>3 DEF ClosedByOthers, import, rewrite
<1>2. PICK i : i = issues[n] /\ IssueShape(i)
  BY DEF IInv, Filed
<1>3. IssueShape(u) /\ u.id = i.id /\ u.body = i.body
  <2>1. u = [i EXCEPT !.state = "closed", !.reason = "others"]
    BY <1>2
  <2> HIDE DEF u
  <2> QED BY <1>2, <2>1 DEF IssueShape
<1> HIDE DEF u
<1> QED BY <1>1, <1>2, <1>3, EditStep DEF IInv, BodiesRight

(* The steps of the import that file and change no issue.                   *)
LEMMA ListStep == IInv /\ (ImportStart \/ EnsureLabels \/ ExistingIssues \/ StartPass2
                            \/ ImportEnds \/ ImportFails) => IInv'
<1> SUFFICES ASSUME IInv, \/ ImportStart \/ EnsureLabels \/ ExistingIssues \/ StartPass2
                          \/ ImportEnds \/ ImportFails
             PROVE  IInv'
  OBVIOUS
<1>1. UNCHANGED <<draft, issues, bench, rw, tables>>
  BY DEF ImportStart, EnsureLabels, ExistingIssues, StartPass2, ImportEnds, ImportFails, rewrite
<1>2. Filed' /\ BenchRight' /\ BodiesRight' /\ OneIssuePerDraft'
  BY <1>1 DEF IInv, Filed, BenchRight, TextRight, Right, BodiesRight, OneIssuePerDraft
<1>3. /\ loaded' \in [Draft -> Note] /\ held' \in Note
      /\ made' = [d \in Draft |-> made'[d]]
      /\ \A d \in Draft : /\ made'[d].num \in Nat /\ Right(made'[d].num, d)
                          /\ Right(loaded'[d].issue, d)
  <2>1. CASE ExistingIssues
    BY <2>1, FoundRight DEF IInv, Typed, NotesRight, ExistingIssues
  <2>2. CASE ImportFails
    <3>1. NoText \in Note
      BY NoTextTyped
    <3>2. made' = [d \in Draft |-> NoIssue] /\ NoIssue.num = 0 /\ held' = NoText /\ loaded' = loaded
      BY <2>2 DEF ImportFails, NoIssue
    <3> QED BY <3>1, <3>2 DEF IInv, Typed, NotesRight, Right
  <2>3. CASE ImportStart
    BY <2>3 DEF IInv, Typed, NotesRight, ImportStart
  <2>4. CASE EnsureLabels \/ StartPass2 \/ ImportEnds
    BY <2>4 DEF IInv, Typed, NotesRight, EnsureLabels, StartPass2, ImportEnds
  <2> QED BY <2>1, <2>2, <2>3, <2>4
<1>4. Typed' /\ NotesRight' /\ TablesRight'
  BY <1>1, <1>3 DEF IInv, Typed, NotesRight, TablesRight, RowsRight, Right, tables
<1>5. ListingCurrent'
  <2>1. CASE ExistingIssues
    BY <1>1, <2>1, FoundRight DEF IInv, ListingCurrent, ExistingIssues, Marked
  <2>2. CASE ~ExistingIssues
    <3>1. pc' # "create"
      BY <2>2 DEF ImportStart, EnsureLabels, StartPass2, ImportEnds, ImportFails
    <3> QED BY <3>1 DEF ListingCurrent
  <2> QED BY <2>1, <2>2
<1>6. AllMade'
  <2>1. CASE StartPass2
    <3>1. UNCHANGED <<loaded, made>> /\ Missing = {}
      BY <2>1 DEF StartPass2
    <3> QED BY <3>1 DEF AllMade, Missing, Loaded, IsPresent
  <2>2. CASE ~StartPass2
    <3>1. pc' \notin {"link", "save"}
      BY <2>2 DEF ImportStart, EnsureLabels, ExistingIssues, ImportEnds, ImportFails
    <3> QED BY <3>1 DEF AllMade
  <2> QED BY <2>1, <2>2
<1> QED BY <1>2, <1>4, <1>5, <1>6 DEF IInv

(* What writes drafts: the write-back, editors, and whoever puts back a      *)
(* draft that a crash has emptied.                                          *)
LEMMA DraftStep ==
  ASSUME IInv, NEW d \in Draft, NEW m \in Meta,
         \/ WriteBackOpen(d) \/ WriteBackText(d) \/ Revise(d, m) \/ RestoreDraft(d)
  PROVE  IInv'
<1>1. UNCHANGED <<issues, loaded, made, bench, rw, tables>>
  BY DEF WriteBackOpen, WriteBackText, Revise, RestoreDraft, import, rewrite
<1>2. draft[d] \in Note /\ loaded[d] \in Note /\ held \in Note /\ made[d].num \in Nat
  BY DEF IInv, Typed
<1>3. PICK new : /\ draft' = [draft EXCEPT ![d] = new] /\ new \in Note /\ Right(new.issue, d)
                 /\ held' \in Note
  <2>1. CASE WriteBackOpen(d)
    <3> DEFINE new == [draft[d] EXCEPT !.meta.state = "torn"]
    <3>1. draft' = [draft EXCEPT ![d] = new] /\ held' = draft[d]
      BY <2>1 DEF WriteBackOpen
    <3>2. draft[d].meta \in Meta /\ [draft[d].meta EXCEPT !.state = "torn"] \in Meta
      BY <1>2 DEF Note, Meta, States
    <3>3. new = [draft[d] EXCEPT !.meta = [draft[d].meta EXCEPT !.state = "torn"]]
      BY <1>2 DEF Note
    <3>4. new \in Note /\ new.issue = draft[d].issue
      BY <1>2, <3>2, <3>3 DEF Note
    <3> QED BY <1>2, <3>1, <3>4 DEF IInv, NotesRight
  <2>2. CASE WriteBackText(d)
    <3> DEFINE new == [held EXCEPT !.issue = made[d].num]
    <3>1. draft' = [draft EXCEPT ![d] = new] /\ held' = NoText
      BY <2>2 DEF WriteBackText
    <3>2. new \in Note /\ new.issue = made[d].num
      BY <1>2 DEF Note
    <3> QED BY <3>1, <3>2, NoTextTyped DEF IInv, NotesRight
  <2>3. CASE Revise(d, m)
    <3> DEFINE new == [draft[d] EXCEPT !.meta = m]
    <3>1. draft' = [draft EXCEPT ![d] = new] /\ held' = held
      BY <2>3 DEF Revise
    <3>2. new \in Note /\ new.issue = draft[d].issue
      BY <1>2 DEF Note
    <3> QED BY <1>2, <3>1, <3>2 DEF IInv, NotesRight
  <2>4. CASE RestoreDraft(d)
    BY <1>2, <2>4 DEF RestoreDraft, import, IInv, NotesRight
  <2> QED BY <2>1, <2>2, <2>3, <2>4
<1>4. Typed' /\ NotesRight' /\ TablesRight'
  BY <1>1, <1>3 DEF IInv, Typed, NotesRight, TablesRight, RowsRight, Right, tables
<1>5. Filed' /\ BenchRight' /\ BodiesRight' /\ OneIssuePerDraft'
  BY <1>1 DEF IInv, Filed, BenchRight, TextRight, Right, BodiesRight, OneIssuePerDraft
<1>6. /\ pc' = "create" => pc = "create"
      /\ pc' \in {"link", "save"} => pc \in {"link", "save"}
  BY DEF WriteBackOpen, WriteBackText, Revise, RestoreDraft, Turn, import
<1>7. ListingCurrent' /\ AllMade'
  BY <1>1, <1>6 DEF IInv, ListingCurrent, AllMade, Loaded, IsPresent
<1> QED BY <1>4, <1>5, <1>7 DEF IInv

(* rewrite_refs.py, and whoever puts back a file that it had emptied.        *)
LEMMA RewriteStep ==
  ASSUME IInv,
         \/ RewriteStart \/ RewriteFile \/ RewriteText \/ RewriteEnds \/ RewriteFails
         \/ \E g \in File : RestoreFile(g)
  PROVE  IInv'
<1>1. UNCHANGED <<issues, draft, loaded, made, held, pc, tables>>
  BY DEF RewriteStart, RewriteFile, RewriteText, RewriteEnds, RewriteFails, RestoreFile, import
<1>2. Filed' /\ BodiesRight' /\ OneIssuePerDraft' /\ ListingCurrent' /\ AllMade'
  BY <1>1 DEF IInv, Filed, BodiesRight, OneIssuePerDraft, ListingCurrent, AllMade, Loaded, IsPresent
<1>3. rw.todo # {} => Least(rw.todo) \in rw.todo /\ Least(rw.todo) \in File
  BY LeastIn, ImportAssumption DEF IInv, Typed
<1>4. Typed' /\ NotesRight' /\ TablesRight'
  <2>1. bench' = [f \in File |-> bench'[f]]
    BY DEF IInv, Typed, RewriteStart, RewriteFile, RewriteText, RewriteEnds, RewriteFails, RestoreFile
  <2>2. /\ rw' = [at |-> rw'.at, map |-> rw'.map, todo |-> rw'.todo, text |-> rw'.text,
                  left |-> rw'.left, rc |-> rw'.rc]
        /\ rw'.map \in [Draft -> Nat] /\ rw'.todo \subseteq File
        /\ \A d \in Draft : Right(rw'.map[d], d)
    <3>1. CASE RewriteStart
      <4>1. \A d \in Draft : draft[d].issue \in Nat /\ Right(draft[d].issue, d)
        BY DEF IInv, Typed, Note, NotesRight
      <4> QED BY <3>1, <4>1 DEF RewriteStart, IInv, Typed
    <3>2. CASE RewriteFile
      BY <3>2 DEF RewriteFile, IInv, Typed, NotesRight
    <3>3. CASE RewriteText
      BY <3>3 DEF RewriteText, IInv, Typed, NotesRight
    <3>4. CASE RewriteEnds
      BY <3>4 DEF RewriteEnds, IInv, Typed, NotesRight
    <3>5. CASE RewriteFails
      BY <3>5 DEF RewriteFails, IInv, Typed, NotesRight
    <3>6. CASE \E g \in File : RestoreFile(g)
      BY <3>6 DEF RestoreFile, IInv, Typed, NotesRight
    <3> QED BY <3>1, <3>2, <3>3, <3>4, <3>5, <3>6
  <2> QED BY <1>1, <2>1, <2>2 DEF IInv, Typed, NotesRight, TablesRight, RowsRight, Right, tables
<1>5. BenchRight'
  <2>1. CASE RewriteFile
    <3> DEFINE f == Least(rw.todo)
    <3>1. rw.todo # {} /\ f \in File
      BY <1>3, <2>1 DEF RewriteFile
    <3>2. TextRight(Replaced(f), f)
      <4> SUFFICES ASSUME NEW i \in DOMAIN bench[f]
                   PROVE  i \in DOMAIN Cites[f] /\ Right(Replaced(f)[i], Cites[f][i])
        BY DEF TextRight, Replaced
      <4>1. i \in DOMAIN Cites[f] /\ Right(bench[f][i], Cites[f][i])
        BY <3>1 DEF IInv, BenchRight, TextRight
      <4>2. Cites[f][i] \in Draft
        <5>1. Cites[f] \in Seq(Draft)
          BY <3>1, ImportAssumption
        <5> QED BY <4>1, <5>1
      <4> QED BY <4>1, <4>2 DEF Replaced, IInv, NotesRight
    <3>3. CASE Replaced(f) = bench[f]
      <4>1. bench' = bench /\ rw'.at = "scan"
        BY <2>1, <3>3 DEF RewriteFile, IInv, Typed
      <4> QED BY <1>1, <4>1 DEF IInv, BenchRight, TextRight, Right
    <3>4. CASE Replaced(f) # bench[f]
      <4>1. bench' = [bench EXCEPT ![f] = <<>>] /\ rw'.text = Replaced(f) /\ rw'.todo = rw.todo
        BY <2>1, <3>4 DEF RewriteFile, IInv, Typed
      <4>2. \A e \in File : TextRight(bench'[e], e)
        BY <3>1, <4>1 DEF IInv, BenchRight, Typed, TextRight
      <4>3. TextRight(rw'.text, Least(rw'.todo))
        BY <3>2, <4>1
      <4> HIDE DEF f
      <4> QED BY <1>1, <3>1, <4>1, <4>2, <4>3 DEF BenchRight, TextRight, Right
    <3> QED BY <3>3, <3>4
  <2>2. CASE RewriteText
    <3> DEFINE f == Least(rw.todo)
    <3>1. rw.at = "write" /\ bench' = [bench EXCEPT ![f] = rw.text] /\ rw'.at = "scan"
      BY <2>2 DEF RewriteText, IInv, Typed
    <3>2. TextRight(rw.text, f)
      BY <3>1 DEF IInv, BenchRight
    <3> HIDE DEF f
    <3>3. \A e \in File : TextRight(bench'[e], e)
      BY <3>1, <3>2 DEF IInv, BenchRight, Typed
    <3> QED BY <1>1, <3>1, <3>3 DEF BenchRight, TextRight, Right
  <2>3. CASE \E g \in File : RestoreFile(g)
    <3>0. PICK g \in File : RestoreFile(g)
      BY <2>3
    <3>1. /\ bench' = [bench EXCEPT ![g] = [i \in DOMAIN Cites[g] |-> 0]]
          /\ rw' = rw /\ rw.at = "idle"
      BY <3>0 DEF RestoreFile
    <3>2. \A e \in File : TextRight(bench'[e], e)
      BY <3>1 DEF IInv, BenchRight, Typed, TextRight, Right
    <3> QED BY <1>1, <3>1, <3>2 DEF BenchRight, TextRight, Right
  <2>4. CASE RewriteStart \/ RewriteEnds \/ RewriteFails
    <3>1. bench' = bench /\ rw'.at # "write"
      BY <2>4 DEF RewriteStart, RewriteEnds, RewriteFails, IInv, Typed
    <3> QED BY <1>1, <3>1 DEF IInv, BenchRight, TextRight, Right
  <2> QED BY <2>1, <2>2, <2>3, <2>4
<1> QED BY <1>2, <1>4, <1>5 DEF IInv

(* gen_readme.py, and whoever puts back a page that it had emptied.          *)
LEMMA GenerateStep ==
  ASSUME IInv, \/ GenStart \/ GenOpen \/ GenText \/ GenFails
               \/ \E p \in Page : RestorePage(p)
  PROVE  IInv'
<1>1. UNCHANGED <<draft, issues, import, rewrite>>
  BY DEF GenStart, GenOpen, GenText, GenFails, RestorePage
<1>2. /\ Filed' /\ NotesRight' /\ BenchRight' /\ BodiesRight'
      /\ ListingCurrent' /\ AllMade' /\ OneIssuePerDraft'
  BY <1>1 DEF import, rewrite, IInv, Filed, NotesRight, BenchRight, TextRight, BodiesRight,
              Right, ListingCurrent, AllMade, OneIssuePerDraft, Loaded, IsPresent
<1>3. RowsRight(<<>>) /\ RowsRight(Table)
  BY DEF RowsRight, Right, Table, Row, Present, IInv, NotesRight
<1>4. pages' = [p \in Page |-> pages'[p]] /\ \A p \in Page : RowsRight(pages'[p].rows)
  <2> USE DEF IInv, Typed, TablesRight
  <2>1. CASE GenStart \/ GenFails
    BY <2>1 DEF GenStart, GenFails
  <2>2. CASE GenOpen
    BY <1>3, <2>2 DEF GenOpen
  <2>3. CASE GenText
    BY <2>3 DEF GenText, Listing
  <2>4. CASE \E p \in Page : RestorePage(p)
    <3>1. PICK q \in Page : pages' = [pages EXCEPT ![q] = Listing(<<>>)]
      BY <2>4 DEF RestorePage
    <3>2. Listing(<<>>).rows = <<>>
      BY DEF Listing
    <3> QED BY <1>3, <3>1, <3>2
  <2> QED BY <2>1, <2>2, <2>3, <2>4
<1>5. /\ gen' = [at |-> gen'.at, rows |-> gen'.rows, todo |-> gen'.todo]
      /\ RowsRight(gen'.rows)
  <2>1. CASE GenStart
    BY <1>3, <2>1 DEF GenStart
  <2>2. CASE gen' = NoGen
    BY <1>3, <2>2 DEF NoGen
  <2>3. CASE GenOpen \/ (GenText /\ gen' # NoGen)
    BY <2>3 DEF GenOpen, GenText, IInv, Typed, TablesRight
  <2>4. CASE \E p \in Page : RestorePage(p)
    BY <2>4 DEF RestorePage, IInv, Typed, TablesRight
  <2> QED BY <2>1, <2>2, <2>3, <2>4 DEF GenFails
<1>6. Typed'
  BY <1>1, <1>4, <1>5 DEF import, rewrite, IInv, Typed
<1>7. TablesRight'
  BY <1>1, <1>4, <1>5 DEF TablesRight, RowsRight, Right
<1> QED BY <1>2, <1>6, <1>7 DEF IInv
-----------------------------------------------------------------------------
(* Every step keeps the invariant: one case per process and per kind of step. *)
LEMMA Inductive == IInv /\ [Next]_vars => IInv'
<1> SUFFICES ASSUME IInv, [Next]_vars PROVE IInv'
  OBVIOUS
<1>1. CASE Import
  <2>1. CASE ImportStart \/ EnsureLabels \/ ExistingIssues \/ StartPass2 \/ ImportEnds
    BY <2>1, ListStep
  <2>2. CASE CreateIssue
    BY <2>2, CreateStep
  <2>3. CASE Pass2Step
    <3>1. PICK d \in Draft :
            \/ UpdateBody(d) \/ SyncResolvedLabel(d) \/ CommentDuplicate(d) \/ CloseIssue(d)
            \/ WriteBackOpen(d) \/ WriteBackText(d)
            \/ \E b \in Draft : AddBlockedBy(d, b)
      BY <2>3 DEF Pass2Step
    <3>2. CASE WriteBackOpen(d) \/ WriteBackText(d)
      <4>1. PICK m \in Meta : TRUE
        BY DEF IInv, Typed, Note
      <4> QED BY <3>2, <4>1, DraftStep
    <3> QED BY <3>1, <3>2, Pass2CallStep
  <2> QED BY <1>1, <2>1, <2>2, <2>3 DEF Import
<1>2. CASE ImportFails
  BY <1>2, ListStep
<1>3. CASE Rewrite \/ RewriteFails \/ \E f \in File : RestoreFile(f)
  BY <1>3, RewriteStep DEF Rewrite
<1>4. CASE \E d \in Draft : RestoreDraft(d)
  <2>1. PICK d \in Draft, m \in Meta : RestoreDraft(d)
    BY <1>4 DEF IInv, Typed, Note
  <2> QED BY <2>1, DraftStep
<1>5. CASE \E r \in Revisions : Revise(r[1], r[2])
  <2>1. PICK r \in Revisions : Revise(r[1], r[2])
    BY <1>5
  <2>2. r[1] \in Draft /\ r[2] \in Meta
    BY ImportAssumption
  <2> QED BY <2>1, <2>2, DraftStep
<1>6. CASE \E n \in DOMAIN issues : ClosedByOthers(n)
  BY <1>6, ClosedStep
<1>7. CASE Generate \/ GenFails \/ \E p \in Page : RestorePage(p)
  BY <1>7, GenerateStep DEF Generate
<1>8. CASE UNCHANGED vars
  BY <1>8 DEF vars, import, rewrite, tables, IInv, TablesRight, RowsRight, Filed, Typed, NotesRight, BenchRight, TextRight,
              BodiesRight, Right, ListingCurrent, AllMade, OneIssuePerDraft, Loaded, IsPresent
<1> QED BY <1>1, <1>2, <1>3, <1>4, <1>5, <1>6, <1>7, <1>8 DEF Next, Restore

(* So it holds in every state that the import can reach.                      *)
LEMMA InvariantHolds == Spec => []IInv
BY InitIInv, Inductive, PTL DEF Spec

(* However often the import is killed and run again, whichever replies are   *)
(* lost and whatever is edited, a draft has at most one issue.               *)
THEOREM OneIssue == Spec => []OneIssuePerDraft
<1>1. IInv => OneIssuePerDraft
  BY DEF IInv
<1> QED BY <1>1, InvariantHolds, PTL

(* Every note in a draft, every citation that the bench got, every row of    *)
(* the generated pages and every link in the body of an issue names the      *)
(* issue of the draft it stands for.                                         *)
THEOREM ReferencesAreRight == Spec => []CitationsRight
<1>1. IInv => CitationsRight
  BY DEF IInv, NotesRight, BenchRight, TextRight, BodiesRight, TablesRight, RowsRight, Right,
         CitationsRight
<1> QED BY <1>1, InvariantHolds, PTL
-----------------------------------------------------------------------------
(***************************************************************************)
(* What an import leaves behind.  The invariant says of every call that is *)
(* no longer to be made that the issue, or the draft, shows it.            *)
(***************************************************************************)
Issue == [num: Nat, resolved: BOOLEAN, state: {"open", "closed"}]
IssuesTyped == \A n \in DOMAIN issues :
  /\ issues[n].resolved \in BOOLEAN /\ issues[n].state \in {"open", "closed"}
  /\ issues[n].comments \in Seq(Nat)
Kinds ==
  /\ \A d \in Draft : made[d] \in Issue
  /\ pc \in {"idle", "labels", "find", "create", "link", "save"}
  /\ rw.at \in {"idle", "scan", "write"} /\ torn \subseteq File
  /\ gen.at \in {"idle", "open", "write"} /\ (gen.at = "idle" <=> gen.todo = <<>>)
  /\ fresh \in BOOLEAN /\ budget \in 0..Budget

\* The calls that are left are for what was read.
Pending ==
  /\ calls # {} => pc \in {"link", "save"}
  /\ \A c \in calls : c[2] \in Loaded
  /\ \A d \in Draft : CommentCall(d) \in calls => loaded[d].meta.state = "merged"

\* What was read was in order, and a draft is empty only while it is written.
ReadInOrder == pc # "idle" => \A d \in Loaded :
  /\ loaded[d].meta.blocked \subseteq Loaded
  /\ loaded[d].meta.state = "merged" => loaded[d].meta.into \in Loaded
Whole ==
  /\ pc \notin {"idle", "save"} => \A d \in Draft : draft[d].meta.state # "torn"
  /\ pc = "save" => /\ held.meta.state # "torn"
                    /\ \A d \in Draft : draft[d].meta.state = "torn" => Up(SaveCall(d))

\* What pass 1 knows of an issue is what the issue says.
Known == pc = "create" => \A d \in Draft : made[d].num # 0 =>
  /\ Mine(d).resolved = made[d].resolved
  /\ made[d].state = "closed" => Mine(d).state = "closed"

Linked(d) == BodyCall(d) \notin calls =>
  \A x \in (loaded[d].meta.refs \cup loaded[d].meta.blocked) \cap Loaded :
    \E t \in Mine(d).body : t[1] = "issue" /\ t[2] = x
Blocked(d) == \A b \in loaded[d].meta.blocked : BlockCall(d, b) \notin calls =>
  \E k \in Mine(d).deps : k \in DOMAIN issues /\ issues[k].id = b
Labelled(d) == LabelCall(d) \notin calls => Mine(d).resolved = IsResolved(loaded[d].meta)
Shut(d) == CloseCall(d) \notin calls /\ Closes(loaded[d].meta) => Mine(d).state = "closed"
Named(d) ==
  CloseCall(d) \in calls /\ loaded[d].meta.state = "merged" /\ CommentCall(d) \notin calls =>
    /\ Mine(d).comments # <<>> /\ Last(Mine(d).comments) \in DOMAIN issues
    /\ issues[Last(Mine(d).comments)].id = loaded[d].meta.into
Noted(d) == SaveCall(d) \notin calls => draft[d].issue = made[d].num
Shown(d) == Linked(d) /\ Blocked(d) /\ Labelled(d) /\ Shut(d) /\ Named(d)
Done == pc \in {"link", "save"} => \A d \in Loaded : Shown(d) /\ Noted(d)

JInv == IssuesTyped /\ Kinds /\ Pending /\ ReadInOrder /\ Whole /\ Known /\ Done

-----------------------------------------------------------------------------
(* The calls of the write-back come in the order of the drafts, and the     *)
(* comment comes before the closing.                                        *)
LEMMA Order ==
  ASSUME NEW d \in Draft, NEW e \in Draft
  PROVE  /\ Earlier(SaveCall(d), SaveCall(e)) => d < e
         /\ ~ Earlier(CloseCall(d), CommentCall(d))
<1>1. d \in Nat /\ e \in Nat
  BY ImportAssumption
<1>2. ASSUME Earlier(SaveCall(d), SaveCall(e)) PROVE d < e
  <2>1. PICK i \in 1..4 : SaveCall(d)[i] < SaveCall(e)[i]
    BY <1>2 DEF Earlier
  <2>2. i \in {1, 2, 3, 4}
    BY <2>1
  <2> QED BY <1>1, <2>1, <2>2 DEF SaveCall
<1>3. ~ Earlier(CloseCall(d), CommentCall(d))
  <2> SUFFICES ASSUME NEW i \in 1..4, CloseCall(d)[i] < CommentCall(d)[i],
                      \A j \in 1..i-1 : CloseCall(d)[j] = CommentCall(d)[j]
               PROVE  FALSE
    BY DEF Earlier
  <2>1. i \in {1, 2, 3, 4}
    OBVIOUS
  <2>2. i = 4
    BY <1>1, <2>1 DEF CloseCall, CommentCall
  <2>3. 3 \in 1..i-1
    BY <2>2
  <2>4. CloseCall(d)[3] = CommentCall(d)[3]
    BY <2>3
  <2> QED BY <2>4 DEF CloseCall, CommentCall
<1> QED BY <1>2, <1>3

(* One draft at a time is being written back.                                *)
LEMMA OneSave ==
  ASSUME NEW d \in Draft, NEW e \in Draft, Up(SaveCall(d)), Up(SaveCall(e))
  PROVE  d = e
<1> SUFFICES ASSUME d # e PROVE FALSE
  OBVIOUS
<1>1. SaveCall(d) # SaveCall(e)
  BY DEF SaveCall
<1>2. d < e /\ e < d
  BY <1>1, Order DEF Up
<1>3. d \in Nat /\ e \in Nat
  BY ImportAssumption
<1> QED BY <1>2, <1>3

(* Initially nothing is being imported.                                     *)
LEMMA InitJInv == Init => JInv
<1> SUFFICES ASSUME Init PROVE JInv
  OBVIOUS
<1>1. IssuesTyped /\ Pending /\ ReadInOrder /\ Whole /\ Known /\ Done
  BY DEF Init, IssuesTyped, Pending, ReadInOrder, Whole, Known, Done
<1>2. Kinds
  <2>1. budget \in 0..Budget
    BY ImportAssumption DEF Init
  <2> QED BY <2>1 DEF Init, Kinds, Issue, NoIssue, NoGen
<1> QED BY <1>1, <1>2 DEF JInv

\* What JInv is about, apart from the issues.
JKept == UNCHANGED <<draft, pc, loaded, made, calls, held>>

(* The types of what a step of pass 2 does not touch stay.                  *)
LEMMA KindsKept ==
  ASSUME Kinds, UNCHANGED <<made, pc, fresh, rewrite, tables, budget>>
  PROVE  Kinds'
BY DEF Kinds, rewrite, tables

(* A step that changes neither what is read, the drafts nor the calls keeps *)
(* every row of the state that only those determine.                        *)
LEMMA StateKept ==
  ASSUME JInv, JKept
  PROVE  Pending' /\ ReadInOrder' /\ Whole'
BY DEF JInv, JKept, Pending, ReadInOrder, Whole, Up, Loaded, IsPresent

(* The issue that pass 1 found or made for a draft.                         *)
LEMMA MadeIssue ==
  ASSUME IInv, NEW d \in Draft, made[d].num # 0
  PROVE  made[d].num \in DOMAIN issues /\ Mine(d).id = d
BY DEF IInv, NotesRight, Right, Mine

(* What a step that keeps the import and changes the issue of one draft     *)
(* leaves as it was of the others.                                          *)
LEMMA OthersShown ==
  ASSUME IInv, NEW d \in Draft, NEW e \in Draft, d # e,
         made[d].num # 0, made[e].num # 0, Shown(e), NEW u,
         Kept, UNCHANGED <<loaded, made>>,
         issues' = [issues EXCEPT ![made[d].num] = u],
         calls' \subseteq calls, \A c \in calls \ calls' : c[2] = d
  PROVE  Shown(e)'
<1>1. made[d].num \in DOMAIN issues /\ made[e].num \in DOMAIN issues /\ made[d].num # made[e].num
  BY MadeIssue DEF Mine
<1>2. Mine(e)' = Mine(e)
  BY <1>1 DEF Mine
<1>3. /\ BodyCall(e) \in calls => BodyCall(e) \in calls'
      /\ \A b : BlockCall(e, b) \in calls => BlockCall(e, b) \in calls'
      /\ LabelCall(e) \in calls => LabelCall(e) \in calls'
      /\ CommentCall(e) \in calls => CommentCall(e) \in calls'
      /\ CloseCall(e) \in calls => CloseCall(e) \in calls'
  BY DEF BodyCall, BlockCall, LabelCall, CommentCall, CloseCall
<1>4. Linked(e)'
  BY <1>2, <1>3 DEF Shown, Linked, Loaded, IsPresent
<1>5. Blocked(e)'
  <2> SUFFICES ASSUME NEW b \in loaded[e].meta.blocked, BlockCall(e, b) \notin calls'
               PROVE  \E k \in Mine(e).deps : k \in DOMAIN issues' /\ issues'[k].id = b
    BY <1>2 DEF Blocked, BlockCall
  <2>1. BlockCall(e, b) \notin calls
    BY <1>3
  <2> QED BY <2>1 DEF Shown, Blocked, Kept
<1>6. Labelled(e)' /\ Shut(e)'
  BY <1>2, <1>3 DEF Shown, Labelled, Shut, LabelCall, CloseCall
<1>7. Named(e)'
  <2> SUFFICES ASSUME CloseCall(e) \in calls', loaded[e].meta.state = "merged",
                      CommentCall(e) \notin calls'
               PROVE  /\ Mine(e).comments # <<>> /\ Last(Mine(e).comments) \in DOMAIN issues'
                      /\ issues'[Last(Mine(e).comments)].id = loaded[e].meta.into
    BY <1>2 DEF Named, CloseCall, CommentCall
  <2>1. CloseCall(e) \in calls /\ CommentCall(e) \notin calls
    BY <1>3
  <2> QED BY <2>1 DEF Shown, Named, Kept
<1> QED BY <1>4, <1>5, <1>6, <1>7 DEF Shown

(* The fields of an issue that one call changes, and those it keeps.        *)
LEMMA Fields ==
  ASSUME NEW i, IssueShape(i), NEW v, NEW w
  PROVE  /\ LET u == [i EXCEPT !.body = v] IN
            /\ u.body = v /\ u.deps = i.deps /\ u.resolved = i.resolved /\ u.state = i.state
            /\ u.comments = i.comments /\ u.id = i.id /\ u.reason = i.reason
         /\ LET u == [i EXCEPT !.deps = v] IN
            /\ u.body = i.body /\ u.deps = v /\ u.resolved = i.resolved /\ u.state = i.state
            /\ u.comments = i.comments /\ u.id = i.id /\ u.reason = i.reason
         /\ LET u == [i EXCEPT !.resolved = v] IN
            /\ u.body = i.body /\ u.deps = i.deps /\ u.resolved = v /\ u.state = i.state
            /\ u.comments = i.comments /\ u.id = i.id /\ u.reason = i.reason
         /\ LET u == [i EXCEPT !.comments = v] IN
            /\ u.body = i.body /\ u.deps = i.deps /\ u.resolved = i.resolved /\ u.state = i.state
            /\ u.comments = v /\ u.id = i.id /\ u.reason = i.reason
         /\ LET u == [i EXCEPT !.state = v, !.reason = w] IN
            /\ u.body = i.body /\ u.deps = i.deps /\ u.resolved = i.resolved /\ u.state = v
            /\ u.comments = i.comments /\ u.id = i.id /\ u.reason = w
BY DEF IssueShape

(* What every call of pass 2 does: it is taken off the list and changes the *)
(* issue of a draft that was read.                                          *)
LEMMA CallFacts ==
  ASSUME IInv, JInv, NEW d \in Draft, NEW c, NEW u, Call(c, d, u), c[2] = d
  PROVE  /\ d \in Loaded /\ made[d].num # 0 /\ made[d].num \in DOMAIN issues
         /\ Mine(d).id = d /\ IssueShape(Mine(d)) /\ IssuesTyped!(made[d].num)
         /\ pc = "link" /\ Up(c) /\ c \in calls /\ calls' = calls \ {c}
         /\ issues' = [issues EXCEPT ![made[d].num] = u] /\ DOMAIN issues' = DOMAIN issues
         /\ Mine(d)' = u /\ Shown(d) /\ Noted(d)
         /\ UNCHANGED <<draft, pc, loaded, made, held, fresh, rewrite, tables, budget>>
<1>1. /\ pc = "link" /\ Up(c) /\ c \in calls /\ calls' = calls \ {c}
      /\ issues' = [issues EXCEPT ![made[d].num] = u]
      /\ UNCHANGED <<draft, pc, loaded, made, held, fresh, rewrite, tables, budget>>
  BY DEF Call, Turn, Up
<1>2. d \in Loaded
  BY <1>1 DEF JInv, Pending
<1>3. made[d].num # 0
  BY <1>1, <1>2 DEF IInv, AllMade
<1>4. made[d].num \in DOMAIN issues /\ Mine(d).id = d
  BY <1>3, MadeIssue
<1>5. IssueShape(Mine(d)) /\ IssuesTyped!(made[d].num)
  BY <1>4 DEF IInv, Filed, JInv, IssuesTyped, Mine
<1>6. Shown(d) /\ Noted(d)
  BY <1>1, <1>2 DEF JInv, Done
<1>7. Mine(d)' = u /\ DOMAIN issues' = DOMAIN issues
  BY <1>1, <1>4 DEF Mine
<1> QED BY <1>1, <1>2, <1>3, <1>4, <1>5, <1>6, <1>7

(* A change of the issue of one draft files nothing and takes nothing away.  *)
LEMMA MineKeeps ==
  ASSUME IInv, NEW d, NEW u, IssueShape(u), u.id = Mine(d).id,
         issues' = [issues EXCEPT ![made[d].num] = u]
  PROVE  Kept
BY EditKeeps DEF IInv, Mine

(* A call keeps the invariant if its own draft is shown after it.           *)
LEMMA CallKeeps ==
  ASSUME IInv, JInv, NEW d \in Draft, NEW c, NEW u, Call(c, d, u), c[2] = d,
         u.id = d, c # SaveCall(d), Shown(d)',
         u.resolved \in BOOLEAN, u.state \in {"open", "closed"}, u.comments \in Seq(Nat),
         IssueShape(u)
  PROVE  JInv'
<1>1. /\ d \in Loaded /\ made[d].num # 0 /\ made[d].num \in DOMAIN issues
      /\ pc = "link" /\ calls' = calls \ {c}
      /\ issues' = [issues EXCEPT ![made[d].num] = u] /\ DOMAIN issues' = DOMAIN issues
      /\ UNCHANGED <<draft, pc, loaded, made, held, fresh, rewrite, tables, budget>>
      /\ Mine(d).id = d
  BY CallFacts
<1>2. Kept
  BY <1>1, EditKeeps DEF IInv, Mine
<1>3. IssuesTyped'
  BY <1>1 DEF JInv, IssuesTyped
<1>4. Kinds'
  BY <1>1, KindsKept DEF JInv
<1>5. Pending' /\ ReadInOrder' /\ Whole' /\ Known'
  BY <1>1 DEF JInv, Pending, ReadInOrder, Whole, Known, Loaded, IsPresent, CommentCall
<1>6. Done'
  <2> SUFFICES ASSUME NEW e \in Loaded PROVE Shown(e)' /\ Noted(e)'
    BY <1>1 DEF Done, Loaded, IsPresent
  <2>1. Shown(e) /\ Noted(e) /\ made[e].num # 0 /\ e \in Draft
    BY <1>1 DEF JInv, Done, IInv, AllMade, Loaded
  <2>2. Noted(e)'
    <3>1. SaveCall(e) # c
      BY DEF SaveCall
    <3> QED BY <1>1, <2>1, <3>1 DEF Noted, SaveCall
  <2>3. CASE e # d
    <3>1. calls' \subseteq calls /\ \A x \in calls \ calls' : x[2] = d
      BY <1>1
    <3> QED BY <1>1, <1>2, <2>1, <2>2, <2>3, <3>1, OthersShown
  <2> QED BY <2>2, <2>3
<1> QED BY <1>3, <1>4, <1>5, <1>6 DEF JInv

(* The body: every placeholder becomes the number of an issue.              *)
LEMMA UpdateBodyStep ==
  ASSUME IInv, JInv, NEW d \in Draft, UpdateBody(d)
  PROVE  JInv'
<1> DEFINE c == BodyCall(d)
           B == ResolvePlaceholders(Body(d))
           i == Mine(d)
           u == [i EXCEPT !.body = B]
<1>1. Call(c, d, u) /\ c[2] = d /\ c # SaveCall(d)
  BY DEF UpdateBody, BodyCall, SaveCall
<1> HIDE DEF c, u
<1>2. /\ d \in Loaded /\ IssueShape(i) /\ i.id = d /\ IssuesTyped!(made[d].num) /\ made[d].num \in DOMAIN issues
      /\ calls' = calls \ {c} /\ Mine(d)' = u /\ Shown(d)
      /\ DOMAIN issues' = DOMAIN issues /\ UNCHANGED <<loaded, made>>
      /\ issues' = [issues EXCEPT ![made[d].num] = u]
  BY <1>1, CallFacts
<1>3. /\ u.body = B /\ u.deps = i.deps /\ u.resolved = i.resolved /\ u.state = i.state
      /\ u.comments = i.comments /\ u.id = i.id /\ u.reason = i.reason /\ IssueShape(u)
  BY <1>2, Fields DEF u, IssueShape
<1>4. Linked(d)'
  <2>1. ASSUME NEW x \in (loaded[d].meta.refs \cup loaded[d].meta.blocked) \cap Loaded
        PROVE  \E t \in B : t[1] = "issue" /\ t[2] = x
    <3>1. <<"placeholder", x>> \in Body(d)
      BY <2>1 DEF Body
    <3>2. <<"issue", x, made[x].num>> \in B
      BY <3>1 DEF ResolvePlaceholders
    <3> QED BY <3>2
  <2> QED BY <1>2, <1>3, <2>1 DEF Linked, Loaded, IsPresent
<1>5. Kept
  BY <1>2, <1>3, MineKeeps
<1>6. Blocked(d)' /\ Labelled(d)' /\ Shut(d)' /\ Named(d)'
  BY <1>2, <1>3, <1>5 DEF Shown, Blocked, Labelled, Shut, Named, Kept, c,
     BodyCall, BlockCall, LabelCall, CommentCall, CloseCall
<1>7. Shown(d)'
  BY <1>4, <1>6 DEF Shown
<1> QED BY <1>1, <1>2, <1>3, <1>7, CallKeeps DEF Mine

(* A blocker: its issue is one that pass 1 has found or made.               *)
LEMMA AddBlockedByStep ==
  ASSUME IInv, JInv, NEW d \in Draft, NEW b \in Draft, AddBlockedBy(d, b)
  PROVE  JInv'
<1> DEFINE c == BlockCall(d, b)
           i == Mine(d)
           D == i.deps \cup {made[b].num}
           u == [i EXCEPT !.deps = D]
<1>1. Call(c, d, u) /\ c[2] = d /\ c # SaveCall(d)
  <2>1. [i EXCEPT !.deps = @ \cup {made[b].num}] = u
    OBVIOUS
  <2> QED BY <2>1 DEF AddBlockedBy, BlockCall, SaveCall
<1> HIDE DEF c, u
<1>2. /\ d \in Loaded /\ IssueShape(i) /\ i.id = d /\ IssuesTyped!(made[d].num) /\ made[d].num \in DOMAIN issues
      /\ calls' = calls \ {c} /\ Mine(d)' = u /\ Shown(d) /\ pc = "link"
      /\ DOMAIN issues' = DOMAIN issues /\ UNCHANGED <<loaded, made>>
      /\ issues' = [issues EXCEPT ![made[d].num] = u]
  BY <1>1, CallFacts
<1>3. /\ u.body = i.body /\ u.deps = D /\ u.resolved = i.resolved /\ u.state = i.state
      /\ u.comments = i.comments /\ u.id = i.id /\ u.reason = i.reason /\ IssueShape(u)
  BY <1>2, Fields DEF u, IssueShape
<1>4. Kept
  BY <1>2, <1>3, MineKeeps
<1>5. Blocked(d)'
  <2> SUFFICES ASSUME NEW x \in loaded[d].meta.blocked, BlockCall(d, x) \notin calls'
               PROVE  \E k \in D : k \in DOMAIN issues' /\ issues'[k].id = x
    BY <1>2, <1>3 DEF Blocked, BlockCall
  <2>1. CASE x = b
    <3>1. b \in Loaded
      BY <1>2, <2>1 DEF JInv, ReadInOrder
    <3>2. made[b].num # 0
      BY <1>2, <3>1 DEF IInv, AllMade
    <3>3. made[b].num \in DOMAIN issues /\ issues[made[b].num].id = b
      BY <3>2, MadeIssue DEF Mine
    <3> QED BY <1>4, <2>1, <3>3 DEF Kept
  <2>2. CASE x # b
    <3>1. BlockCall(d, x) \notin calls
      BY <1>2, <2>2 DEF BlockCall, c
    <3> QED BY <1>2, <1>4, <3>1 DEF Shown, Blocked, Kept
  <2> QED BY <2>1, <2>2
<1>6. Linked(d)' /\ Labelled(d)' /\ Shut(d)' /\ Named(d)'
  BY <1>2, <1>3, <1>4 DEF Shown, Linked, Labelled, Shut, Named, Kept, c, Loaded, IsPresent,
     BodyCall, BlockCall, LabelCall, CommentCall, CloseCall
<1>7. Shown(d)'
  BY <1>5, <1>6 DEF Shown
<1> QED BY <1>1, <1>2, <1>3, <1>7, CallKeeps DEF Mine

(* The label.                                                               *)
LEMMA LabelStep ==
  ASSUME IInv, JInv, NEW d \in Draft, SyncResolvedLabel(d)
  PROVE  JInv'
<1> DEFINE c == LabelCall(d)
           R == IsResolved(loaded[d].meta)
           i == Mine(d)
           u == [i EXCEPT !.resolved = R]
<1>1. Call(c, d, u) /\ c[2] = d /\ c # SaveCall(d) /\ R \in BOOLEAN
  BY DEF SyncResolvedLabel, LabelCall, SaveCall, IsResolved
<1> HIDE DEF c, u, R
<1>2. /\ d \in Loaded /\ IssueShape(i) /\ i.id = d /\ IssuesTyped!(made[d].num) /\ made[d].num \in DOMAIN issues
      /\ calls' = calls \ {c} /\ Mine(d)' = u /\ Shown(d)
      /\ DOMAIN issues' = DOMAIN issues /\ UNCHANGED <<loaded, made>>
      /\ issues' = [issues EXCEPT ![made[d].num] = u]
  BY <1>1, CallFacts
<1>3. /\ u.body = i.body /\ u.deps = i.deps /\ u.resolved = R /\ u.state = i.state
      /\ u.comments = i.comments /\ u.id = i.id /\ u.reason = i.reason /\ IssueShape(u)
  BY <1>2, Fields DEF u, IssueShape
<1>4. Kept
  BY <1>2, <1>3, MineKeeps
<1>5. Labelled(d)'
  BY <1>2, <1>3 DEF Labelled, R
<1>6. Linked(d)' /\ Blocked(d)' /\ Shut(d)' /\ Named(d)'
  BY <1>2, <1>3, <1>4 DEF Shown, Linked, Blocked, Shut, Named, Kept, c, Loaded, IsPresent,
     BodyCall, BlockCall, LabelCall, CommentCall, CloseCall
<1>7. Shown(d)'
  BY <1>5, <1>6 DEF Shown
<1> QED BY <1>1, <1>2, <1>3, <1>7, CallKeeps DEF Mine

(* The comment that names the issue of the other draft.                     *)
LEMMA CommentStep ==
  ASSUME IInv, JInv, NEW d \in Draft, CommentDuplicate(d)
  PROVE  JInv'
<1> DEFINE c == CommentCall(d)
           i == Mine(d)
           x == loaded[d].meta.into
           C == Append(i.comments, made[x].num)
           u == [i EXCEPT !.comments = C]
<1>1. Call(c, d, u) /\ c[2] = d /\ c # SaveCall(d)
  <2>1. [i EXCEPT !.comments = Append(@, made[x].num)] = u
    OBVIOUS
  <2> QED BY <2>1 DEF CommentDuplicate, CommentCall, SaveCall
<1> HIDE DEF c, u
<1>2. /\ d \in Loaded /\ IssueShape(i) /\ i.id = d /\ IssuesTyped!(made[d].num) /\ made[d].num \in DOMAIN issues
      /\ calls' = calls \ {c} /\ Mine(d)' = u /\ Shown(d) /\ pc = "link" /\ c \in calls
      /\ DOMAIN issues' = DOMAIN issues /\ UNCHANGED <<loaded, made>>
      /\ issues' = [issues EXCEPT ![made[d].num] = u]
  BY <1>1, CallFacts
<1>3. /\ x \in Draft /\ made[x].num \in DOMAIN issues /\ issues[made[x].num].id = x
      /\ made[x].num \in Nat
  <2>1. x \in Loaded
    BY <1>2 DEF JInv, Pending, ReadInOrder, c
  <2>2. x \in Draft /\ made[x].num # 0
    BY <1>2, <2>1 DEF IInv, AllMade, Loaded
  <2>3. made[x].num \in DOMAIN issues /\ issues[made[x].num].id = x
    BY <2>2, MadeIssue DEF Mine
  <2> QED BY <2>2, <2>3 DEF IInv, Typed
<1> HIDE DEF x
<1>4. i.comments \in Seq(Nat)
  BY <1>2 DEF Mine
<1>5. C \in Seq(Nat) /\ C # <<>> /\ Last(C) = made[x].num
  BY <1>3, <1>4 DEF Last
<1> HIDE DEF C
<1>6. /\ u.body = i.body /\ u.deps = i.deps /\ u.resolved = i.resolved /\ u.state = i.state
      /\ u.comments = C /\ u.id = i.id /\ u.reason = i.reason /\ IssueShape(u)
  BY <1>2, Fields DEF u, IssueShape
<1>7. Kept
  BY <1>2, <1>6, MineKeeps
<1>8. Named(d)'
  BY <1>2, <1>3, <1>5, <1>6, <1>7 DEF Named, Kept, x
<1>9. Linked(d)' /\ Blocked(d)' /\ Labelled(d)' /\ Shut(d)'
  BY <1>2, <1>6, <1>7 DEF Shown, Linked, Blocked, Labelled, Shut, Kept, c, Loaded, IsPresent,
     BodyCall, BlockCall, LabelCall, CommentCall, CloseCall
<1>10. Shown(d)'
  BY <1>8, <1>9 DEF Shown
<1> QED BY <1>1, <1>2, <1>5, <1>6, <1>10, CallKeeps DEF Mine

(* The closing.                                                             *)
LEMMA CloseStep ==
  ASSUME IInv, JInv, NEW d \in Draft, CloseIssue(d)
  PROVE  JInv'
<1> DEFINE c == CloseCall(d)
           i == Mine(d)
           u == [i EXCEPT !.state = "closed", !.reason = Reason(loaded[d].meta)]
<1>1. Call(c, d, u) /\ c[2] = d /\ c # SaveCall(d)
  BY DEF CloseIssue, CloseCall, SaveCall
<1> HIDE DEF c, u
<1>2. /\ d \in Loaded /\ IssueShape(i) /\ i.id = d /\ IssuesTyped!(made[d].num) /\ made[d].num \in DOMAIN issues
      /\ calls' = calls \ {c} /\ Mine(d)' = u /\ Shown(d)
      /\ DOMAIN issues' = DOMAIN issues /\ UNCHANGED <<loaded, made>>
      /\ issues' = [issues EXCEPT ![made[d].num] = u]
  BY <1>1, CallFacts
<1>3. /\ u.body = i.body /\ u.deps = i.deps /\ u.resolved = i.resolved /\ u.state = "closed"
      /\ u.comments = i.comments /\ u.id = i.id /\ IssueShape(u)
  BY <1>2, Fields DEF u, IssueShape
<1>4. Kept
  BY <1>2, <1>3, MineKeeps
<1>5. Shut(d)' /\ Named(d)'
  BY <1>2, <1>3 DEF Shut, Named, c, CloseCall
<1>6. Linked(d)' /\ Blocked(d)' /\ Labelled(d)'
  BY <1>2, <1>3, <1>4 DEF Shown, Linked, Blocked, Labelled, Kept, c, Loaded, IsPresent,
     BodyCall, BlockCall, LabelCall, CommentCall, CloseCall
<1>7. Shown(d)'
  BY <1>5, <1>6 DEF Shown
<1> QED BY <1>1, <1>2, <1>3, <1>7, CallKeeps DEF Mine

(* Somebody else closes an issue: none is opened again.                     *)
LEMMA ClosedJStep ==
  ASSUME IInv, JInv, NEW n \in DOMAIN issues, ClosedByOthers(n)
  PROVE  JInv'
<1> DEFINE i == issues[n]
           u == [i EXCEPT !.state = "closed", !.reason = "others"]
<1>1. /\ issues' = [issues EXCEPT ![n] = u] /\ budget > 0 /\ budget' = budget - 1
      /\ UNCHANGED <<draft, pc, loaded, made, calls, held, fresh, rewrite, tables>>
  <2>1. issues' = [issues EXCEPT ![n].state = "closed", ![n].reason = "others"]
    BY DEF ClosedByOthers
  <2>2. DOMAIN issues = 1..Len(issues) /\ issues = [k \in DOMAIN issues |-> issues[k]]
    BY DEF IInv, Filed
  <2>3. issues' = [issues EXCEPT ![n] = u]
    BY <2>1, <2>2
  <2> QED BY <2>3 DEF ClosedByOthers, import
<1>2. IssueShape(i)
  BY DEF IInv, Filed
<1> HIDE DEF i, u
<1>3. /\ u.body = i.body /\ u.deps = i.deps /\ u.resolved = i.resolved /\ u.state = "closed"
      /\ u.comments = i.comments /\ u.id = i.id /\ IssueShape(u)
  <2>1. u = [i EXCEPT !.state = "closed", !.reason = "others"]
    BY DEF u
  <2> QED BY <1>2, <2>1 DEF IssueShape
<1>4. Kept /\ DOMAIN issues' = DOMAIN issues
  BY <1>1, <1>3, EditKeeps DEF IInv, i
<1>5. /\ \A k \in DOMAIN issues : issues'[k] = IF k = n THEN u ELSE issues[k]
      /\ \A k \in DOMAIN issues :
           /\ issues'[k].body = issues[k].body /\ issues'[k].deps = issues[k].deps
           /\ issues'[k].resolved = issues[k].resolved /\ issues'[k].id = issues[k].id
           /\ issues'[k].comments = issues[k].comments
           /\ issues'[k].state = issues[k].state \/ issues'[k].state = "closed"
  <2>1. \A k \in DOMAIN issues : issues'[k] = IF k = n THEN u ELSE issues[k]
    BY <1>1
  <2> QED BY <1>3, <2>1 DEF i
<1>6. IssuesTyped'
  BY <1>4, <1>5 DEF JInv, IssuesTyped
<1>7. Kinds'
  <2>1. budget' \in 0..Budget
    BY <1>1, ImportAssumption DEF JInv, Kinds
  <2> QED BY <1>1, <2>1 DEF JInv, Kinds, rewrite, tables
<1>8. Pending' /\ ReadInOrder' /\ Whole'
  BY <1>1, StateKept DEF JKept
<1>9. Known'
  <2> SUFFICES ASSUME pc = "create", NEW d \in Draft, made[d].num # 0
               PROVE  /\ issues'[made[d].num].resolved = made[d].resolved
                      /\ made[d].state = "closed" => issues'[made[d].num].state = "closed"
    BY <1>1 DEF Known, Mine
  <2>1. made[d].num \in DOMAIN issues
    BY MadeIssue
  <2> QED BY <1>5, <2>1 DEF JInv, Known, Mine
<1>10. Done'
  <2> SUFFICES ASSUME pc \in {"link", "save"}, NEW d \in Loaded PROVE Shown(d)' /\ Noted(d)'
    BY <1>1 DEF Done, Loaded, IsPresent
  <2>1. d \in Draft /\ made[d].num \in DOMAIN issues /\ Shown(d) /\ Noted(d)
    BY MadeIssue DEF IInv, AllMade, Loaded, JInv, Done
  <2>2. Linked(d)'
    BY <1>1, <1>5, <2>1 DEF Shown, Linked, Mine, Loaded, IsPresent, BodyCall
  <2>3. Blocked(d)'
    BY <1>1, <1>4, <1>5, <2>1 DEF Shown, Blocked, Mine, BlockCall
  <2>4. Labelled(d)' /\ Shut(d)'
    BY <1>1, <1>5, <2>1 DEF Shown, Labelled, Shut, Mine, LabelCall, CloseCall
  <2>5. Named(d)'
    BY <1>1, <1>4, <1>5, <2>1 DEF Shown, Named, Mine, CommentCall, CloseCall
  <2>6. Noted(d)'
    BY <1>1, <2>1 DEF Noted, SaveCall
  <2> QED BY <2>2, <2>3, <2>4, <2>5, <2>6 DEF Shown
<1> QED BY <1>6, <1>7, <1>8, <1>9, <1>10 DEF JInv

(* Pass 1: the issue is filed with the label and the state that are noted.  *)
LEMMA CreateJStep ==
  ASSUME IInv, JInv, CreateIssue PROVE JInv'
<1> DEFINE d == Least(Missing)
           R == IsResolved(loaded[d].meta)
           new == [id |-> d, body |-> Body(d), resolved |-> R,
                   state |-> "open", reason |-> "", comments |-> <<>>, deps |-> {}]
           mine == [num |-> Len(issues) + 1, resolved |-> R, state |-> "open"]
<1>1. /\ pc = "create" /\ issues' = Append(issues, new) /\ made' = [made EXCEPT ![d] = mine]
      /\ UNCHANGED <<draft, pc, loaded, calls, held, fresh, rewrite, tables, budget>>
  BY DEF CreateIssue
<1>2. R \in BOOLEAN
  BY DEF IsResolved
<1> HIDE DEF R
<1>3. /\ IssueShape(new) /\ new.resolved = R /\ new.state = "open" /\ new.comments = <<>>
      /\ mine.num = Len(issues) + 1 /\ mine.resolved = R /\ mine.state = "open"
      /\ mine = [num |-> mine.num, resolved |-> mine.resolved, state |-> mine.state]
  BY DEF IssueShape
<1> HIDE DEF d, new, mine
<1>4. /\ Filed' /\ Kept /\ DOMAIN issues' = DOMAIN issues \cup {Len(issues) + 1}
      /\ issues'[Len(issues) + 1] = new /\ Len(issues) + 1 \notin DOMAIN issues
  BY <1>1, <1>3, AppendKeeps DEF IInv
<1>5. \A k \in DOMAIN issues : issues'[k] = issues[k]
  <2>1. DOMAIN issues = 1..Len(issues) /\ issues \in Seq({issues[k] : k \in 1..Len(issues)} \cup {new})
    BY DEF IInv, Filed
  <2> QED BY <1>1, <2>1
<1>6. Len(issues) \in Nat /\ DOMAIN made = Draft
  BY DEF IInv, Filed, Typed
<1>7. IssuesTyped'
  <2>1. <<>> \in Seq(Nat)
    OBVIOUS
  <2> QED BY <1>2, <1>3, <1>4, <1>5, <2>1 DEF JInv, IssuesTyped
<1>8. Kinds'
  <2>1. mine \in Issue
    BY <1>2, <1>3, <1>6 DEF Issue
  <2>2. \A e \in Draft : made'[e] \in Issue
    BY <1>1, <1>6, <2>1 DEF JInv, Kinds
  <2> QED BY <1>1, <2>2 DEF JInv, Kinds, rewrite, tables
<1>9. Pending' /\ ReadInOrder' /\ Whole'
  <2>1. /\ UNCHANGED <<draft, pc, loaded, calls, held>>
        /\ Loaded' = Loaded /\ (\A e \in Draft : CommentCall(e)' = CommentCall(e))
    BY <1>1 DEF Loaded, IsPresent, CommentCall
  <2> QED BY <1>1, <2>1 DEF JInv, Pending, ReadInOrder, Whole
<1>10. Known'
  <2> SUFFICES ASSUME NEW e \in Draft, made'[e].num # 0
               PROVE  /\ issues'[made'[e].num].resolved = made'[e].resolved
                      /\ made'[e].state = "closed" => issues'[made'[e].num].state = "closed"
    BY DEF Known, Mine
  <2>1. CASE e = d
    BY <1>1, <1>3, <1>4, <1>6, <2>1
  <2>2. CASE e # d
    <3>1. made'[e] = made[e]
      BY <1>1, <1>6, <2>2
    <3>2. made[e].num \in DOMAIN issues
      BY <3>1, MadeIssue
    <3> QED BY <1>1, <1>5, <3>1, <3>2 DEF JInv, Known, Mine
  <2> QED BY <2>1, <2>2
<1>11. Done'
  BY <1>1 DEF Done
<1> QED BY <1>7, <1>8, <1>9, <1>10, <1>11 DEF JInv

(* What existing_issues finds is what the issue says.                       *)
LEMMA FoundKnown ==
  ASSUME IInv, JInv, NEW d \in Draft
  PROVE  /\ Found(d) \in Issue
         /\ Found(d).num # 0 => /\ issues[Found(d).num].resolved = Found(d).resolved
                                /\ issues[Found(d).num].state = Found(d).state
<1>1. Found(d).num \in Nat /\ Right(Found(d).num, d)
  BY FoundRight DEF IInv
<1>2. CASE Marked(d) = {}
  BY <1>2 DEF Found, NoIssue, Issue
<1>3. CASE Marked(d) # {}
  <2>1. PICK n : Found(d) = [num |-> n, resolved |-> issues[n].resolved, state |-> issues[n].state]
    BY <1>3 DEF Found
  <2>2. Found(d).num = n /\ Found(d).resolved = issues[n].resolved /\ Found(d).state = issues[n].state
    BY <2>1
  <2>3. n # 0
    <3>1. Found(d).num # 0
      BY <1>3, FoundRight DEF IInv
    <3> QED BY <2>2, <3>1
  <2>4. n \in DOMAIN issues
    BY <1>1, <2>2, <2>3 DEF Right
  <2> QED BY <1>1, <2>1, <2>2, <2>4 DEF Issue, JInv, IssuesTyped
<1> QED BY <1>2, <1>3

(* The calls that pass 2 and the write-back start with.                     *)
LEMMA Pass2Facts ==
  /\ \A c \in Pass2 : c[2] \in Loaded
  /\ \A d \in Loaded :
       /\ BodyCall(d) \in Pass2 /\ SaveCall(d) \in Pass2
       /\ \A b \in loaded[d].meta.blocked : BlockCall(d, b) \in Pass2
       /\ IsResolved(loaded[d].meta) # made[d].resolved => LabelCall(d) \in Pass2
       /\ Closes(loaded[d].meta) /\ made[d].state # "closed" => CloseCall(d) \in Pass2
       /\ CloseCall(d) \in Pass2 /\ loaded[d].meta.state = "merged" => CommentCall(d) \in Pass2
  /\ \A d \in Draft : CommentCall(d) \in Pass2 => loaded[d].meta.state = "merged"
<1>1. \A d \in Loaded : CallsFor(d) \subseteq Pass2 /\ SaveCall(d) \in Pass2
  BY DEF Pass2
<1>2. \A c \in Pass2 : \E d \in Loaded : c \in CallsFor(d) \/ c = SaveCall(d)
  BY DEF Pass2
<1>3. ASSUME NEW d, NEW c, c \in CallsFor(d) \/ c = SaveCall(d)
      PROVE  /\ c[2] = d
             /\ \A e : c = CommentCall(e) => e = d /\ loaded[d].meta.state = "merged"
             /\ \A e : c = CloseCall(e) => e = d /\ (loaded[d].meta.state = "merged" => CommentCall(d) \in CallsFor(d))
  BY <1>3 DEF CallsFor, BodyCall, BlockCall, LabelCall, CommentCall, CloseCall, SaveCall
<1>4. \A c \in Pass2 : c[2] \in Loaded
  BY <1>2, <1>3
<1>5. ASSUME NEW d \in Loaded
      PROVE  /\ BodyCall(d) \in Pass2 /\ SaveCall(d) \in Pass2
             /\ \A b \in loaded[d].meta.blocked : BlockCall(d, b) \in Pass2
             /\ IsResolved(loaded[d].meta) # made[d].resolved => LabelCall(d) \in Pass2
             /\ Closes(loaded[d].meta) /\ made[d].state # "closed" => CloseCall(d) \in Pass2
  BY <1>1 DEF CallsFor
<1>6. ASSUME NEW d \in Loaded, CloseCall(d) \in Pass2, loaded[d].meta.state = "merged"
      PROVE  CommentCall(d) \in Pass2
  <2>1. PICK e \in Loaded : CloseCall(d) \in CallsFor(e) \/ CloseCall(d) = SaveCall(e)
    BY <1>2, <1>6
  <2>2. PICK c : c = CloseCall(d)
    OBVIOUS
  <2>3. d = e /\ (loaded[e].meta.state = "merged" => CommentCall(e) \in CallsFor(e))
    BY <1>3, <2>1, <2>2
  <2>4. CommentCall(d) \in CallsFor(d)
    BY <1>6, <2>3
  <2> QED BY <1>1, <2>4
<1>7. ASSUME NEW d \in Draft, CommentCall(d) \in Pass2
      PROVE  loaded[d].meta.state = "merged"
  <2>1. PICK e \in Loaded : CommentCall(d) \in CallsFor(e) \/ CommentCall(d) = SaveCall(e)
    BY <1>2, <1>7
  <2> QED BY <1>3, <2>1
<1> QED BY <1>4, <1>5, <1>6, <1>7

(* gen_readme.load and validate: the drafts are whole and in order.         *)
LEMMA StartJStep ==
  ASSUME IInv, JInv, ImportStart PROVE JInv'
<1>1. /\ pc = "idle" /\ pc' = "labels" /\ loaded' = draft /\ Loads
      /\ UNCHANGED <<draft, issues, made, calls, held, fresh, rewrite, tables, budget>>
  BY DEF ImportStart
<1>2. calls = {}
  BY <1>1 DEF JInv, Pending
<1>3. IssuesTyped' /\ Known' /\ Done' /\ Pending'
  BY <1>1, <1>2 DEF JInv, IssuesTyped, Known, Done, Pending
<1>4. Kinds'
  BY <1>1 DEF JInv, Kinds, rewrite, tables
<1>5. Loaded' = Present /\ Torn = {} /\ Coherent
  BY <1>1 DEF Loaded, Present, Loads
<1>6. ReadInOrder'
  <2> SUFFICES ASSUME NEW d \in Present
               PROVE  /\ draft[d].meta.blocked \subseteq Present
                      /\ draft[d].meta.state = "merged" => draft[d].meta.into \in Present
    BY <1>1, <1>5 DEF ReadInOrder
  <2> QED BY <1>5 DEF Coherent
<1>7. Whole'
  <2>1. \A d \in Draft : draft[d].meta.state # "torn"
    BY <1>5 DEF Torn, Present, IsPresent
  <2> QED BY <1>1, <2>1 DEF Whole
<1> QED BY <1>3, <1>4, <1>6, <1>7 DEF JInv

(* existing_issues.                                                         *)
LEMMA FindJStep ==
  ASSUME IInv, JInv, ExistingIssues PROVE JInv'
<1>1. /\ pc = "find" /\ pc' = "create" /\ made' = [d \in Draft |-> Found(d)]
      /\ UNCHANGED <<draft, issues, loaded, calls, held, fresh, rewrite, tables, budget>>
  BY DEF ExistingIssues
<1>2. IssuesTyped' /\ Done'
  BY <1>1 DEF JInv, IssuesTyped, Done
<1>3. Kinds'
  <2>1. \A d \in Draft : made'[d] \in Issue
    BY <1>1, FoundKnown
  <2> QED BY <1>1, <2>1 DEF JInv, Kinds, rewrite, tables
<1>4. Pending' /\ ReadInOrder' /\ Whole'
  BY <1>1 DEF JInv, Pending, ReadInOrder, Whole, Loaded, IsPresent, CommentCall
<1>5. Known'
  <2> SUFFICES ASSUME NEW d \in Draft, Found(d).num # 0
               PROVE  /\ issues[Found(d).num].resolved = Found(d).resolved
                      /\ Found(d).state = "closed" => issues[Found(d).num].state = "closed"
    BY <1>1 DEF Known, Mine
  <2> QED BY FoundKnown
<1> QED BY <1>2, <1>3, <1>4, <1>5 DEF JInv

(* Pass 2 starts: what has no call is so already.                           *)
LEMMA Pass2JStep ==
  ASSUME IInv, JInv, StartPass2 PROVE JInv'
<1>1. /\ pc = "create" /\ Missing = {} /\ pc' = "link" /\ calls' = Pass2
      /\ UNCHANGED <<draft, issues, loaded, made, held, fresh, rewrite, tables, budget>>
  BY DEF StartPass2
<1>2. IssuesTyped' /\ Known'
  BY <1>1 DEF JInv, IssuesTyped, Known
<1>3. Kinds'
  BY <1>1 DEF JInv, Kinds, rewrite, tables
<1>4. Pending' /\ ReadInOrder' /\ Whole'
  BY <1>1, Pass2Facts DEF JInv, Pending, ReadInOrder, Whole, Loaded, IsPresent, CommentCall
<1>5. Done'
  <2> SUFFICES ASSUME NEW d \in Loaded PROVE Shown(d)' /\ Noted(d)'
    BY <1>1 DEF Done, Loaded, IsPresent
  <2>1. d \in Draft /\ made[d].num # 0
    BY <1>1 DEF Missing, Loaded
  <2>2. /\ Mine(d).resolved = made[d].resolved
        /\ made[d].state = "closed" => Mine(d).state = "closed"
    BY <1>1, <2>1 DEF JInv, Known
  <2>3. /\ BodyCall(d) \in calls' /\ SaveCall(d) \in calls'
        /\ \A b \in loaded[d].meta.blocked : BlockCall(d, b) \in calls'
        /\ IsResolved(loaded[d].meta) # made[d].resolved => LabelCall(d) \in calls'
        /\ Closes(loaded[d].meta) /\ made[d].state # "closed" => CloseCall(d) \in calls'
        /\ CloseCall(d) \in calls' /\ loaded[d].meta.state = "merged" => CommentCall(d) \in calls'
    BY <1>1, Pass2Facts
  <2>4. Mine(d)' = Mine(d)
    BY <1>1 DEF Mine
  <2>5. Linked(d)' /\ Noted(d)'
    BY <1>1, <2>3 DEF Linked, Noted, BodyCall, SaveCall
  <2>6. Blocked(d)' /\ Named(d)'
    BY <1>1, <2>3 DEF Blocked, Named, BlockCall, CommentCall, CloseCall
  <2>7. Labelled(d)' /\ Shut(d)'
    BY <1>1, <2>2, <2>3, <2>4 DEF Labelled, Shut, LabelCall, CloseCall
  <2> QED BY <2>5, <2>6, <2>7 DEF Shown
<1> QED BY <1>2, <1>3, <1>4, <1>5 DEF JInv

(* The labels, the end of the import, and its failure at any point.         *)
LEMMA EndJStep ==
  ASSUME IInv, JInv, EnsureLabels \/ ImportEnds \/ ImportFails PROVE JInv'
<1>1. UNCHANGED <<draft, issues, loaded, rewrite, tables>>
  BY DEF EnsureLabels, ImportEnds, ImportFails
<1>2. CASE EnsureLabels
  <2>1. pc = "labels" /\ pc' = "find" /\ UNCHANGED <<made, calls, held, fresh, budget>>
    BY <1>2 DEF EnsureLabels
  <2> QED BY <1>1, <2>1 DEF JInv, IssuesTyped, Kinds, rewrite, tables, Pending, ReadInOrder,
             Whole, Known, Done, Loaded, IsPresent, CommentCall
<1>3. CASE ImportEnds
  <2>1. /\ pc' = "idle" /\ calls = {} /\ UNCHANGED <<made, calls, held, budget>>
        /\ fresh' \in BOOLEAN
    BY <1>3 DEF ImportEnds
  <2> QED BY <1>1, <2>1 DEF JInv, IssuesTyped, Kinds, rewrite, tables, Pending, ReadInOrder,
             Whole, Known, Done
<1>4. CASE ImportFails
  <2>1. /\ pc' = "idle" /\ calls' = {} /\ made' = [d \in Draft |-> NoIssue] /\ fresh' = fresh
        /\ budget > 0 /\ budget' = budget - 1
    BY <1>4 DEF ImportFails
  <2>2. NoIssue \in Issue
    BY DEF NoIssue, Issue
  <2>3. budget' \in 0..Budget
    BY <2>1, ImportAssumption DEF JInv, Kinds
  <2>4. Kinds'
    BY <1>1, <2>1, <2>2, <2>3 DEF JInv, Kinds, rewrite, tables
  <2> QED BY <1>1, <2>1, <2>4 DEF JInv, IssuesTyped, Pending, ReadInOrder,
             Whole, Known, Done
<1> QED BY <1>2, <1>3, <1>4

(* The write-back empties one draft at a time.                              *)
LEMMA SaveOpenJStep ==
  ASSUME IInv, JInv, NEW d \in Draft, WriteBackOpen(d)
  PROVE  JInv'
<1>1. /\ pc = "link" /\ pc' = "save" /\ Up(SaveCall(d)) /\ held' = draft[d]
      /\ draft' = [draft EXCEPT ![d].meta.state = "torn"]
      /\ UNCHANGED <<issues, loaded, made, calls, fresh, rewrite, tables, budget>>
  BY DEF WriteBackOpen, Turn
<1>2. IssuesTyped' /\ Known'
  BY <1>1 DEF JInv, IssuesTyped, Known
<1>3. Kinds'
  BY <1>1 DEF JInv, Kinds, rewrite, tables
<1>4. Pending' /\ ReadInOrder'
  BY <1>1 DEF JInv, Pending, ReadInOrder, Loaded, IsPresent, CommentCall
<1>5. \A e \in Draft : e # d => draft'[e] = draft[e]
  BY <1>1 DEF IInv, Typed
<1>6. Whole'
  <2>1. \A e \in Draft : draft[e].meta.state # "torn"
    BY <1>1 DEF JInv, Whole
  <2>2. SaveCall(d)' = SaveCall(d) /\ Up(SaveCall(d))'
    BY <1>1 DEF SaveCall, Up, Earlier
  <2>3. \A e \in Draft : draft'[e].meta.state = "torn" => e = d
    BY <1>5, <2>1
  <2> QED BY <1>1, <2>1, <2>2, <2>3 DEF Whole
<1>7. Done'
  <2> SUFFICES ASSUME NEW e \in Loaded PROVE Shown(e)' /\ Noted(e)'
    BY <1>1 DEF Done, Loaded, IsPresent
  <2>1. Shown(e) /\ Noted(e) /\ e \in Draft
    BY <1>1 DEF JInv, Done, Loaded
  <2>2. Shown(e)'
    BY <1>1, <2>1 DEF Shown, Linked, Blocked, Labelled, Shut, Named, Mine, Loaded, IsPresent,
       BodyCall, BlockCall, LabelCall, CommentCall, CloseCall
  <2>3. Noted(e)'
    BY <1>1, <1>5, <2>1 DEF Noted, SaveCall, Up
  <2> QED BY <2>2, <2>3
<1> QED BY <1>2, <1>3, <1>4, <1>6, <1>7 DEF JInv

(* The text is written after the file has been emptied: what was held, with *)
(* the issue's number.                                                      *)
LEMMA SaveTextJStep ==
  ASSUME IInv, JInv, NEW d \in Draft, WriteBackText(d)
  PROVE  JInv'
<1> DEFINE new == [held EXCEPT !.issue = made[d].num]
<1>1. /\ pc = "save" /\ pc' = "link" /\ Up(SaveCall(d)) /\ draft' = [draft EXCEPT ![d] = new]
      /\ calls' = calls \ {SaveCall(d)}
      /\ UNCHANGED <<issues, loaded, made, fresh, rewrite, tables, budget>>
  BY DEF WriteBackText
<1>2. new.issue = made[d].num /\ new.meta = held.meta
  BY DEF IInv, Typed, Note
<1> HIDE DEF new
<1>3. IssuesTyped' /\ Known'
  BY <1>1 DEF JInv, IssuesTyped, Known
<1>4. Kinds'
  BY <1>1 DEF JInv, Kinds, rewrite, tables
<1>5. Pending' /\ ReadInOrder'
  BY <1>1 DEF JInv, Pending, ReadInOrder, Loaded, IsPresent, CommentCall
<1>6. draft'[d] = new /\ \A e \in Draft : e # d => draft'[e] = draft[e]
  BY <1>1 DEF IInv, Typed
<1>7. Whole'
  <2>1. held.meta.state # "torn" /\ \A e \in Draft : draft[e].meta.state = "torn" => Up(SaveCall(e))
    BY <1>1 DEF JInv, Whole
  <2>2. \A e \in Draft : draft[e].meta.state = "torn" => e = d
    BY <1>1, <2>1, OneSave
  <2> QED BY <1>1, <1>2, <1>6, <2>1, <2>2 DEF Whole
<1>8. Done'
  <2> SUFFICES ASSUME NEW e \in Loaded PROVE Shown(e)' /\ Noted(e)'
    BY <1>1 DEF Done, Loaded, IsPresent
  <2>1. Shown(e) /\ Noted(e) /\ e \in Draft
    BY <1>1 DEF JInv, Done, Loaded
  <2>2. /\ BodyCall(e) \in calls' <=> BodyCall(e) \in calls
        /\ \A b : BlockCall(e, b) \in calls' <=> BlockCall(e, b) \in calls
        /\ LabelCall(e) \in calls' <=> LabelCall(e) \in calls
        /\ CommentCall(e) \in calls' <=> CommentCall(e) \in calls
        /\ CloseCall(e) \in calls' <=> CloseCall(e) \in calls
        /\ e # d => (SaveCall(e) \in calls' <=> SaveCall(e) \in calls)
    BY <1>1 DEF SaveCall, BodyCall, BlockCall, LabelCall, CommentCall, CloseCall
  <2>3. Shown(e)'
    BY <1>1, <2>1, <2>2 DEF Shown, Linked, Blocked, Labelled, Shut, Named, Mine, Loaded, IsPresent,
       BodyCall, BlockCall, LabelCall, CommentCall, CloseCall
  <2>4. Noted(e)'
    BY <1>1, <1>2, <1>6, <2>1, <2>2 DEF Noted, SaveCall
  <2> QED BY <2>3, <2>4
<1> QED BY <1>3, <1>4, <1>5, <1>7, <1>8 DEF JInv

(* An editor changes a draft, and leaves the number of its issue.           *)
LEMMA ReviseJStep ==
  ASSUME IInv, JInv, NEW r \in Revisions, Revise(r[1], r[2])
  PROVE  JInv'
<1> DEFINE d == r[1]
           m == r[2]
<1>1. d \in Draft /\ m \in Meta /\ m.state # "torn"
  BY ImportAssumption
<1> HIDE DEF d, m
<1>2. /\ draft' = [draft EXCEPT ![d].meta = m] /\ fresh' = FALSE /\ budget > 0 /\ budget' = budget - 1
      /\ UNCHANGED <<issues, pc, loaded, made, calls, held, rewrite, tables>>
  BY DEF Revise, d, m
<1>3. IssuesTyped' /\ Known'
  BY <1>2 DEF JInv, IssuesTyped, Known, Mine
<1>4. Kinds'
  <2>1. budget' \in 0..Budget
    BY <1>2, ImportAssumption DEF JInv, Kinds
  <2> QED BY <1>2, <2>1 DEF JInv, Kinds, rewrite, tables
<1>5. Pending' /\ ReadInOrder'
  BY <1>2 DEF JInv, Pending, ReadInOrder, Loaded, IsPresent, CommentCall
<1>6. \A e \in Draft : /\ draft'[e].issue = draft[e].issue
                       /\ draft'[e].meta = IF e = d THEN m ELSE draft[e].meta
  BY <1>2 DEF IInv, Typed, Note
<1>7. Whole'
  BY <1>1, <1>2, <1>6 DEF JInv, Whole, Up, SaveCall, Earlier
<1>8. Done'
  <2> SUFFICES ASSUME pc \in {"link", "save"}, NEW e \in Loaded PROVE Shown(e)' /\ Noted(e)'
    BY <1>2 DEF Done, Loaded, IsPresent
  <2>1. Shown(e) /\ Noted(e) /\ e \in Draft
    BY DEF JInv, Done, Loaded
  <2>2. Shown(e)'
    BY <1>2, <2>1 DEF Shown, Linked, Blocked, Labelled, Shut, Named, Mine, Loaded, IsPresent,
       BodyCall, BlockCall, LabelCall, CommentCall, CloseCall
  <2> QED BY <1>2, <1>6, <2>1, <2>2 DEF Noted, SaveCall
<1> QED BY <1>3, <1>4, <1>5, <1>7, <1>8 DEF JInv

(* An emptied draft is put back after the import has ended.                 *)
LEMMA RestoreDraftJStep ==
  ASSUME IInv, JInv, NEW d \in Draft, RestoreDraft(d)
  PROVE  JInv'
<1>1. /\ pc # "save" /\ draft[d].meta.state = "torn" /\ draft' = [draft EXCEPT ![d] = loaded[d]]
      /\ UNCHANGED <<issues, pc, loaded, made, calls, held, fresh, rewrite, tables, budget>>
  BY DEF RestoreDraft, import
<1>2. pc = "idle"
  BY <1>1 DEF JInv, Whole
<1>3. IssuesTyped' /\ Kinds' /\ Pending'
  BY <1>1 DEF JInv, IssuesTyped, Kinds, rewrite, tables, Pending, Loaded, IsPresent, CommentCall
<1>4. ReadInOrder' /\ Whole' /\ Known' /\ Done'
  BY <1>1, <1>2 DEF ReadInOrder, Whole, Known, Done
<1> QED BY <1>3, <1>4 DEF JInv

(* The other programs, and those who put back what they emptied.            *)
LEMMA ApartJStep ==
  ASSUME IInv, JInv,
         \/ RewriteStart \/ RewriteFile \/ RewriteText \/ RewriteEnds \/ RewriteFails
         \/ \E f \in File : RestoreFile(f)
         \/ GenStart \/ GenOpen \/ GenText \/ GenFails \/ \E p \in Page : RestorePage(p)
  PROVE  JInv'
<1>1. UNCHANGED <<draft, issues, pc, loaded, made, calls, held, fresh>>
  BY DEF RewriteStart, RewriteFile, RewriteText, RewriteEnds, RewriteFails, RestoreFile,
         GenStart, GenOpen, GenText, GenFails, RestorePage, import
<1>2. IssuesTyped' /\ Pending' /\ ReadInOrder' /\ Whole' /\ Known'
  BY <1>1 DEF JInv, IssuesTyped, Pending, ReadInOrder, Whole, Known, Mine, Loaded, IsPresent,
     CommentCall, Up, SaveCall, Earlier
<1>3. Done'
  <2> SUFFICES ASSUME pc \in {"link", "save"}, NEW e \in Loaded PROVE Shown(e)' /\ Noted(e)'
    BY <1>1 DEF Done, Loaded, IsPresent
  <2>1. Shown(e) /\ Noted(e)
    BY DEF JInv, Done
  <2> QED BY <1>1, <2>1 DEF Noted, SaveCall, Shown, Linked, Blocked, Labelled, Shut, Named, Mine,
             Loaded, IsPresent, BodyCall, BlockCall, LabelCall, CommentCall, CloseCall
<1>4. budget' \in 0..Budget
  <2>1. budget' = budget \/ (budget > 0 /\ budget' = budget - 1)
    BY DEF RewriteStart, RewriteFile, RewriteText, RewriteEnds, RewriteFails, RestoreFile,
           GenStart, GenOpen, GenText, GenFails, RestorePage
  <2> QED BY <2>1, ImportAssumption DEF JInv, Kinds
<1>5. rw'.at \in {"idle", "scan", "write"} /\ torn' \subseteq File
  <2>1. rw.todo # {} => Least(rw.todo) \in File
    BY LeastIn, ImportAssumption DEF IInv, Typed
  <2>2. CASE RewriteStart \/ RewriteEnds \/ RewriteFails
    BY <2>2 DEF RewriteStart, RewriteEnds, RewriteFails, IInv, Typed, JInv, Kinds
  <2>3. CASE RewriteFile
    BY <2>1, <2>3 DEF RewriteFile, IInv, Typed, JInv, Kinds
  <2>4. CASE RewriteText
    BY <2>4 DEF RewriteText, IInv, Typed, JInv, Kinds
  <2>5. CASE \E f \in File : RestoreFile(f)
    BY <2>5 DEF RestoreFile, JInv, Kinds
  <2>6. CASE GenStart \/ GenOpen \/ GenText \/ GenFails \/ \E p \in Page : RestorePage(p)
    BY <2>6 DEF GenStart, GenOpen, GenText, GenFails, RestorePage, rewrite, JInv, Kinds
  <2> QED BY <2>2, <2>3, <2>4, <2>5, <2>6
<1>6. gen'.at \in {"idle", "open", "write"} /\ (gen'.at = "idle" <=> gen'.todo = <<>>)
  <2>1. CASE GenStart
    BY <2>1 DEF GenStart
  <2>2. CASE gen' = NoGen
    BY <2>2 DEF NoGen
  <2>3. CASE GenOpen
    BY <2>3 DEF GenOpen, IInv, Typed, JInv, Kinds
  <2>4. CASE GenText /\ gen' # NoGen
    BY <2>4 DEF GenText, IInv, Typed
  <2>5. CASE gen' = gen
    BY <2>5 DEF JInv, Kinds
  <2> QED BY <2>1, <2>2, <2>3, <2>4, <2>5 DEF GenFails, RewriteStart, RewriteFile, RewriteText,
             RewriteEnds, RewriteFails, RestoreFile, RestorePage, tables
<1> QED BY <1>1, <1>2, <1>3, <1>4, <1>5, <1>6 DEF JInv, Kinds
-----------------------------------------------------------------------------
(* Every step keeps what the calls that were made have left in the issues.  *)
LEMMA JInductive == IInv /\ JInv /\ [Next]_vars => JInv'
<1> SUFFICES ASSUME IInv, JInv, [Next]_vars PROVE JInv'
  OBVIOUS
<1>1. CASE Import
  <2>1. CASE Pass2Step
    <3>1. PICK d \in Draft :
            \/ UpdateBody(d) \/ SyncResolvedLabel(d) \/ CommentDuplicate(d) \/ CloseIssue(d)
            \/ WriteBackOpen(d) \/ WriteBackText(d)
            \/ \E b \in Draft : AddBlockedBy(d, b)
      BY <2>1 DEF Pass2Step
    <3> QED BY <3>1, UpdateBodyStep, LabelStep, CommentStep, CloseStep, AddBlockedByStep,
               SaveOpenJStep, SaveTextJStep
  <2> QED BY <1>1, <2>1, StartJStep, EndJStep, FindJStep, CreateJStep, Pass2JStep DEF Import
<1>2. CASE ImportFails
  BY <1>2, EndJStep
<1>3. CASE Rewrite \/ RewriteFails \/ Generate \/ GenFails
  BY <1>3, ApartJStep DEF Rewrite, Generate
<1>4. CASE Restore
  BY <1>4, ApartJStep, RestoreDraftJStep DEF Restore
<1>5. CASE \E r \in Revisions : Revise(r[1], r[2])
  BY <1>5, ReviseJStep
<1>6. CASE \E n \in DOMAIN issues : ClosedByOthers(n)
  BY <1>6, ClosedJStep
<1>7. CASE UNCHANGED vars
  <2>1. UNCHANGED <<draft, issues, pc, loaded, made, calls, held, fresh, rewrite, tables, budget>>
    BY <1>7 DEF vars, import
  <2>2. IssuesTyped' /\ Kinds' /\ Pending' /\ ReadInOrder' /\ Whole' /\ Known'
    BY <2>1 DEF JInv, IssuesTyped, Kinds, rewrite, tables, Pending, ReadInOrder, Whole, Known, Mine,
       Loaded, IsPresent, CommentCall, Up, SaveCall, Earlier
  <2>3. Done'
    <3> SUFFICES ASSUME pc \in {"link", "save"}, NEW e \in Loaded PROVE Shown(e)' /\ Noted(e)'
      BY <2>1 DEF Done, Loaded, IsPresent
    <3>1. Shown(e) /\ Noted(e)
      BY DEF JInv, Done
    <3> QED BY <2>1, <3>1 DEF Noted, SaveCall, Shown, Linked, Blocked, Labelled, Shut, Named, Mine,
               Loaded, IsPresent, BodyCall, BlockCall, LabelCall, CommentCall, CloseCall
  <2> QED BY <2>2, <2>3 DEF JInv
<1> QED BY <1>1, <1>2, <1>3, <1>4, <1>5, <1>6, <1>7 DEF Next

(* So it holds in every state that the import can reach.                     *)
LEMMA JInvariantHolds == Spec => []JInv
BY InitJInv, JInductive, InvariantHolds, PTL DEF Spec

(* Every variable of the import, the citations and the tables has its type,  *)
(* and every number that stands for an issue is one that GitHub gave.        *)
THEOREM ImportTypes == Spec => []TypeOK
<1>1. IInv /\ JInv => TypeOK
  <2> SUFFICES ASSUME IInv, JInv PROVE TypeOK
    OBVIOUS
  <2>1. DOMAIN issues = 1..Len(issues) /\ Len(issues) \in Nat
    BY DEF IInv, Filed
  <2>2. \A n \in Nat : \A d : Right(n, d) => n \in 0..Len(issues)
    BY <2>1 DEF Right
  <2>3. \A d \in Draft : draft[d].meta \in Meta /\ draft[d].issue \in 0..Len(issues)
    BY <2>2 DEF IInv, Typed, Note, NotesRight
  <2>4. \A d \in Draft : made[d] \in [num: 0..Len(issues), resolved: BOOLEAN, state: {"open", "closed"}]
    BY <2>2 DEF IInv, NotesRight, JInv, Kinds, Issue
  <2>5. made \in [Draft -> [num: 0..Len(issues), resolved: BOOLEAN, state: {"open", "closed"}]]
    BY <2>4 DEF IInv, Typed
  <2> QED BY <2>3, <2>5 DEF TypeOK, IInv, Typed, JInv, Kinds
<1> QED BY <1>1, InvariantHolds, JInvariantHolds, PTL

(* When an import has made its last call, whatever failed before it and      *)
(* whoever edited and closed meanwhile: the issue of every draft that it     *)
(* read has the label and the state of the draft, links what the draft       *)
(* refers to, has its blockers, and is noted in the draft.                   *)
THEOREM MirrorsAtEnd == Spec => []ImportMirrors
<1>1. IInv /\ JInv => ImportMirrors
  <2> SUFFICES ASSUME IInv, JInv, pc = "link", calls = {}, NEW d \in Loaded
               PROVE  /\ Mine(d).id = d /\ Mine(d).resolved = IsResolved(loaded[d].meta)
                      /\ Closes(loaded[d].meta) => Mine(d).state = "closed"
                      /\ \A x \in (loaded[d].meta.refs \cup loaded[d].meta.blocked) \cap Loaded :
                           \E t \in Mine(d).body : t[1] = "issue" /\ t[2] = x
                      /\ \A b \in loaded[d].meta.blocked : \E k \in Mine(d).deps : issues[k].id = b
                      /\ draft[d].issue = made[d].num
    BY DEF ImportMirrors, Mine
  <2>1. Shown(d) /\ Noted(d) /\ made[d].num # 0 /\ d \in Draft
    BY DEF JInv, Done, IInv, AllMade, Loaded
  <2>2. Mine(d).id = d
    BY <2>1, MadeIssue
  <2> QED BY <2>1, <2>2 DEF Shown, Linked, Blocked, Labelled, Shut, Noted
<1> QED BY <1>1, InvariantHolds, JInvariantHolds, PTL

(* The step that closes an issue as a duplicate finds in the issue, as its   *)
(* last comment, the issue of the draft that this one was merged into.       *)
THEOREM DuplicatesAreNamed == Spec => DuplicateNamed
<1> DEFINE Closing(n) ==
      issues'[n].reason = "duplicate" /\ issues[n].reason # "duplicate" =>
        /\ issues[n].comments # <<>>
        /\ issues[Last(issues[n].comments)].id = loaded[issues[n].id].meta.into
           A == \A n \in DOMAIN issues : Closing(n)
<1>1. IInv /\ JInv /\ [Next]_vars => [A]_vars
  <2> SUFFICES ASSUME IInv, JInv, Next, NEW n \in DOMAIN issues,
                      issues'[n].reason = "duplicate", issues[n].reason # "duplicate"
               PROVE  /\ issues[n].comments # <<>>
                      /\ issues[Last(issues[n].comments)].id = loaded[issues[n].id].meta.into
    OBVIOUS
  <2>1. issues' # issues
    OBVIOUS
  <2>2. PICK d \in Draft : CloseIssue(d) /\ n = made[d].num
    <3>1. CASE \E k \in DOMAIN issues : ClosedByOthers(k)
      BY <3>1 DEF ClosedByOthers, IInv, Filed, IssueShape
    <3>2. CASE CreateIssue
      <4>1. DOMAIN issues = 1..Len(issues)
        BY DEF IInv, Filed
      <4>2. PICK u : issues' = Append(issues, u)
        BY <3>2 DEF CreateIssue
      <4>3. issues \in Seq({issues[k] : k \in 1..Len(issues)} \cup {u})
        BY DEF IInv, Filed
      <4>4. issues'[n] = issues[n]
        BY <4>1, <4>2, <4>3
      <4> QED BY <4>4
    <3>3. ASSUME NEW d \in Draft, NEW b \in Draft,
                 UpdateBody(d) \/ SyncResolvedLabel(d) \/ CommentDuplicate(d) \/ AddBlockedBy(d, b)
          PROVE  FALSE
      <4>1. PICK c, u : /\ Call(c, d, u) /\ c[2] = d
                        /\ \/ \E v : u = [Mine(d) EXCEPT !.body = v]
                           \/ \E v : u = [Mine(d) EXCEPT !.deps = v]
                           \/ \E v : u = [Mine(d) EXCEPT !.resolved = v]
                           \/ \E v : u = [Mine(d) EXCEPT !.comments = v]
        <5>1. CASE UpdateBody(d)
          BY <5>1 DEF UpdateBody, BodyCall
        <5>2. CASE SyncResolvedLabel(d)
          BY <5>2 DEF SyncResolvedLabel, LabelCall
        <5>3. CASE CommentDuplicate(d)
          BY <5>3 DEF CommentDuplicate, CommentCall
        <5>4. CASE AddBlockedBy(d, b)
          BY <5>4 DEF AddBlockedBy, BlockCall
        <5> QED BY <3>3, <5>1, <5>2, <5>3, <5>4
      <4>2. IssueShape(Mine(d)) /\ issues' = [issues EXCEPT ![made[d].num] = u]
        BY <4>1, CallFacts
      <4>3. u.reason = Mine(d).reason
        <5>1. PICK v : \/ u = [Mine(d) EXCEPT !.body = v] \/ u = [Mine(d) EXCEPT !.deps = v]
                       \/ u = [Mine(d) EXCEPT !.resolved = v] \/ u = [Mine(d) EXCEPT !.comments = v]
          BY <4>1
        <5>2. PICK i : i = Mine(d)
          OBVIOUS
        <5>3. \/ u = [i EXCEPT !.body = v] \/ u = [i EXCEPT !.deps = v]
              \/ u = [i EXCEPT !.resolved = v] \/ u = [i EXCEPT !.comments = v]
          BY <5>1, <5>2
        <5>4. u.reason = i.reason
          BY <4>2, <5>2, <5>3 DEF IssueShape
        <5> QED BY <5>2, <5>4
      <4> QED BY <4>2, <4>3 DEF Mine
    <3>4. \A d \in Draft : CloseIssue(d) => n = made[d].num
      BY DEF CloseIssue, Call
    <3>5. \E d \in Draft : CloseIssue(d)
      BY <2>1, <3>1, <3>2, <3>3 DEF Next, Import, Pass2Step, Rewrite, Generate, Restore,
         ImportStart, EnsureLabels, ExistingIssues, StartPass2, ImportEnds, ImportFails,
         WriteBackOpen, WriteBackText, RewriteStart, RewriteFile, RewriteText, RewriteEnds,
         RewriteFails, GenStart, GenOpen, GenText, GenFails, Revise,
         RestoreDraft, RestoreFile, RestorePage
    <3> QED BY <3>4, <3>5
  <2>3. PICK u : /\ Call(CloseCall(d), d, u) /\ CloseCall(d)[2] = d
                 /\ u = [Mine(d) EXCEPT !.state = "closed", !.reason = Reason(loaded[d].meta)]
    BY <2>2 DEF CloseIssue, CloseCall
  <2>4. /\ d \in Loaded /\ Mine(d).id = d /\ IssueShape(Mine(d)) /\ Up(CloseCall(d)) /\ Shown(d)
        /\ Mine(d)' = u
    BY <2>3, CallFacts
  <2>5. loaded[d].meta.state = "merged"
    <3>1. u.reason = Reason(loaded[d].meta)
      BY <2>3, <2>4, Fields
    <3>2. made' = made
      BY <2>3 DEF Call
    <3>3. issues'[n].reason = u.reason
      BY <2>2, <2>4, <3>2 DEF Mine
    <3> QED BY <3>1, <3>3 DEF Reason
  <2>6. CommentCall(d) \notin calls
    <3>1. CommentCall(d) # CloseCall(d)
      BY DEF CommentCall, CloseCall
    <3> QED BY <2>4, <3>1, Order DEF Up
  <2> QED BY <2>2, <2>4, <2>5, <2>6 DEF Shown, Named, Mine, Up
<1> QED BY <1>1, InvariantHolds, JInvariantHolds, PTL DEF Spec, DuplicateNamed
=============================================================================

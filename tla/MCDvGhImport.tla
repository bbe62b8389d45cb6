---------------------------- MODULE MCDvGhImport ----------------------------
(* Three drafts: one may be written later, be merged, resolved or closed.  *)
EXTENDS DvGhImport

MCDraft == 1..3
MCFile == 1..2
MCCites == << <<3, 1>>, <<2>> >>

M(state, into, blocked, refs) == [state |-> state, into |-> into, blocked |-> blocked, refs |-> refs]
Absent == M("absent", 0, {}, {})
MCStarts == {
  << M("open", 0, {2}, {3}), M("resolved", 0, {}, {1}), Absent >>,
  << M("open", 0, {}, {2}), M("open", 0, {}, {}), M("merged", 1, {}, {1}) >>}
MCRevisions == {
  <<3, M("merged", 2, {}, {})>>, <<2, M("closed", 0, {}, {})>>,
  <<1, M("merged", 3, {}, {2})>>, <<2, M("resolved", 0, {}, {3})>>}
=============================================================================

CONSTANTS
  Draft <- MCDraft
  Starts <- MCStarts
  Revisions <- MCRevisions
  File <- MCFile
  Cites <- MCCites
  Budget = 2
  Overlap = FALSE
SPECIFICATION Spec
INVARIANTS TypeOK OneIssuePerDraft CitationsRight ImportMirrors
PROPERTIES DuplicateNamed WorkFinishes
CHECK_DEADLOCK FALSE

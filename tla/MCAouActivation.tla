--------------------------- MODULE MCAouActivation ---------------------------
EXTENDS AouActivation, TLC

CONSTANTS a, b

MCDie  == {a, b}
MCNone == {}

Quiet == [txPending |-> FALSE, rxNew |-> FALSE,
          mstClean |-> TRUE, slvClean |-> TRUE]
MCQuiet == {Quiet}
MCSym   == Permutations(MCDie)
==============================================================================

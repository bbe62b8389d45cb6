------------------------ MODULE MCAouActivationSession ------------------------
EXTENDS AouActivationSession

CONSTANTS a, b

MCDie  == {a, b}

Quiet == [txPending |-> FALSE, rxNew |-> FALSE,
          mstClean |-> TRUE, slvClean |-> TRUE]
Busy  == [txPending |-> TRUE, rxNew |-> FALSE,
          mstClean |-> FALSE, slvClean |-> FALSE]

MCBus  == {Quiet, Busy}
===============================================================================

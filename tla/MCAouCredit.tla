----------------------------- MODULE MCAouCredit -----------------------------
EXTENDS AouCredit

MCAw  == {"AW"}
MCAwB == {"AW", "B"}

\* A field names 0, 1 or 4 granules: 2 are advertised in two grants, the
\* first of them the CrdtGrant; 5 are advertised as 4 and 1, 3 as 1, 1, 1.
MCMax   == [ch \in Channel |-> IF ch[1] = "AW" THEN 5 ELSE 3]
MCMax2  == [ch \in Channel |-> 2]
MCWrap  == [ch \in Channel |-> 8]
MCWrap4 == [ch \in Channel |-> 4]
MCGran  == [c \in Class |-> IF c = "AW" THEN 2 ELSE 1]
MCGran1 == [c \in Class |-> 1]
==============================================================================

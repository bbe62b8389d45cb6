------------------------------ MODULE AouCredit ------------------------------
(***************************************************************************)
(* The credit loop of one direction of the traffic.  The grantor counts    *)
(* what it advertised and did not get back (RTL/AOU_RX_CRD_CTRL.sv) and    *)
(* sends credit in a CrdtGrant message first and in the MsgCredit field of *)
(* the flit headers afterwards.  The sender counts what it was given       *)
(* (RTL/AOU_TX_CRD_CTRL.sv) and spends it when a message enters its TX     *)
(* FIFO (RTL/AOU_TX_AXI_BUFFER.sv).  The message crosses the link, and     *)
(* its credit is free when the grantor pops it from the RX FIFO, which     *)
(* takes every message it is offered (RTL/AOU_FIFO_RP.sv, ALWAYS_READY).   *)
(*                                                                         *)
(* Credit and messages are measured in granules.  When credit and messages *)
(* may flow is the business of the activation controllers: the session is  *)
(* that of AouSession.                                                     *)
(***************************************************************************)
EXTENDS Integers, FiniteSets

CONSTANTS
    SeparateRsp,    \* AOU_CON0.CREDIT_MANAGE
    Class,          \* the message classes (AW, W, AR, R, B)
    ReqClass,       \* those that are requests and write data
    ShortClass,     \* those whose credit field has two bits (B)
    RpCount,        \* RP_COUNT, the resource planes
    Max,            \* RP*_RX_*_MAX_CREDIT, of each class and plane
    Wrap,           \* 2^CNT_RP*_*_MAX_CREDIT: where its counter wraps
    TxMax,          \* RP*_TX_*_MAX_CREDIT
    Gran,           \* granules of a message of each class
    Quiescent       \* FALSE: sessions may also end with messages pending,
                    \* as DEACTIVATE_FORCE allows

RP      == 0..RpCount - 1
Channel == Class \X RP

ASSUME CreditAssumption ==
    /\ SeparateRsp \in BOOLEAN /\ Quiescent \in BOOLEAN
    /\ ReqClass \subseteq Class /\ ShortClass \subseteq Class
    /\ RpCount \in 1..4
    /\ Max \in [Channel -> Nat \ {0}]
    /\ Wrap \in [Channel -> Nat]
    /\ \A ch \in Channel : Max[ch] < Wrap[ch]
    /\ TxMax \in [Channel -> Nat]
    /\ Gran \in [Class -> Nat \ {0}]
    /\ \A ch \in Channel : Gran[ch[1]] <= Max[ch]

VARIABLES
    \* AouSession
    sender, sends, grantor, grants, closed,
    \* the grantor
    cnt,        \* r_cnt_*_credit_rx: advertised and not returned
    stage,      \* "none", then "granted" (r_aou_crdtgrant_hs), then "done"
                \* (r_aou_misc_crdgrant_done)
    frozen,     \* r_prev_req while r_keep_prev_req, else empty
    last,       \* r_grant
    slot,       \* u_aou_rs_msgcredit, between the counter and the header
    rxq,        \* the RX FIFOs
    \* the link
    crd,        \* credit on the way to the sender
    data,       \* messages on the way to the grantor
    \* the sender
    held,       \* r_cnt_*_credit_rx of AOU_TX_CRD_CTRL
    txq         \* the TX FIFOs

sessionVars == <<sender, sends, grantor, grants, closed>>
grantorVars == <<cnt, stage, frozen, last, slot, crd>>
vars == <<sessionVars, grantorVars, rxq, data, held, txq>>

KindOf(ch) == IF ch[1] \in ReqClass THEN "req" ELSE "rsp"
Flying     == {KindOf(ch) : ch \in {c \in Channel : data[c] > 0}}

Session == INSTANCE AouSession WITH flying <- Flying

Empty  == [ch \in Channel |-> 0]
NoSlot == [valid |-> FALSE, grant |-> Empty]

Slot == [valid : BOOLEAN, grant : [Channel -> Nat]]

TypeOK ==
    /\ Session!TypeOK
    /\ cnt \in [Channel -> Nat] /\ \A ch \in Channel : cnt[ch] < Wrap[ch]
    /\ stage \in {"none", "granted", "done"}
    /\ frozen \in SUBSET RP
    /\ last \in 0..3
    /\ slot \in Slot
    /\ rxq \in [Channel -> Nat]
    /\ crd \in [Channel -> Nat]
    /\ data \in [Channel -> Nat]
    /\ held \in [Channel -> Nat] /\ \A ch \in Channel : held[ch] <= TxMax[ch]
    /\ txq \in [Channel -> Nat]

Init ==
    /\ rxq = Empty /\ crd = Empty /\ data = Empty
    /\ held = Empty /\ txq = Empty
    /\ Session!Init
    /\ cnt = Empty /\ stage = "none"
    /\ frozen = {} /\ last = 3
    /\ slot = NoSlot

Plus(f, g) == [ch \in Channel |-> f[ch] + g[ch]]

-----------------------------------------------------------------------------
(* What the grantor may advertise.                                         *)

\* CREDIT_TABLE: the amounts a credit field can name.
CreditTable(c) ==
    {0, 1, 4, 8} \cup IF c \in ShortClass THEN {} ELSE {16, 32, 64, 128}

\* The width of the counter.
Truncate(ch, n) ==
    IF n < 0 THEN n + Wrap[ch] ELSE IF n >= Wrap[ch] THEN n - Wrap[ch] ELSE n

\* Mutant: requests taken in ACTIVATE return credit, too.
ReturnedUnmasked(pop, ch) == IF ch \in pop THEN Gran[ch[1]] ELSE 0

\* w_cnt_rp_*_credit_return_rx: requests taken in ACTIVATE return nothing.
Returned(pop, ch) ==
    IF ch \in pop /\ (KindOf(ch) = "rsp" \/ grantor = "session")
    THEN Gran[ch[1]] ELSE 0

\* w_cnt_*_credit_rx_available
Available(pop, ch) == Truncate(ch, Max[ch] - (cnt[ch] - Returned(pop, ch)))

\* o_aou_msgcrdt_*cred: what one field names, while `kinds' may be granted.
Best(c, n) ==
    CHOOSE m \in CreditTable(c) :
        m <= n /\ \A k \in CreditTable(c) : k <= n => k <= m

BestIndex(pop, kinds) ==
    [ch \in Channel |->
        IF KindOf(ch) \in kinds THEN Best(ch[1], Available(pop, ch)) ELSE 0]

-----------------------------------------------------------------------------
(* AOU_4X1_ARBITER: whose credit the next MsgCredit carries, when `best'   *)
(* could be advertised.                                                    *)

\* w_credit_en
Asking(best) == {r \in RP : \E c \in Class : best[<<c, r>>] > 0}

\* Mutant: a fixed priority.
RoundRobinFixed(set) ==
    IF set = {} THEN last ELSE CHOOSE r \in set : \A q \in set : r <= q

\* AOU_4X1_RR_ARBITER: the first of `set' after the last one served.
RoundRobin(set) ==
    IF set = {} THEN last
    ELSE CHOOSE r \in set :
            \A q \in set : (r - last - 1) % 4 <= (q - last - 1) % 4

\* O_GRANTED_AGENT.  A request set that had to wait is served as it was.
Chosen(best) == RoundRobin(IF frozen # {} THEN frozen ELSE Asking(best))

\* O_AOU_MSGCREDIT_*CRED
OfPlane(best, r) ==
    [ch \in Channel |-> IF stage = "done" /\ ch[2] = r THEN best[ch] ELSE 0]

Payload(best) == OfPlane(best, Chosen(best))

\* O_AOU_MSGCREDIT_RP: a MsgCredit without credit names plane 0.
NamedRp(best) == IF Payload(best) = Empty THEN 0 ELSE Chosen(best)

\* What the counters add for it: the credit of the plane it names.
Counted(best) == OfPlane(best, NamedRp(best))

-----------------------------------------------------------------------------
(* A clock edge of the grantor outside DISABLED: it pops `pop' from the RX *)
(* FIFOs, and a flit leaves its transmit path if `flit'.  `initial' is the *)
(* cycle in which advertising begins.                                      *)

InSlot == IF slot.valid THEN slot.grant ELSE Empty

\* What reaches the link.
SlotLeaving(flit) == IF flit THEN InSlot ELSE Empty

Edge(pop, flit, initial) ==
    LET best      == BestIndex(pop, IF initial THEN Session!Kind ELSE grants)
        fill      == flit \/ ~slot.valid    \* O_AOU_MSGCREDIT_CRED_READY
        arbiterEn == stage = "done" /\ fill \* I_ARB_EN
        crdtGrant == IF initial THEN best ELSE Empty
        msgCredit == IF fill THEN Counted(best) ELSE Empty
    IN
    /\ rxq' = [ch \in Channel |-> IF ch \in pop THEN rxq[ch] - Gran[ch[1]]
                                  ELSE rxq[ch]]
    /\ cnt' = [ch \in Channel |->
                 Truncate(ch, cnt[ch] - Returned(pop, ch)
                                + msgCredit[ch] + crdtGrant[ch])]
    /\ stage' = IF initial THEN "granted"
                ELSE IF stage = "granted" /\ fill THEN "done" ELSE stage
    /\ frozen' = IF arbiterEn THEN {}
                 ELSE IF frozen # {} THEN frozen ELSE Asking(best)
    /\ last' = IF arbiterEn /\ Asking(best) # {} THEN Chosen(best) ELSE last
    /\ slot' = IF fill THEN [valid |-> TRUE, grant |-> Payload(best)] ELSE slot
    /\ crd' = Plus(Plus(crd, SlotLeaving(flit)), crdtGrant)

\* Mutant: a FIFO is popped whether it holds a message or not.
PoppableAlways == Channel

\* At most one message leaves an RX FIFO in a cycle.
Poppable == {ch \in Channel : rxq[ch] >= Gran[ch[1]]}

GrantorStep(pop, flit) ==
    /\ UNCHANGED <<sessionVars, data, held, txq>>
    /\ grantor # "down"
    /\ Edge(pop, flit, FALSE)

GrantorEdge ==
    \E pop \in SUBSET Poppable, flit \in BOOLEAN : GrantorStep(pop, flit)

\* In DISABLED the RX FIFOs drain, and nothing counts it.
DrainDisabled ==
    /\ grantor = "down"
    /\ \E ch \in Poppable : rxq' = [rxq EXCEPT ![ch] = @ - Gran[ch[1]]]
    /\ UNCHANGED <<sessionVars, grantorVars, data, held, txq>>

-----------------------------------------------------------------------------
(* The sender.                                                             *)

\* Without quiescence the sender may owe a response when the grantor stops.
Owed(ch) == KindOf(ch) \in Session!Told \cup grants \/ ~Quiescent

\* A message enters its TX FIFO and pays.
Insert(ch) ==
    /\ KindOf(ch) \in sends /\ Owed(ch)
    /\ held[ch] >= Gran[ch[1]]
    /\ held' = [held EXCEPT ![ch] = @ - Gran[ch[1]]]
    /\ txq' = [txq EXCEPT ![ch] = @ + Gran[ch[1]]]
    /\ UNCHANGED <<sessionVars, grantorVars, rxq, data>>

\* It is packed, as long as its kind may be sent.
Pack(ch) ==
    /\ txq[ch] >= Gran[ch[1]]
    /\ txq' = [txq EXCEPT ![ch] = @ - Gran[ch[1]]]
    /\ data' = [data EXCEPT ![ch] = @ + Gran[ch[1]]]
    /\ Session!Depart(KindOf(ch))
    /\ UNCHANGED <<grantorVars, rxq, held>>

\* It enters the RX FIFO, full or not.
Deliver(ch) ==
    /\ data[ch] >= Gran[ch[1]]
    /\ data' = [data EXCEPT ![ch] = @ - Gran[ch[1]]]
    /\ rxq' = [rxq EXCEPT ![ch] = @ + Gran[ch[1]]]
    /\ Session!Arrive(KindOf(ch))
    /\ UNCHANGED <<grantorVars, held, txq>>

\* Mutant: the counter saturates one too early.
CreditArrivesShort(ch) ==
    /\ sender # "down"
    /\ \E n \in 1..crd[ch] :
          /\ crd' = [crd EXCEPT ![ch] = @ - n]
          /\ held' = [held EXCEPT ![ch] = IF @ + n < TxMax[ch] THEN @ + n
                                          ELSE TxMax[ch] - 1]
    /\ UNCHANGED <<sessionVars, cnt, stage, frozen, last, slot, rxq, data, txq>>

\* Credit arrives at a sender that counts; the counter saturates.
CreditArrives(ch) ==
    /\ sender # "down"
    /\ \E n \in 1..crd[ch] :
          /\ crd' = [crd EXCEPT ![ch] = @ - n]
          /\ held' = [held EXCEPT ![ch] = IF @ + n < TxMax[ch] THEN @ + n
                                          ELSE TxMax[ch]]
    /\ UNCHANGED <<sessionVars, cnt, stage, frozen, last, slot, rxq, data, txq>>

-----------------------------------------------------------------------------
(* The session.                                                            *)

Boot ==
    /\ UNCHANGED <<data, held, txq>>
    /\ Session!Boot
    /\ grantor' = "session" => rxq = Empty
    /\ \E pop \in SUBSET Poppable, flit \in BOOLEAN : Edge(pop, flit, TRUE)

\* The grantor asks for its session when its RX FIFOs are empty
\* (I_AOU_RX_FIFO_PENDING), and nothing enters them before the session.
Open ==
    /\ UNCHANGED <<grantorVars, rxq, data, held, txq>>
    /\ Session!Open
    /\ rxq = Empty

Establish ==
    /\ UNCHANGED <<grantorVars, rxq, data, held, txq>>
    /\ Session!Establish
    /\ rxq = Empty

\* A DEACTIVATE_START waits until nothing is pending in the transmit path,
\* and, with CREDIT_MANAGE = 1, for the responses to this die's requests
\* (I_TX_PENDING, I_SLV_BUS_CLEANY_COMPLETE).
Pending(queues) ==
    {KindOf(ch) : ch \in {c \in Channel : \E q \in queues : q[c] > 0}}

StopSending ==
    /\ UNCHANGED <<grantorVars, rxq, data, held, txq>>
    /\ Session!StopSending
    /\ Quiescent => Pending({txq}) \cap Session!Told = {}

Answered == Quiescent => "rsp" \notin Pending({txq, data, rxq})

StopGranting ==
    /\ UNCHANGED <<grantorVars, rxq, data, held, txq>>
    /\ Session!StopGranting
    /\ Answered

HearSenderStop ==
    /\ UNCHANGED <<grantorVars, rxq, data, held, txq>>
    /\ Session!HearSenderStop
    /\ grants \ grants' \subseteq Session!Told \/ Answered

\* Nothing changes but the enables.
Handshake ==
    /\ UNCHANGED <<grantorVars, rxq, data, held, txq>>
    /\ Session!Count \/ Session!HearGrantorStop

\* The flit with the last activation message takes the MsgCredit along.
Close ==
    /\ UNCHANGED <<data, held, txq>>
    /\ Session!Close
    /\ IF grantor = "down"
       THEN /\ slot' = NoSlot
            /\ crd' = Plus(crd, InSlot)
            /\ UNCHANGED <<cnt, stage, frozen, last, rxq>>
       ELSE \E pop \in SUBSET Poppable : Edge(pop, TRUE, FALSE)

\* The credit counters restart.  (The CrdtGrant left long ago in a flit.)
GrantorDown ==
    /\ UNCHANGED <<frozen, last, slot, crd, rxq, data, held, txq>>
    /\ Session!GrantorDown /\ closed' = closed
    /\ stage = "done"
    /\ cnt' = Empty
    /\ stage' = "none"

\* Every flit before the one with the last activation message has arrived.
SenderDown ==
    /\ UNCHANGED <<grantorVars, rxq, data, txq>>
    /\ Session!SenderDown
    /\ crd = Empty
    /\ held' = Empty

Next ==
    \/ GrantorEdge \/ DrainDisabled
    \/ \E ch \in Channel : Insert(ch) \/ Pack(ch) \/ Deliver(ch) \/ CreditArrives(ch)
    \/ Boot \/ Open \/ Establish \/ Handshake
    \/ StopSending \/ HearSenderStop \/ StopGranting
    \/ Close \/ GrantorDown \/ SenderDown

Spec == Init /\ [][Next]_vars

\* Flits leave as long as the link is up: the transmit path sends them
\* without end or, in low-power mode, whenever a header has credit to carry.
\* What is in an RX FIFO is taken by the AXI side sooner or later, what is
\* in a TX FIFO is packed, and what the link carries arrives.
FlitLeaves == \E pop \in SUBSET Poppable : GrantorStep(pop, TRUE)

Popped(ch) ==
    \E pop \in SUBSET Poppable, flit \in BOOLEAN :
        ch \in pop /\ GrantorStep(pop, flit)

Fairness ==
    /\ WF_vars(FlitLeaves)
    /\ WF_vars(Open) /\ WF_vars(Establish)
    /\ \A ch \in Channel :
        /\ WF_vars(Popped(ch)) /\ WF_vars(Pack(ch))
        /\ WF_vars(Deliver(ch)) /\ WF_vars(CreditArrives(ch))

LiveSpec == Spec /\ Fairness

-----------------------------------------------------------------------------
(* Properties.                                                             *)

\* No message reaches a full RX FIFO, whatever the two dies and the link do:
\* through any number of sessions, also when requests of the last session
\* are still being taken while credit is advertised for the next.  (The
\* FIFO accepts messages without a READY; this one would be lost.)
RxFifoNeverOverflows == \A ch \in Channel : rxq[ch] <= Max[ch]

Outstanding(ch) ==
    held[ch] + crd[ch] + InSlot[ch] + txq[ch] + data[ch]
        + (IF grantor = "session" THEN rxq[ch] ELSE 0)

\* The reason why: every credit the sender could still use and every message
\* it paid for is accounted for in the grantor's counter, which stays within
\* the FIFO.
CreditCovered ==
    grantor # "down" =>
        \A ch \in Channel : Outstanding(ch) <= cnt[ch] /\ cnt[ch] <= Max[ch]

\* With one resource plane and a sender that can count what it is given, no
\* credit is lost either: all the counter stands for is somewhere.
CreditConserved ==
    grantor # "down" /\ sender = "open" =>
        \A ch \in Channel : Outstanding(ch) = cnt[ch]

\* A sender that waits for credit gets it as long as the kind of message may
\* be sent and granted: the planes share the header fairly, and returned
\* credit is advertised again.
CreditReturns ==
    \A ch \in Channel :
        KindOf(ch) \in sends ~>
            held[ch] >= Gran[ch[1]] \/ KindOf(ch) \notin grants \cap sends
==============================================================================

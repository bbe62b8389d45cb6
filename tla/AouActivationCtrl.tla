-------------------------- MODULE AouActivationCtrl --------------------------
(***************************************************************************)
(* The activation controller of AOU_CORE (RTL/AOU_ACTIVATION_CTRL.sv): the *)
(* FSM that takes the AXI-over-UCIe session of a die up and down by        *)
(* exchanging Activate/Deactivate Req and Ack messages with the die at the *)
(* other end of the FDI link.                                              *)
(*                                                                         *)
(* Tick(d, in) is one rising edge of I_CLK at die d: `in' holds the input  *)
(* ports in the cycle that ends with the edge, the unprimed variables are  *)
(* the registers during it, and the operators in between are the wires.    *)
(* The module fixes no environment: AouActivation connects two dies.       *)
(***************************************************************************)
EXTENDS Naturals, Sequences, FiniteSets

CONSTANTS
    Die,            \* the dies at the two ends of the link
    SeparateRsp,    \* those with AOU_CON0.CREDIT_MANAGE = 1 (the default)
    QuietWindow     \* w_time_out_value: cycles without traffic before a Req

ASSUME CtrlAssumption ==
    /\ SeparateRsp \subseteq Die
    /\ QuietWindow \in Nat \ {0}

VARIABLES
    st,             \* r_cur_st
    hs,             \* the handshake flags that are 1
    reg,            \* the other one-bit registers that are 1
    armed,          \* the Ack and MsgCredit waits that are running
    timeOut,        \* r_time_out
    actq            \* u_aou_sync_2s1m_activation, head first

ctrlVars == <<st, hs, reg, armed, timeOut, actq>>

-----------------------------------------------------------------------------

State == {"DISABLED", "ACTIVATE", "ENABLED", "DEACTIVATE"}

ActFlag   == {"tx_activate_req", "tx_activate_ack",
              "rx_activate_req", "rx_activate_ack"}
DeactHs   == {"tx_deactivate_req", "tx_deactivate_ack",
              "rx_deactivate_req", "rx_deactivate_ack"}
DeactFlag == DeactHs \cup {"rx_deactivate_propertyreq"}
Flag      == ActFlag \cup DeactFlag
ActReq    == {"tx_activate_req", "rx_activate_req"}

\* The _1d registers of the edge detectors and r_deactivate_block.
Reg == {"activate_start", "deactivate_start", "deactivate_force",
        "mst_complete", "ucie_init_done", "deactivate_block"}

\* r_act_req_send, r_deact_req_send and r_act_ack_receive.
Wait == {"ActAck", "DeactAck", "MsgCredit"}

\* A DeactivateReq with PropertyReq = 1 (sent by DEACTIVATE_FORCE) is a
\* message of its own; PropertyReq is 0 in every other message.
DeactReq == {"DeactivateReq", "DeactivateReqForced"}
Message  == {"ActivateReq", "ActivateAck", "DeactivateAck"} \cup DeactReq
None     == "None"

\* The AOU_CON0 and AOU_INIT fields the controller reads.
Field == {"ACTIVATE_START", "DEACTIVATE_START", "DEACTIVATE_FORCE"}

ActFifoDepth == 4

Input ==
    [msg       : Message \cup {None},   \* I_ACTMSG_*: what arrives
     ready     : BOOLEAN,               \* I_ACTMSG_READY
     link      : BOOLEAN,               \* I_UCIE_INIT_DONE
     field     : SUBSET Field,
     txPending : BOOLEAN,               \* I_TX_PENDING
     rxPending : BOOLEAN,               \* I_AOU_RX_FIFO_PENDING
     rxNew     : BOOLEAN,               \* I_AOU_RX_NEW_TR_HS
     mstClean  : BOOLEAN,               \* I_MST_BUS_CLEANY_COMPLETE
     slvClean  : BOOLEAN,               \* I_SLV_BUS_CLEANY_COMPLETE
     credit    : BOOLEAN,               \* I_CRDTGRANT_VALID
     expired   : SUBSET Wait]           \* waits at their limit

CtrlTypeOK ==
    /\ st \in [Die -> State]
    /\ hs \in [Die -> SUBSET Flag]
    /\ reg \in [Die -> SUBSET Reg]
    /\ armed \in [Die -> SUBSET Wait]
    /\ timeOut \in [Die -> 0..QuietWindow]
    /\ actq \in [Die -> Seq(Message)]

CtrlInit ==
    /\ st = [d \in Die |-> "DISABLED"]
    /\ hs = [d \in Die |-> {}]
    /\ reg = [d \in Die |-> {}]
    /\ armed = [d \in Die |-> {}]
    /\ timeOut = [d \in Die |-> 0]
    /\ actq = [d \in Die |-> <<>>]

\* A register bit, and a write port, as a set and a sequence.
Bit(b, x) == IF b THEN {x} ELSE {}
Slot(m)   == IF m = None THEN <<>> ELSE <<m>>

Idle(d)    == st[d] \in {"DISABLED", "ACTIVATE"}
Session(d) == st[d] \in {"ENABLED", "DEACTIVATE"}

\* O_ACTMSG_*: the message offered to the transmit path, and the one the
\* transmit path takes in this cycle.
Offered(d)  == IF actq[d] = <<>> THEN None ELSE Head(actq[d])
Sent(d, in) == IF in.ready THEN Offered(d) ELSE None

-----------------------------------------------------------------------------
(* Errors.                                                                 *)

\* w_invalid_msgtype
InvalidActmsg(d, m) ==
    \/ Idle(d) /\ m \in DeactReq \cup {"DeactivateAck"}
    \/ Session(d) /\ m \in {"ActivateReq", "ActivateAck"}

LinkFell(d, in) == "ucie_init_done" \in reg[d] /\ ~in.link

\* w_lp_linkerror_start: the causes that request LinkReset.
LinkError(d, in) == in.expired # {} \/ InvalidActmsg(d, in.msg)

FsmAbort(d, in) == LinkError(d, in) \/ LinkFell(d, in)

\* Mutant: the request that leaves or arrives in the cycle is forgotten.
IntFdiLinkDownLate(d, in) ==
    /\ LinkFell(d, in)
    /\ st[d] # "DISABLED" \/ hs[d] \cap ActReq # {}

\* O_INT_FDI_LINK_DOWN
IntFdiLinkDown(d, in) ==
    /\ LinkFell(d, in)
    /\ \/ st[d] # "DISABLED"
       \/ hs[d] \cap ActReq # {}
       \/ "ActivateReq" \in {Sent(d, in), in.msg}

-----------------------------------------------------------------------------
(* Requests of this die and answers to the other one.                      *)

\* Mutants: a request already sent is no obstacle to the next one; only a
\* die in ENABLED may ask.
DeactivateEnAgain(d) == Session(d) /\ Offered(d) \notin DeactReq
DeactivateEnFirst(d) ==
    /\ st[d] = "ENABLED"
    /\ "tx_deactivate_req" \notin hs[d] /\ Offered(d) \notin DeactReq

\* w_activate_en, w_deactivate_en: no request of the kind is outstanding.
ActivateEn(d) ==
    Idle(d) /\ "tx_activate_req" \notin hs[d] /\ Offered(d) # "ActivateReq"

DeactivateEn(d) ==
    Session(d) /\ "tx_deactivate_req" \notin hs[d] /\ Offered(d) \notin DeactReq

\* Mutant: the receive FIFOs are not looked at.
ActivateLevelUndrained(d, in) ==
    in.link /\ "ACTIVATE_START" \in in.field /\ ActivateEn(d)

\* Mutant: nor is the link.
ActivateLevelLinkless(d, in) ==
    "ACTIVATE_START" \in in.field /\ ActivateEn(d) /\ ~in.rxPending

\* The level each edge detector watches.
ActivateLevel(d, in) ==
    /\ in.link
    /\ "ACTIVATE_START" \in in.field
    /\ ActivateEn(d)
    /\ ~in.rxPending

DeactivateLevel(d, in) ==
    /\ "DEACTIVATE_START" \in in.field
    /\ timeOut[d] = QuietWindow
    /\ DeactivateEn(d)
    /\ IF d \in SeparateRsp
       THEN in.slvClean
       ELSE /\ in.mstClean /\ "deactivate_block" \notin reg[d]
            /\ in.slvClean \/ "rx_deactivate_req" \in hs[d]

\* Mutant: DEACTIVATE_FORCE works outside a session.
ForceLevelAnywhere(d, in) ==
    /\ "DEACTIVATE_FORCE" \in in.field
    /\ "tx_deactivate_req" \notin hs[d] /\ Offered(d) \notin DeactReq

ForceLevel(d, in) == "DEACTIVATE_FORCE" \in in.field /\ DeactivateEn(d)

Request(d, in) ==
    IF ActivateLevel(d, in) /\ "activate_start" \notin reg[d]
    THEN "ActivateReq"
    ELSE IF DeactivateLevel(d, in) /\ "deactivate_start" \notin reg[d]
    THEN "DeactivateReq"
    ELSE IF ForceLevel(d, in) /\ "deactivate_force" \notin reg[d]
    THEN "DeactivateReqForced"
    ELSE None

\* Mutant: no Ack for a request that crosses this die's own.
AnswerUncrossed(d, in) ==
    IF in.msg = "ActivateReq" /\ st[d] = "DISABLED" THEN "ActivateAck"
    ELSE IF in.msg \in DeactReq THEN "DeactivateAck"
    ELSE None

\* w_activate_related1, w_deactivate_related1.  A DeactivateReq is answered
\* in every state, the invalid one included.
Answer(d, in) ==
    IF in.msg = "ActivateReq" /\ Idle(d) THEN "ActivateAck"
    ELSE IF in.msg \in DeactReq THEN "DeactivateAck"
    ELSE None

\* What the two write ports push, the request first.  The FIFO takes nothing
\* unless both ports fit; nobody looks at its O_SREADY.
Pushed(d, in)   == Slot(Request(d, in)) \o Slot(Answer(d, in))
\* Mutant: a FIFO of depth 2, one entry for each write port.
ActFifoReadyOf2(d) == Len(actq[d]) + 2 <= 2

ActFifoReady(d) == Len(actq[d]) + 2 <= ActFifoDepth

NextActq(d, in) ==
    (IF Sent(d, in) = None THEN actq[d] ELSE Tail(actq[d]))
        \o (IF ActFifoReady(d) THEN Pushed(d, in) ELSE <<>>)

-----------------------------------------------------------------------------
(* The FSM and its handshake flags.                                        *)

\* Mutants: the session starts with this die's Ack alone, and ends with it.
NextStateEager(d, in) ==
    IF FsmAbort(d, in) THEN "DISABLED"
    ELSE IF st[d] = "DISABLED"
            /\ hs[d] \cap ActReq # {}
    THEN "ACTIVATE"
    ELSE IF st[d] = "ACTIVATE" /\ "tx_activate_ack" \in hs[d] THEN "ENABLED"
    ELSE IF st[d] = "ENABLED"
            /\ hs[d] \cap {"tx_deactivate_req", "rx_deactivate_req"} # {}
    THEN "DEACTIVATE"
    ELSE IF st[d] = "DEACTIVATE" /\ "tx_deactivate_ack" \in hs[d] THEN "DISABLED"
    ELSE st[d]

NextState(d, in) ==
    CASE FsmAbort(d, in) -> "DISABLED"
      [] ~FsmAbort(d, in) /\ st[d] = "DISABLED" ->
            IF hs[d] \cap ActReq # {}
            THEN "ACTIVATE" ELSE "DISABLED"
      [] ~FsmAbort(d, in) /\ st[d] = "ACTIVATE" ->
            IF ActFlag \subseteq hs[d] THEN "ENABLED" ELSE "ACTIVATE"
      [] ~FsmAbort(d, in) /\ st[d] = "ENABLED" ->
            IF hs[d] \cap {"tx_deactivate_req", "rx_deactivate_req"} # {}
            THEN "DEACTIVATE" ELSE "ENABLED"
      [] ~FsmAbort(d, in) /\ st[d] = "DEACTIVATE" ->
            IF DeactHs \subseteq hs[d] THEN "DISABLED" ELSE "DEACTIVATE"

\* The flags this cycle's messages set ...
SetFlags(d, in) ==
         Bit(Sent(d, in) = "ActivateReq", "tx_activate_req")
    \cup Bit(Sent(d, in) = "ActivateAck", "rx_activate_ack")
    \cup Bit(Sent(d, in) \in DeactReq, "tx_deactivate_req")
    \cup Bit(Sent(d, in) = "DeactivateAck", "rx_deactivate_ack")
    \cup Bit(in.msg = "ActivateReq" /\ Idle(d), "rx_activate_req")
    \cup Bit(in.msg = "ActivateAck" /\ st[d] = "ACTIVATE", "tx_activate_ack")
    \cup Bit(in.msg \in DeactReq, "rx_deactivate_req")
    \cup Bit(in.msg = "DeactivateAck", "tx_deactivate_ack")
    \cup Bit(in.msg = "DeactivateReqForced", "rx_deactivate_propertyreq")

\* ... and those it clears when it does not set them.
ClearFlags(d, in) ==
    CASE st[d] = "ACTIVATE" ->
            IF NextState(d, in) = "ENABLED" THEN ActFlag ELSE {}
      [] st[d] = "DEACTIVATE" ->
            {"tx_activate_ack"} \cup
            (IF NextState(d, in) = "DISABLED" THEN DeactFlag ELSE {})
      [] OTHER -> {"tx_activate_ack"}

NextFlags(d, in) ==
    IF FsmAbort(d, in) THEN {}
    ELSE (hs[d] \ ClearFlags(d, in)) \cup SetFlags(d, in)

-----------------------------------------------------------------------------
(* The other registers.                                                    *)

\* r_deactivate_block: a request of the other die arrived when none was
\* pending, so its response is still to be sent.
NextBlock(d, in) ==
    \/ in.mstClean /\ in.rxNew
    \/ /\ "deactivate_block" \in reg[d]
       /\ ~("mst_complete" \in reg[d] /\ ~in.mstClean)

NextReg(d, in) ==
         Bit(ActivateLevel(d, in), "activate_start")
    \cup Bit(DeactivateLevel(d, in), "deactivate_start")
    \cup Bit(ForceLevel(d, in), "deactivate_force")
    \cup Bit(in.mstClean, "mst_complete")
    \cup Bit(in.link, "ucie_init_done")
    \cup Bit(NextBlock(d, in), "deactivate_block")

\* Mutant: the counter does not stop.
NextTimeOutRunning(d, in) ==
    IF Idle(d) \/ in.txPending THEN 0 ELSE timeOut[d] + 1

NextTimeOut(d, in) ==
    IF Idle(d) \/ in.txPending THEN 0
    ELSE IF timeOut[d] = QuietWindow THEN QuietWindow ELSE timeOut[d] + 1

\* Each wait is armed by its first condition, which has priority, and
\* released by the second or by its own time-out.
NextArmed(d, in) ==
    IF FsmAbort(d, in) THEN {}
    ELSE Bit(\/ Sent(d, in) = "ActivateReq"
             \/ "ActAck" \in armed[d] /\ in.msg # "ActivateAck", "ActAck")
         \cup
         Bit(\/ Sent(d, in) \in DeactReq
             \/ "DeactAck" \in armed[d] /\ in.msg # "DeactivateAck", "DeactAck")
         \cup
         Bit(\/ in.msg = "ActivateAck" /\ st[d] = "ACTIVATE"
             \/ "MsgCredit" \in armed[d] /\ ~in.credit, "MsgCredit")

Tick(d, in) ==
    /\ in.expired \subseteq armed[d]
    /\ st' = [st EXCEPT ![d] = NextState(d, in)]
    /\ hs' = [hs EXCEPT ![d] = NextFlags(d, in)]
    /\ reg' = [reg EXCEPT ![d] = NextReg(d, in)]
    /\ armed' = [armed EXCEPT ![d] = NextArmed(d, in)]
    /\ timeOut' = [timeOut EXCEPT ![d] = NextTimeOut(d, in)]
    /\ actq' = [actq EXCEPT ![d] = NextActq(d, in)]

\* I_RESETN, or the one-cycle reset AOU_CON0.AOU_SW_RESET makes.
CtrlReset(d) ==
    /\ st' = [st EXCEPT ![d] = "DISABLED"]
    /\ hs' = [hs EXCEPT ![d] = {}]
    /\ reg' = [reg EXCEPT ![d] = {}]
    /\ armed' = [armed EXCEPT ![d] = {}]
    /\ timeOut' = [timeOut EXCEPT ![d] = 0]
    /\ actq' = [actq EXCEPT ![d] = <<>>]

-----------------------------------------------------------------------------
(* Outputs to the credit controllers and to the interrupt logic.           *)

\* Mutant: credits are counted from ENABLED on.
CrdCountEnLate(d, in) == Session(d)

\* O_CRD_COUNT_EN: credits that arrive are counted.
CrdCountEn(d, in) ==
    \/ /\ st[d] = "ACTIVATE"
       /\ "tx_activate_ack" \in hs[d] \/ in.msg = "ActivateAck"
    \/ Session(d)

AdvertiseBoot(d, in) ==
    /\ st[d] = "ACTIVATE"
    /\ "rx_activate_ack" \in hs[d] \/ Sent(d, in) = "ActivateAck"

\* O_REQ_CRD_ADVERTISE_EN, O_RSP_CRD_ADVERTISE_EN: credits may be granted.
ReqCrdAdvertiseEn(d, in) ==
    \/ AdvertiseBoot(d, in)
    \/ Session(d) /\ "rx_deactivate_req" \notin hs[d]

RspCrdAdvertiseEn(d, in) ==
    IF d \in SeparateRsp
    THEN \/ AdvertiseBoot(d, in)
         \/ Session(d) /\ "tx_deactivate_req" \notin hs[d]
    ELSE ReqCrdAdvertiseEn(d, in)

\* Mutant: sending starts before the peer's own request has come.
CreditedBootEarly(d, in) ==
    /\ st[d] = "ACTIVATE"
    /\ "tx_activate_req" \in hs[d]
    /\ "tx_activate_ack" \in hs[d] \/ in.msg = "ActivateAck"

CreditedBoot(d, in) ==
    /\ st[d] = "ACTIVATE"
    /\ {"tx_activate_req", "rx_activate_req", "rx_activate_ack"} \subseteq hs[d]
    /\ "tx_activate_ack" \in hs[d] \/ in.msg = "ActivateAck"

\* Mutant: requests are sent after the DeactivateReq.
TxReqCreditedMessageEnLate(d, in) == CreditedBoot(d, in) \/ Session(d)

\* O_TX_REQ_CREDITED_MESSAGE_EN, O_TX_RSP_CREDITED_MESSAGE_EN: requests and
\* write data, and responses, may be sent.
TxReqCreditedMessageEn(d, in) ==
    \/ CreditedBoot(d, in)
    \/ /\ Session(d)
       /\ "tx_deactivate_req" \notin hs[d]
       /\ Sent(d, in) \notin DeactReq

TxRspCreditedMessageEn(d, in) ==
    IF d \in SeparateRsp
    THEN \/ CreditedBoot(d, in)
         \/ /\ Session(d)
            /\ "rx_deactivate_req" \notin hs[d]
            /\ in.msg \notin DeactReq
    ELSE TxReqCreditedMessageEn(d, in)

\* O_INT_ACTIVATE_START, for the part of its cause that is state of the
\* controller: the other die asked for a session.
IntActivateStart(d, field) ==
    /\ "ACTIVATE_START" \notin field
    /\ "rx_activate_req" \in hs[d]
    /\ ActivateEn(d)

\* O_INT_DEACTIVATE_START
IntDeactivateStart(d, field) ==
    /\ st[d] = "DEACTIVATE"
    /\ "tx_deactivate_req" \notin hs[d]
    /\ Offered(d) \notin DeactReq
    /\ IF "rx_deactivate_propertyreq" \in hs[d]
       THEN "DEACTIVATE_FORCE" \notin field
       ELSE "DEACTIVATE_START" \notin field
==============================================================================

---------------------------- MODULE AouActivation ----------------------------
(***************************************************************************)
(* Two dies, each with the activation controller of AouActivationCtrl, the *)
(* AOU_INIT and AOU_CON0 start bits (AOU_CORE_SFR.v), the activation FIFO  *)
(* of the transmit path (AOU_TX_CORE.sv) and the software that drives it,  *)
(* joined by an FDI link.  Credited messages share the link with the       *)
(* activation messages and end in the receive FIFOs; of one only its Kind  *)
(* is kept.  What else the AXI ports contribute to a cycle is a member of  *)
(* Bus.                                                                    *)
(*                                                                         *)
(* A step is one clock edge of one die, a register write of one die, or an *)
(* event of the link: the dies have clocks of their own and software runs  *)
(* at any time between two edges.                                          *)
(***************************************************************************)
EXTENDS AouActivationCtrl

CONSTANTS
    Bus,        \* what the AXI side may show the controller in a cycle
    FlitBeats,  \* receiver cycles a flit takes, hence between two messages:
                \* two with the widest FDI, of 128 bytes
    DataBound,  \* credited messages on the wire of a die: bounds the check
    Traffic,    \* the kinds of credited messages: all, or fewer to bound it
    Faults      \* "link": the link may fall any time; "timeout": a wait may
                \* expire; "force": software may use DEACTIVATE_FORCE

\* The credited messages: requests and write data (AW, W, AR), and
\* responses (B, R).
Kind == {"req", "rsp"}

BusInput == [txPending : BOOLEAN, rxNew : BOOLEAN,
             mstClean : BOOLEAN, slvClean : BOOLEAN]

ASSUME ActivationAssumption ==
    /\ \E a, b \in Die : a # b /\ Die = {a, b}
    /\ Bus \subseteq BusInput
    /\ FlitBeats \in Nat \ {0, 1}
    /\ DataBound \in Nat
    /\ Traffic \subseteq Kind
    /\ Faults \subseteq {"link", "timeout", "force"}

VARIABLES
    sfr,        \* the start bits of AOU_INIT and AOU_CON0 that are 1
    misc,       \* u_misc_activate_fifo
    wire,       \* wire[d]: messages d packed that its peer has not decoded
    gap,        \* cycles until the next flit of the peer is complete
    rx,         \* the sessions whose messages the receive FIFOs hold
    link,       \* I_INT_FSM_IN_ACTIVE
    faulted     \* history: the die reported an error and was not reset since

linkVars == <<sfr, misc, wire, gap, rx, link, faulted>>
vars == <<ctrlVars, linkVars>>

Peer(d) == CHOOSE e \in Die : e # d

MiscDepth == 2

\* An "old" message was received in a session this die has left.
Age == {"old", "new"}

TypeOK ==
    /\ CtrlTypeOK
    /\ sfr \in [Die -> SUBSET Field]
    /\ misc \in [Die -> Seq(Message)]
    /\ wire \in [Die -> Seq(Message \cup Kind)]
    /\ gap \in [Die -> 0..FlitBeats]
    /\ rx \in [Die -> SUBSET Age]
    /\ link \in [Die -> BOOLEAN]
    /\ faulted \in [Die -> BOOLEAN]

Init ==
    /\ CtrlInit
    /\ sfr = [d \in Die |-> {}]
    /\ misc = [d \in Die |-> <<>>]
    /\ wire = [d \in Die |-> <<>>]
    /\ gap = [d \in Die |-> 0]
    /\ rx = [d \in Die |-> {}]
    /\ link = [d \in Die |-> TRUE]
    /\ faulted = [d \in Die |-> FALSE]

-----------------------------------------------------------------------------
(* A clock edge.                                                           *)

\* The start bits clear themselves: an activation ends in ENABLED, and a
\* deactivation in DISABLED.
AutoClear(d) ==
         Bit(st[d] = "ENABLED", "ACTIVATE_START")
    \cup (IF st[d] = "DISABLED"
          THEN {"DEACTIVATE_START", "DEACTIVATE_FORCE"} ELSE {})

CtrlInput(d, m, bus, credit, expired) ==
    [msg       |-> m,
     ready     |-> Len(misc[d]) < MiscDepth,
     link      |-> link[d],
     field     |-> sfr[d],
     txPending |-> bus.txPending,
     rxPending |-> rx[d] # {},
     rxNew     |-> bus.rxNew,
     mstClean  |-> bus.mstClean,
     slvClean  |-> bus.slvClean,
     credit    |-> credit,
     expired   |-> expired]

\* Die d decodes m, or nothing, and packs the head of its activation FIFO
\* into a flit when `pack'.  A flit packed for a link that is down at the
\* other end is lost.
Edge(d, m, pack, bus, credit, expired) ==
    LET in == CtrlInput(d, m, bus, credit, expired) IN
    /\ Tick(d, in)
    /\ pack => link[d] /\ misc[d] # <<>>
    /\ sfr' = [sfr EXCEPT ![d] = @ \ AutoClear(d)]
    /\ misc' = [misc EXCEPT ![d] =
                  (IF pack THEN Tail(@) ELSE @) \o Slot(Sent(d, in))]
    /\ wire' = [e \in Die |->
                  IF e = d
                  THEN IF pack /\ link[Peer(d)]
                       THEN Append(wire[d], Head(misc[d])) ELSE wire[d]
                  ELSE IF m = None THEN wire[e] ELSE Tail(wire[e])]
    /\ gap' = [gap EXCEPT ![d] = IF m # None THEN FlitBeats - 1
                                 ELSE IF @ = 0 THEN 0 ELSE @ - 1]
    /\ rx' = [rx EXCEPT ![d] =
                IF st'[d] = "DISABLED" /\ @ # {} THEN {"old"} ELSE @]
    /\ faulted' = [faulted EXCEPT ![d] =
                     @ \/ LinkError(d, in) \/ IntFdiLinkDown(d, in)]
    /\ UNCHANGED link

\* The activation message d decodes next, if a flit with one is complete.
Arriving(d) ==
    IF wire[Peer(d)] # <<>> /\ Head(wire[Peer(d)]) \in Message /\ gap[d] = 0
    THEN Head(wire[Peer(d)]) ELSE None

Credit(d) == IF "MsgCredit" \in armed[d] THEN BOOLEAN ELSE {FALSE}

\* The waits last 2^18 cycles at least, and software resets a die well before
\* a second one can expire.
Expiry(d) ==
    IF "timeout" \in Faults /\ ~faulted[d] THEN SUBSET armed[d] ELSE {{}}

\* An edge with nothing to decode and nothing to pack.
Clock(d) ==
    \E bus \in Bus, credit \in Credit(d), expired \in Expiry(d) :
        Edge(d, None, FALSE, bus, credit, expired)

Pack(d) ==
    \E bus \in Bus, credit \in Credit(d), expired \in Expiry(d) :
        Edge(d, None, TRUE, bus, credit, expired)

Decode(d) ==
    /\ Arriving(d) # None
    /\ \E pack \in BOOLEAN, bus \in Bus, credit \in Credit(d),
          expired \in Expiry(d) :
          Edge(d, Arriving(d), pack, bus, credit, expired)

-----------------------------------------------------------------------------
(* Credited messages.                                                      *)

\* The controller's inputs in a cycle in which nothing arrives and nothing
\* leaves.
Stalled(d) ==
    [CtrlInput(d, None, CHOOSE bus \in Bus : TRUE, FALSE, {})
        EXCEPT !.ready = FALSE]

CreditedEn(d) ==
         Bit(TxReqCreditedMessageEn(d, Stalled(d)), "req")
    \cup Bit(TxRspCreditedMessageEn(d, Stalled(d)), "rsp")

\* d packs a message, which waits for the activation messages before it.
SendData(d) ==
    /\ misc[d] = <<>>
    /\ link[d]
    /\ Cardinality({i \in DOMAIN wire[d] : wire[d][i] \in Kind}) < DataBound
    /\ \E kind \in CreditedEn(d) \cap Traffic :
          wire' = IF link[Peer(d)] THEN [wire EXCEPT ![d] = Append(@, kind)]
                  ELSE wire
    /\ UNCHANGED <<ctrlVars, sfr, misc, gap, rx, link, faulted>>

\* A message enters its receive FIFO at d, whatever the state of d.
RecvData(d) ==
    /\ wire[Peer(d)] # <<>> /\ Head(wire[Peer(d)]) \in Kind
    /\ wire' = [wire EXCEPT ![Peer(d)] = Tail(@)]
    /\ rx' = [rx EXCEPT ![d] = @ \cup {"new"}]
    /\ UNCHANGED <<ctrlVars, sfr, misc, gap, link, faulted>>

\* The AXI port takes the oldest message.
DrainData(d) ==
    /\ rx[d] # {}
    /\ rx' = [rx EXCEPT ![d] = IF "old" \in @ THEN @ \ {"old"} ELSE {}]
    /\ UNCHANGED <<ctrlVars, sfr, misc, wire, gap, link, faulted>>

-----------------------------------------------------------------------------
(* Software.  A write to AOU_INIT lands on both start bits.                *)

WriteInit(d, fields) ==
    /\ sfr' = [sfr EXCEPT ![d] = (@ \cap {"DEACTIVATE_FORCE"}) \cup fields]
    /\ UNCHANGED <<ctrlVars, misc, wire, gap, rx, link, faulted>>

WriteActivateStart(d) ==
    /\ Idle(d)
    /\ ~faulted[d]
    /\ "ACTIVATE_START" \notin sfr[d]
    /\ WriteInit(d, {"ACTIVATE_START"})

WriteDeactivateStart(d) ==
    /\ Session(d)
    /\ "DEACTIVATE_START" \notin sfr[d]
    /\ WriteInit(d, {"DEACTIVATE_START"})

WriteDeactivateForce(d) ==
    /\ "force" \in Faults
    /\ Session(d)
    /\ "DEACTIVATE_FORCE" \notin sfr[d]
    /\ sfr' = [sfr EXCEPT ![d] = @ \cup {"DEACTIVATE_FORCE"}]
    /\ UNCHANGED <<ctrlVars, misc, wire, gap, rx, link, faulted>>

-----------------------------------------------------------------------------
(* The link.                                                               *)

\* Nothing of the last session is left at d.
Clean(d) ==
    /\ st[d] = "DISABLED"
    /\ hs[d] = {}
    /\ actq[d] = <<>> /\ misc[d] = <<>> /\ wire[d] = <<>>
    /\ ~faulted[d]

\* The link falls at one end: by itself, after a LinkReset request of
\* this die, or because it is down at the other end.
LinkFall(d) ==
    /\ link[d]
    /\ "link" \in Faults \/ faulted[d] \/ ~link[Peer(d)]
    /\ link' = [link EXCEPT ![d] = FALSE]
    /\ wire' = [wire EXCEPT ![Peer(d)] = <<>>]
    /\ UNCHANGED <<ctrlVars, sfr, misc, gap, rx, faulted>>

\* PM entry and LinkDisable: software deactivates first.
LinkDisable ==
    /\ \A d \in Die : link[d] /\ Clean(d) /\ sfr[d] = {}
    /\ link' = [d \in Die |-> FALSE]
    /\ UNCHANGED <<ctrlVars, sfr, misc, wire, gap, rx, faulted>>

\* AOU_CON0.AOU_SW_RESET, in the LinkReset sequence: the dies that lost
\* their session are reset while the link is down, cycles after they saw it
\* fall.
SwReset(d) ==
    /\ \A e \in Die : ~link[e]
    /\ "ucie_init_done" \notin reg[d]
    /\ ~Clean(d)
    /\ CtrlReset(d)
    /\ sfr' = [sfr EXCEPT ![d] = {}]
    /\ misc' = [misc EXCEPT ![d] = <<>>]
    /\ wire' = [wire EXCEPT ![d] = <<>>]
    /\ rx' = [rx EXCEPT ![d] = {}]
    /\ faulted' = [faulted EXCEPT ![d] = FALSE]
    /\ UNCHANGED <<gap, link>>

LinkRestart ==
    /\ \A d \in Die : ~link[d] /\ Clean(d) /\ "ucie_init_done" \notin reg[d]
    /\ link' = [d \in Die |-> TRUE]
    /\ UNCHANGED <<ctrlVars, sfr, misc, wire, gap, rx, faulted>>

Next ==
    \/ \E d \in Die :
          \/ Clock(d) \/ Pack(d) \/ Decode(d)
          \/ SendData(d) \/ RecvData(d) \/ DrainData(d)
          \/ WriteActivateStart(d)
          \/ WriteDeactivateStart(d)
          \/ WriteDeactivateForce(d)
          \/ LinkFall(d)
          \/ SwReset(d)
    \/ LinkDisable
    \/ LinkRestart

Spec == Init /\ [][Next]_vars

Deliver(d) == Decode(d) \/ RecvData(d)

AnswerInterrupt(d) ==
    \/ IntActivateStart(d, sfr[d]) /\ WriteActivateStart(d)
    \/ IntDeactivateStart(d, sfr[d]) /\ WriteDeactivateStart(d)

\* Clocks run, a link that is up takes and delivers flits, the AXI ports
\* drain, and software answers the two start interrupts and brings a
\* disabled link up again.  Nobody has to start or end a session.
Fairness ==
    /\ \A d \in Die :
          /\ WF_vars(Clock(d)) /\ WF_vars(Pack(d)) /\ WF_vars(Deliver(d))
          /\ WF_vars(DrainData(d)) /\ WF_vars(AnswerInterrupt(d))
    /\ WF_vars(LinkRestart)

LiveSpec == Spec /\ Fairness

-----------------------------------------------------------------------------
(* Properties.                                                             *)

\* What d offered to its transmit path and the peer has not taken, oldest
\* first, and the activation messages in it.
InTransit(d) == wire[d] \o misc[d] \o actq[d]

MsgsIn(d) == Message \cap {InTransit(d)[i] : i \in DOMAIN InTransit(d)}

\* Both ends are up and no error was reported since the last reset.
Sound == \A d \in Die : link[d] /\ ~faulted[d]

\* The next item the link delivers to d.
NextUp(d) == IF wire[Peer(d)] = <<>> THEN None ELSE Head(wire[Peer(d)])

\* Without an error the peers stay in step: whatever interleaving of edges,
\* register writes and deliveries there was, the next message to arrive is
\* one the receiver's state accepts (INVALID_ACTMSG is never set, and a
\* LinkReset never requested, on a link that works).
NoInvalidActmsg ==
    (\A d \in Die : ~faulted[d]) =>
        \A d \in Die : ~InvalidActmsg(d, Arriving(d))

\* The two FSMs agree on the session.  One may be a step ahead of the other
\* only while the Ack that lets the other follow is on its way or was just
\* latched.
SessionAgreement ==
    Sound =>
        \A d \in Die :
            Session(d) /\ Idle(Peer(d)) =>
                \/ /\ st[Peer(d)] = "ACTIVATE"
                   /\ \/ "ActivateAck" \in MsgsIn(d)
                      \/ "tx_activate_ack" \in hs[Peer(d)]
                \/ /\ st[d] = "DEACTIVATE"
                   /\ \/ "DeactivateAck" \in MsgsIn(Peer(d))
                      \/ "tx_deactivate_ack" \in hs[d]

\* A request, write data or a response reaches a die only in the session it
\* was sent in: the receiver has an Ack of its own session request and has
\* not left.  (The receive FIFOs store messages in every state, but nothing
\* returns the credit of what is taken from them outside a session.)
DataOnlyInSession ==
    Sound =>
        \A d \in Die :
            NextUp(d) \in Kind =>
                \/ Session(d)
                \/ st[d] = "ACTIVATE" /\ "tx_activate_ack" \in hs[d]

\* The credit counters restart in DISABLED, so a receive FIFO must be empty
\* of the last session before the peer may use new credits.  Only the die
\* that asks for a session looks at its FIFO: the one that answers does not.
FreshSessionStartsEmpty ==
    Sound =>
        \A d \in Die : CreditedEn(Peer(d)) # {} \/ NextUp(d) \in Kind
                         => "old" \notin rx[d]

\* No request is issued twice and no message is answered twice: a die has
\* at most one activation or one deactivation request, and one Ack of each
\* kind, on their way, and no more than two messages.
NoDuplicateActmsg ==
    Sound =>
        \A d \in Die :
            /\ \A i, j \in DOMAIN InTransit(d) :
                  /\ InTransit(d)[i] \in Message
                  /\ \/ InTransit(d)[i] = InTransit(d)[j]
                     \/ {InTransit(d)[i], InTransit(d)[j]} \subseteq DeactReq
                  => i = j
            /\ Cardinality(MsgsIn(d)) <= 2

\* The 2-to-1 activation FIFO refuses both writes unless it has room for
\* two, and its O_SREADY is left open: no request and no Ack may be dropped.
ActFifoDrops(d) ==
    \E bus \in Bus, m \in {None, Arriving(d)} :
        /\ ~ActFifoReady(d)
        /\ Pushed(d, CtrlInput(d, m, bus, FALSE, {})) # <<>>

ActFifoNeverDrops ==
    (\A d \in Die : ~faulted[d]) => \A d \in Die : ~ActFifoDrops(d)

\* The transmit path takes an ActivateReq of d in this step.
Requests(d) ==
    /\ Len(misc'[d]) > Len(misc[d])
    /\ misc'[d][Len(misc'[d])] = "ActivateReq"

\* A die leaves its session, or forgets a request it sent or received,
\* only by completing the handshake, by AOU_SW_RESET, or with an error
\* reported to software; the edge that does it is the one that reports it,
\* also when it is the edge on which the request leaves.
Reported(d) ==
    /\ st[d] # "DISABLED" /\ st'[d] = "DISABLED" =>
          DeactHs \subseteq hs[d] \/ faulted'[d] \/ SwReset(d)
    /\ hs[d] \cap ActReq # {} /\ hs'[d] \cap ActReq = {} =>
          st'[d] = "ENABLED" \/ faulted'[d] \/ SwReset(d)
    /\ Requests(d) => "tx_activate_req" \in hs'[d] \/ faulted'[d]

NoSilentLoss == [][\A d \in Die : Reported(d)]_vars

\* A die that has seen its link fall and was not in error is DISABLED: no
\* handshake message left in its FIFOs starts a session on the dead link.
NoSessionOnDeadLink ==
    \A d \in Die :
        ~link[d] /\ "ucie_init_done" \notin reg[d] =>
            st[d] = "DISABLED" \/ faulted[d]

\* A session that one side starts comes up, so that both have it at once,
\* whoever starts first and also when both start at once; software of the
\* other side only answers INT_ACTIVATE_START.
SessionComesUp ==
    (\E d \in Die :
        Idle(d) /\ ("ACTIVATE_START" \in sfr[d] \/ "rx_activate_req" \in hs[d]))
      ~> (\A d \in Die : Session(d))

\* A session that one side ends goes down at both before either has the
\* next one, once the AXI side is quiet, also when both end it at once.
SessionGoesDown ==
    (\E d \in Die :
        Session(d) /\ ("DEACTIVATE_START" \in sfr[d] \/ "rx_deactivate_req" \in hs[d]))
      ~> (\A d \in Die : ~Session(d))

=============================================================================

-------------------------- MODULE AouActivationProofs --------------------------
(***************************************************************************)
(* Proofs about AouActivation for every pair of dies, every QuietWindow,   *)
(* FlitBeats, DataBound and Traffic, and every set of bus inputs and of    *)
(* faults: its types; HandshakeInv and what follows from it; and that it   *)
(* implements AouSession in each direction as long as the link does not    *)
(* fall by itself and no wait expires (AouSession promises nothing about a *)
(* session that an error ends).                                            *)
(***************************************************************************)
EXTENDS AouHandshake, AouActivationSession, SequenceTheorems, FiniteSetTheorems,
        TLAPS

-----------------------------------------------------------------------------
(* Sequences.                                                              *)

LEMMA SlotType ==
    ASSUME NEW S, NEW m, m # None => m \in S
    PROVE  Slot(m) \in Seq(S)
  BY EmptySeq DEF Slot

LEMMA ConcatType ==
    ASSUME NEW S, NEW s \in Seq(S), NEW t \in Seq(S)
    PROVE  s \o t \in Seq(S)
  BY ConcatProperties

LEMMA TailType ==
    ASSUME NEW S, NEW s \in Seq(S), s # <<>>
    PROVE  /\ Head(s) \in S
           /\ Tail(s) \in Seq(S)
  BY HeadTailProperties

\* A FIFO that is popped when it is not empty and takes what t holds.
LEMMA FifoType ==
    ASSUME NEW S, NEW s \in Seq(S), NEW t \in Seq(S), NEW pop \in BOOLEAN,
           pop => s # <<>>
    PROVE  (IF pop THEN Tail(s) ELSE s) \o t \in Seq(S)
  <1>1. (IF pop THEN Tail(s) ELSE s) \in Seq(S)
    BY TailType
  <1>. QED
    BY <1>1, ConcatType

LEMMA PeerType == \A d \in Die : Peer(d) \in Die /\ Peer(d) # d
  <1>. SUFFICES ASSUME NEW d \in Die
                PROVE  \E e \in Die : e # d
    BY DEF Peer
  <1>. QED
    BY ActivationAssumption

-----------------------------------------------------------------------------
(* One clock edge of the controller.                                       *)

LEMMA NoneIsNoMessage == None \notin Message /\ Message # {}
  BY DEF None, Message, DeactReq

LEMMA MessageCases ==
    ASSUME NEW d \in Die, NEW in \in Input, actq \in [Die -> Seq(Message)]
    PROVE  /\ Sent(d, in) # None =>
                 actq[d] # <<>> /\ Sent(d, in) \in Message
           /\ Request(d, in) # None => Request(d, in) \in Message
           /\ Answer(d, in) # None => Answer(d, in) \in Message
  <1>1. Sent(d, in) # None => actq[d] # <<>> /\ Sent(d, in) \in Message
    BY TailType DEF Sent, Offered
  <1>2. /\ Request(d, in) # None => Request(d, in) \in Message
        /\ Answer(d, in) # None => Answer(d, in) \in Message
    BY DEF Request, Answer, Message, DeactReq, None
  <1>. QED
    BY <1>1, <1>2

LEMMA NextStateType ==
    ASSUME NEW d \in Die, NEW in, st \in [Die -> State]
    PROVE  NextState(d, in) \in State
  <1>1. st[d] \in State
    OBVIOUS
  <1>2. CASE FsmAbort(d, in)
    BY <1>2 DEF NextState, State
  <1>3. CASE ~FsmAbort(d, in)
    BY <1>1, <1>3 DEF NextState, State
  <1>. QED
    BY <1>2, <1>3

LEMMA NextFlagsType ==
    ASSUME NEW d \in Die, NEW in, hs \in [Die -> SUBSET Flag]
    PROVE  NextFlags(d, in) \in SUBSET Flag
  <1>1. SetFlags(d, in) \subseteq Flag
    BY DEF SetFlags, Bit, Flag, ActFlag, DeactFlag, DeactHs
  <1>. QED
    BY <1>1 DEF NextFlags

LEMMA TickType ==
    ASSUME CtrlTypeOK, NEW d \in Die, NEW in \in Input, Tick(d, in)
    PROVE  CtrlTypeOK'
  <1>1. st' \in [Die -> State]
    BY NextStateType DEF CtrlTypeOK, Tick
  <1>2. hs' \in [Die -> SUBSET Flag]
    BY NextFlagsType DEF CtrlTypeOK, Tick
  <1>3. reg' \in [Die -> SUBSET Reg]
    <2>1. NextReg(d, in) \in SUBSET Reg
      BY DEF NextReg, Bit, Reg
    <2>. QED
      BY <2>1 DEF CtrlTypeOK, Tick
  <1>4. armed' \in [Die -> SUBSET Wait]
    <2>1. NextArmed(d, in) \in SUBSET Wait
      BY DEF NextArmed, Bit, Wait
    <2>. QED
      BY <2>1 DEF CtrlTypeOK, Tick
  <1>5. timeOut' \in [Die -> 0..QuietWindow]
    <2>1. timeOut[d] \in 0..QuietWindow /\ QuietWindow \in Nat \ {0}
      BY CtrlAssumption DEF CtrlTypeOK
    <2>2. NextTimeOut(d, in) \in 0..QuietWindow
      BY <2>1 DEF NextTimeOut
    <2>. QED
      BY <2>2 DEF CtrlTypeOK, Tick
  <1>6. actq' \in [Die -> Seq(Message)]
    <2>1. Slot(Request(d, in)) \in Seq(Message) /\ Slot(Answer(d, in)) \in Seq(Message)
      BY SlotType, MessageCases DEF CtrlTypeOK
    <2>2. Pushed(d, in) \in Seq(Message)
      BY <2>1, ConcatType DEF Pushed
    <2>3. (IF ActFifoReady(d) THEN Pushed(d, in) ELSE <<>>) \in Seq(Message)
      BY <2>2, EmptySeq
    <2>4. (IF Sent(d, in) = None THEN actq[d] ELSE Tail(actq[d])) \in Seq(Message)
      BY MessageCases, TailType DEF CtrlTypeOK
    <2>5. NextActq(d, in) \in Seq(Message)
      BY <2>3, <2>4, ConcatType DEF NextActq
    <2>. QED
      BY <2>5 DEF CtrlTypeOK, Tick
  <1>. QED
    BY <1>1, <1>2, <1>3, <1>4, <1>5, <1>6 DEF CtrlTypeOK
-----------------------------------------------------------------------------
(* The steps of the two dies preserve the types.                           *)

LEMMA InputType ==
    ASSUME TypeOK, NEW d \in Die, NEW m \in Message \cup {None},
           NEW bus \in Bus, NEW credit \in BOOLEAN,
           NEW expired \in SUBSET armed[d]
    PROVE  CtrlInput(d, m, bus, credit, expired) \in Input
  <1>1. bus \in BusInput
    BY ActivationAssumption
  <1>2. /\ sfr[d] \in SUBSET Field
        /\ link[d] \in BOOLEAN
        /\ expired \in SUBSET Wait
    BY DEF TypeOK, CtrlTypeOK
  <1>3. /\ bus.txPending \in BOOLEAN /\ bus.rxNew \in BOOLEAN
        /\ bus.mstClean \in BOOLEAN /\ bus.slvClean \in BOOLEAN
    BY <1>1 DEF BusInput
  <1>. QED
    BY <1>2, <1>3 DEF CtrlInput, Input

LEMMA EdgeType ==
    ASSUME TypeOK, NEW d \in Die, NEW m \in Message \cup {None},
           m # None => wire[Peer(d)] # <<>>,
           NEW pack \in BOOLEAN, NEW bus \in Bus, NEW credit \in BOOLEAN,
           NEW expired \in SUBSET armed[d],
           Edge(d, m, pack, bus, credit, expired)
    PROVE  TypeOK'
  <1>. DEFINE in == CtrlInput(d, m, bus, credit, expired)
              SlotValue == Message \cup Kind
  <1>1. in \in Input
    BY InputType
  <1>2. Tick(d, in)
    BY DEF Edge
  <1>3. CtrlTypeOK'
    BY <1>1, <1>2, TickType DEF TypeOK
  <1>4. sfr' \in [Die -> SUBSET Field]
    BY DEF Edge, TypeOK
  <1>5. misc' \in [Die -> Seq(Message)]
    <2>1. Slot(Sent(d, in)) \in Seq(Message)
      BY <1>1, SlotType, MessageCases DEF TypeOK, CtrlTypeOK
    <2>2. misc[d] \in Seq(Message) /\ (pack => misc[d] # <<>>)
      BY DEF TypeOK, Edge
    <2>3. (IF pack THEN Tail(misc[d]) ELSE misc[d]) \o Slot(Sent(d, in))
             \in Seq(Message)
      BY <2>1, <2>2, FifoType
    <2>. QED
      BY <2>3 DEF Edge, TypeOK
  <1>6. wire' \in [Die -> Seq(SlotValue)]
    <2>1. wire \in [Die -> Seq(SlotValue)] /\ misc[d] \in Seq(Message)
      BY DEF TypeOK
    <2>2. ASSUME pack
          PROVE  Append(wire[d], Head(misc[d])) \in Seq(SlotValue)
      <3>1. misc[d] # <<>>
        BY <2>2 DEF Edge
      <3>2. Head(misc[d]) \in SlotValue
        BY <2>1, <3>1, TailType
      <3>. QED
        BY <2>1, <3>2, AppendProperties
    <2>3. ASSUME NEW e \in Die, e # d, m # None
          PROVE  Tail(wire[e]) \in Seq(SlotValue)
      <3>1. e = Peer(d)
        BY <2>3, PeerType, ActivationAssumption
      <3>. QED
        BY <2>1, <2>3, <3>1, TailType
    <2>4. \A e \in Die :
             (IF e = d
              THEN IF pack /\ link[Peer(d)]
                   THEN Append(wire[d], Head(misc[d])) ELSE wire[d]
              ELSE IF m = None THEN wire[e] ELSE Tail(wire[e])) \in Seq(SlotValue)
      BY <2>1, <2>2, <2>3
    <2>. QED
      BY <2>4 DEF Edge
  <1>7. gap' \in [Die -> 0..FlitBeats]
    <2>1. gap[d] \in 0..FlitBeats /\ FlitBeats \in Nat \ {0}
      BY ActivationAssumption DEF TypeOK
    <2>. QED
      BY <2>1 DEF Edge, TypeOK
  <1>8. rx' \in [Die -> SUBSET Age]
    BY DEF Edge, TypeOK, Age
  <1>9. faulted' \in [Die -> BOOLEAN]
    <2>1. faulted[d] \/ LinkError(d, in) \/ IntFdiLinkDown(d, in) \in BOOLEAN
      BY DEF LinkError, InvalidActmsg, IntFdiLinkDown, TypeOK
    <2>. QED
      BY <2>1 DEF Edge, TypeOK
  <1>10. link' \in [Die -> BOOLEAN]
    BY DEF Edge, TypeOK
  <1>. QED
    BY <1>3, <1>4, <1>5, <1>6, <1>7, <1>8, <1>9, <1>10 DEF TypeOK

\* The three actions that are a clock edge.
LEMMA EdgeCases ==
    ASSUME TypeOK, NEW d \in Die, Clock(d) \/ Pack(d) \/ Decode(d)
    PROVE  \E m \in Message \cup {None}, pack \in BOOLEAN, bus \in Bus,
              credit \in BOOLEAN, expired \in SUBSET armed[d] :
              /\ m # None => /\ wire[Peer(d)] # <<>> /\ m = Head(wire[Peer(d)])
                             /\ gap[d] = 0
              /\ Edge(d, m, pack, bus, credit, expired)
  <1>1. Credit(d) \subseteq BOOLEAN /\ Expiry(d) \subseteq SUBSET armed[d]
    BY DEF Credit, Expiry
  <1>2. /\ Arriving(d) \in Message \cup {None}
        /\ Arriving(d) # None => /\ wire[Peer(d)] # <<>>
                                 /\ Arriving(d) = Head(wire[Peer(d)])
                                 /\ gap[d] = 0
    BY DEF Arriving
  <1>3. CASE Clock(d)
    BY <1>1, <1>3 DEF Clock
  <1>4. CASE Pack(d)
    BY <1>1, <1>4 DEF Pack
  <1>5. CASE Decode(d)
    BY <1>1, <1>2, <1>5 DEF Decode
  <1>. QED
    BY <1>3, <1>4, <1>5

LEMMA InitType == Init => TypeOK
  <1>. SUFFICES ASSUME Init PROVE TypeOK
    OBVIOUS
  <1>1. CtrlTypeOK
    BY CtrlAssumption, EmptySeq DEF Init, CtrlInit, CtrlTypeOK, State
  <1>. QED
    BY <1>1, ActivationAssumption, EmptySeq DEF Init, TypeOK

\* Every step that is not a clock edge.
LEMMA DataStepType ==
    ASSUME TypeOK, NEW d \in Die, SendData(d) \/ RecvData(d) \/ DrainData(d)
    PROVE  TypeOK'
  <1>. DEFINE SlotValue == Message \cup Kind
  <1>1. CASE SendData(d)
    <2>1. wire' \in [Die -> Seq(SlotValue)]
      <3>1. PICK kind \in Kind :
              wire' = IF link[Peer(d)]
                      THEN [wire EXCEPT ![d] = Append(@, kind)] ELSE wire
        BY <1>1 DEF SendData, CreditedEn, Bit, Kind
      <3>2. Append(wire[d], kind) \in Seq(SlotValue)
        BY AppendProperties DEF TypeOK
      <3>. QED
        BY <3>1, <3>2 DEF TypeOK
    <2>. QED
      BY <1>1, <2>1 DEF SendData, TypeOK, CtrlTypeOK, ctrlVars
  <1>2. CASE RecvData(d)
    <2>1. wire' \in [Die -> Seq(SlotValue)]
      <3>1. Tail(wire[Peer(d)]) \in Seq(SlotValue)
        BY <1>2, PeerType, TailType DEF RecvData, TypeOK
      <3>. QED
        BY <1>2, <3>1 DEF RecvData, TypeOK
    <2>. QED
      BY <1>2, <2>1 DEF RecvData, TypeOK, CtrlTypeOK, ctrlVars, Age
  <1>3. CASE DrainData(d)
    BY <1>3 DEF DrainData, TypeOK, CtrlTypeOK, ctrlVars, Age
  <1>. QED
    BY <1>1, <1>2, <1>3

LEMMA SoftwareStepType ==
    ASSUME TypeOK, NEW d \in Die,
           \/ WriteActivateStart(d) \/ WriteDeactivateStart(d)
           \/ WriteDeactivateForce(d)
    PROVE  TypeOK'
  <1>1. CASE WriteActivateStart(d)
    BY <1>1 DEF WriteActivateStart, WriteInit, TypeOK, CtrlTypeOK, ctrlVars, Field
  <1>2. CASE WriteDeactivateStart(d)
    BY <1>2 DEF WriteDeactivateStart, WriteInit, TypeOK, CtrlTypeOK, ctrlVars, Field
  <1>3. CASE WriteDeactivateForce(d)
    BY <1>3 DEF WriteDeactivateForce, TypeOK, CtrlTypeOK, ctrlVars, Field
  <1>. QED
    BY <1>1, <1>2, <1>3

LEMMA LinkStepType ==
    ASSUME TypeOK,
           \/ \E d \in Die : LinkFall(d) \/ SwReset(d)
           \/ LinkDisable
           \/ LinkRestart
    PROVE  TypeOK'
  <1>1. ASSUME NEW d \in Die, LinkFall(d) PROVE TypeOK'
    BY <1>1, PeerType, EmptySeq DEF LinkFall, TypeOK, CtrlTypeOK, ctrlVars
  <1>2. ASSUME NEW d \in Die, SwReset(d) PROVE TypeOK'
    <2>1. CtrlTypeOK'
      BY <1>2, CtrlAssumption, EmptySeq
         DEF SwReset, CtrlReset, TypeOK, CtrlTypeOK, State
    <2>. QED
      BY <1>2, <2>1, EmptySeq DEF SwReset, TypeOK
  <1>3. CASE LinkDisable
    BY <1>3 DEF LinkDisable, TypeOK, CtrlTypeOK, ctrlVars
  <1>4. CASE LinkRestart
    BY <1>4 DEF LinkRestart, TypeOK, CtrlTypeOK, ctrlVars
  <1>. QED
    BY <1>1, <1>2, <1>3, <1>4

LEMMA NextType ==
    ASSUME TypeOK, [Next]_vars
    PROVE  TypeOK'
  <1>1. ASSUME NEW d \in Die, Clock(d) \/ Pack(d) \/ Decode(d) PROVE TypeOK'
    BY <1>1, EdgeCases, EdgeType
  <1>2. ASSUME NEW d \in Die, SendData(d) \/ RecvData(d) \/ DrainData(d)
        PROVE  TypeOK'
    BY <1>2, DataStepType
  <1>3. ASSUME NEW d \in Die,
               \/ WriteActivateStart(d) \/ WriteDeactivateStart(d)
               \/ WriteDeactivateForce(d)
        PROVE  TypeOK'
    BY <1>3, SoftwareStepType
  <1>4. CASE \/ \E d \in Die : LinkFall(d) \/ SwReset(d)
             \/ LinkDisable
             \/ LinkRestart
    BY <1>4, LinkStepType
  <1>5. CASE UNCHANGED vars
    BY <1>5 DEF vars, ctrlVars, linkVars, TypeOK, CtrlTypeOK
  <1>. QED
    BY <1>1, <1>2, <1>3, <1>4, <1>5 DEF Next

\* Every register, FIFO and wire of the two dies keeps its type; with it the
\* quiet-window counter stops at QuietWindow and does not wrap.
THEOREM TypeCorrect == Spec => []TypeOK
  <1>1. Init => TypeOK
    BY InitType
  <1>2. TypeOK /\ [Next]_vars => TypeOK'
    BY NextType
  <1>. QED
    BY <1>1, <1>2, PTL DEF Spec

-----------------------------------------------------------------------------
(* Nothing is lost in silence.                                             *)

\* The FSM leaves a session only with the handshake complete, or by
\* w_fsm_abort.
LEMMA LeavesByHandshake ==
    ASSUME NEW d \in Die, NEW in, st[d] \in State, ~FsmAbort(d, in),
           st[d] # "DISABLED", NextState(d, in) = "DISABLED"
    PROVE  DeactHs \subseteq hs[d]
  BY DEF NextState, State

\* A request flag is cleared only on the way to ENABLED, or by w_fsm_abort.
LEMMA RequestKept ==
    ASSUME NEW d \in Die, NEW in, st[d] \in State, ~FsmAbort(d, in),
           hs[d] \cap ActReq # {}, NextFlags(d, in) \cap ActReq = {}
    PROVE  NextState(d, in) = "ENABLED"
  <1>1. ActReq \cap ClearFlags(d, in) # {}
    BY DEF NextFlags
  <1>2. /\ "tx_activate_ack" \notin ActReq
        /\ DeactFlag \cap ActReq = {}
    BY DEF ActReq, DeactFlag, DeactHs
  <1>. QED
    BY <1>1, <1>2 DEF ClearFlags, State

\* An ActivateReq that leaves is remembered or its loss is reported.
LEMMA RequestRemembered ==
    ASSUME NEW d \in Die, NEW in, Sent(d, in) = "ActivateReq"
    PROVE  \/ "tx_activate_req" \in NextFlags(d, in)
           \/ LinkError(d, in) \/ IntFdiLinkDown(d, in)
  <1>1. CASE FsmAbort(d, in)
    BY <1>1 DEF FsmAbort, IntFdiLinkDown
  <1>2. CASE ~FsmAbort(d, in)
    BY <1>2 DEF NextFlags, SetFlags, Bit
  <1>. QED
    BY <1>1, <1>2

\* What a step appends to the misc FIFO is what the controller sent.
LEMMA AppendedIsSent ==
    ASSUME NEW q \in Seq(Message), NEW m \in Message \cup {None}, NEW pack \in BOOLEAN,
           pack => q # <<>>,
           NEW r, r = (IF pack THEN Tail(q) ELSE q) \o Slot(m),
           Len(r) > Len(q)
    PROVE  r[Len(r)] = m
  <1>. DEFINE s == IF pack THEN Tail(q) ELSE q
  <1>1. s \in Seq(Message) /\ Len(s) <= Len(q)
    BY TailType, HeadTailProperties, LenProperties
  <1>2. m # None
    <2>1. SUFFICES ASSUME m = None PROVE FALSE
      OBVIOUS
    <2>2. Slot(m) = <<>>
      BY <2>1 DEF Slot
    <2>3. r = s
      BY <1>1, <2>2, ConcatEmptySeq
    <2>. QED
      BY <1>1, <2>3, LenProperties
  <1>3. m \in Message /\ Slot(m) = <<m>>
    BY <1>2 DEF Slot
  <1>4. r = Append(s, m)
    BY <1>1, <1>3, AppendIsConcat
  <1>. HIDE DEF s
  <1>5. Len(r) = Len(s) + 1 /\ Append(s, m)[Len(s) + 1] = m
    BY <1>1, <1>3, <1>4, AppendProperties
  <1>. QED
    BY <1>4, <1>5

LEMMA EdgeReports ==
    ASSUME TypeOK, NEW d \in Die, NEW m \in Message \cup {None},
           NEW pack \in BOOLEAN, NEW bus \in Bus, NEW credit \in BOOLEAN,
           NEW expired \in SUBSET armed[d],
           Edge(d, m, pack, bus, credit, expired),
           NEW e \in Die
    PROVE  Reported(e)
  <1>. DEFINE in == CtrlInput(d, m, bus, credit, expired)
  <1>1. /\ st' = [st EXCEPT ![d] = NextState(d, in)]
        /\ hs' = [hs EXCEPT ![d] = NextFlags(d, in)]
        /\ faulted' = [faulted EXCEPT ![d] =
                         @ \/ LinkError(d, in) \/ IntFdiLinkDown(d, in)]
    BY DEF Edge, Tick
  <1>2. st \in [Die -> State] /\ hs \in [Die -> SUBSET Flag]
        /\ faulted \in [Die -> BOOLEAN] /\ misc \in [Die -> Seq(Message)]
        /\ actq \in [Die -> Seq(Message)]
    BY DEF TypeOK, CtrlTypeOK
  <1>3. CASE e # d
    <2>1. st'[e] = st[e] /\ hs'[e] = hs[e]
      BY <1>1, <1>2, <1>3
    <2>2. misc'[e] = misc[e]
      BY <1>2, <1>3 DEF Edge
    <2>3. Len(misc[e]) \in Nat
      BY <1>2, LenProperties
    <2>4. ~Requests(e)
      BY <2>2, <2>3 DEF Requests
    <2>. QED
      BY <2>1, <2>4 DEF Reported
  <1>4. ASSUME e = d, Requests(d)
        PROVE  "tx_activate_req" \in hs'[d] \/ faulted'[d]
    <2>1. in \in Input
      BY InputType
    <2>2. Sent(d, in) \in Message \cup {None}
      BY <1>2, <2>1, MessageCases
    <2>3. /\ misc'[d] = (IF pack THEN Tail(misc[d]) ELSE misc[d])
                            \o Slot(Sent(d, in))
          /\ pack => misc[d] # <<>>
      BY <1>2 DEF Edge
    <2>4. Sent(d, in) = "ActivateReq"
      BY <1>2, <1>4, <2>2, <2>3, AppendedIsSent DEF Requests
    <2>. QED
      BY <1>1, <1>2, <2>4, RequestRemembered
  <1>5. CASE e = d /\ FsmAbort(d, in)
    <2>1. ASSUME st[d] # "DISABLED" \/ hs[d] \cap ActReq # {}
          PROVE  faulted'[d]
      <3>1. LinkError(d, in) \/ IntFdiLinkDown(d, in)
        BY <1>5, <2>1 DEF FsmAbort, IntFdiLinkDown
      <3>. QED
        BY <1>1, <1>2, <3>1
    <2>. QED
      BY <1>4, <1>5, <2>1 DEF Reported
  <1>6. CASE e = d /\ ~FsmAbort(d, in)
    <2>1. st'[d] = NextState(d, in) /\ hs'[d] = NextFlags(d, in) /\ st[d] \in State
      BY <1>1, <1>2
    <2>2. st[d] # "DISABLED" /\ st'[d] = "DISABLED" => DeactHs \subseteq hs[d]
      BY <1>6, <2>1, LeavesByHandshake
    <2>3. hs[d] \cap ActReq # {} /\ hs'[d] \cap ActReq = {} => st'[d] = "ENABLED"
      BY <1>6, <2>1, RequestKept
    <2>. QED
      BY <1>4, <1>6, <2>2, <2>3 DEF Reported
  <1>. QED
    BY <1>3, <1>5, <1>6

LEMMA StepReports ==
    ASSUME TypeOK, [Next]_vars, NEW e \in Die
    PROVE  Reported(e)
  <1>1. ASSUME NEW d \in Die, Clock(d) \/ Pack(d) \/ Decode(d)
        PROVE  Reported(e)
    BY <1>1, EdgeCases, EdgeReports
  <1>2. misc \in [Die -> Seq(Message)] /\ Len(misc[e]) \in Nat
    BY LenProperties DEF TypeOK
  <1>3. ASSUME NEW d \in Die, SwReset(d)
        PROVE  Reported(e)
    <2>1. ~Requests(e)
      <3>1. misc'[e] = <<>> \/ misc'[e] = misc[e]
        BY <1>2, <1>3 DEF SwReset
      <3>. QED
        BY <1>2, <3>1 DEF Requests
    <2>2. CASE e = d
      BY <1>3, <2>1, <2>2 DEF Reported
    <2>3. CASE e # d
      BY <1>3, <2>1, <2>3 DEF Reported, SwReset, CtrlReset, TypeOK, CtrlTypeOK
    <2>. QED
      BY <2>2, <2>3
  <1>4. CASE UNCHANGED <<st, hs, misc>>
    BY <1>2, <1>4 DEF Reported, Requests
  <1>5. ASSUME NEW d \in Die,
               \/ SendData(d) \/ RecvData(d) \/ DrainData(d)
               \/ WriteActivateStart(d) \/ WriteDeactivateStart(d)
               \/ WriteDeactivateForce(d) \/ LinkFall(d)
        PROVE  UNCHANGED <<st, hs, misc>>
    BY <1>5 DEF SendData, RecvData, DrainData, WriteActivateStart,
                WriteDeactivateStart, WriteDeactivateForce, WriteInit,
                LinkFall, ctrlVars
  <1>6. LinkDisable \/ LinkRestart \/ UNCHANGED vars => UNCHANGED <<st, hs, misc>>
    BY DEF LinkDisable, LinkRestart, vars, ctrlVars, linkVars
  <1>. QED
    BY <1>1, <1>3, <1>4, <1>5, <1>6 DEF Next

\* However the two dies, software, time-outs and link failures interleave,
\* no die drops a session, or a request it sent or received, without reporting
\* it.
THEOREM LossIsReported == Spec => NoSilentLoss
  <1>1. TypeOK /\ [Next]_vars => [\A d \in Die : Reported(d)]_vars
    BY StepReports
  <1>. QED
    BY <1>1, TypeCorrect, PTL DEF Spec, NoSilentLoss

-----------------------------------------------------------------------------
(* Sequences: what an Append and a Tail do to Holds, Before, Followed and  *)
(* Once.                                                                   *)

LEMMA EmptyHolds == ASSUME NEW S PROVE ~Holds(<<>>, S)
  BY DEF Holds

LEMMA AppendHolds ==
    ASSUME NEW U, NEW s \in Seq(U), NEW x \in U, NEW S
    PROVE  Holds(Append(s, x), S) <=> Holds(s, S) \/ x \in S
  <1>1. /\ Append(s, x) \in Seq(U)
        /\ Len(Append(s, x)) = Len(s) + 1
        /\ Append(s, x)[Len(s) + 1] = x
        /\ \A i \in 1..Len(s) : Append(s, x)[i] = s[i]
    BY AppendProperties
  <1>2. /\ DOMAIN s = 1..Len(s) /\ Len(s) \in Nat
        /\ DOMAIN Append(s, x) = 1..(Len(s) + 1)
    BY <1>1, LenProperties
  <1>. QED
    BY <1>1, <1>2 DEF Holds

LEMMA TailHolds ==
    ASSUME NEW U, NEW s \in Seq(U), s # <<>>, NEW S
    PROVE  Holds(s, S) <=> Head(s) \in S \/ Holds(Tail(s), S)
  <1>1. /\ Tail(s) \in Seq(U) /\ Head(s) = s[1]
        /\ Len(Tail(s)) = Len(s) - 1
        /\ \A i \in 1..Len(Tail(s)) : Tail(s)[i] = s[i + 1]
    BY HeadTailProperties
  <1>2. /\ DOMAIN s = 1..Len(s) /\ Len(s) \in Nat \ {0}
        /\ DOMAIN Tail(s) = 1..Len(Tail(s))
    BY <1>1, LenProperties, EmptySeq
  <1>3. ASSUME Holds(s, S) PROVE Head(s) \in S \/ Holds(Tail(s), S)
    <2>1. PICK i \in 1..Len(s) : s[i] \in S
      BY <1>2, <1>3 DEF Holds
    <2>2. CASE i = 1
      BY <1>1, <2>1, <2>2
    <2>3. CASE i # 1
      <3>1. i - 1 \in 1..Len(Tail(s)) /\ Tail(s)[i - 1] = s[i]
        BY <1>1, <1>2, <2>3
      <3>. QED
        BY <1>2, <2>1, <3>1 DEF Holds
    <2>. QED
      BY <2>2, <2>3
  <1>4. ASSUME Head(s) \in S PROVE Holds(s, S)
    BY <1>1, <1>2, <1>4 DEF Holds
  <1>5. ASSUME Holds(Tail(s), S) PROVE Holds(s, S)
    <2>1. PICK i \in 1..Len(Tail(s)) : Tail(s)[i] \in S
      BY <1>2, <1>5 DEF Holds
    <2>2. i + 1 \in 1..Len(s) /\ s[i + 1] \in S
      BY <1>1, <1>2, <2>1
    <2>. QED
      BY <1>2, <2>2 DEF Holds
  <1>. QED
    BY <1>3, <1>4, <1>5

LEMMA ConcatHolds ==
    ASSUME NEW U, NEW s \in Seq(U), NEW t \in Seq(U), NEW S
    PROVE  Holds(s \o t, S) <=> Holds(s, S) \/ Holds(t, S)
  <1>1. /\ s \o t \in Seq(U) /\ Len(s \o t) = Len(s) + Len(t)
        /\ \A i \in 1..Len(s) + Len(t) :
              (s \o t)[i] = IF i <= Len(s) THEN s[i] ELSE t[i - Len(s)]
    BY ConcatProperties
  <1>2. /\ DOMAIN s = 1..Len(s) /\ Len(s) \in Nat
        /\ DOMAIN t = 1..Len(t) /\ Len(t) \in Nat
        /\ DOMAIN (s \o t) = 1..(Len(s) + Len(t))
    BY <1>1, LenProperties
  <1>3. ASSUME Holds(s \o t, S) PROVE Holds(s, S) \/ Holds(t, S)
    <2>1. PICK i \in 1..(Len(s) + Len(t)) : (s \o t)[i] \in S
      BY <1>2, <1>3 DEF Holds
    <2>2. CASE i <= Len(s)
      BY <1>1, <1>2, <2>1, <2>2 DEF Holds
    <2>3. CASE ~(i <= Len(s))
      <3>1. i - Len(s) \in 1..Len(t) /\ t[i - Len(s)] \in S
        BY <1>1, <1>2, <2>1, <2>3
      <3>. QED
        BY <1>2, <3>1 DEF Holds
    <2>. QED
      BY <2>2, <2>3
  <1>4. ASSUME Holds(s, S) PROVE Holds(s \o t, S)
    <2>1. PICK i \in 1..Len(s) : s[i] \in S
      BY <1>2, <1>4 DEF Holds
    <2>2. i \in 1..(Len(s) + Len(t)) /\ (s \o t)[i] \in S
      BY <1>1, <1>2, <2>1
    <2>. QED
      BY <1>2, <2>2 DEF Holds
  <1>5. ASSUME Holds(t, S) PROVE Holds(s \o t, S)
    <2>1. PICK i \in 1..Len(t) : t[i] \in S
      BY <1>2, <1>5 DEF Holds
    <2>2. i + Len(s) \in 1..(Len(s) + Len(t)) /\ (s \o t)[i + Len(s)] \in S
      BY <1>1, <1>2, <2>1
    <2>. QED
      BY <1>2, <2>2 DEF Holds
  <1>. QED
    BY <1>3, <1>4, <1>5

LEMMA SubHolds ==
    ASSUME NEW s, NEW S, NEW T, S \subseteq T, Holds(s, S)
    PROVE  Holds(s, T)
  BY DEF Holds

LEMMA AppendBefore ==
    ASSUME NEW U, NEW s \in Seq(U), NEW x \in U, NEW S, NEW T,
           Before(s, S, T), x \in S => ~Holds(s, T) /\ x \notin T
    PROVE  Before(Append(s, x), S, T)
  <1>1. /\ Append(s, x) \in Seq(U)
        /\ Len(Append(s, x)) = Len(s) + 1
        /\ Append(s, x)[Len(s) + 1] = x
        /\ \A i \in 1..Len(s) : Append(s, x)[i] = s[i]
    BY AppendProperties
  <1>2. /\ DOMAIN s = 1..Len(s) /\ Len(s) \in Nat
        /\ DOMAIN Append(s, x) = 1..(Len(s) + 1)
    BY <1>1, LenProperties
  <1>. DEFINE q == Append(s, x)
  <1>. SUFFICES ASSUME NEW i \in DOMAIN q, NEW j \in DOMAIN q, q[i] \in S, q[j] \in T
                PROVE  i < j
    BY DEF Before
  <1>. HIDE DEF q
  <1>3. i \in 1..(Len(s) + 1) /\ j \in 1..(Len(s) + 1)
    BY <1>2 DEF q
  <1>4. CASE i \in 1..Len(s) /\ j \in 1..Len(s)
    <2>1. s[i] \in S /\ s[j] \in T
      BY <1>1, <1>4 DEF q
    <2>. QED
      BY <1>2, <1>4, <2>1 DEF Before
  <1>5. CASE i \in 1..Len(s) /\ j = Len(s) + 1
    BY <1>2, <1>5
  <1>6. CASE i = Len(s) + 1
    <2>1. x \in S
      BY <1>1, <1>6 DEF q
    <2>2. q[j] = x \/ (j \in 1..Len(s) /\ q[j] = s[j])
      BY <1>1, <1>2, <1>3 DEF q
    <2>. QED
      BY <1>2, <2>1, <2>2 DEF Holds
  <1>. QED
    BY <1>2, <1>3, <1>4, <1>5, <1>6

LEMMA TailBefore ==
    ASSUME NEW U, NEW s \in Seq(U), s # <<>>, NEW S, NEW T, Before(s, S, T)
    PROVE  /\ Before(Tail(s), S, T)
           /\ Head(s) \in T => ~Holds(s, S)
  <1>1. /\ Tail(s) \in Seq(U) /\ Head(s) = s[1]
        /\ Len(Tail(s)) = Len(s) - 1
        /\ \A i \in 1..Len(Tail(s)) : Tail(s)[i] = s[i + 1]
    BY HeadTailProperties
  <1>2. /\ DOMAIN s = 1..Len(s) /\ Len(s) \in Nat \ {0}
        /\ DOMAIN Tail(s) = 1..Len(Tail(s))
    BY <1>1, LenProperties, EmptySeq
  <1>3. ASSUME NEW i \in DOMAIN Tail(s), NEW j \in DOMAIN Tail(s),
               Tail(s)[i] \in S, Tail(s)[j] \in T
        PROVE  i < j
    <2>1. i + 1 \in DOMAIN s /\ j + 1 \in DOMAIN s /\ s[i + 1] \in S /\ s[j + 1] \in T
      BY <1>1, <1>2, <1>3
    <2>2. i + 1 < j + 1
      BY <2>1 DEF Before
    <2>. QED
      BY <1>1, <1>2, <1>3, <2>2
  <1>4. ASSUME Head(s) \in T, Holds(s, S) PROVE FALSE
    <2>1. PICK i \in DOMAIN s : s[i] \in S
      BY <1>4 DEF Holds
    <2>2. 1 \in DOMAIN s /\ s[1] \in T
      BY <1>1, <1>2, <1>4
    <2>3. i < 1
      BY <2>1, <2>2 DEF Before
    <2>. QED
      BY <1>2, <2>1, <2>3
  <1>. QED
    BY <1>3, <1>4 DEF Before

LEMMA AppendFollowed ==
    ASSUME NEW U, NEW s \in Seq(U), NEW x \in U, NEW i \in 1..Len(s), NEW T
    PROVE  /\ Followed(s, i, T) => Followed(Append(s, x), i, T)
           /\ x \in T => Followed(Append(s, x), i, T)
  <1>1. /\ Append(s, x) \in Seq(U)
        /\ Len(Append(s, x)) = Len(s) + 1
        /\ Append(s, x)[Len(s) + 1] = x
        /\ \A j \in 1..Len(s) : Append(s, x)[j] = s[j]
    BY AppendProperties
  <1>2. /\ DOMAIN s = 1..Len(s) /\ Len(s) \in Nat
        /\ DOMAIN Append(s, x) = 1..(Len(s) + 1)
    BY <1>1, LenProperties
  <1>3. ASSUME Followed(s, i, T) PROVE Followed(Append(s, x), i, T)
    <2>1. PICK j \in 1..Len(s) : j > i /\ s[j] \in T
      BY <1>2, <1>3 DEF Followed
    <2>2. j \in DOMAIN Append(s, x) /\ j > i /\ Append(s, x)[j] \in T
      BY <1>1, <1>2, <2>1
    <2>. QED
      BY <2>2 DEF Followed
  <1>4. ASSUME x \in T PROVE Followed(Append(s, x), i, T)
    <2>1. /\ Len(s) + 1 \in DOMAIN Append(s, x)
          /\ Len(s) + 1 > i
          /\ Append(s, x)[Len(s) + 1] \in T
      BY <1>1, <1>2, <1>4
    <2>. QED
      BY <2>1 DEF Followed
  <1>. QED
    BY <1>3, <1>4

LEMMA TailFollowed ==
    ASSUME NEW U, NEW s \in Seq(U), s # <<>>, NEW i \in 1..Len(Tail(s)), NEW T,
           Followed(s, i + 1, T)
    PROVE  Followed(Tail(s), i, T)
  <1>1. /\ Tail(s) \in Seq(U)
        /\ Len(Tail(s)) = Len(s) - 1
        /\ \A j \in 1..Len(Tail(s)) : Tail(s)[j] = s[j + 1]
    BY HeadTailProperties
  <1>2. /\ DOMAIN s = 1..Len(s) /\ Len(s) \in Nat \ {0}
        /\ DOMAIN Tail(s) = 1..Len(Tail(s))
    BY <1>1, LenProperties, EmptySeq
  <1>3. PICK j \in 1..Len(s) : j > i + 1 /\ s[j] \in T
    BY <1>2 DEF Followed
  <1>4. j - 1 \in 1..Len(Tail(s)) /\ j - 1 > i /\ Tail(s)[j - 1] \in T
    BY <1>1, <1>2, <1>3
  <1>. QED
    BY <1>2, <1>4 DEF Followed

LEMMA FollowedHolds ==
    ASSUME NEW s, NEW i, NEW T, Followed(s, i, T)
    PROVE  Holds(s, T)
  BY DEF Followed, Holds

LEMMA AppendOnce ==
    ASSUME NEW U, NEW s \in Seq(U), NEW x \in U, Once(s),
           \A T \in Token : x \in T => ~Holds(s, T)
    PROVE  Once(Append(s, x))
  <1>1. /\ Append(s, x) \in Seq(U)
        /\ Len(Append(s, x)) = Len(s) + 1
        /\ Append(s, x)[Len(s) + 1] = x
        /\ \A i \in 1..Len(s) : Append(s, x)[i] = s[i]
    BY AppendProperties
  <1>2. /\ DOMAIN s = 1..Len(s) /\ Len(s) \in Nat
        /\ DOMAIN Append(s, x) = 1..(Len(s) + 1)
    BY <1>1, LenProperties
  <1>. DEFINE q == Append(s, x)
  <1>. SUFFICES ASSUME NEW T \in Token, NEW i \in DOMAIN q, NEW j \in DOMAIN q,
                       q[i] \in T, q[j] \in T
                PROVE  i = j
    BY DEF Once
  <1>. HIDE DEF q
  <1>3. i \in 1..(Len(s) + 1) /\ j \in 1..(Len(s) + 1)
    BY <1>2 DEF q
  <1>4. ASSUME NEW k \in 1..Len(s), q[k] \in T PROVE s[k] \in T /\ Holds(s, T)
    BY <1>1, <1>2, <1>4 DEF q, Holds
  <1>5. CASE i \in 1..Len(s) /\ j \in 1..Len(s)
    BY <1>2, <1>4, <1>5 DEF Once
  <1>6. CASE i = Len(s) + 1 /\ j \in 1..Len(s)
    BY <1>1, <1>4, <1>6 DEF q
  <1>7. CASE i \in 1..Len(s) /\ j = Len(s) + 1
    BY <1>1, <1>4, <1>7 DEF q
  <1>8. CASE i = Len(s) + 1 /\ j = Len(s) + 1
    BY <1>8
  <1>. QED
    BY <1>2, <1>3, <1>5, <1>6, <1>7, <1>8

LEMMA TailOnce ==
    ASSUME NEW U, NEW s \in Seq(U), s # <<>>, Once(s)
    PROVE  /\ Once(Tail(s))
           /\ \A T \in Token : Head(s) \in T => ~Holds(Tail(s), T)
  <1>1. /\ Tail(s) \in Seq(U) /\ Head(s) = s[1]
        /\ Len(Tail(s)) = Len(s) - 1
        /\ \A i \in 1..Len(Tail(s)) : Tail(s)[i] = s[i + 1]
    BY HeadTailProperties
  <1>2. /\ DOMAIN s = 1..Len(s) /\ Len(s) \in Nat \ {0}
        /\ DOMAIN Tail(s) = 1..Len(Tail(s))
    BY <1>1, LenProperties, EmptySeq
  <1>3. ASSUME NEW T \in Token, NEW i \in DOMAIN Tail(s), NEW j \in DOMAIN Tail(s),
               Tail(s)[i] \in T, Tail(s)[j] \in T
        PROVE  i = j
    <2>1. i + 1 \in DOMAIN s /\ j + 1 \in DOMAIN s /\ s[i + 1] \in T /\ s[j + 1] \in T
      BY <1>1, <1>2, <1>3
    <2>2. i + 1 = j + 1
      BY <2>1 DEF Once
    <2>. QED
      BY <1>1, <1>2, <1>3, <2>2
  <1>4. ASSUME NEW T \in Token, Head(s) \in T, Holds(Tail(s), T) PROVE FALSE
    <2>1. PICK i \in 1..Len(Tail(s)) : Tail(s)[i] \in T
      BY <1>2, <1>4 DEF Holds
    <2>2. i + 1 \in DOMAIN s /\ 1 \in DOMAIN s /\ s[i + 1] \in T /\ s[1] \in T
      BY <1>1, <1>2, <1>4, <2>1
    <2>3. i + 1 = 1
      BY <2>2 DEF Once
    <2>. QED
      BY <1>1, <1>2, <2>1, <2>3
  <1>. QED
    BY <1>3, <1>4 DEF Once

\* Nothing changes on a line when the misc FIFO is packed into a flit.
LEMMA PackedLine ==
    ASSUME NEW U, NEW w \in Seq(U), NEW q \in Seq(U), q # <<>>
    PROVE  Append(w, Head(q)) \o Tail(q) = w \o q
  <1>1. /\ Head(q) \in U /\ Tail(q) \in Seq(U) /\ Len(Tail(q)) = Len(q) - 1
        /\ \A i \in 1..Len(Tail(q)) : Tail(q)[i] = q[i + 1]
        /\ Head(q) = q[1]
    BY HeadTailProperties
  <1>2. /\ Append(w, Head(q)) \in Seq(U) /\ Len(Append(w, Head(q))) = Len(w) + 1
        /\ \A i \in 1..Len(w) : Append(w, Head(q))[i] = w[i]
        /\ Append(w, Head(q))[Len(w) + 1] = Head(q)
    BY <1>1, AppendProperties
  <1>3. Len(w) \in Nat /\ Len(q) \in Nat \ {0}
    BY LenProperties, EmptySeq
  <1>. DEFINE a == Append(w, Head(q))
              t == Tail(q)
  <1>. HIDE DEF a, t
  <1>4. /\ a \o t \in Seq(U) /\ w \o q \in Seq(U)
        /\ Len(a \o t) = Len(w) + Len(q) /\ Len(w \o q) = Len(w) + Len(q)
        /\ \A i \in 1..Len(w) + Len(q) :
              (a \o t)[i] = IF i <= Len(w) + 1 THEN a[i] ELSE t[i - (Len(w) + 1)]
        /\ \A i \in 1..Len(w) + Len(q) :
              (w \o q)[i] = IF i <= Len(w) THEN w[i] ELSE q[i - Len(w)]
    <2>1. a \in Seq(U) /\ t \in Seq(U) /\ Len(a) = Len(w) + 1 /\ Len(t) = Len(q) - 1
      BY <1>1, <1>2 DEF a, t
    <2>2. Len(a) + Len(t) = Len(w) + Len(q)
      BY <1>3, <2>1
    <2>3. /\ a \o t \in Seq(U) /\ Len(a \o t) = Len(a) + Len(t)
          /\ \A i \in 1..Len(a) + Len(t) :
                (a \o t)[i] = IF i <= Len(a) THEN a[i] ELSE t[i - Len(a)]
      BY <2>1, ConcatProperties
    <2>4. /\ w \o q \in Seq(U) /\ Len(w \o q) = Len(w) + Len(q)
          /\ \A i \in 1..Len(w) + Len(q) :
                (w \o q)[i] = IF i <= Len(w) THEN w[i] ELSE q[i - Len(w)]
      BY ConcatProperties
    <2>5. \A i \in 1..Len(w) + Len(q) :
             (a \o t)[i] = IF i <= Len(w) + 1 THEN a[i] ELSE t[i - (Len(w) + 1)]
      BY <2>1, <2>2, <2>3
    <2>. QED
      BY <2>1, <2>2, <2>3, <2>4, <2>5
  <1>5. ASSUME NEW i \in 1..Len(w) + Len(q) PROVE (a \o t)[i] = (w \o q)[i]
    <2>1. CASE i <= Len(w)
      BY <1>2, <1>3, <1>4, <2>1 DEF a
    <2>2. CASE i = Len(w) + 1
      BY <1>1, <1>2, <1>3, <1>4, <2>2 DEF a
    <2>3. CASE ~(i <= Len(w)) /\ i # Len(w) + 1
      <3>1. i - (Len(w) + 1) \in 1..Len(q) - 1
        BY <1>3, <2>3
      <3>2. t[i - (Len(w) + 1)] = q[i - Len(w)]
        BY <1>1, <1>3, <3>1 DEF t
      <3>. QED
        BY <1>3, <1>4, <2>3, <3>2
    <2>. QED
      BY <2>1, <2>2, <2>3
  <1>6. a \o t = w \o q
    BY <1>4, <1>5, SeqEqual
  <1>. QED
    BY <1>6 DEF a, t

\* What is sent is appended to the line ...
LEMMA SentLine ==
    ASSUME NEW U, NEW w \in Seq(U), NEW q \in Seq(U), NEW x \in U
    PROVE  w \o (q \o <<x>>) = Append(w \o q, x)
  <1>1. <<x>> \in Seq(U) /\ w \o q \in Seq(U)
    BY ConcatProperties
  <1>2. w \o (q \o <<x>>) = (w \o q) \o <<x>>
    BY <1>1, ConcatAssociative
  <1>. QED
    BY <1>1, <1>2, AppendIsConcat

\* ... and what is decoded is its head.
LEMMA DecodedLine ==
    ASSUME NEW U, NEW w \in Seq(U), NEW q \in Seq(U), w # <<>>
    PROVE  /\ w \o q # <<>>
           /\ Head(w \o q) = Head(w)
           /\ Tail(w) \o q = Tail(w \o q)
  <1>1. /\ Tail(w) \in Seq(U) /\ Len(Tail(w)) = Len(w) - 1
        /\ \A i \in 1..Len(Tail(w)) : Tail(w)[i] = w[i + 1]
        /\ Head(w) = w[1]
    BY HeadTailProperties
  <1>2. Len(w) \in Nat \ {0} /\ Len(q) \in Nat
    BY LenProperties, EmptySeq
  <1>. DEFINE c == w \o q
              t == Tail(w)
  <1>3. /\ c \in Seq(U) /\ Len(c) = Len(w) + Len(q)
        /\ \A i \in 1..Len(w) + Len(q) :
              c[i] = IF i <= Len(w) THEN w[i] ELSE q[i - Len(w)]
    BY ConcatProperties
  <1>. HIDE DEF c, t
  <1>4. c # <<>>
    BY <1>2, <1>3, EmptySeq
  <1>5. /\ Tail(c) \in Seq(U) /\ Len(Tail(c)) = Len(c) - 1
        /\ \A i \in 1..Len(Tail(c)) : Tail(c)[i] = c[i + 1]
        /\ Head(c) = c[1]
    BY <1>3, <1>4, HeadTailProperties
  <1>6. /\ t \o q \in Seq(U) /\ Len(t \o q) = (Len(w) - 1) + Len(q)
        /\ \A i \in 1..(Len(w) - 1) + Len(q) :
              (t \o q)[i] = IF i <= Len(w) - 1 THEN t[i] ELSE q[i - (Len(w) - 1)]
    <2>1. t \in Seq(U) /\ Len(t) = Len(w) - 1
      BY <1>1 DEF t
    <2>2. /\ t \o q \in Seq(U) /\ Len(t \o q) = Len(t) + Len(q)
          /\ \A i \in 1..Len(t) + Len(q) :
                (t \o q)[i] = IF i <= Len(t) THEN t[i] ELSE q[i - Len(t)]
      BY <2>1, ConcatProperties
    <2>. QED
      BY <2>1, <2>2
  <1>7. Head(c) = Head(w)
    BY <1>1, <1>2, <1>3, <1>5
  <1>8. ASSUME NEW i \in 1..(Len(w) - 1) + Len(q) PROVE (t \o q)[i] = Tail(c)[i]
    <2>1. i \in 1..Len(Tail(c)) /\ Tail(c)[i] = c[i + 1] /\ i + 1 \in 1..Len(w) + Len(q)
      BY <1>2, <1>3, <1>5
    <2>2. CASE i <= Len(w) - 1
      BY <1>1, <1>2, <1>3, <1>6, <2>1, <2>2 DEF t
    <2>3. CASE ~(i <= Len(w) - 1)
      BY <1>2, <1>3, <1>6, <2>1, <2>3
    <2>. QED
      BY <2>2, <2>3
  <1>9. t \o q = Tail(c)
    <2>1. Len(t \o q) = Len(Tail(c))
      BY <1>2, <1>3, <1>5, <1>6
    <2>. QED
      BY <1>5, <1>6, <1>8, <2>1, SeqEqual
  <1>. QED
    BY <1>4, <1>7, <1>9 DEF c, t

-----------------------------------------------------------------------------
(* The two handshakes, and the two dies.                                   *)

LEMMA HandshakeFacts ==
    ASSUME NEW h \in Handshake
    PROVE  /\ Other(h) \in Handshake /\ Other(h) # h /\ Other(Other(h)) = h
           /\ First(h) # Second(h)
           /\ ReqOf(h) \in Token /\ {AckOf(h)} \in Token
  BY DEF Handshake, Other, First, Second, Token

LEMMA MessageFacts ==
    ASSUME NEW h \in Handshake
    PROVE  /\ ReqOf(h) \subseteq Message /\ AckOf(h) \in Message
           /\ AckOf(h) \notin ReqOf(h)
           /\ AckOf(h) \notin ReqOf(Other(h))
           /\ AckOf(h) # AckOf(Other(h))
           /\ ReqOf(h) \cap ReqOf(Other(h)) = {}
           /\ \A T \in Token :
                 \/ T = ReqOf(h) \/ T = {AckOf(h)}
                 \/ T = ReqOf(Other(h)) \/ T = {AckOf(Other(h))}
  BY DEF Handshake, Other, ReqOf, AckOf, Message, DeactReq, Token

LEMMA FlagFacts ==
    ASSUME NEW h \in Handshake
    PROVE  /\ {TxReq(h), TxAck(h), RxReq(h), RxAck(h)} \subseteq FlagOf(h)
           /\ FlagOf(h) \cap FlagOf(Other(h)) = {}
  BY DEF Handshake, Other, TxReq, TxAck, RxReq, RxAck, FlagOf, ActFlag,
         DeactFlag, DeactHs

LEMMA ItemFacts == /\ None \notin Message /\ None \notin Kind
                   /\ Message \cap Kind = {}
                   /\ Item = Message \cup Kind
  BY DEF None, Message, DeactReq, Kind, Item

LEMMA PeerFacts ==
    ASSUME NEW d \in Die
    PROVE  /\ Peer(d) \in Die /\ Peer(d) # d /\ Peer(Peer(d)) = d
           /\ \A e \in Die : e = d \/ e = Peer(d)
  BY PeerType, ActivationAssumption

LEMMA HalfFacts ==
    ASSUME NEW d \in Die, st[d] \in State, NEW h \in Handshake
    PROVE  /\ Half(d) \in Handshake
           /\ Half(d) = h <=> st[d] = First(h) \/ st[d] = Second(h)
           /\ Half(d) # h <=> Half(d) = Other(h)
  BY DEF Half, Handshake, Idle, First, Second, Other, State

-----------------------------------------------------------------------------
(* What one edge of a die does to its activation FIFO and to its flags.    *)

LEMMA RequestOfHalf ==
    ASSUME NEW d \in Die, NEW in, st[d] \in State
    PROVE  \/ Request(d, in) = None
           \/ /\ Request(d, in) \in ReqOf(Half(d))
              /\ TxReq(Half(d)) \notin hs[d]
              /\ Offered(d) \notin ReqOf(Half(d))
  BY DEF Request, ActivateLevel, DeactivateLevel, ForceLevel, ActivateEn,
         DeactivateEn, Half, Idle, Session, ReqOf, TxReq, DeactReq, State

LEMMA AnswerOfHalf ==
    ASSUME NEW d \in Die, NEW in, NEW h \in Handshake, Half(d) = h,
           in.msg \in {None, AckOf(h)} \cup ReqOf(h)
    PROVE  Answer(d, in) = IF in.msg \in ReqOf(h) THEN AckOf(h) ELSE None
  BY DEF Answer, Half, ReqOf, AckOf, DeactReq, None, Handshake

LEMMA ConcatSlots ==
    ASSUME NEW x, NEW y
    PROVE  /\ <<>> \o (<<>> \o <<>>) = <<>>
           /\ <<>> \o (<<x>> \o <<>>) = <<x>>
           /\ <<>> \o (<<>> \o <<y>>) = <<y>>
           /\ <<>> \o (<<x>> \o <<y>>) = <<x, y>>
  <1>. DEFINE U == {x, y}
  <1>1. <<x>> \in Seq(U) /\ <<y>> \in Seq(U) /\ <<x, y>> \in Seq(U) /\ <<>> \in Seq(U)
    OBVIOUS
  <1>2. <<x>> \o <<y>> = <<x, y>>
    <2>1. <<x>> \o <<y>> = Append(<<x>>, y)
      BY <1>1, AppendIsConcat
    <2>2. Append(<<x>>, y) = <<x, y>>
      <3>1. /\ Len(<<x>>) = 1 /\ <<x>>[1] = x
            /\ Len(<<x, y>>) = 2 /\ <<x, y>>[1] = x /\ <<x, y>>[2] = y
        OBVIOUS
      <3>. DEFINE p == Append(<<x>>, y)
                  t == <<x, y>>
      <3>2. p \in Seq(U) /\ t \in Seq(U) /\ Len(p) = 2 /\ Len(t) = 2
        BY <1>1, <3>1, AppendProperties
      <3>3. p[1] = t[1] /\ p[2] = t[2]
        BY <1>1, <3>1, AppendProperties
      <3>. HIDE DEF p, t
      <3>4. \A i \in 1..Len(p) : p[i] = t[i]
        BY <3>2, <3>3
      <3>5. p = t
        BY <3>2, <3>4, SeqEqual
      <3>. QED
        BY <3>5 DEF p, t
    <2>. QED
      BY <2>1, <2>2
  <1>. QED
    BY <1>1, <1>2, ConcatEmptySeq

LEMMA QueueStep ==
    ASSUME NEW d \in Die, NEW in, NEW h \in Handshake, st[d] \in State, Half(d) = h,
           actq[d] = <<>> \/ QueuesReq(d, h) \/ QueuesAck(d, h),
           actq[d] # <<>> => in.ready,
           in.msg \in {None, AckOf(h)} \cup ReqOf(h),
           in.msg \in ReqOf(h) => ~QueuesAck(d, h),
           actq'[d] = NextActq(d, in)
    PROVE  /\ Sent(d, in) \in {None, AckOf(h)} \cup ReqOf(h)
           /\ Sent(d, in) \in ReqOf(h) <=> QueuesReq(d, h)
           /\ Sent(d, in) = AckOf(h) <=> QueuesAck(d, h) /\ ~QueuesReq(d, h)
           /\ (actq[d] = <<>> \/ QueuesReq(d, h) \/ QueuesAck(d, h))'
           /\ QueuesReq(d, h)' => TxReq(h) \notin hs[d] /\ ~QueuesReq(d, h)
           /\ QueuesAck(d, h)' <=> \/ in.msg \in ReqOf(h)
                                   \/ QueuesAck(d, h) /\ QueuesReq(d, h)
           /\ QueuesReq(d, h)' => Request(d, in) \in ReqOf(h)
           /\ actq'[d] # <<>> => QueuesReq(d, h)' \/ QueuesAck(d, h)'
  <1>. DEFINE a == AckOf(h)
              rq == Request(d, in)
              an == Answer(d, in)
  <1>1. an = IF in.msg \in ReqOf(h) THEN a ELSE None
    BY AnswerOfHalf
  <1>2. \/ rq = None
        \/ rq \in ReqOf(h) /\ TxReq(h) \notin hs[d] /\ Offered(d) \notin ReqOf(h)
    BY RequestOfHalf
  <1>3. a # None /\ None \notin ReqOf(h) /\ a \notin ReqOf(h)
    BY MessageFacts, ItemFacts
  <1>4. Slot(None) = <<>> /\ (\A x : x # None => Slot(x) = <<x>>)
    BY DEF Slot
  <1>. HIDE DEF a, rq, an
  <1>5. CASE actq[d] = <<>>
    <2>1. Sent(d, in) = None /\ ~QueuesReq(d, h) /\ ~QueuesAck(d, h)
      BY <1>5 DEF Sent, Offered, QueuesReq, QueuesAck
    <2>2. actq'[d] = <<>> \o (Slot(rq) \o Slot(an))
      BY <1>5, <2>1 DEF NextActq, ActFifoReady, ActFifoDepth, Pushed, rq, an
    <2>3. CASE rq = None /\ an = None
      <3>1. actq'[d] = <<>>
        BY <1>4, <2>2, <2>3
      <3>. QED
        BY <1>1, <1>3, <2>1, <2>3, <3>1 DEF QueuesReq, QueuesAck, a
    <2>4. CASE rq # None /\ an = None
      <3>1. actq'[d] = <<rq>>
        <4>1. Slot(rq) = <<rq>> /\ Slot(an) = <<>>
          BY <1>4, <2>4
        <4>. QED
          BY <2>2, <4>1, ConcatSlots
      <3>. QED
        BY <1>1, <1>2, <1>3, <2>1, <2>4, <3>1 DEF QueuesReq, QueuesAck, a, rq
    <2>5. CASE rq = None /\ an # None
      <3>1. actq'[d] = <<a>>
        <4>1. Slot(rq) = <<>> /\ Slot(an) = <<a>>
          BY <1>1, <1>4, <2>5
        <4>. QED
          BY <2>2, <4>1, ConcatSlots
      <3>. QED
        BY <1>1, <1>2, <1>3, <2>1, <2>5, <3>1 DEF QueuesReq, QueuesAck, a
    <2>6. CASE rq # None /\ an # None
      <3>1. actq'[d] = <<rq, a>>
        <4>1. Slot(rq) = <<rq>> /\ Slot(an) = <<a>>
          BY <1>1, <1>4, <2>6
        <4>. QED
          BY <2>2, <4>1, ConcatSlots
      <3>. QED
        BY <1>1, <1>2, <1>3, <2>1, <2>6, <3>1 DEF QueuesReq, QueuesAck, a, rq
    <2>. QED
      BY <2>3, <2>4, <2>5, <2>6
  <1>6. ASSUME NEW r \in ReqOf(h), actq[d] = <<r>>
        PROVE  /\ Sent(d, in) = r /\ QueuesReq(d, h) /\ ~QueuesAck(d, h) /\ rq = None
               /\ actq'[d] = Slot(an)
    <2>1. Offered(d) = r /\ Sent(d, in) = r /\ r # None
      BY <1>3, <1>6 DEF Sent, Offered
    <2>2. rq = None
      BY <1>2, <2>1
    <2>3. QueuesReq(d, h) /\ ~QueuesAck(d, h)
      BY <1>3, <1>6 DEF QueuesReq, QueuesAck, a
    <2>4. actq'[d] = <<>> \o (Slot(rq) \o Slot(an))
      <3>1. Tail(<<r>>) = <<>> /\ Len(<<r>>) = 1
        OBVIOUS
      <3>. QED
        BY <1>6, <2>1, <3>1 DEF NextActq, ActFifoReady, ActFifoDepth, Pushed, rq, an
    <2>5. actq'[d] = Slot(an)
      BY <1>4, <2>2, <2>4 DEF Slot
    <2>. QED
      BY <2>1, <2>2, <2>3, <2>5
  <1>7. ASSUME actq[d] = <<a>>
        PROVE  /\ Sent(d, in) = a /\ ~QueuesReq(d, h) /\ QueuesAck(d, h) /\ an = None
               /\ actq'[d] = Slot(rq)
    <2>1. Sent(d, in) = a
      BY <1>3, <1>7 DEF Sent, Offered
    <2>2. QueuesAck(d, h) /\ ~QueuesReq(d, h)
      BY <1>3, <1>7 DEF QueuesReq, QueuesAck, a
    <2>3. an = None
      BY <1>1, <2>2
    <2>4. actq'[d] = <<>> \o (Slot(rq) \o Slot(an))
      <3>1. Tail(<<a>>) = <<>> /\ Len(<<a>>) = 1
        OBVIOUS
      <3>. QED
        BY <1>3, <1>7, <2>1, <3>1 DEF NextActq, ActFifoReady, ActFifoDepth, Pushed, rq, an
    <2>5. actq'[d] = Slot(rq)
      BY <1>4, <2>3, <2>4 DEF Slot
    <2>. QED
      BY <2>1, <2>2, <2>3, <2>5
  <1>8. ASSUME NEW r \in ReqOf(h), actq[d] = <<r, a>>
        PROVE  /\ Sent(d, in) = r /\ QueuesReq(d, h) /\ QueuesAck(d, h)
               /\ rq = None /\ an = None
               /\ actq'[d] = <<a>>
    <2>1. Offered(d) = r /\ Sent(d, in) = r /\ r # None
      BY <1>3, <1>8 DEF Sent, Offered
    <2>2. QueuesReq(d, h) /\ QueuesAck(d, h)
      BY <1>8 DEF QueuesReq, QueuesAck, a
    <2>3. rq = None /\ an = None
      BY <1>1, <1>2, <2>1, <2>2
    <2>4. actq'[d] = <<a>> \o (Slot(rq) \o Slot(an))
      <3>1. Tail(<<r, a>>) = <<a>> /\ Len(<<r, a>>) = 2
        OBVIOUS
      <3>. QED
        BY <1>8, <2>1, <3>1 DEF NextActq, ActFifoReady, ActFifoDepth, Pushed, rq, an
    <2>5. actq'[d] = <<a>>
      BY <1>4, <2>3, <2>4
    <2>. QED
      BY <2>1, <2>2, <2>3, <2>5
  <1>9. CASE \E r \in ReqOf(h) : actq[d] = <<r>>
    <2>1. PICK r \in ReqOf(h) : actq[d] = <<r>>
      BY <1>9
    <2>2. /\ Sent(d, in) = r /\ QueuesReq(d, h) /\ ~QueuesAck(d, h) /\ rq = None
          /\ actq'[d] = Slot(an)
      BY <1>6, <2>1
    <2>3. CASE an = None
      <3>1. actq'[d] = <<>>
        BY <1>4, <2>2, <2>3
      <3>2. ~QueuesReq(d, h)' /\ ~QueuesAck(d, h)'
        BY <3>1 DEF QueuesReq, QueuesAck
      <3>3. in.msg \notin ReqOf(h)
        BY <1>1, <1>3, <2>3
      <3>. QED
        BY <1>3, <2>2, <3>1, <3>2, <3>3 DEF a
    <2>4. CASE an # None
      <3>1. actq'[d] = <<a>>
        BY <1>1, <1>4, <2>2, <2>4
      <3>2. in.msg \in ReqOf(h) /\ ~QueuesReq(d, h)' /\ QueuesAck(d, h)'
        BY <1>1, <1>3, <2>4, <3>1 DEF QueuesReq, QueuesAck, a
      <3>. QED
        BY <1>3, <2>1, <2>2, <3>1, <3>2 DEF a
    <2>. QED
      BY <2>3, <2>4
  <1>10. CASE actq[d] = <<a>>
    <2>1. CASE rq = None
      <3>1. actq'[d] = <<>>
        BY <1>4, <1>7, <1>10, <2>1
      <3>. QED
        BY <1>1, <1>3, <1>7, <1>10, <2>1, <3>1 DEF QueuesReq, QueuesAck, a
    <2>2. CASE rq # None
      <3>1. actq'[d] = <<rq>>
        BY <1>4, <1>7, <1>10, <2>2
      <3>. QED
        BY <1>1, <1>2, <1>3, <1>7, <1>10, <2>2, <3>1 DEF QueuesReq, QueuesAck, a, rq
    <2>. QED
      BY <2>1, <2>2
  <1>11. CASE \E r \in ReqOf(h) : actq[d] = <<r, a>>
    <2>1. PICK r \in ReqOf(h) : actq[d] = <<r, a>>
      BY <1>11
    <2>. QED
      BY <1>1, <1>3, <1>8, <2>1 DEF QueuesReq, QueuesAck, a
  <1>. QED
    BY <1>5, <1>9, <1>10, <1>11 DEF QueuesReq, QueuesAck, a

\* The handshake goes on.
LEMMA FlagStep ==
    ASSUME NEW d \in Die, NEW in, NEW h \in Handshake, st[d] \in State, Half(d) = h,
           ~FsmAbort(d, in), ~Full(d, h),
           hs[d] \subseteq FlagOf(h),
           TxAck(h) \in hs[d] => st[d] = Second(h),
           in.msg \in {None, AckOf(h)} \cup ReqOf(h),
           in.msg = AckOf(h) => st[d] = Second(h),
           Sent(d, in) \in {None, AckOf(h)} \cup ReqOf(h)
    PROVE  /\ NextState(d, in) \in {First(h), Second(h)}
           /\ st[d] = Second(h) => NextState(d, in) = Second(h)
           /\ {TxReq(h), RxReq(h)} \cap hs[d] # {} => NextState(d, in) = Second(h)
           /\ NextFlags(d, in) \subseteq FlagOf(h)
           /\ TxReq(h) \in NextFlags(d, in)
                 <=> TxReq(h) \in hs[d] \/ Sent(d, in) \in ReqOf(h)
           /\ RxAck(h) \in NextFlags(d, in)
                 <=> RxAck(h) \in hs[d] \/ Sent(d, in) = AckOf(h)
           /\ RxReq(h) \in NextFlags(d, in)
                 <=> RxReq(h) \in hs[d] \/ in.msg \in ReqOf(h)
           /\ TxAck(h) \in NextFlags(d, in)
                 <=> TxAck(h) \in hs[d] \/ in.msg = AckOf(h)
  <1>1. CASE h = "activate"
    <2>1. st[d] \in {"DISABLED", "ACTIVATE"} /\ Idle(d)
      BY <1>1 DEF Half, Idle, State
    <2>2. ~(ActFlag \subseteq hs[d])
      BY <1>1 DEF Full, ActFlag, TxReq, TxAck, RxReq, RxAck
    <2>3. /\ NextState(d, in) =
                IF st[d] = "DISABLED" /\ hs[d] \cap ActReq = {} THEN "DISABLED"
                ELSE "ACTIVATE"
      BY <2>1, <2>2 DEF NextState
    <2>4. ClearFlags(d, in) = IF st[d] = "ACTIVATE" THEN {} ELSE {"tx_activate_ack"}
      BY <2>1, <2>3 DEF ClearFlags
    <2>5. /\ in.msg \in {"None", "ActivateAck", "ActivateReq"}
          /\ Sent(d, in) \in {"None", "ActivateAck", "ActivateReq"}
      BY <1>1 DEF AckOf, ReqOf, None
    <2>6. SetFlags(d, in) =
                 Bit(Sent(d, in) = "ActivateReq", "tx_activate_req")
            \cup Bit(Sent(d, in) = "ActivateAck", "rx_activate_ack")
            \cup Bit(in.msg = "ActivateReq", "rx_activate_req")
            \cup Bit(in.msg = "ActivateAck", "tx_activate_ack")
      BY <1>1, <2>1, <2>5 DEF SetFlags, Bit, DeactReq, AckOf, Second
    <2>7. NextFlags(d, in) = hs[d] \cup SetFlags(d, in)
      BY <1>1, <2>4, <2>1 DEF NextFlags, TxAck, Second
    <2>. QED
      BY <1>1, <2>1, <2>3, <2>5, <2>6, <2>7
         DEF First, Second, FlagOf, ActFlag, TxReq, TxAck, RxReq, RxAck, ReqOf,
             AckOf, Bit, ActReq
  <1>2. CASE h = "deactivate"
    <2>1. st[d] \in {"ENABLED", "DEACTIVATE"} /\ ~Idle(d)
      BY <1>2 DEF Half, Idle, State
    <2>2. ~(DeactHs \subseteq hs[d])
      BY <1>2 DEF Full, DeactHs, TxReq, TxAck, RxReq, RxAck
    <2>3. NextState(d, in) =
             IF /\ st[d] = "ENABLED"
                /\ hs[d] \cap {"tx_deactivate_req", "rx_deactivate_req"} = {}
             THEN "ENABLED" ELSE "DEACTIVATE"
      BY <2>1, <2>2 DEF NextState
    <2>4. ClearFlags(d, in) = {"tx_activate_ack"}
      BY <2>1, <2>3 DEF ClearFlags
    <2>5. /\ in.msg \in {"None", "DeactivateAck"} \cup DeactReq
          /\ Sent(d, in) \in {"None", "DeactivateAck"} \cup DeactReq
      BY <1>2 DEF AckOf, ReqOf, None
    <2>6. SetFlags(d, in) =
                 Bit(Sent(d, in) \in DeactReq, "tx_deactivate_req")
            \cup Bit(Sent(d, in) = "DeactivateAck", "rx_deactivate_ack")
            \cup Bit(in.msg \in DeactReq, "rx_deactivate_req")
            \cup Bit(in.msg = "DeactivateAck", "tx_deactivate_ack")
            \cup Bit(in.msg = "DeactivateReqForced", "rx_deactivate_propertyreq")
      BY <2>1, <2>5 DEF SetFlags, Bit, DeactReq
    <2>7. NextFlags(d, in) = hs[d] \cup SetFlags(d, in)
      <3>1. "tx_activate_ack" \notin hs[d]
        BY <1>2 DEF FlagOf, DeactFlag, DeactHs
      <3>. QED
        BY <2>4, <3>1 DEF NextFlags
    <2>. QED
      BY <1>2, <2>1, <2>3, <2>5, <2>6, <2>7
         DEF First, Second, FlagOf, DeactFlag, DeactHs, TxReq, TxAck, RxReq, RxAck,
             ReqOf, AckOf, Bit, DeactReq
  <1>. QED
    BY <1>1, <1>2 DEF Handshake

\* The handshake is complete.
LEMMA FlagSwitch ==
    ASSUME NEW d \in Die, NEW in, NEW h \in Handshake, st[d] = Second(h),
           ~FsmAbort(d, in), Full(d, h), hs[d] \subseteq FlagOf(h),
           in.msg = None, Sent(d, in) = None
    PROVE  NextState(d, in) = First(Other(h)) /\ NextFlags(d, in) = {}
  <1>1. CASE h = "activate"
    <2>1. st[d] = "ACTIVATE" /\ ActFlag \subseteq hs[d] /\ hs[d] \subseteq ActFlag
      BY <1>1 DEF Second, Full, ActFlag, TxReq, TxAck, RxReq, RxAck, FlagOf
    <2>2. NextState(d, in) = "ENABLED"
      BY <2>1 DEF NextState
    <2>3. ClearFlags(d, in) = ActFlag
      BY <2>1, <2>2 DEF ClearFlags
    <2>4. SetFlags(d, in) = {}
      BY DEF SetFlags, Bit, None, DeactReq
    <2>. QED
      BY <1>1, <2>1, <2>2, <2>3, <2>4 DEF NextFlags, First, Other
  <1>2. CASE h = "deactivate"
    <2>1. st[d] = "DEACTIVATE" /\ DeactHs \subseteq hs[d] /\ hs[d] \subseteq DeactFlag
      BY <1>2 DEF Second, Full, DeactHs, TxReq, TxAck, RxReq, RxAck, FlagOf
    <2>2. NextState(d, in) = "DISABLED"
      BY <2>1 DEF NextState
    <2>3. DeactFlag \subseteq ClearFlags(d, in)
      BY <2>1, <2>2 DEF ClearFlags
    <2>4. SetFlags(d, in) = {}
      BY DEF SetFlags, Bit, None, DeactReq
    <2>. QED
      BY <1>2, <2>1, <2>2, <2>3, <2>4 DEF NextFlags, First, Other
  <1>. QED
    BY <1>1, <1>2 DEF Handshake

\* An edge of a die whose activation FIFO is empty, that decodes nothing and
\* has its own request behind it.
LEMMA QuietQueue ==
    ASSUME NEW d \in Die, NEW in, NEW h \in Handshake, st[d] \in State, Half(d) = h,
           actq[d] = <<>>, in.msg \in {None, AckOf(h)}, TxReq(h) \in hs[d],
           actq'[d] = NextActq(d, in)
    PROVE  Sent(d, in) = None /\ actq'[d] = <<>>
  <1>1. ~QueuesAck(d, h) /\ ~QueuesReq(d, h) /\ AckOf(h) \notin ReqOf(h) /\ None \notin ReqOf(h)
    BY MessageFacts, ItemFacts DEF QueuesReq, QueuesAck
  <1>2. /\ Sent(d, in) \in {None, AckOf(h)} \cup ReqOf(h)
        /\ Sent(d, in) \in ReqOf(h) <=> QueuesReq(d, h)
        /\ Sent(d, in) = AckOf(h) <=> QueuesAck(d, h) /\ ~QueuesReq(d, h)
        /\ QueuesReq(d, h)' => TxReq(h) \notin hs[d] /\ ~QueuesReq(d, h)
        /\ QueuesAck(d, h)' <=> \/ in.msg \in ReqOf(h)
                                \/ QueuesAck(d, h) /\ QueuesReq(d, h)
        /\ actq'[d] # <<>> => QueuesReq(d, h)' \/ QueuesAck(d, h)'
    BY <1>1, QueueStep
  <1>. QED
    BY <1>1, <1>2

-----------------------------------------------------------------------------
(* What one edge of a die does to the two lines.                           *)

LEMMA LineType ==
    ASSUME TypeOK, NEW v \in [Die -> Seq(Item)], NEW d \in Die
    PROVE  /\ misc[d] \in Seq(Message) /\ misc[d] \in Seq(Item) /\ v[d] \in Seq(Item)
           /\ Line(v, d) \in Seq(Item)
  <1>1. misc[d] \in Seq(Message) /\ v[d] \in Seq(Item)
    BY DEF TypeOK
  <1>2. misc[d] \in Seq(Item)
    BY <1>1, ItemFacts, SeqMonotonic
  <1>. QED
    BY <1>1, <1>2, ConcatProperties DEF Line

LEMMA SentQueue ==
    ASSUME NEW q \in Seq(Message), NEW pack \in BOOLEAN, pack => q # <<>>,
           NEW x \in Message, NEW r, r = (IF pack THEN Tail(q) ELSE q) \o <<x>>
    PROVE  Holds(r, {x})
  <1>. DEFINE s == IF pack THEN Tail(q) ELSE q
  <1>1. s \in Seq(Message) /\ <<x>> \in Seq(Message)
    BY TailType
  <1>2. Holds(<<x>>, {x})
    <2>1. 1 \in DOMAIN <<x>> /\ <<x>>[1] = x
      OBVIOUS
    <2>. QED
      BY <2>1 DEF Holds
  <1>. HIDE DEF s
  <1>3. Holds(s \o <<x>>, {x})
    BY <1>1, <1>2, ConcatHolds
  <1>. QED
    BY <1>3 DEF s

\* What an edge of d does to the registers that the handshakes depend on.
EdgeEffect(d, m, pack, in) ==
    /\ in.msg = m /\ in \in Input /\ in.ready = (Len(misc[d]) < MiscDepth)
    /\ in.link = link[d] /\ in.rxPending = (rx[d] # {})
    /\ Sent(d, in) \in Message \cup {None}
    /\ pack => link[d] /\ misc[d] # <<>>
    /\ st'[d] = NextState(d, in) /\ hs'[d] = NextFlags(d, in)
    /\ reg'[d] = NextReg(d, in) /\ actq'[d] = NextActq(d, in)
    /\ misc'[d] = (IF pack THEN Tail(misc[d]) ELSE misc[d]) \o Slot(Sent(d, in))
    /\ Sent(d, in) # None => Holds(misc'[d], {Sent(d, in)})
    /\ m # None => gap'[d] > 0
    /\ faulted'[d] = (faulted[d] \/ LinkError(d, in) \/ IntFdiLinkDown(d, in))
    /\ rx'[d] = IF st'[d] = "DISABLED" /\ rx[d] # {} THEN {"old"} ELSE rx[d]
    /\ link' = link
    /\ \A e \in Die \ {d} :
          /\ st'[e] = st[e] /\ hs'[e] = hs[e] /\ actq'[e] = actq[e]
          /\ misc'[e] = misc[e] /\ gap'[e] = gap[e] /\ faulted'[e] = faulted[e]
          /\ rx'[e] = rx[e]

LEMMA EdgeFrame ==
    ASSUME TypeOK, NEW d \in Die, NEW m \in Message \cup {None}, NEW pack \in BOOLEAN,
           NEW bus \in Bus, NEW credit \in BOOLEAN, NEW expired \in SUBSET armed[d],
           Edge(d, m, pack, bus, credit, expired)
    PROVE  EdgeEffect(d, m, pack, CtrlInput(d, m, bus, credit, expired))
  <1>. DEFINE in == CtrlInput(d, m, bus, credit, expired)
  <1>1. in \in Input
    BY InputType
  <1>2. Sent(d, in) \in Message \cup {None}
    BY <1>1, MessageCases DEF TypeOK, CtrlTypeOK
  <1>3. /\ in.msg = m /\ in.ready = (Len(misc[d]) < MiscDepth)
        /\ in.link = link[d] /\ in.rxPending = (rx[d] # {})
    BY DEF CtrlInput
  <1>4. /\ pack => link[d] /\ misc[d] # <<>>
        /\ misc' = [misc EXCEPT ![d] =
                      (IF pack THEN Tail(@) ELSE @) \o Slot(Sent(d, in))]
        /\ gap' = [gap EXCEPT ![d] = IF m # None THEN FlitBeats - 1
                                     ELSE IF @ = 0 THEN 0 ELSE @ - 1]
        /\ rx' = [rx EXCEPT ![d] =
                    IF st'[d] = "DISABLED" /\ @ # {} THEN {"old"} ELSE @]
        /\ faulted' = [faulted EXCEPT ![d] =
                         @ \/ LinkError(d, in) \/ IntFdiLinkDown(d, in)]
        /\ link' = link
        /\ Tick(d, in)
    BY DEF Edge
  <1>5. /\ misc'[d] = (IF pack THEN Tail(misc[d]) ELSE misc[d]) \o Slot(Sent(d, in))
        /\ misc[d] \in Seq(Message)
    BY <1>4 DEF TypeOK
  <1>6. Sent(d, in) # None => Holds(misc'[d], {Sent(d, in)})
    <2>. SUFFICES ASSUME Sent(d, in) # None PROVE Holds(misc'[d], {Sent(d, in)})
      OBVIOUS
    <2>1. Sent(d, in) \in Message /\ Slot(Sent(d, in)) = <<Sent(d, in)>>
      BY <1>2 DEF Slot
    <2>2. misc'[d] = (IF pack THEN Tail(misc[d]) ELSE misc[d]) \o <<Sent(d, in)>>
      BY <1>5, <2>1
    <2>. QED
      BY <1>4, <1>5, <2>1, <2>2, SentQueue
  <1>7. m # None => gap'[d] > 0
    <2>1. FlitBeats \in Nat \ {0, 1} /\ gap \in [Die -> 0..FlitBeats]
      BY ActivationAssumption DEF TypeOK
    <2>. QED
      BY <1>4, <2>1
  <1>8. /\ st'[d] = NextState(d, in) /\ hs'[d] = NextFlags(d, in)
        /\ reg'[d] = NextReg(d, in) /\ actq'[d] = NextActq(d, in)
        /\ \A e \in Die \ {d} :
              st'[e] = st[e] /\ hs'[e] = hs[e] /\ actq'[e] = actq[e]
    BY <1>4 DEF Tick, TypeOK, CtrlTypeOK
  <1>9. /\ faulted'[d] = (faulted[d] \/ LinkError(d, in) \/ IntFdiLinkDown(d, in))
        /\ rx'[d] = IF st'[d] = "DISABLED" /\ rx[d] # {} THEN {"old"} ELSE rx[d]
        /\ \A e \in Die \ {d} :
              /\ misc'[e] = misc[e] /\ gap'[e] = gap[e] /\ faulted'[e] = faulted[e]
              /\ rx'[e] = rx[e]
    BY <1>4 DEF TypeOK
  <1>. QED
    BY <1>1, <1>2, <1>3, <1>4, <1>5, <1>6, <1>7, <1>8, <1>9 DEF EdgeEffect

\* The wire that lost nothing takes what d packs and gives what d decodes.
Advances(d, m, pack, v, w) ==
    /\ w[d] = IF pack THEN Append(v[d], Head(misc[d])) ELSE v[d]
    /\ w[Peer(d)] = IF m = None THEN v[Peer(d)] ELSE Tail(v[Peer(d)])

LEMMA LineStep ==
    ASSUME TypeOK, NEW d \in Die, NEW m, NEW pack, NEW in,
           EdgeEffect(d, m, pack, in),
           NEW v \in [Die -> Seq(Item)], NEW w \in [Die -> Seq(Item)],
           Advances(d, m, pack, v, w),
           m # None => v[Peer(d)] # <<>> /\ m = Head(v[Peer(d)])
    PROVE  /\ Line(w, d)' = IF Sent(d, in) = None THEN Line(v, d)
                            ELSE Append(Line(v, d), Sent(d, in))
           /\ Line(w, Peer(d))' = IF m = None THEN Line(v, Peer(d))
                                  ELSE Tail(Line(v, Peer(d)))
           /\ m # None => Line(v, Peer(d)) # <<>> /\ m = Head(Line(v, Peer(d)))
  <1>. DEFINE e == Peer(d)
              q == IF pack THEN Tail(misc[d]) ELSE misc[d]
              x == Sent(d, in)
  <1>0. /\ x \in Message \cup {None}
        /\ pack => misc[d] # <<>>
        /\ misc'[d] = (IF pack THEN Tail(misc[d]) ELSE misc[d]) \o Slot(x)
        /\ \A a \in Die \ {d} : misc'[a] = misc[a]
        /\ w[d] = IF pack THEN Append(v[d], Head(misc[d])) ELSE v[d]
        /\ w[e] = IF m = None THEN v[e] ELSE Tail(v[e])
    BY DEF EdgeEffect, Advances
  <1>. HIDE DEF x
  <1>1. e \in Die /\ e # d /\ misc'[e] = misc[e]
    BY <1>0, PeerFacts
  <1>2. /\ v[d] \in Seq(Item) /\ misc[d] \in Seq(Item)
        /\ v[e] \in Seq(Item) /\ misc[e] \in Seq(Item)
    BY <1>1, LineType
  <1>3. w[d] \o q = Line(v, d) /\ q \in Seq(Item) /\ w[d] \in Seq(Item)
    <2>1. CASE pack
      BY <1>0, <1>2, <2>1, PackedLine, TailType DEF Line
    <2>2. CASE ~pack
      BY <1>0, <1>2, <2>2 DEF Line
    <2>. QED
      BY <2>1, <2>2
  <1>4. Line(w, d)' = w[d] \o (q \o Slot(x))
    BY <1>0 DEF Line
  <1>. HIDE DEF q
  <1>5. Line(w, d)' = IF x = None THEN Line(v, d) ELSE Append(Line(v, d), x)
    <2>1. CASE x = None
      <3>1. Slot(x) = <<>>
        BY <2>1 DEF Slot
      <3>2. q \o <<>> = q
        BY <1>3, ConcatEmptySeq
      <3>. QED
        BY <1>3, <1>4, <2>1, <3>1, <3>2
    <2>2. CASE x # None
      <3>1. Slot(x) = <<x>> /\ x \in Item
        BY <1>0, <2>2, ItemFacts DEF Slot
      <3>2. ASSUME NEW a \in Seq(Item), NEW b \in Seq(Item), NEW y \in Item
            PROVE  a \o (b \o <<y>>) = Append(a \o b, y)
        BY SentLine
      <3>3. w[d] \o (q \o <<x>>) = Append(w[d] \o q, x)
        BY <1>3, <3>1, <3>2
      <3>. QED
        BY <1>3, <1>4, <2>2, <3>1, <3>3
    <2>. QED
      BY <2>1, <2>2
  <1>6. Line(w, e)' = w[e] \o misc[e]
    BY <1>1 DEF Line
  <1>7. CASE m = None
    BY <1>0, <1>5, <1>6, <1>7 DEF Line, x
  <1>8. CASE m # None
    <2>1. /\ v[e] \o misc[e] # <<>>
          /\ Head(v[e] \o misc[e]) = Head(v[e])
          /\ Tail(v[e]) \o misc[e] = Tail(v[e] \o misc[e])
      BY <1>2, <1>8, DecodedLine
    <2>. QED
      BY <1>0, <1>5, <1>6, <1>8, <2>1 DEF Line, x
  <1>. QED
    BY <1>7, <1>8

\* For what a message may be: it is on the line of d once it is sent, and it
\* is not on the line of the peer once it is decoded.
LEMMA LineHolds ==
    ASSUME NEW L \in Seq(Item), NEW x \in Message \cup {None}, NEW K,
           K = IF x = None THEN L ELSE Append(L, x)
    PROVE  /\ K \in Seq(Item)
           /\ \A S : Holds(K, S) <=> Holds(L, S) \/ (x # None /\ x \in S)
           /\ Once(L) /\ (\A T \in Token : x \in T => ~Holds(L, T)) => Once(K)
  <1>1. CASE x = None
    BY <1>1
  <1>2. CASE x # None
    <2>1. x \in Item /\ K = Append(L, x)
      BY <1>2, ItemFacts
    <2>2. Once(L) /\ (\A T \in Token : x \in T => ~Holds(L, T)) => Once(K)
      BY <2>1, AppendOnce
    <2>3. K \in Seq(Item)
      BY <2>1, AppendProperties
    <2>. QED
      BY <1>2, <2>1, <2>2, <2>3, AppendHolds
  <1>. QED
    BY <1>1, <1>2

LEMMA LineDecoded ==
    ASSUME NEW L \in Seq(Item), Once(L), NEW m \in Message \cup {None}, NEW K,
           m # None => L # <<>> /\ m = Head(L),
           K = IF m = None THEN L ELSE Tail(L)
    PROVE  /\ K \in Seq(Item)
           /\ Once(K)
           /\ \A S : Holds(K, S) => Holds(L, S)
           /\ \A S : m # None /\ m \in S => Holds(L, S)
           /\ \A T \in Token : Holds(K, T) <=> Holds(L, T) /\ m \notin T
  <1>1. \A T \in Token : None \notin T
    BY ItemFacts, MessageFacts DEF Token
  <1>2. CASE m = None
    BY <1>1, <1>2
  <1>3. CASE m # None
    <2>1. L # <<>> /\ m = Head(L) /\ K = Tail(L)
      BY <1>3
    <2>2. /\ Once(K) /\ K \in Seq(Item)
          /\ \A T \in Token : m \in T => ~Holds(K, T)
      BY <2>1, TailOnce, TailType
    <2>3. \A S : Holds(L, S) <=> m \in S \/ Holds(K, S)
      BY <2>1, TailHolds
    <2>. QED
      BY <1>3, <2>2, <2>3
  <1>. QED
    BY <1>2, <1>3

\* An edge of die d that is no abort, on the lines v and w.
Moves(d, in, v, w) ==
    LET x == Sent(d, in)
        e == Peer(d)
    IN
    /\ ~FsmAbort(d, in)
    /\ {x, in.msg} \subseteq Message \cup {None}
    /\ in.ready = (Len(misc[d]) < MiscDepth)
    /\ in.msg # None => gap[d] = 0 /\ gap'[d] > 0
    /\ st'[d] = NextState(d, in) /\ hs'[d] = NextFlags(d, in)
    /\ actq'[d] = NextActq(d, in)
    /\ x # None => Holds(misc'[d], {x})
    /\ st'[e] = st[e] /\ hs'[e] = hs[e] /\ actq'[e] = actq[e]
    /\ misc'[e] = misc[e] /\ gap'[e] = gap[e]
    /\ Line(w, d)' = IF x = None THEN Line(v, d) ELSE Append(Line(v, d), x)
    /\ Line(w, e)' = IF in.msg = None THEN Line(v, e) ELSE Tail(Line(v, e))
    /\ in.msg # None => Line(v, e) # <<>> /\ in.msg = Head(Line(v, e))

\* The edge completes handshake g, or goes on with it.
Switches(d, in, g) ==
    /\ Half(d) = g /\ Full(d, g) /\ st[d] = Second(g)
    /\ in.msg = None /\ Sent(d, in) = None
    /\ st'[d] = First(Other(g)) /\ hs'[d] = {}
    /\ actq[d] = <<>> /\ actq'[d] = <<>>

Continues(d, in, g) ==
    LET x == Sent(d, in) IN
    /\ Half(d) = g /\ ~Full(d, g) /\ Half(d)' = g
    /\ st[d] = Second(g) => st'[d] = Second(g)
    /\ {TxReq(g), RxReq(g)} \cap hs[d] # {} => st'[d] = Second(g)
    /\ TxReq(g) \in hs'[d] <=> TxReq(g) \in hs[d] \/ x \in ReqOf(g)
    /\ RxAck(g) \in hs'[d] <=> RxAck(g) \in hs[d] \/ x = AckOf(g)
    /\ RxReq(g) \in hs'[d] <=> RxReq(g) \in hs[d] \/ in.msg \in ReqOf(g)
    /\ TxAck(g) \in hs'[d] <=> TxAck(g) \in hs[d] \/ in.msg = AckOf(g)
    /\ x \in {None, AckOf(g)} \cup ReqOf(g)
    /\ x \in ReqOf(g) => QueuesReq(d, g)
    /\ x = AckOf(g) => QueuesAck(d, g)
    /\ QueuesReq(d, g)' => TxReq(g) \notin hs[d] /\ Request(d, in) \in ReqOf(g)

LEMMA MoveHolds ==
    ASSUME TypeOK, NEW d \in Die, NEW in, NEW v \in [Die -> Seq(Item)], NEW w,
           Moves(d, in, v, w), Once(Line(v, Peer(d)))
    PROVE  /\ \A S : Holds(Line(w, d)', S)
                        <=> \/ Holds(Line(v, d), S)
                            \/ Sent(d, in) # None /\ Sent(d, in) \in S
           /\ \A S : Holds(Line(w, Peer(d))', S) => Holds(Line(v, Peer(d)), S)
           /\ \A S : in.msg # None /\ in.msg \in S => Holds(Line(v, Peer(d)), S)
           /\ \A T \in Token : Holds(Line(w, Peer(d))', T)
                                  <=> Holds(Line(v, Peer(d)), T) /\ in.msg \notin T
           /\ Once(Line(w, Peer(d))')
           /\ Once(Line(v, d)) /\ (\A T \in Token : Sent(d, in) \in T => ~Holds(Line(v, d), T))
                => Once(Line(w, d)')
  <1>. DEFINE e == Peer(d)
  <1>1. e \in Die
    BY PeerFacts
  <1>2. Line(v, d) \in Seq(Item) /\ Line(v, e) \in Seq(Item)
    BY <1>1, LineType
  <1>3. /\ Sent(d, in) \in Message \cup {None} /\ in.msg \in Message \cup {None}
        /\ Line(w, d)' = IF Sent(d, in) = None THEN Line(v, d)
                         ELSE Append(Line(v, d), Sent(d, in))
        /\ Line(w, e)' = IF in.msg = None THEN Line(v, e) ELSE Tail(Line(v, e))
        /\ in.msg # None => Line(v, e) # <<>> /\ in.msg = Head(Line(v, e))
    BY DEF Moves
  <1>. DEFINE L == Line(v, e)
              m == in.msg
              K == Line(w, e)'
              Ld == Line(v, d)
              x == Sent(d, in)
              Kd == Line(w, d)'
  <1>. HIDE DEF L, m, K, Ld, x, Kd
  <1>4. /\ L \in Seq(Item) /\ Once(L) /\ m \in Message \cup {None}
        /\ m # None => L # <<>> /\ m = Head(L)
        /\ K = IF m = None THEN L ELSE Tail(L)
    BY <1>2, <1>3 DEF L, m, K
  <1>5. /\ Once(K)
        /\ \A S : Holds(K, S) => Holds(L, S)
        /\ \A S : m # None /\ m \in S => Holds(L, S)
        /\ \A T \in Token : Holds(K, T) <=> Holds(L, T) /\ m \notin T
    BY <1>4, LineDecoded
  <1>6. /\ Ld \in Seq(Item) /\ x \in Message \cup {None}
        /\ Kd = IF x = None THEN Ld ELSE Append(Ld, x)
    BY <1>2, <1>3 DEF Ld, x, Kd
  <1>7. /\ \A S : Holds(Kd, S) <=> Holds(Ld, S) \/ (x # None /\ x \in S)
        /\ Once(Ld) /\ (\A T \in Token : x \in T => ~Holds(Ld, T)) => Once(Kd)
    BY <1>6, LineHolds
  <1>. QED
    BY <1>5, <1>7 DEF L, m, K, Ld, x, Kd

\* What Exchange and Here depend on.
LEMMA NoFlagsOfOther ==
    ASSUME NEW d \in Die, NEW h \in Handshake, hs[d] \subseteq FlagOf(Other(h))
    PROVE  {TxReq(h), TxAck(h), RxReq(h), RxAck(h)} \cap hs[d] = {}
  BY FlagFacts

LEMMA EmptyQueue ==
    ASSUME NEW d \in Die, NEW h, actq[d] = <<>>
    PROVE  ~QueuesReq(d, h) /\ ~QueuesAck(d, h)
  BY DEF QueuesReq, QueuesAck

\* Where the die that is behind stands, its peer is ahead.
LEMMA AheadOfBehind ==
    ASSUME NEW v, NEW h \in Handshake, InStep(v, h), NEW d \in Die,
           Behind(v, d, Other(h)), st \in [Die -> State]
    PROVE  Here(v, Peer(d), h)
  <1>1. Half(d) = Other(h)
    BY HalfFacts, HandshakeFacts DEF Behind
  <1>2. \A a \in Die : Behind(v, a, Other(h)) => Half(a) # h
    BY HalfFacts, HandshakeFacts DEF Behind
  <1>3. PICK a \in Die : Half(a) = h
    BY DEF InStep
  <1>4. a = Peer(d)
    BY <1>1, <1>3, PeerFacts, HandshakeFacts
  <1>. QED
    BY <1>2, <1>3, <1>4 DEF InStep

\* The die that is behind receives the Ack, or goes on.
LEMMA BehindMoves ==
    ASSUME TypeOK, NEW d \in Die, NEW in, NEW v \in [Die -> Seq(Item)], NEW w,
           Moves(d, in, v, w), NEW h \in Handshake, InStep(v, h),
           Behind(v, d, Other(h))
    PROVE  /\ InStep(w, h)'
           /\ Switches(d, in, Other(h)) \/ Continues(d, in, Other(h))
  <1>. DEFINE e == Peer(d)
              o == Other(h)
  <1>1. e \in Die /\ e # d /\ Peer(e) = d /\ (\A a \in Die : a = d \/ a = e)
    BY PeerFacts
  <1>2. o \in Handshake /\ o # h /\ Other(o) = h
    BY HandshakeFacts
  <1>3. st \in [Die -> State]
    BY DEF TypeOK, CtrlTypeOK
  <1>4. /\ Once(Line(v, d)) /\ Once(Line(v, e))
        /\ Exchange(v, d, h) /\ Exchange(v, e, h) /\ Here(v, e, h)
    BY <1>1, <1>3, AheadOfBehind DEF InStep
  <1>5. /\ st[d] = Second(o) /\ Half(d) = o /\ actq[d] = <<>>
        /\ {TxReq(o), RxReq(o), RxAck(o)} \subseteq hs[d] /\ hs[d] \subseteq FlagOf(o)
        /\ ~Holds(Line(v, d), Message)
        /\ ~Holds(Line(v, e), Message \ (ReqOf(h) \cup {AckOf(o)}))
        /\ TxAck(o) \in hs[d] <=> ~Holds(Line(v, e), {AckOf(o)})
        /\ Before(Line(v, e), {AckOf(o)}, ReqOf(h))
        /\ TxAck(o) \in hs[d] => gap[d] > 0
    BY <1>2, <1>3, HalfFacts DEF Behind
  <1>6. /\ ~FsmAbort(d, in) /\ {Sent(d, in), in.msg} \subseteq Message \cup {None}
        /\ in.msg # None => gap[d] = 0 /\ gap'[d] > 0
        /\ st'[d] = NextState(d, in) /\ hs'[d] = NextFlags(d, in)
        /\ actq'[d] = NextActq(d, in)
        /\ st'[e] = st[e] /\ hs'[e] = hs[e] /\ actq'[e] = actq[e]
        /\ misc'[e] = misc[e] /\ gap'[e] = gap[e]
        /\ Line(w, d)' = IF Sent(d, in) = None THEN Line(v, d)
                         ELSE Append(Line(v, d), Sent(d, in))
        /\ Line(w, e)' = IF in.msg = None THEN Line(v, e) ELSE Tail(Line(v, e))
        /\ in.msg # None => Line(v, e) # <<>> /\ in.msg = Head(Line(v, e))
    BY DEF Moves
  <1>7. in.msg \in {None, AckOf(o)}
    <2>. SUFFICES ASSUME in.msg # None PROVE in.msg = AckOf(o)
      OBVIOUS
    <2>1. in.msg \in Message /\ in.msg \in ReqOf(h) \cup {AckOf(o)}
      <3>1. in.msg \in Message
        BY <1>6
      <3>2. \A S : in.msg \in S => Holds(Line(v, e), S)
        BY <1>4, MoveHolds
      <3>. QED
        BY <1>5, <3>1, <3>2
    <2>2. TxAck(o) \notin hs[d]
      <3>1. gap[d] = 0
        BY <1>6
      <3>. QED
        BY <1>5, <3>1
    <2>3. Holds(Line(v, e), {AckOf(o)})
      BY <1>5, <2>2
    <2>4. Line(v, e) \in Seq(Item) /\ Line(v, e) # <<>> /\ in.msg = Head(Line(v, e))
      BY <1>1, <1>6, LineType
    <2>5. in.msg \notin ReqOf(h)
      BY <1>5, <2>3, <2>4, TailBefore
    <2>. QED
      BY <2>1, <2>5
  <1>8. Sent(d, in) = None /\ actq'[d] = <<>>
    BY <1>2, <1>3, <1>5, <1>6, <1>7, QuietQueue
  <1>9. /\ Line(w, d)' = Line(v, d)
        /\ Once(Line(w, e)')
        /\ \A S : Holds(Line(w, e)', S) => Holds(Line(v, e), S)
        /\ \A T \in Token : Holds(Line(w, e)', T)
                               <=> Holds(Line(v, e), T) /\ in.msg \notin T
    BY <1>4, <1>6, <1>8, MoveHolds
  <1>10. /\ ReqOf(h) \in Token /\ {AckOf(h)} \in Token /\ {AckOf(o)} \in Token
         /\ in.msg \notin ReqOf(h) /\ in.msg # AckOf(h)
    BY <1>2, <1>7, HandshakeFacts, MessageFacts, ItemFacts
  <1>11. hs'[d] \subseteq FlagOf(o)
         => Exchange(w, d, h)' /\ Exchange(w, e, h)'
    <2>. SUFFICES ASSUME hs'[d] \subseteq FlagOf(o)
                  PROVE  Exchange(w, d, h)' /\ Exchange(w, e, h)'
      OBVIOUS
    <2>1. {TxReq(h), TxAck(h), RxReq(h), RxAck(h)} \cap hs[d] = {}
      BY <1>5, NoFlagsOfOther
    <2>2. {TxReq(h), TxAck(h), RxReq(h), RxAck(h)} \cap hs'[d] = {}
      BY <1>5, FlagFacts
    <2>3. ~QueuesReq(d, h) /\ ~QueuesAck(d, h)
      BY <1>5, EmptyQueue
    <2>4. ~QueuesReq(d, h)' /\ ~QueuesAck(d, h)'
      BY <1>8 DEF QueuesReq, QueuesAck
    <2>5. /\ QueuesReq(e, h)' <=> QueuesReq(e, h)
          /\ QueuesAck(e, h)' <=> QueuesAck(e, h)
      BY <1>6 DEF QueuesReq, QueuesAck
    <2>6. /\ Holds(Line(w, e)', ReqOf(h)) <=> Holds(Line(v, e), ReqOf(h))
          /\ Holds(Line(w, e)', {AckOf(h)}) <=> Holds(Line(v, e), {AckOf(h)})
      BY <1>9, <1>10
    <2>7. Exchange(w, d, h)'
      BY <1>1, <1>4, <1>6, <1>9, <2>1, <2>2, <2>3, <2>4, <2>5, <2>6 DEF Exchange
    <2>8. Exchange(w, e, h)'
      BY <1>1, <1>4, <1>6, <1>9, <2>1, <2>2, <2>3, <2>4, <2>5, <2>6 DEF Exchange
    <2>. QED
      BY <2>7, <2>8
  <1>12. Here(w, e, h)'
    <2>1. /\ Half(e)' = Half(e)
          /\ QueuesReq(e, h)' <=> QueuesReq(e, h)
          /\ QueuesAck(e, h)' <=> QueuesAck(e, h)
          /\ Full(e, h)' <=> Full(e, h)
      BY <1>6 DEF QueuesReq, QueuesAck, Half, Idle, Full
    <2>. QED
      BY <1>1, <1>4, <1>6, <1>9, <2>1 DEF Here
  <1>13. /\ hs'[d] \subseteq FlagOf(o)
         /\ Here(w, d, h)' \/ Behind(w, d, o)'
         /\ Switches(d, in, o) \/ Continues(d, in, o)
    <2>1. CASE TxAck(o) \in hs[d]
      <3>1. Full(d, o)
        BY <1>5, <2>1 DEF Full
      <3>2. in.msg = None
        BY <1>5, <1>6, <2>1
      <3>3. st'[d] = First(h) /\ hs'[d] = {}
        BY <1>2, <1>5, <1>6, <1>8, <3>1, <3>2, FlagSwitch
      <3>4. Half(d)' = h
        BY <3>3 DEF Half, Idle, First, Handshake
      <3>5. ~Holds(Line(v, e), Message \ (ReqOf(h) \cup {AckOf(h)}))
        <4>1. ~Holds(Line(v, e), {AckOf(o)})
          BY <1>5, <2>1
        <4>. QED
          BY <1>5, <4>1 DEF Holds
      <3>6. ~Holds(Line(w, e)', Message \ (ReqOf(h) \cup {AckOf(h)}))
        BY <1>9, <3>5
      <3>7. Here(w, d, h)'
        <4>1. ~Full(d, h)'
          BY <3>3 DEF Full
        <4>. QED
          BY <1>8, <3>3, <3>4, <3>6, <4>1 DEF Here
      <3>8. Switches(d, in, o)
        BY <1>2, <1>5, <1>8, <3>1, <3>2, <3>3 DEF Switches
      <3>. QED
        BY <3>3, <3>7, <3>8
    <2>2. CASE TxAck(o) \notin hs[d]
      <3>1. ~Full(d, o)
        BY <2>2 DEF Full
      <3>2. /\ st'[d] = Second(o)
            /\ hs'[d] \subseteq FlagOf(o)
            /\ TxReq(o) \in hs'[d] /\ RxReq(o) \in hs'[d] /\ RxAck(o) \in hs'[d]
            /\ TxAck(o) \in hs'[d] <=> in.msg = AckOf(o)
            /\ Half(d)' = o
        <4>1. /\ st'[d] = Second(o)
              /\ hs'[d] \subseteq FlagOf(o)
              /\ TxReq(o) \in hs'[d] /\ RxReq(o) \in hs'[d] /\ RxAck(o) \in hs'[d]
              /\ TxAck(o) \in hs'[d] <=> in.msg = AckOf(o)
          BY <1>2, <1>3, <1>5, <1>6, <1>7, <1>8, <2>2, <3>1, FlagStep
        <4>2. Half(d)' = o
          BY <1>2, <4>1 DEF Half, Idle, Second, Handshake
        <4>. QED
          BY <4>1, <4>2
      <3>3. TxAck(o) \in hs'[d] <=> ~Holds(Line(w, e)', {AckOf(o)})
        BY <1>5, <1>9, <1>10, <2>2, <3>2
      <3>4. Before(Line(w, e)', {AckOf(o)}, ReqOf(h))
        <4>1. CASE in.msg = None
          BY <1>5, <1>6, <4>1
        <4>2. CASE in.msg # None
          <5>1. Line(v, e) \in Seq(Item) /\ Line(v, e) # <<>>
            BY <1>1, <1>6, <4>2, LineType
          <5>. QED
            BY <1>5, <1>6, <4>2, <5>1, TailBefore
        <4>. QED
          BY <4>1, <4>2
      <3>5. TxAck(o) \in hs'[d] => gap'[d] > 0
        BY <1>2, <1>6, <3>2, ItemFacts, MessageFacts
      <3>6. /\ ~Holds(Line(w, d)', Message)
            /\ ~Holds(Line(w, e)', Message \ (ReqOf(h) \cup {AckOf(o)}))
        BY <1>5, <1>9
      <3>7. Behind(w, d, o)'
        BY <1>2, <1>8, <3>2, <3>3, <3>4, <3>5, <3>6 DEF Behind
      <3>8. Continues(d, in, o)
        <4>1. None \notin ReqOf(o) /\ None # AckOf(o)
          BY <1>2, MessageFacts, ItemFacts
        <4>2. ~QueuesReq(d, o)'
          BY <1>8 DEF QueuesReq
        <4>. QED
          BY <1>5, <1>7, <1>8, <2>2, <3>1, <3>2, <4>1, <4>2, <1>2, MessageFacts
             DEF Continues
      <3>. QED
        BY <3>2, <3>7, <3>8
    <2>. QED
      BY <2>1, <2>2
  <1>14. Half(e)' = h
    BY <1>12 DEF Here
  <1>. QED
    BY <1>1, <1>4, <1>9, <1>11, <1>12, <1>13, <1>14 DEF InStep

LEMMA NoneBefore ==
    ASSUME NEW s, NEW S, NEW T, ~Holds(s, T)
    PROVE  Before(s, S, T)
  BY DEF Holds, Before

\* A die that has all four flags has nothing to receive, and its peer lacks
\* at most its Ack.
LEMMA FullHere ==
    ASSUME NEW d \in Die, NEW v, NEW h \in Handshake, InStep(v, h),
           Here(v, d, h), Full(d, h)
    PROVE  /\ Here(v, Peer(d), h)
           /\ {TxReq(h), RxReq(h), RxAck(h)} \subseteq hs[Peer(d)]
           /\ actq[d] = <<>> /\ actq[Peer(d)] = <<>>
           /\ st[d] = Second(h) /\ st[Peer(d)] = Second(h)
           /\ ~Holds(Line(v, Peer(d)), Message)
           /\ ~Holds(Line(v, d), Message \ {AckOf(h)})
           /\ Holds(Line(v, d), {AckOf(h)}) <=> TxAck(h) \notin hs[Peer(d)]
           /\ hs[d] \subseteq FlagOf(h) /\ hs[Peer(d)] \subseteq FlagOf(h)
  <1>. DEFINE e == Peer(d)
              o == Other(h)
  <1>1. e \in Die /\ e # d /\ Peer(e) = d /\ (\A a \in Die : a = d \/ a = e)
    BY PeerFacts
  <1>2. o \in Handshake /\ o # h /\ Other(o) = h
    BY HandshakeFacts
  <1>4. /\ Once(Line(v, d)) /\ Once(Line(v, e))
        /\ Exchange(v, d, h) /\ Exchange(v, e, h)
        /\ Here(v, e, h) \/ Behind(v, e, o)
    BY <1>1 DEF InStep
  <1>5. {TxReq(h), TxAck(h), RxReq(h), RxAck(h)} \subseteq hs[d]
    BY DEF Full
  <1>6. /\ RxAck(h) \in hs[e] /\ RxReq(h) \in hs[e] /\ TxReq(h) \in hs[e]
        /\ ~QueuesReq(d, h) /\ ~QueuesAck(d, h)
        /\ ~QueuesReq(e, h) /\ ~QueuesAck(e, h)
        /\ ~Holds(Line(v, d), ReqOf(h)) /\ ~Holds(Line(v, e), ReqOf(h))
        /\ ~Holds(Line(v, e), {AckOf(h)})
        /\ Holds(Line(v, d), {AckOf(h)}) <=> TxAck(h) \notin hs[e]
    BY <1>1, <1>4, <1>5 DEF Exchange
  <1>7. Here(v, e, h)
    <2>1. ASSUME Behind(v, e, o) PROVE FALSE
      <3>1. hs[e] \subseteq FlagOf(o)
        BY <2>1 DEF Behind
      <3>. QED
        BY <1>1, <1>6, <3>1, NoFlagsOfOther
    <2>. QED
      BY <1>4, <2>1
  <1>8. /\ actq[d] = <<>> /\ actq[e] = <<>>
        /\ st[d] = Second(h) /\ st[e] = Second(h) /\ Half(d) = h
        /\ hs[d] \subseteq FlagOf(h) /\ hs[e] \subseteq FlagOf(h)
        /\ ~Holds(Line(v, e), Message \ (ReqOf(h) \cup {AckOf(h)}))
        /\ ~Holds(Line(v, d), Message \ (ReqOf(h) \cup {AckOf(h)}))
    BY <1>1, <1>5, <1>6, <1>7 DEF Here
  <1>9. /\ ~Holds(Line(v, e), Message)
        /\ ~Holds(Line(v, d), Message \ {AckOf(h)})
    BY <1>6, <1>8 DEF Holds
  <1>. QED
    BY <1>6, <1>7, <1>8, <1>9

\* The die that is ahead goes on to the next handshake, and its peer is
\* behind from now on.
LEMMA FullMoves ==
    ASSUME TypeOK, NEW d \in Die, NEW in, NEW v \in [Die -> Seq(Item)], NEW w,
           Moves(d, in, v, w), NEW h \in Handshake, InStep(v, h),
           Here(v, d, h), Full(d, h)
    PROVE  InStep(w, Other(h))' /\ Switches(d, in, h)
  <1>. DEFINE e == Peer(d)
              o == Other(h)
  <1>1. e \in Die /\ e # d /\ Peer(e) = d /\ (\A a \in Die : a = d \/ a = e)
    BY PeerFacts
  <1>2. o \in Handshake /\ o # h /\ Other(o) = h
    BY HandshakeFacts
  <1>3. st \in [Die -> State]
    BY DEF TypeOK, CtrlTypeOK
  <1>4. Once(Line(v, d)) /\ Once(Line(v, e))
    BY <1>1 DEF InStep
  <1>5. {TxReq(h), TxAck(h), RxReq(h), RxAck(h)} \subseteq hs[d]
    BY DEF Full
  <1>6. /\ Here(v, e, h)
        /\ {TxReq(h), RxReq(h), RxAck(h)} \subseteq hs[e]
        /\ Holds(Line(v, d), {AckOf(h)}) <=> TxAck(h) \notin hs[e]
    BY FullHere
  <1>8. /\ actq[d] = <<>> /\ actq[e] = <<>>
        /\ st[d] = Second(h) /\ st[e] = Second(h)
        /\ hs[d] \subseteq FlagOf(h) /\ hs[e] \subseteq FlagOf(h)
        /\ ~Holds(Line(v, e), Message)
        /\ ~Holds(Line(v, d), Message \ {AckOf(h)})
    BY FullHere
  <1>9. Half(d) = h
    BY DEF Here
  <1>10. /\ ~FsmAbort(d, in) /\ {Sent(d, in), in.msg} \subseteq Message \cup {None}
         /\ st'[d] = NextState(d, in) /\ hs'[d] = NextFlags(d, in)
         /\ actq'[d] = NextActq(d, in)
         /\ st'[e] = st[e] /\ hs'[e] = hs[e] /\ actq'[e] = actq[e]
         /\ misc'[e] = misc[e] /\ gap'[e] = gap[e]
         /\ Line(w, d)' = IF Sent(d, in) = None THEN Line(v, d)
                          ELSE Append(Line(v, d), Sent(d, in))
         /\ Line(w, e)' = IF in.msg = None THEN Line(v, e) ELSE Tail(Line(v, e))
    BY DEF Moves
  <1>11. in.msg = None
    <2>1. in.msg # None /\ in.msg \in Message => Holds(Line(v, e), Message)
      BY <1>4, MoveHolds
    <2>. QED
      BY <1>8, <1>10, <2>1
  <1>12. Sent(d, in) = None /\ actq'[d] = <<>>
    BY <1>3, <1>5, <1>8, <1>9, <1>10, <1>11, QuietQueue
  <1>13. st'[d] = First(o) /\ hs'[d] = {}
    BY <1>8, <1>10, <1>11, <1>12, FlagSwitch
  <1>14. /\ Line(w, d)' = Line(v, d) /\ Line(w, e)' = Line(v, e)
         /\ Half(d)' = o
    <2>1. Half(d)' = o
      BY <1>2, <1>13 DEF Half, Idle, First, Handshake
    <2>. QED
      BY <1>10, <1>11, <1>12, <2>1
  <1>15. /\ AckOf(h) \notin ReqOf(o) /\ AckOf(h) # AckOf(o)
         /\ ReqOf(o) \subseteq Message /\ AckOf(o) \in Message
    BY <1>2, MessageFacts
  <1>16. /\ ~Holds(Line(v, d), ReqOf(o)) /\ ~Holds(Line(v, d), {AckOf(o)})
         /\ ~Holds(Line(v, e), ReqOf(o)) /\ ~Holds(Line(v, e), {AckOf(o)})
    BY <1>8, <1>15, SubHolds DEF Holds
  <1>17. Exchange(w, d, o)' /\ Exchange(w, e, o)'
    <2>1. /\ {TxReq(o), TxAck(o), RxReq(o), RxAck(o)} \cap hs'[d] = {}
          /\ {TxReq(o), TxAck(o), RxReq(o), RxAck(o)} \cap hs'[e] = {}
      BY <1>2, <1>8, <1>10, <1>13, FlagFacts
    <2>2. /\ ~QueuesReq(d, o)' /\ ~QueuesAck(d, o)'
          /\ ~QueuesReq(e, o)' /\ ~QueuesAck(e, o)'
      BY <1>8, <1>10, <1>12 DEF QueuesReq, QueuesAck
    <2>. QED
      BY <1>1, <1>14, <1>16, <2>1, <2>2 DEF Exchange
  <1>18. Here(w, d, o)'
    <2>1. ~Full(d, o)'
      BY <1>13 DEF Full
    <2>2. ~Holds(Line(v, e), Message \ (ReqOf(o) \cup {AckOf(o)}))
      BY <1>8 DEF Holds
    <2>. QED
      BY <1>12, <1>13, <1>14, <2>1, <2>2 DEF Here
  <1>19. Behind(w, e, h)'
    <2>1. Before(Line(v, d), {AckOf(h)}, ReqOf(o))
      BY <1>16, NoneBefore
    <2>2. ~Holds(Line(v, d), Message \ (ReqOf(o) \cup {AckOf(h)}))
      BY <1>8 DEF Holds
    <2>3. TxAck(h) \in hs[e] => gap[e] > 0
      <3>. SUFFICES ASSUME TxAck(h) \in hs[e] PROVE gap[e] > 0
        OBVIOUS
      <3>1. Full(e, h)
        <4>1. TxReq(h) \in hs[e] /\ RxReq(h) \in hs[e] /\ RxAck(h) \in hs[e]
          BY <1>6
        <4>. QED
          BY <4>1 DEF Full
      <3>2. ~Holds(misc[e], {AckOf(h)})
        <4>0. ~Holds(Line(v, e), {AckOf(h)})
          BY <1>8, MessageFacts DEF Holds
        <4>1. Line(v, e) = v[e] \o misc[e] /\ v[e] \in Seq(Item) /\ misc[e] \in Seq(Item)
          BY <1>1, LineType DEF Line
        <4>. QED
          BY <4>0, <4>1, ConcatHolds
      <3>. QED
        BY <1>6, <3>1, <3>2 DEF Here
    <2>. QED
      BY <1>1, <1>6, <1>8, <1>10, <1>14, <2>1, <2>2, <2>3 DEF Behind
  <1>20. Switches(d, in, h)
    BY <1>8, <1>9, <1>11, <1>12, <1>13 DEF Switches
  <1>. QED
    BY <1>1, <1>2, <1>4, <1>14, <1>17, <1>18, <1>19, <1>20 DEF InStep

\* Two messages in the misc FIFO are the Req and the Ack of a handshake.
LEMMA TwoMessages ==
    ASSUME NEW p \in Seq(Item), NEW q \in Seq(Message), NEW R, NEW a,
           Once(p \o q), R \in Token, {a} \in Token,
           ~Holds(p \o q, Message \ (R \cup {a})),
           ~(Len(q) < 2)
    PROVE  Holds(p \o q, R) /\ Holds(p \o q, {a})
  <1>1. q \in Seq(Item) /\ Len(p) \in Nat /\ Len(q) \in Nat /\ DOMAIN q = 1..Len(q)
    BY ItemFacts, SeqMonotonic, LenProperties
  <1>2. /\ p \o q \in Seq(Item) /\ Len(p \o q) = Len(p) + Len(q)
        /\ \A i \in 1..Len(p) + Len(q) :
              (p \o q)[i] = IF i <= Len(p) THEN p[i] ELSE q[i - Len(p)]
    BY <1>1, ConcatProperties
  <1>. DEFINE c == p \o q
              i == Len(p) + 1
              j == Len(p) + 2
  <1>3. /\ DOMAIN c = 1..Len(p) + Len(q)
        /\ i \in DOMAIN c /\ j \in DOMAIN c /\ i # j
        /\ c[i] = q[1] /\ c[j] = q[2]
        /\ q[1] \in Message /\ q[2] \in Message
    <2>1. DOMAIN c = 1..Len(c)
      BY <1>2, LenProperties
    <2>2. 1 \in 1..Len(q) /\ 2 \in 1..Len(q)
      BY <1>1
    <2>3. q[1] \in Message /\ q[2] \in Message
      BY <2>2, ElementOfSeq
    <2>. QED
      BY <1>1, <1>2, <2>1, <2>3
  <1>. HIDE DEF c, i, j
  <1>4. c[i] \in R \cup {a} /\ c[j] \in R \cup {a}
    <2>1. ~Holds(c, Message \ (R \cup {a}))
      BY DEF c
    <2>. QED
      BY <1>3, <2>1 DEF Holds
  <1>5. \A T \in Token : ~(c[i] \in T /\ c[j] \in T)
    <2>1. Once(c)
      BY DEF c
    <2>. QED
      BY <1>3, <2>1 DEF Once
  <1>6. \/ c[i] \in R /\ c[j] \in {a}
        \/ c[j] \in R /\ c[i] \in {a}
    BY <1>4, <1>5
  <1>7. Holds(c, R) /\ Holds(c, {a})
    BY <1>3, <1>6 DEF Holds
  <1>. QED
    BY <1>7 DEF c

\* A die in a handshake sends and decodes what the handshake provides for.
LEMMA HereMessages ==
    ASSUME TypeOK, NEW d \in Die, NEW v \in [Die -> Seq(Item)],
           NEW h \in Handshake, InStep(v, h), Here(v, d, h), ~Full(d, h)
    PROVE  /\ actq[d] # <<>> => Len(misc[d]) < MiscDepth
           /\ TxAck(h) \in hs[d] => st[d] = Second(h)
           /\ Holds(Line(v, Peer(d)), {AckOf(h)}) => st[d] = Second(h)
           /\ Holds(Line(v, Peer(d)), ReqOf(h)) => ~QueuesAck(d, h)
           /\ QueuesAck(d, h) => ~Behind(v, Peer(d), Other(h))
  <1>. DEFINE e == Peer(d)
              o == Other(h)
  <1>1. e \in Die /\ e # d /\ Peer(e) = d
    BY PeerFacts
  <1>2. /\ Once(Line(v, d)) /\ Once(Line(v, e))
        /\ Exchange(v, d, h) /\ Exchange(v, e, h)
        /\ Here(v, e, h) \/ Behind(v, e, o)
    BY <1>1 DEF InStep
  <1>3. st[d] = First(h) \/ st[d] = Second(h)
    BY HalfFacts DEF Here, TypeOK, CtrlTypeOK
  <1>4. Line(v, d) = v[d] \o misc[d] /\ v[d] \in Seq(Item) /\ misc[d] \in Seq(Item)
        /\ misc[d] \in Seq(Message)
    BY LineType DEF Line
  <1>5. TxReq(h) \in hs[d] /\ RxReq(h) \in hs[e] => st[d] = Second(h)
    <2>. SUFFICES ASSUME TxReq(h) \in hs[d], RxReq(h) \in hs[e], st[d] = First(h)
                  PROVE  FALSE
      BY <1>3
    <2>1. Holds(misc[d], ReqOf(h))
      BY DEF Here
    <2>2. Holds(Line(v, d), ReqOf(h))
      BY <1>4, <2>1, ConcatHolds
    <2>. QED
      BY <1>2, <2>2 DEF Exchange
  <1>6. TxAck(h) \in hs[d] => st[d] = Second(h)
    BY <1>2, <1>5 DEF Exchange
  <1>7. Holds(Line(v, e), {AckOf(h)}) => st[d] = Second(h)
    BY <1>2, <1>5 DEF Exchange
  <1>8. Holds(Line(v, e), ReqOf(h)) => ~QueuesAck(d, h)
    BY <1>1, <1>2 DEF Exchange
  <1>9. QueuesAck(d, h) => ~Behind(v, e, o)
    <2>. SUFFICES ASSUME QueuesAck(d, h), Behind(v, e, o) PROVE FALSE
      OBVIOUS
    <2>1. TxReq(h) \in hs[e]
      BY <1>1, <1>2 DEF Exchange
    <2>2. hs[e] \subseteq FlagOf(o)
      BY DEF Behind
    <2>. QED
      BY <1>1, <2>1, <2>2, NoFlagsOfOther
  <1>10. actq[d] # <<>> => Len(misc[d]) < MiscDepth
    <2>. SUFFICES ASSUME QueuesReq(d, h) \/ QueuesAck(d, h), ~(Len(misc[d]) < 2)
                  PROVE  FALSE
      BY DEF Here, MiscDepth
    <2>1. o \in Handshake /\ Other(o) = h
      BY HandshakeFacts
    <2>2. ReqOf(h) \in Token /\ {AckOf(h)} \in Token /\ {AckOf(o)} \in Token
      BY <2>1, HandshakeFacts
    <2>3. CASE Here(v, e, h)
      <3>1. ~Holds(Line(v, d), Message \ (ReqOf(h) \cup {AckOf(h)}))
        BY <1>1, <2>3 DEF Here
      <3>2. /\ Once(v[d] \o misc[d])
            /\ ~Holds(v[d] \o misc[d], Message \ (ReqOf(h) \cup {AckOf(h)}))
        BY <1>2, <1>4, <3>1
      <3>3. /\ Holds(v[d] \o misc[d], ReqOf(h))
            /\ Holds(v[d] \o misc[d], {AckOf(h)})
        BY <1>4, <2>2, <3>2, TwoMessages
      <3>4. Holds(Line(v, d), ReqOf(h)) /\ Holds(Line(v, d), {AckOf(h)})
        BY <1>4, <3>3
      <3>. QED
        BY <1>1, <1>2, <3>4 DEF Exchange
    <2>4. CASE Behind(v, e, o)
      <3>1. ~Holds(Line(v, d), Message \ (ReqOf(h) \cup {AckOf(o)}))
        BY <1>1, <2>1, <2>4 DEF Behind
      <3>2. /\ Once(v[d] \o misc[d])
            /\ ~Holds(v[d] \o misc[d], Message \ (ReqOf(h) \cup {AckOf(o)}))
        BY <1>2, <1>4, <3>1
      <3>3. Holds(v[d] \o misc[d], ReqOf(h))
        BY <1>4, <2>2, <3>2, TwoMessages
      <3>. QED
        BY <1>2, <1>4, <1>9, <2>4, <3>3 DEF Exchange
    <2>. QED
      BY <1>2, <2>3, <2>4
  <1>. QED
    BY <1>6, <1>7, <1>8, <1>9, <1>10

\* The handshake goes on.
LEMMA HereMoves ==
    ASSUME TypeOK, NEW d \in Die, NEW in, NEW v \in [Die -> Seq(Item)], NEW w,
           Moves(d, in, v, w), NEW h \in Handshake, InStep(v, h),
           Here(v, d, h), ~Full(d, h)
    PROVE  InStep(w, h)' /\ Continues(d, in, h)
  <1>. DEFINE e == Peer(d)
              o == Other(h)
              x == Sent(d, in)
              m == in.msg
              R == ReqOf(h)
              a == AckOf(h)
  <1>1. e \in Die /\ e # d /\ Peer(e) = d /\ (\A b \in Die : b = d \/ b = e)
    BY PeerFacts
  <1>2. o \in Handshake /\ o # h /\ Other(o) = h
    BY HandshakeFacts
  <1>3. st \in [Die -> State] /\ st[d] \in State
    BY DEF TypeOK, CtrlTypeOK
  <1>4. /\ Once(Line(v, d)) /\ Once(Line(v, e))
        /\ Exchange(v, d, h) /\ Exchange(v, e, h)
        /\ Here(v, e, h) \/ Behind(v, e, o)
    BY <1>1 DEF InStep
  <1>5. /\ actq[d] # <<>> => Len(misc[d]) < MiscDepth
        /\ TxAck(h) \in hs[d] => st[d] = Second(h)
        /\ Holds(Line(v, e), {a}) => st[d] = Second(h)
        /\ Holds(Line(v, e), R) => ~QueuesAck(d, h)
        /\ QueuesAck(d, h) => ~Behind(v, e, o)
    BY HereMessages
  <1>6. /\ Half(d) = h /\ hs[d] \subseteq FlagOf(h)
        /\ actq[d] = <<>> \/ QueuesReq(d, h) \/ QueuesAck(d, h)
        /\ ~Holds(Line(v, e), Message \ (R \cup {a}))
        /\ RxAck(h) \in hs[d] => st[d] = Second(h)
    BY DEF Here
  <1>7. /\ ~FsmAbort(d, in) /\ {x, m} \subseteq Message \cup {None}
        /\ in.ready = (Len(misc[d]) < MiscDepth)
        /\ m # None => gap'[d] > 0
        /\ x # None => Holds(misc'[d], {x})
        /\ st'[d] = NextState(d, in) /\ hs'[d] = NextFlags(d, in)
        /\ actq'[d] = NextActq(d, in)
        /\ st'[e] = st[e] /\ hs'[e] = hs[e] /\ actq'[e] = actq[e]
        /\ misc'[e] = misc[e] /\ gap'[e] = gap[e]
        /\ Line(w, d)' = IF x = None THEN Line(v, d) ELSE Append(Line(v, d), x)
        /\ Line(w, e)' = IF m = None THEN Line(v, e) ELSE Tail(Line(v, e))
    BY DEF Moves
  <1>8. /\ \A S : Holds(Line(w, d)', S)
                     <=> Holds(Line(v, d), S) \/ (x # None /\ x \in S)
        /\ \A S : Holds(Line(w, e)', S) => Holds(Line(v, e), S)
        /\ \A S : m # None /\ m \in S => Holds(Line(v, e), S)
        /\ \A T \in Token : Holds(Line(w, e)', T) <=> Holds(Line(v, e), T) /\ m \notin T
        /\ Once(Line(w, e)')
        /\ Once(Line(v, d)) /\ (\A T \in Token : x \in T => ~Holds(Line(v, d), T))
              => Once(Line(w, d)')
    BY <1>4, MoveHolds
  <1>9. /\ R \in Token /\ {a} \in Token
        /\ None \notin R /\ a # None /\ a \notin R /\ R \subseteq Message
        /\ a # AckOf(o) /\ AckOf(o) \notin R
    BY <1>2, HandshakeFacts, MessageFacts, ItemFacts
  <1>10. /\ m \in {None, a} \cup R
         /\ m = a => Holds(Line(v, e), {a})
         /\ m \in R => Holds(Line(v, e), R)
    <2>1. m # None => m \in R \cup {a}
      <3>1. m # None => m \in Message
        BY <1>7
      <3>2. m # None /\ m \in Message \ (R \cup {a}) => FALSE
        BY <1>6, <1>8
      <3>. QED
        BY <3>1, <3>2
    <2>. QED
      BY <1>8, <1>9, <2>1
  <1>11. /\ m = a => st[d] = Second(h)
         /\ m \in R => ~QueuesAck(d, h)
    BY <1>5, <1>10
  <1>12. /\ x \in {None, a} \cup R
         /\ x \in R <=> QueuesReq(d, h)
         /\ x = a <=> QueuesAck(d, h) /\ ~QueuesReq(d, h)
         /\ (actq[d] = <<>> \/ QueuesReq(d, h) \/ QueuesAck(d, h))'
         /\ QueuesReq(d, h)' => /\ TxReq(h) \notin hs[d] /\ ~QueuesReq(d, h)
                                /\ Request(d, in) \in R
         /\ QueuesAck(d, h)' <=> m \in R \/ (QueuesAck(d, h) /\ QueuesReq(d, h))
    <2>1. actq[d] # <<>> => in.ready
      BY <1>5, <1>7
    <2>. QED
      BY <1>3, <1>6, <1>7, <1>10, <1>11, <2>1, QueueStep
  <1>13. /\ st'[d] \in {First(h), Second(h)}
         /\ st[d] = Second(h) => st'[d] = Second(h)
         /\ {TxReq(h), RxReq(h)} \cap hs[d] # {} => st'[d] = Second(h)
         /\ hs'[d] \subseteq FlagOf(h)
         /\ TxReq(h) \in hs'[d] <=> TxReq(h) \in hs[d] \/ x \in R
         /\ RxAck(h) \in hs'[d] <=> RxAck(h) \in hs[d] \/ x = a
         /\ RxReq(h) \in hs'[d] <=> RxReq(h) \in hs[d] \/ m \in R
         /\ TxAck(h) \in hs'[d] <=> TxAck(h) \in hs[d] \/ m = a
    BY <1>3, <1>5, <1>6, <1>7, <1>10, <1>11, <1>12, FlagStep
  <1>14. /\ Holds(Line(w, d)', R) <=> Holds(Line(v, d), R) \/ x \in R
         /\ Holds(Line(w, d)', {a}) <=> Holds(Line(v, d), {a}) \/ x = a
         /\ Holds(Line(w, e)', R) <=> Holds(Line(v, e), R) /\ m \notin R
         /\ Holds(Line(w, e)', {a}) <=> Holds(Line(v, e), {a}) /\ m # a
    BY <1>8, <1>9
  <1>15. /\ QueuesReq(e, h)' <=> QueuesReq(e, h)
         /\ QueuesAck(e, h)' <=> QueuesAck(e, h)
         /\ Half(e)' = Half(e)
         /\ Full(e, h)' <=> Full(e, h)
    BY <1>7 DEF QueuesReq, QueuesAck, Half, Idle, Full
  <1>16. Exchange(w, d, h)'
    <2>1. /\ TxReq(h) \in hs[d] => ~QueuesReq(d, h)
          /\ RxReq(h) \in hs[e] => TxReq(h) \in hs[d]
          /\ RxAck(h) \in hs[e] => RxReq(h) \in hs[e]
          /\ TxAck(h) \in hs[d] => RxAck(h) \in hs[e]
          /\ Holds(Line(v, d), R) <=> TxReq(h) \in hs[d] /\ RxReq(h) \notin hs[e]
          /\ QueuesAck(e, h) <=> RxReq(h) \in hs[e] /\ RxAck(h) \notin hs[e]
          /\ Holds(Line(v, e), {a}) <=> RxAck(h) \in hs[e] /\ TxAck(h) \notin hs[d]
      BY <1>4 DEF Exchange
    <2>2. /\ TxReq(h) \in hs'[d] => ~QueuesReq(d, h)'
          /\ RxReq(h) \in hs'[e] => TxReq(h) \in hs'[d]
          /\ RxAck(h) \in hs'[e] => RxReq(h) \in hs'[e]
          /\ TxAck(h) \in hs'[d] => RxAck(h) \in hs'[e]
          /\ Holds(Line(w, d)', R) <=> TxReq(h) \in hs'[d] /\ RxReq(h) \notin hs'[e]
          /\ QueuesAck(e, h)' <=> RxReq(h) \in hs'[e] /\ RxAck(h) \notin hs'[e]
          /\ Holds(Line(w, e)', {a}) <=> RxAck(h) \in hs'[e] /\ TxAck(h) \notin hs'[d]
      <3>1. hs'[e] = hs[e]
        BY <1>7
      <3>. HIDE DEF x, m, R, a, e
      <3>. QED
        BY <1>10, <1>12, <1>13, <1>14, <1>15, <2>1, <3>1
    <2>. QED
      BY <2>2 DEF Exchange
  <1>17. Exchange(w, e, h)'
    <2>1. /\ TxReq(h) \in hs[e] => ~QueuesReq(e, h)
          /\ RxReq(h) \in hs[d] => TxReq(h) \in hs[e]
          /\ RxAck(h) \in hs[d] => RxReq(h) \in hs[d]
          /\ TxAck(h) \in hs[e] => RxAck(h) \in hs[d]
          /\ Holds(Line(v, e), R) <=> TxReq(h) \in hs[e] /\ RxReq(h) \notin hs[d]
          /\ QueuesAck(d, h) <=> RxReq(h) \in hs[d] /\ RxAck(h) \notin hs[d]
          /\ Holds(Line(v, d), {a}) <=> RxAck(h) \in hs[d] /\ TxAck(h) \notin hs[e]
      BY <1>1, <1>4 DEF Exchange
    <2>2. /\ TxReq(h) \in hs'[e] => ~QueuesReq(e, h)'
          /\ RxReq(h) \in hs'[d] => TxReq(h) \in hs'[e]
          /\ RxAck(h) \in hs'[d] => RxReq(h) \in hs'[d]
          /\ TxAck(h) \in hs'[e] => RxAck(h) \in hs'[d]
          /\ Holds(Line(w, e)', R) <=> TxReq(h) \in hs'[e] /\ RxReq(h) \notin hs'[d]
          /\ QueuesAck(d, h)' <=> RxReq(h) \in hs'[d] /\ RxAck(h) \notin hs'[d]
          /\ Holds(Line(w, d)', {a}) <=> RxAck(h) \in hs'[d] /\ TxAck(h) \notin hs'[e]
      <3>1. hs'[e] = hs[e]
        BY <1>7
      <3>. HIDE DEF x, m, R, a, e
      <3>. QED
        BY <1>10, <1>11, <1>12, <1>13, <1>14, <1>15, <2>1, <3>1
    <2>. QED
      BY <1>1, <2>2 DEF Exchange
  <1>18. Here(w, d, h)'
    <2>1. Half(d)' = h
      BY <1>13 DEF Half, Idle, First, Second, Handshake
    <2>2. ~Holds(Line(w, e)', Message \ (R \cup {a}))
      BY <1>6, <1>8
    <2>3. TxReq(h) \in hs'[d] /\ st'[d] = First(h) => Holds(misc'[d], R)
      <3>. SUFFICES ASSUME TxReq(h) \in hs'[d], st'[d] = First(h)
                    PROVE  Holds(misc'[d], R)
        OBVIOUS
      <3>1. TxReq(h) \notin hs[d]
        BY <1>13, HandshakeFacts
      <3>2. x \in R /\ Holds(misc'[d], {x})
        BY <1>7, <1>9, <1>13, <3>1
      <3>. QED
        BY <3>2, SubHolds
    <2>4. RxAck(h) \in hs'[d] => st'[d] = Second(h)
      <3>1. x = a => RxReq(h) \in hs[d]
        BY <1>1, <1>4, <1>12 DEF Exchange
      <3>. QED
        BY <1>6, <1>13, <3>1
    <2>5. Full(d, h)' => gap'[d] > 0 \/ Holds(misc'[d], {a})
      <3>. SUFFICES ASSUME {TxReq(h), TxAck(h), RxReq(h), RxAck(h)} \subseteq hs'[d],
                           ~(gap'[d] > 0)
                    PROVE  Holds(misc'[d], {a})
        BY DEF Full
      <3>1. m = None
        BY <1>7
      <3>2. TxAck(h) \in hs[d] /\ RxReq(h) \in hs[d]
        BY <1>9, <1>13, <3>1
      <3>3. TxReq(h) \in hs[d]
        BY <1>4, <3>2 DEF Exchange
      <3>4. RxAck(h) \notin hs[d]
        BY <3>2, <3>3 DEF Full
      <3>5. x = a
        BY <1>13, <3>4
      <3>. QED
        BY <1>7, <1>9, <3>5
    <2>6. (actq[d] = <<>>)' \/ QueuesReq(d, h)' \/ QueuesAck(d, h)'
      BY <1>12
    <2>. QED
      BY <1>13, <2>1, <2>2, <2>3, <2>4, <2>5, <2>6 DEF Here
  <1>19. Here(w, e, h)' \/ Behind(w, e, o)'
    <2>1. CASE Here(v, e, h)
      <3>1. ~Holds(Line(v, d), Message \ (R \cup {a}))
        BY <1>1, <2>1 DEF Here
      <3>2. ~Holds(Line(w, d)', Message \ (R \cup {a}))
        BY <1>8, <1>12, <3>1
      <3>3. Here(w, e, h)'
        BY <1>1, <1>7, <1>15, <2>1, <3>2 DEF Here
      <3>. QED
        BY <3>3
    <2>2. CASE Behind(v, e, o)
      <3>1. /\ ~Holds(Line(v, d), Message \ (R \cup {AckOf(o)}))
            /\ TxAck(o) \in hs[e] <=> ~Holds(Line(v, d), {AckOf(o)})
            /\ Before(Line(v, d), {AckOf(o)}, R)
            /\ ~Holds(Line(v, e), Message)
        BY <1>1, <1>2, <2>2 DEF Behind
      <3>2. x \in {None} \cup R /\ AckOf(o) # None
        BY <1>2, <1>5, <1>12, <2>2, MessageFacts, ItemFacts
      <3>3. ~Holds(Line(w, d)', Message \ (R \cup {AckOf(o)}))
        BY <1>8, <3>1, <3>2
      <3>4. TxAck(o) \in hs[e] <=> ~Holds(Line(w, d)', {AckOf(o)})
        BY <1>8, <1>9, <3>1, <3>2
      <3>5. Before(Line(w, d)', {AckOf(o)}, R)
        <4>1. CASE x = None
          BY <1>7, <3>1, <4>1
        <4>2. CASE x # None
          <5>1. Line(v, d) \in Seq(Item) /\ x \in Item /\ x \notin {AckOf(o)}
            BY <1>7, <1>9, <3>2, <4>2, LineType, ItemFacts
          <5>. QED
            BY <1>7, <3>1, <4>2, <5>1, AppendBefore
        <4>. QED
          BY <4>1, <4>2
      <3>6. ~Holds(Line(w, e)', Message)
        BY <1>8, <3>1
      <3>7. Behind(w, e, o)'
        BY <1>1, <1>2, <1>7, <2>2, <3>3, <3>4, <3>5, <3>6 DEF Behind
      <3>. QED
        BY <3>7
    <2>. QED
      BY <1>4, <2>1, <2>2
  <1>20. Once(Line(w, d)')
    <2>1. /\ x \in R => ~Holds(Line(v, d), R)
          /\ x = a => ~Holds(Line(v, d), {a})
      <3>1. /\ TxReq(h) \in hs[d] => ~QueuesReq(d, h)
            /\ Holds(Line(v, d), R) => TxReq(h) \in hs[d]
            /\ QueuesAck(d, h) => RxAck(h) \notin hs[d]
            /\ Holds(Line(v, d), {a}) => RxAck(h) \in hs[d]
        BY <1>1, <1>4 DEF Exchange
      <3>. QED
        BY <1>12, <3>1
    <2>2. ASSUME NEW T \in Token, x \in T PROVE ~Holds(Line(v, d), T)
      <3>1. x \in R \cup {a}
        BY <1>12, <2>2, ItemFacts, MessageFacts DEF Token
      <3>2. T = R \/ T = {a} \/ T = ReqOf(o) \/ T = {AckOf(o)}
        BY MessageFacts
      <3>3. x \notin ReqOf(o) /\ x # AckOf(o)
        BY <1>2, <1>9, <3>1, MessageFacts
      <3>. QED
        BY <1>9, <2>1, <2>2, <3>1, <3>2, <3>3
    <2>. QED
      BY <1>4, <1>8, <2>2
  <1>21. Half(d)' = h
    BY <1>18 DEF Here
  <1>22. Continues(d, in, h)
    BY <1>6, <1>12, <1>13, <1>21 DEF Continues
  <1>. QED
    BY <1>1, <1>8, <1>16, <1>17, <1>18, <1>19, <1>20, <1>21, <1>22 DEF InStep

\* An edge of a die that is no abort keeps the two in step.
LEMMA MovesInStep ==
    ASSUME TypeOK, NEW d \in Die, NEW in, NEW v \in [Die -> Seq(Item)], NEW w,
           Moves(d, in, v, w), NEW h \in Handshake, InStep(v, h)
    PROVE  /\ \E g \in Handshake : InStep(w, g)'
           /\ Switches(d, in, Half(d)) \/ Continues(d, in, Half(d))
  <1>1. Here(v, d, h) \/ Behind(v, d, Other(h))
    BY DEF InStep
  <1>2. CASE Here(v, d, h) /\ Full(d, h)
    <2>1. Half(d) = h
      BY <1>2 DEF Here
    <2>. QED
      BY <1>2, <2>1, FullMoves, HandshakeFacts
  <1>3. CASE Here(v, d, h) /\ ~Full(d, h)
    <2>1. Half(d) = h
      BY <1>3 DEF Here
    <2>. QED
      BY <1>3, <2>1, HereMoves
  <1>4. CASE Behind(v, d, Other(h))
    <2>1. Half(d) = Other(h)
      BY <1>4, HandshakeFacts, HalfFacts DEF Behind, TypeOK, CtrlTypeOK
    <2>. QED
      BY <1>4, <2>1, BehindMoves
  <1>. QED
    BY <1>1, <1>2, <1>3, <1>4

-----------------------------------------------------------------------------
(* Steps that leave the handshakes alone.                                  *)

\* The registers of the handshakes keep their values, and the activation
\* messages on the lines stay.
Rests(v, w) ==
    \A a \in Die :
       /\ st'[a] = st[a] /\ hs'[a] = hs[a] /\ actq'[a] = actq[a]
       /\ misc'[a] = misc[a]
       /\ gap[a] > 0 => gap'[a] > 0 \/ hs[a] = {}
       /\ Once(Line(w, a)')
       /\ \A S \in SUBSET Message : Holds(Line(w, a)', S) <=> Holds(Line(v, a), S)
       /\ \A S \in SUBSET Message : \A T :
             Before(Line(v, a), S, T) => Before(Line(w, a)', S, T)

LEMMA RestsInStep ==
    ASSUME NEW v, NEW w, Rests(v, w), NEW h \in Handshake, InStep(v, h)
    PROVE  InStep(w, h)'
  <1>1. ASSUME NEW a \in Die
        PROVE  /\ Once(Line(w, a)')
               /\ Exchange(w, a, h)'
               /\ Here(w, a, h)' \/ Behind(w, a, Other(h))'
    <2>. DEFINE e == Peer(a)
                o == Other(h)
    <2>1. e \in Die /\ Peer(e) = a
      BY PeerFacts
    <2>2. o \in Handshake /\ Other(o) = h
      BY HandshakeFacts
    <2>3. /\ Exchange(v, a, h)
          /\ Here(v, a, h) \/ Behind(v, a, o)
      BY DEF InStep
    <2>4. /\ st'[a] = st[a] /\ hs'[a] = hs[a] /\ actq'[a] = actq[a]
          /\ misc'[a] = misc[a]
          /\ gap[a] > 0 => gap'[a] > 0 \/ hs[a] = {}
          /\ Once(Line(w, a)')
          /\ hs'[e] = hs[e] /\ actq'[e] = actq[e]
      BY <2>1 DEF Rests
    <2>5. /\ ReqOf(h) \in SUBSET Message /\ {AckOf(h)} \in SUBSET Message
          /\ ReqOf(o) \in SUBSET Message /\ {AckOf(o)} \in SUBSET Message
      BY <2>2, MessageFacts
    <2>6. /\ \A S \in SUBSET Message : Holds(Line(w, a)', S) <=> Holds(Line(v, a), S)
          /\ \A S \in SUBSET Message : Holds(Line(w, e)', S) <=> Holds(Line(v, e), S)
          /\ Before(Line(v, e), {AckOf(o)}, ReqOf(h))
                => Before(Line(w, e)', {AckOf(o)}, ReqOf(h))
      BY <2>1, <2>5 DEF Rests
    <2>7. /\ QueuesReq(a, h)' <=> QueuesReq(a, h)
          /\ QueuesAck(a, h)' <=> QueuesAck(a, h)
          /\ QueuesAck(e, h)' <=> QueuesAck(e, h)
          /\ Half(a)' = Half(a)
          /\ Full(a, h)' <=> Full(a, h)
      BY <2>4 DEF QueuesReq, QueuesAck, Half, Idle, Full
    <2>8. Exchange(w, a, h)'
      BY <2>3, <2>4, <2>5, <2>6, <2>7 DEF Exchange
    <2>9. CASE Here(v, a, h)
      <3>1. Full(a, h) => hs[a] # {}
        BY DEF Full
      <3>2. Here(w, a, h)'
        BY <2>4, <2>5, <2>6, <2>7, <2>9, <3>1 DEF Here
      <3>. QED
        BY <2>4, <2>8, <3>2
    <2>10. CASE Behind(v, a, o)
      <3>1. Behind(w, a, o)'
        BY <2>2, <2>4, <2>5, <2>6, <2>10 DEF Behind
      <3>. QED
        BY <2>4, <2>8, <3>1
    <2>. QED
      BY <2>3, <2>9, <2>10
  <1>2. PICK a \in Die : Half(a) = h
    BY DEF InStep
  <1>3. Half(a)' = h
    BY <1>2 DEF Rests, Half, Idle
  <1>. QED
    BY <1>1, <1>3 DEF InStep

\* An edge that sees the link down, when there is nothing to abort.
LEMMA IdleAbort ==
    ASSUME TypeOK, NEW d \in Die, NEW in, NEW v \in [Die -> Seq(Item)],
           NEW h \in Handshake, InStep(v, h),
           ~in.link, in.msg = None, in.ready = (Len(misc[d]) < MiscDepth),
           st[d] = "DISABLED", hs[d] \cap ActReq = {}, Sent(d, in) # "ActivateReq",
           actq'[d] = NextActq(d, in)
    PROVE  /\ hs[d] = {} /\ actq[d] = <<>> /\ actq'[d] = <<>>
           /\ Sent(d, in) = None
  <1>. DEFINE e == Peer(d)
              g == "activate"
  <1>1. e \in Die /\ Peer(e) = d
    BY PeerFacts
  <1>2. Half(d) = g /\ g \in Handshake /\ st[d] = First(g) /\ st[d] # Second(g)
        /\ st[d] # Second("deactivate") /\ st[d] \in State
    BY DEF Half, Idle, Handshake, First, Second, State
  <1>3. /\ TxReq(g) \notin hs[d] /\ RxReq(g) \notin hs[d]
        /\ FlagOf(g) = {TxReq(g), TxAck(g), RxReq(g), RxAck(g)}
    BY DEF ActReq, TxReq, RxReq, TxAck, RxAck, FlagOf, ActFlag
  <1>4. Here(v, d, h) /\ h = g
    <2>1. ~Behind(v, d, Other(h))
      BY <1>2, HandshakeFacts DEF Behind, Handshake
    <2>2. Here(v, d, h)
      BY <2>1 DEF InStep
    <2>. QED
      BY <1>2, <2>2 DEF Here
  <1>5. /\ hs[d] = {} /\ ~QueuesAck(d, g)
    <2>1. RxAck(g) \notin hs[d] /\ hs[d] \subseteq FlagOf(g)
      BY <1>2, <1>4 DEF Here
    <2>2. TxAck(g) \notin hs[d]
      BY <1>3, <1>4 DEF InStep, Exchange
    <2>3. ~QueuesAck(d, g)
      <3>1. Exchange(v, e, g)
        BY <1>1, <1>4 DEF InStep
      <3>. QED
        BY <1>1, <1>3, <3>1 DEF Exchange
    <2>. QED
      BY <1>3, <2>1, <2>2, <2>3
  <1>6. ~QueuesReq(d, g)
    <2>. SUFFICES ASSUME QueuesReq(d, g) PROVE FALSE
      OBVIOUS
    <2>1. actq[d] # <<>> /\ Head(actq[d]) = "ActivateReq"
      <3>1. PICK r \in ReqOf(g) : actq[d] = <<r>> \/ actq[d] = <<r, AckOf(g)>>
        BY DEF QueuesReq
      <3>2. r = "ActivateReq"
        BY DEF ReqOf
      <3>3. /\ Head(<<r>>) = r /\ Head(<<r, AckOf(g)>>) = r
            /\ <<r>> # <<>> /\ <<r, AckOf(g)>> # <<>>
        OBVIOUS
      <3>. QED
        BY <3>1, <3>2, <3>3
    <2>2. ~Full(d, h)
      BY <1>5 DEF Full
    <2>3. in.ready
      BY <1>4, <2>1, <2>2, HereMessages
    <2>. QED
      BY <2>1, <2>3 DEF Sent, Offered
  <1>7. actq[d] = <<>>
    BY <1>4, <1>5, <1>6 DEF Here
  <1>8. Sent(d, in) = None
    BY <1>7 DEF Sent, Offered
  <1>9. Request(d, in) = None /\ Answer(d, in) = None
    <2>1. Request(d, in) = None
      BY DEF Request, ActivateLevel, DeactivateLevel, ForceLevel, DeactivateEn, Session, None
    <2>2. Answer(d, in) = None
      BY DEF Answer, None, DeactReq
    <2>. QED
      BY <2>1, <2>2
  <1>10. actq'[d] = <<>>
    <2>1. actq'[d] = <<>> \o (<<>> \o <<>>) \/ actq'[d] = <<>> \o <<>>
      BY <1>7, <1>8, <1>9 DEF NextActq, Pushed, Slot
    <2>. QED
      BY <2>1, ConcatSlots
  <1>. QED
    BY <1>5, <1>7, <1>8, <1>10

\* What an edge does when it leaves the handshake alone.
Idles(d, v, w) ==
    /\ Rests(v, w)
    /\ \A a \in Die : Line(w, a)' = Line(v, a)
    /\ st'[d] = "DISABLED" /\ hs'[d] = {} /\ actq'[d] = <<>>

\* An edge that reports no error.
LEMMA EdgeMoves ==
    ASSUME TypeOK, NEW d \in Die, NEW m \in Message \cup {None}, NEW pack \in BOOLEAN,
           NEW in, EdgeEffect(d, m, pack, in),
           m # None => /\ wire[Peer(d)] # <<>> /\ m = Head(wire[Peer(d)])
                       /\ gap[d] = 0,
           ~faulted'[d],
           NEW v \in [Die -> Seq(Item)], NEW w \in [Die -> Seq(Item)],
           NEW h \in Handshake, InStep(v, h),
           link[d] => v[Peer(d)] = wire[Peer(d)],
           ~link[d] => wire[Peer(d)] = <<>>,
           Advances(d, m, pack, v, w)
    PROVE  /\ \/ Moves(d, in, v, w) /\ (Switches(d, in, Half(d)) \/ Continues(d, in, Half(d)))
              \/ Idles(d, v, w)
           /\ \E g \in Handshake : InStep(w, g)'
  <1>. DEFINE e == Peer(d)
              x == Sent(d, in)
  <1>1. e \in Die /\ e # d /\ Peer(e) = d /\ (\A a \in Die : a = d \/ a = e)
    BY PeerFacts
  <1>2. /\ in.msg = m /\ in \in Input /\ in.ready = (Len(misc[d]) < MiscDepth)
        /\ in.link = link[d]
        /\ x \in Message \cup {None}
        /\ pack => link[d] /\ misc[d] # <<>>
        /\ st'[d] = NextState(d, in) /\ hs'[d] = NextFlags(d, in)
        /\ actq'[d] = NextActq(d, in)
        /\ misc'[d] = (IF pack THEN Tail(misc[d]) ELSE misc[d]) \o Slot(x)
        /\ x # None => Holds(misc'[d], {x})
        /\ m # None => gap'[d] > 0
        /\ faulted'[d] = (faulted[d] \/ LinkError(d, in) \/ IntFdiLinkDown(d, in))
        /\ \A a \in Die \ {d} :
              /\ st'[a] = st[a] /\ hs'[a] = hs[a] /\ actq'[a] = actq[a]
              /\ misc'[a] = misc[a] /\ gap'[a] = gap[a]
    BY DEF EdgeEffect
  <1>3. m # None => link[d] /\ v[e] # <<>> /\ m = Head(v[e])
    OBVIOUS
  <1>4. /\ Line(w, d)' = IF x = None THEN Line(v, d) ELSE Append(Line(v, d), x)
        /\ Line(w, e)' = IF m = None THEN Line(v, e) ELSE Tail(Line(v, e))
        /\ m # None => Line(v, e) # <<>> /\ m = Head(Line(v, e))
    <2>1. m # None => v[Peer(d)] # <<>> /\ m = Head(v[Peer(d)])
      BY <1>3
    <2>. HIDE DEF x, e
    <2>2. /\ Line(w, d)' = IF Sent(d, in) = None THEN Line(v, d)
                           ELSE Append(Line(v, d), Sent(d, in))
          /\ Line(w, Peer(d))' = IF m = None THEN Line(v, Peer(d))
                                 ELSE Tail(Line(v, Peer(d)))
          /\ m # None => Line(v, Peer(d)) # <<>> /\ m = Head(Line(v, Peer(d)))
      BY <2>1, LineStep
    <2>. QED
      BY <2>2 DEF x, e
  <1>5. CASE ~FsmAbort(d, in)
    <2>1. Moves(d, in, v, w)
      BY <1>1, <1>2, <1>4, <1>5 DEF Moves
    <2>. QED
      BY <2>1, MovesInStep
  <1>6. CASE FsmAbort(d, in)
    <2>1. LinkFell(d, in) /\ ~IntFdiLinkDown(d, in)
      BY <1>2, <1>6 DEF FsmAbort
    <2>2. /\ ~in.link /\ st[d] = "DISABLED" /\ hs[d] \cap ActReq = {}
          /\ x # "ActivateReq"
      BY <2>1 DEF LinkFell, IntFdiLinkDown
    <2>3. m = None /\ ~pack
      BY <1>2, <1>3, <2>2
    <2>4. hs[d] = {} /\ actq[d] = <<>> /\ actq'[d] = <<>> /\ x = None
      BY <1>2, <2>2, <2>3, IdleAbort
    <2>5. st'[d] = "DISABLED" /\ hs'[d] = {}
      BY <1>2, <1>6 DEF NextState, NextFlags
    <2>6. misc'[d] = misc[d]
      <3>1. misc[d] \in Seq(Message) /\ misc'[d] = misc[d] \o <<>>
        BY <1>2, <2>3, <2>4, LineType DEF Slot
      <3>. QED
        BY <3>1, ConcatEmptySeq
    <2>7. \A a \in Die : Line(w, a)' = Line(v, a)
      BY <1>1, <1>4, <2>3, <2>4
    <2>8. Rests(v, w)
      <3>. SUFFICES ASSUME NEW a \in Die
                    PROVE  /\ st'[a] = st[a] /\ hs'[a] = hs[a] /\ actq'[a] = actq[a]
                           /\ misc'[a] = misc[a]
                           /\ gap[a] > 0 => gap'[a] > 0 \/ hs[a] = {}
                           /\ Once(Line(w, a)') /\ Line(w, a)' = Line(v, a)
        BY DEF Rests
      <3>1. Once(Line(w, a)') /\ Line(w, a)' = Line(v, a)
        BY <2>7 DEF InStep
      <3>. QED
        BY <1>1, <1>2, <2>2, <2>4, <2>5, <2>6, <3>1
    <2>9. Idles(d, v, w)
      BY <2>4, <2>5, <2>7, <2>8 DEF Idles
    <2>. QED
      BY <2>8, <2>9, RestsInStep
  <1>. QED
    BY <1>5, <1>6

-----------------------------------------------------------------------------
(* Data.                                                                   *)

LEMMA DataAppend ==
    ASSUME NEW L \in Seq(Item), NEW x \in Item, NEW i \in DOMAIN Append(L, x)
    PROVE  \/ /\ i \in DOMAIN L /\ Append(L, x)[i] = L[i]
              /\ \A T : Followed(L, i, T) \/ x \in T => Followed(Append(L, x), i, T)
           \/ i = Len(L) + 1 /\ Append(L, x)[i] = x
  <1>1. /\ DOMAIN L = 1..Len(L) /\ Len(L) \in Nat
        /\ Append(L, x) \in Seq(Item) /\ Len(Append(L, x)) = Len(L) + 1
        /\ Append(L, x)[Len(L) + 1] = x
        /\ \A j \in 1..Len(L) : Append(L, x)[j] = L[j]
    BY LenProperties, AppendProperties
  <1>2. i \in 1..(Len(L) + 1)
    BY <1>1, LenProperties
  <1>3. i \in 1..Len(L) \/ i = Len(L) + 1
    BY <1>1, <1>2
  <1>4. ASSUME i \in 1..Len(L)
        PROVE  \A T : Followed(L, i, T) \/ x \in T => Followed(Append(L, x), i, T)
    BY <1>4, AppendFollowed
  <1>. QED
    BY <1>1, <1>3, <1>4

LEMMA DataTail ==
    ASSUME NEW L \in Seq(Item), L # <<>>, NEW i \in DOMAIN Tail(L)
    PROVE  /\ i + 1 \in DOMAIN L /\ Tail(L)[i] = L[i + 1]
           /\ \A T : Followed(L, i + 1, T) => Followed(Tail(L), i, T)
  <1>1. /\ DOMAIN L = 1..Len(L) /\ Len(L) \in Nat \ {0}
        /\ Tail(L) \in Seq(Item) /\ Len(Tail(L)) = Len(L) - 1
        /\ \A j \in 1..Len(Tail(L)) : Tail(L)[j] = L[j + 1]
    BY LenProperties, HeadTailProperties, EmptySeq
  <1>2. i \in 1..Len(Tail(L)) /\ i + 1 \in 1..Len(L)
    <2>1. DOMAIN Tail(L) = 1..Len(Tail(L))
      BY <1>1, LenProperties
    <2>. QED
      BY <1>1, <2>1
  <1>. QED
    BY <1>1, <1>2, TailFollowed

\* While the ActivateAck of a die waits to be sent, the peer is not in the
\* session yet.
LEMMA AckWaits ==
    ASSUME TypeOK, NEW d \in Die, NEW v \in [Die -> Seq(Item)],
           NEW h \in Handshake, InStep(v, h), Half(d) = "activate",
           ~Full(d, "activate"), QueuesAck(d, "activate")
    PROVE  Half(Peer(d)) # "deactivate"
  <1>. DEFINE e == Peer(d)
  <1>1. e \in Die /\ st[d] \in State /\ st[e] \in State
    BY PeerFacts DEF TypeOK, CtrlTypeOK
  <1>2. ~Behind(v, d, Other(h))
    BY EmptyQueue DEF Behind
  <1>3. Here(v, d, h) /\ h = "activate"
    BY <1>2 DEF InStep, Here
  <1>4. ~Behind(v, e, Other(h))
    BY <1>3, HereMessages
  <1>5. Here(v, e, h)
    BY <1>1, <1>4 DEF InStep
  <1>. QED
    BY <1>3, <1>5 DEF Here

\* What a die that completes a handshake knows of the lines.
LEMMA SwitchFacts ==
    ASSUME TypeOK, NEW d \in Die, NEW v \in [Die -> Seq(Item)],
           NEW h \in Handshake, InStep(v, h), NEW g \in Handshake,
           Half(d) = g, Full(d, g)
    PROVE  \/ /\ g = h /\ Half(Peer(d)) = h
              /\ ~Holds(Line(v, d), Message \ {AckOf(g)})
           \/ /\ g = Other(h) /\ Half(Peer(d)) = h
              /\ ~Holds(Line(v, d), Message)
              /\ ~Holds(Line(v, Peer(d)), {AckOf(g)})
  <1>1. Here(v, d, h) \/ Behind(v, d, Other(h))
    BY DEF InStep
  <1>2. CASE Here(v, d, h)
    <2>1. g = h
      BY <1>2 DEF Here
    <2>2. Here(v, Peer(d), h) /\ ~Holds(Line(v, d), Message \ {AckOf(g)})
      BY <1>2, <2>1, FullHere
    <2>. QED
      BY <2>1, <2>2 DEF Here
  <1>3. CASE Behind(v, d, Other(h))
    <2>1. st \in [Die -> State] /\ Other(h) \in Handshake
      BY HandshakeFacts DEF TypeOK, CtrlTypeOK
    <2>2. g = Other(h)
      BY <1>3, <2>1, HalfFacts DEF Behind
    <2>3. Half(Peer(d)) = h
      BY <1>3, <2>1, AheadOfBehind DEF Here
    <2>4. /\ ~Holds(Line(v, d), Message)
          /\ TxAck(g) \in hs[d]
          /\ ~Holds(Line(v, Peer(d)), {AckOf(g)})
      BY <1>3, <2>2 DEF Behind, Full
    <2>. QED
      BY <2>2, <2>3, <2>4
  <1>. QED
    BY <1>1, <1>2, <1>3

\* An edge of d, and the data of d ...
LEMMA MovesOwnData ==
    ASSUME TypeOK, NEW d \in Die, NEW in, NEW v \in [Die -> Seq(Item)], NEW w,
           Moves(d, in, v, w), NEW h \in Handshake, InStep(v, h),
           Switches(d, in, Half(d)) \/ Continues(d, in, Half(d)),
           DataInSession(v, d)
    PROVE  DataInSession(w, d)'
  <1>. DEFINE e == Peer(d)
              L == Line(v, d)
              x == Sent(d, in)
              g == Half(d)
  <1>0. PICK K : K = Line(w, d)'
    OBVIOUS
  <1>1. e \in Die /\ e # d /\ st[d] \in State /\ L \in Seq(Item) /\ g \in Handshake
    BY PeerFacts, LineType, HalfFacts DEF TypeOK, CtrlTypeOK
  <1>2. /\ Half(e)' = Half(e)
        /\ K = IF x = None THEN L ELSE Append(L, x)
        /\ x \in Message \cup {None}
    BY <1>0 DEF Moves, Half, Idle
  <1>3. /\ Before(L, {"ActivateAck"}, Kind)
        /\ \A i \in DOMAIN L : L[i] \in Kind => Covered(L, i, d)
    BY DEF DataInSession
  <1>. HIDE DEF L, x
  <1>4. CASE Switches(d, in, g)
    <2>1. K = L /\ Full(d, g) /\ st'[d] = First(Other(g)) /\ hs'[d] = {}
      BY <1>2, <1>4 DEF Switches, x
    <2>2. Half(d)' = Other(g)
      BY <1>1, <2>1 DEF Half, Idle, First, Other, Handshake
    <2>3. ASSUME NEW i \in DOMAIN L, L[i] \in Kind
          PROVE  Covered(K, i, d)'
      <3>1. CASE g = "activate"
        <4>1. /\ Half(d)' = "deactivate" /\ "tx_deactivate_req" \notin hs'[d]
              /\ "rx_deactivate_ack" \notin hs'[d]
          BY <2>1, <2>2, <3>1 DEF Other
        <4>. QED
          BY <4>1 DEF Covered
      <3>2. CASE g = "deactivate"
        <4>1. "tx_deactivate_req" \in hs[d] /\ "rx_deactivate_ack" \in hs[d]
          BY <2>1, <3>2 DEF Full, TxReq, RxAck
        <4>2. \/ Followed(L, i, DeactReq)
              \/ L[i] \notin Ended(d) /\ Followed(L, i, {"DeactivateAck"})
          BY <1>3, <2>3, <3>2, <4>1 DEF Covered
        <4>3. AckOf(g) = "DeactivateAck" /\ "DeactivateAck" \notin DeactReq
              /\ DeactReq \subseteq Message
          BY <3>2 DEF AckOf, DeactReq, Message
        <4>4. \/ /\ Half(e) = g /\ ~Holds(L, Message \ {"DeactivateAck"})
              \/ ~Holds(L, Message)
          BY <1>1, <2>1, <4>3, SwitchFacts DEF L
        <4>5. ~Holds(L, DeactReq) /\ (~Holds(L, Message) => ~Holds(L, {"DeactivateAck"}))
          BY <4>3, <4>4 DEF Holds, Message
        <4>6. /\ L[i] \notin Ended(d) /\ Followed(L, i, {"DeactivateAck"})
              /\ Half(e) = "deactivate"
          BY <3>2, <4>2, <4>4, <4>5, FollowedHolds
        <4>7. Half(d)' = "activate" /\ Half(e)' = "deactivate"
          BY <1>2, <2>2, <3>2, <4>6 DEF Other
        <4>. QED
          BY <2>1, <4>6, <4>7 DEF Covered, Ended
      <3>. QED
        BY <1>1, <3>1, <3>2 DEF Handshake
    <2>. QED
      BY <1>0, <1>3, <2>1, <2>3 DEF DataInSession
  <1>5. CASE Continues(d, in, g)
    <2>1. /\ ~Full(d, g) /\ Half(d)' = g
          /\ x \in {None, AckOf(g)} \cup ReqOf(g)
          /\ x = AckOf(g) => QueuesAck(d, g)
          /\ TxReq(g) \in hs'[d] <=> TxReq(g) \in hs[d] \/ x \in ReqOf(g)
          /\ RxAck(g) \in hs'[d] <=> RxAck(g) \in hs[d] \/ x = AckOf(g)
      BY <1>5 DEF Continues, x
    <2>2. x = "ActivateAck" => ~Holds(L, Kind)
      <3>. SUFFICES ASSUME x = "ActivateAck", NEW i \in DOMAIN L, L[i] \in Kind
                    PROVE  FALSE
        BY DEF Holds
      <3>1. g = "activate"
        BY <1>1, <2>1 DEF AckOf, ReqOf, DeactReq, None, Handshake
      <3>2. AckOf(g) = "ActivateAck"
        BY <3>1 DEF AckOf
      <3>3. Half(e) # "deactivate"
        BY <2>1, <3>1, <3>2, AckWaits
      <3>. QED
        BY <1>3, <2>1, <3>1, <3>3 DEF Covered
    <2>3. ASSUME NEW i \in DOMAIN L, L[i] \in Kind, NEW j, K[j] = L[i],
                 \A T \in {DeactReq, {"DeactivateAck"}} :
                    Followed(L, i, T) \/ x \in T => Followed(K, j, T)
          PROVE  Covered(K, j, d)'
      <3>1. Covered(L, i, d)
        BY <1>3, <2>3
      <3>2. CASE g = "activate"
        <4>1. /\ Half(e) = "deactivate" /\ L[i] \notin Ended(d)
              /\ Followed(L, i, {"DeactivateAck"})
          BY <2>1, <3>1, <3>2 DEF Covered
        <4>2. /\ Half(d)' = "activate" /\ Half(e)' = "deactivate"
              /\ Followed(K, j, {"DeactivateAck"})
          BY <1>2, <2>1, <2>3, <3>2, <4>1
        <4>. QED
          BY <2>3, <4>1, <4>2 DEF Covered, Ended
      <3>3. CASE g = "deactivate"
        <4>1. IF L[i] \in Ended(d)
              THEN "tx_deactivate_req" \notin hs[d] \/ Followed(L, i, DeactReq)
              ELSE "rx_deactivate_ack" \notin hs[d] \/ Followed(L, i, {"DeactivateAck"})
          BY <3>1, <3>3 DEF Covered
        <4>2. /\ TxReq(g) = "tx_deactivate_req" /\ RxAck(g) = "rx_deactivate_ack"
              /\ ReqOf(g) = DeactReq /\ AckOf(g) = "DeactivateAck"
          BY <3>3 DEF TxReq, RxAck, ReqOf, AckOf
        <4>3. IF K[j] \in Ended(d)
              THEN "tx_deactivate_req" \notin hs'[d] \/ Followed(K, j, DeactReq)
              ELSE "rx_deactivate_ack" \notin hs'[d] \/ Followed(K, j, {"DeactivateAck"})
          BY <2>1, <2>3, <4>1, <4>2
        <4>4. Half(d)' = "deactivate"
          BY <2>1, <3>3
        <4>. QED
          BY <4>3, <4>4 DEF Covered, Ended
      <3>. QED
        BY <1>1, <3>2, <3>3 DEF Handshake
    <2>4. CASE x = None
      <3>1. K = L /\ (\A T \in {DeactReq, {"DeactivateAck"}} : x \notin T)
        BY <1>2, <2>4 DEF None, DeactReq
      <3>2. ASSUME NEW i \in DOMAIN L, L[i] \in Kind
            PROVE  Covered(K, i, d)'
        BY <2>3, <3>1, <3>2
      <3>. QED
        BY <1>0, <1>3, <3>1, <3>2 DEF DataInSession
    <2>5. CASE x # None
      <3>1. x \in Item /\ x \notin Kind /\ K = Append(L, x)
        BY <1>2, <2>5, ItemFacts
      <3>2. Before(K, {"ActivateAck"}, Kind)
        BY <1>1, <1>3, <2>2, <3>1, AppendBefore
      <3>3. ASSUME NEW i \in DOMAIN K, K[i] \in Kind
            PROVE  Covered(K, i, d)'
        <4>1. /\ i \in DOMAIN L /\ K[i] = L[i]
              /\ \A T : Followed(L, i, T) \/ x \in T => Followed(K, i, T)
          BY <1>1, <3>1, <3>3, DataAppend
        <4>. QED
          BY <2>3, <3>3, <4>1
      <3>. QED
        BY <1>0, <3>2, <3>3 DEF DataInSession
    <2>. QED
      BY <2>4, <2>5
  <1>. QED
    BY <1>4, <1>5

\* ... and the data of its peer.
LEMMA MovesPeerData ==
    ASSUME TypeOK, NEW d \in Die, NEW in, NEW v \in [Die -> Seq(Item)], NEW w,
           Moves(d, in, v, w), NEW h \in Handshake, InStep(v, h),
           Switches(d, in, Half(d)) \/ Continues(d, in, Half(d)),
           DataInSession(v, Peer(d))
    PROVE  DataInSession(w, Peer(d))'
  <1>. DEFINE e == Peer(d)
              L == Line(v, e)
              m == in.msg
              g == Half(d)
  <1>0. PICK K : K = Line(w, e)'
    OBVIOUS
  <1>1. /\ e \in Die /\ Peer(e) = d /\ L \in Seq(Item) /\ g \in Handshake
    BY PeerFacts, LineType, HalfFacts DEF TypeOK, CtrlTypeOK
  <1>2. /\ Half(e)' = Half(e) /\ hs'[e] = hs[e]
        /\ Full(e, "activate")' <=> Full(e, "activate")
        /\ K = IF m = None THEN L ELSE Tail(L)
        /\ m # None => L # <<>>
    BY <1>0 DEF Moves, Half, Idle, Full
  <1>3. /\ Before(L, {"ActivateAck"}, Kind)
        /\ \A i \in DOMAIN L : L[i] \in Kind => Covered(L, i, e)
    BY DEF DataInSession
  <1>. HIDE DEF L, m
  <1>4. ASSUME NEW i \in DOMAIN L, L[i] \in Kind, NEW j, K[j] = L[i],
               \A T : Followed(L, i, T) => Followed(K, j, T)
        PROVE  Covered(K, j, e)'
    <2>1. Covered(L, i, e)
      BY <1>3, <1>4
    <2>2. CASE Half(e) = "activate" /\ Full(e, "activate")
      BY <1>2, <2>2 DEF Covered
    <2>3. CASE /\ Half(e) = "activate" /\ Half(Peer(e)) = "deactivate"
               /\ L[i] \notin Ended(e) /\ Followed(L, i, {"DeactivateAck"})
      <3>1. g = "deactivate" /\ AckOf(g) = "DeactivateAck" /\ Followed(K, j, {"DeactivateAck"})
        BY <1>1, <1>4, <2>3 DEF AckOf
      <3>2. ~Switches(d, in, g)
        <4>. SUFFICES ASSUME Full(d, g) PROVE FALSE
          BY DEF Switches
        <4>1. Holds(L, {"DeactivateAck"})
          BY <2>3, FollowedHolds
        <4>. QED
          BY <1>1, <2>3, <3>1, <4>1, SwitchFacts DEF L
      <3>3. Half(d)' = "deactivate"
        BY <3>1, <3>2 DEF Continues
      <3>. QED
        BY <1>1, <1>2, <1>4, <2>3, <3>1, <3>3 DEF Covered, Ended
    <2>4. CASE /\ Half(e) = "deactivate"
               /\ IF L[i] \in Ended(e)
                  THEN "tx_deactivate_req" \notin hs[e] \/ Followed(L, i, DeactReq)
                  ELSE "rx_deactivate_ack" \notin hs[e] \/ Followed(L, i, {"DeactivateAck"})
      BY <1>2, <1>4, <2>4 DEF Covered, Ended
    <2>. QED
      BY <2>1, <2>2, <2>3, <2>4 DEF Covered
  <1>5. CASE m = None
    <2>1. K = L
      BY <1>2, <1>5
    <2>2. ASSUME NEW i \in DOMAIN K, K[i] \in Kind PROVE Covered(K, i, e)'
      BY <1>4, <2>1, <2>2
    <2>. QED
      BY <1>0, <1>3, <2>1, <2>2 DEF DataInSession
  <1>6. CASE m # None
    <2>1. K = Tail(L) /\ L # <<>>
      BY <1>2, <1>6
    <2>2. Before(K, {"ActivateAck"}, Kind)
      BY <1>1, <1>3, <2>1, TailBefore
    <2>3. ASSUME NEW i \in DOMAIN K, K[i] \in Kind PROVE Covered(K, i, e)'
      <3>1. /\ i + 1 \in DOMAIN L /\ K[i] = L[i + 1]
            /\ \A T : Followed(L, i + 1, T) => Followed(K, i, T)
        BY <1>1, <2>1, <2>3, DataTail
      <3>. QED
        BY <1>4, <2>3, <3>1
    <2>. QED
      BY <1>0, <2>2, <2>3 DEF DataInSession
  <1>. QED
    BY <1>5, <1>6

\* Data of a step that leaves the handshakes alone.
LEMMA RestsCovered ==
    ASSUME NEW v, NEW w, Rests(v, w), NEW d \in Die,
           NEW L, NEW i, Covered(L, i, d), NEW K, NEW j, K[j] = L[i],
           \A T : Followed(L, i, T) => Followed(K, j, T)
    PROVE  Covered(K, j, d)'
  <1>1. /\ Half(d)' = Half(d) /\ hs'[d] = hs[d]
        /\ Half(Peer(d))' = Half(Peer(d))
        /\ Full(d, "activate")' <=> Full(d, "activate")
    BY PeerFacts DEF Rests, Half, Idle, Full
  <1>. QED
    BY <1>1 DEF Covered, Ended

LEMMA RestsData ==
    ASSUME NEW v, NEW w, Rests(v, w), NEW d \in Die,
           Line(w, d)' = Line(v, d), DataInSession(v, d)
    PROVE  DataInSession(w, d)'
  <1>1. PICK K : K = Line(w, d)'
    OBVIOUS
  <1>2. /\ Before(K, {"ActivateAck"}, Kind)
        /\ \A i \in DOMAIN K : K[i] \in Kind => Covered(K, i, d)
    BY <1>1 DEF DataInSession
  <1>3. ASSUME NEW i, Covered(K, i, d) PROVE Covered(K, i, d)'
    BY <1>3, RestsCovered
  <1>. QED
    BY <1>1, <1>2, <1>3 DEF DataInSession

\* The receive FIFO of a die that is in a session, or has asked for one.
LEMMA MovesStartsEmpty ==
    ASSUME TypeOK, NEW d \in Die, NEW m, NEW pack, NEW in,
           EdgeEffect(d, m, pack, in),
           Switches(d, in, Half(d)) \/ Continues(d, in, Half(d)),
           StartsEmpty(d)
    PROVE  StartsEmpty(d)'
  <1>. DEFINE g == Half(d)
              a == "activate"
  <1>1. /\ rx'[d] = IF st'[d] = "DISABLED" /\ rx[d] # {} THEN {"old"} ELSE rx[d]
        /\ in.rxPending = (rx[d] # {})
        /\ st[d] \in State /\ g \in Handshake
    <2>1. /\ rx'[d] = IF st'[d] = "DISABLED" /\ rx[d] # {} THEN {"old"} ELSE rx[d]
          /\ in.rxPending = (rx[d] # {})
      BY DEF EdgeEffect
    <2>2. st[d] \in State
      BY DEF TypeOK, CtrlTypeOK
    <2>3. g \in Handshake
      BY DEF Half, Handshake
    <2>. QED
      BY <2>1, <2>2, <2>3
  <1>2. TxReq(a) = "tx_activate_req" /\ ReqOf(a) = {"ActivateReq"}
    BY DEF TxReq, ReqOf
  <1>3. /\ "old" \in rx[d] => /\ g = a /\ "tx_activate_req" \notin hs[d]
                              /\ ~QueuesReq(d, a)
        /\ /\ st[d] = "DISABLED"
           /\ "tx_activate_req" \in hs[d] \/ QueuesReq(d, a)
           => rx[d] = {}
    BY DEF StartsEmpty
  <1>4. CASE Switches(d, in, g)
    <2>1. /\ Full(d, g) /\ st'[d] = First(Other(g)) /\ hs'[d] = {} /\ actq'[d] = <<>>
      BY <1>4 DEF Switches
    <2>2. ~QueuesReq(d, a)'
      BY <2>1 DEF QueuesReq
    <2>3. "old" \in rx'[d] => Half(d)' = a
      <3>1. CASE g = a
        <4>1. "tx_activate_req" \in hs[d] /\ st'[d] = "ENABLED"
          BY <1>2, <2>1, <3>1 DEF Full, First, Other
        <4>. QED
          BY <1>1, <1>3, <4>1
      <3>2. CASE g = "deactivate"
        <4>1. st'[d] = "DISABLED"
          BY <2>1, <3>2 DEF First, Other
        <4>. QED
          BY <4>1 DEF Half, Idle
      <3>. QED
        BY <1>1, <3>1, <3>2 DEF Handshake
    <2>. QED
      BY <2>1, <2>2, <2>3 DEF StartsEmpty
  <1>5. CASE Continues(d, in, g) /\ g = "deactivate"
    <2>1. Half(d)' = "deactivate" /\ st'[d] # "DISABLED"
      BY <1>5 DEF Continues, Half, Idle
    <2>. QED
      BY <1>1, <1>3, <1>5, <2>1 DEF StartsEmpty
  <1>6. CASE Continues(d, in, g) /\ g = a
    <2>1. /\ Half(d)' = a
          /\ st[d] = "ACTIVATE" => st'[d] = "ACTIVATE"
          /\ "tx_activate_req" \in hs'[d] => "tx_activate_req" \in hs[d] \/ QueuesReq(d, a)
          /\ QueuesReq(d, a)' => Request(d, in) = "ActivateReq"
      BY <1>2, <1>6 DEF Continues, Second
    <2>2. QueuesReq(d, a)' => rx[d] = {}
      <3>1. Request(d, in) = "ActivateReq" => ~in.rxPending
        BY DEF Request, ActivateLevel, None
      <3>. QED
        BY <1>1, <2>1, <3>1
    <2>3. st'[d] = "DISABLED" => st[d] = "DISABLED"
      BY <1>1, <1>6, <2>1 DEF Half, Idle, State
    <2>4. rx[d] = {} => rx'[d] = {}
      BY <1>1
    <2>5. "old" \in rx'[d] => "old" \in rx[d] \/ (rx[d] # {} /\ st[d] = "DISABLED")
      BY <1>1, <2>3
    <2>6. "old" \in rx'[d] => "tx_activate_req" \notin hs'[d] /\ ~QueuesReq(d, a)'
      BY <1>3, <2>1, <2>2, <2>4, <2>5
    <2>7. st'[d] = "DISABLED" /\ ("tx_activate_req" \in hs'[d] \/ QueuesReq(d, a)')
             => rx'[d] = {}
      BY <1>3, <2>1, <2>2, <2>3, <2>4
    <2>. QED
      BY <2>1, <2>6, <2>7 DEF StartsEmpty
  <1>. QED
    BY <1>1, <1>4, <1>5, <1>6 DEF Handshake

-----------------------------------------------------------------------------
(* The invariant.                                                          *)

LEMMA EdgeWire ==
    ASSUME TypeOK, NEW d \in Die, NEW m \in Message \cup {None}, NEW pack \in BOOLEAN,
           NEW bus \in Bus, NEW credit \in BOOLEAN, NEW expired \in SUBSET armed[d],
           Edge(d, m, pack, bus, credit, expired)
    PROVE  /\ link' = link
           /\ wire'[d] = IF pack /\ link[Peer(d)] THEN Append(wire[d], Head(misc[d]))
                         ELSE wire[d]
           /\ wire'[Peer(d)] = IF m = None THEN wire[Peer(d)] ELSE Tail(wire[Peer(d)])
  BY PeerFacts DEF Edge

LEMMA AdvanceType ==
    ASSUME TypeOK, NEW d \in Die, NEW m \in Message \cup {None}, NEW pack \in BOOLEAN,
           pack => misc[d] # <<>>, NEW v \in [Die -> Seq(Item)],
           m # None => v[Peer(d)] # <<>>
    PROVE  \E w \in [Die -> Seq(Item)] : Advances(d, m, pack, v, w)
  <1>. DEFINE w == [a \in Die |->
                      IF a = d THEN IF pack THEN Append(v[d], Head(misc[d])) ELSE v[d]
                      ELSE IF m = None THEN v[a] ELSE Tail(v[a])]
  <1>1. /\ v[d] \in Seq(Item) /\ misc[d] \in Seq(Item)
        /\ Peer(d) \in Die /\ Peer(d) # d /\ (\A a \in Die : a = d \/ a = Peer(d))
    BY LineType, PeerFacts
  <1>2. (IF pack THEN Append(v[d], Head(misc[d])) ELSE v[d]) \in Seq(Item)
    <2>1. CASE pack
      <3>1. Head(misc[d]) \in Item
        BY <1>1, <2>1, TailType
      <3>. QED
        BY <1>1, <2>1, <3>1, AppendProperties
    <2>. QED
      BY <1>1, <2>1
  <1>3. (IF m = None THEN v[Peer(d)] ELSE Tail(v[Peer(d)])) \in Seq(Item)
    BY <1>1, TailType
  <1>4. w \in [Die -> Seq(Item)]
    BY <1>1, <1>2, <1>3
  <1>5. Advances(d, m, pack, v, w)
    BY <1>1 DEF Advances
  <1>. QED
    BY <1>4, <1>5

LEMMA EdgeInv ==
    ASSUME TypeOK, HandshakeInv, NEW d \in Die,
           NEW m \in Message \cup {None}, NEW pack \in BOOLEAN,
           NEW bus \in Bus, NEW credit \in BOOLEAN, NEW expired \in SUBSET armed[d],
           m # None => /\ wire[Peer(d)] # <<>> /\ m = Head(wire[Peer(d)])
                       /\ gap[d] = 0,
           Edge(d, m, pack, bus, credit, expired)
    PROVE  HandshakeInv'
  <1>. DEFINE e == Peer(d)
  <1>0. PICK in : in = CtrlInput(d, m, bus, credit, expired)
    OBVIOUS
  <1>1. /\ e \in Die /\ e # d /\ Peer(e) = d /\ (\A a \in Die : a = d \/ a = e)
    BY PeerFacts
  <1>2. EdgeEffect(d, m, pack, in)
    BY <1>0, EdgeFrame
  <1>3. /\ link' = link
        /\ wire'[d] = IF pack /\ link[e] THEN Append(wire[d], Head(misc[d])) ELSE wire[d]
        /\ wire'[e] = IF m = None THEN wire[e] ELSE Tail(wire[e])
    BY EdgeWire
  <1>4. \A a \in Die : ~link[a] => wire[Peer(a)] = <<>>
    BY DEF HandshakeInv
  <1>5. \A a \in Die : ~link'[a] => wire'[Peer(a)] = <<>>
    <2>1. ~link[d] => wire'[e] = <<>>
      BY <1>3, <1>4
    <2>2. ~link[e] => wire'[d] = <<>>
      BY <1>1, <1>3, <1>4
    <2>. QED
      BY <1>1, <1>3, <2>1, <2>2
  <1>6. ASSUME Healthy'
        PROVE  /\ \E v \in [Die -> Seq(Item)] : Coherent(v)'
               /\ \A a \in Die : StartsEmpty(a)'
    <2>1. /\ faulted'[d] = (faulted[d] \/ LinkError(d, in) \/ IntFdiLinkDown(d, in))
          /\ faulted'[e] = faulted[e]
          /\ pack => link[d] /\ misc[d] # <<>>
          /\ rx'[d] = IF st'[d] = "DISABLED" /\ rx[d] # {} THEN {"old"} ELSE rx[d]
          /\ st'[e] = st[e] /\ hs'[e] = hs[e] /\ actq'[e] = actq[e] /\ rx'[e] = rx[e]
      BY <1>1, <1>2 DEF EdgeEffect
    <2>2. Healthy /\ ~faulted'[d]
      BY <1>1, <1>3, <1>6, <2>1 DEF Healthy
    <2>3. PICK v \in [Die -> Seq(Item)], h \in Handshake :
             /\ Agrees(v) /\ InStep(v, h)
             /\ \A a \in Die : DataInSession(v, a)
      BY <2>2 DEF HandshakeInv, Coherent
    <2>4. \A a \in Die : StartsEmpty(a)
      BY <2>2 DEF HandshakeInv
    <2>5. /\ link[d] => v[e] = wire[e]
          /\ ~link[d] => wire[e] = <<>>
          /\ link[e] => v[d] = wire[d]
      BY <1>1, <1>4, <2>3 DEF Agrees
    <2>6. m # None => v[e] # <<>>
      BY <2>5
    <2>7. PICK w \in [Die -> Seq(Item)] : Advances(d, m, pack, v, w)
      BY <2>1, <2>6, AdvanceType
    <2>8. /\ \/ Moves(d, in, v, w) /\ (Switches(d, in, Half(d)) \/ Continues(d, in, Half(d)))
             \/ Idles(d, v, w)
          /\ \E g \in Handshake : InStep(w, g)'
      BY <1>2, <2>2, <2>3, <2>5, <2>7, EdgeMoves
    <2>9. Agrees(w)'
      <3>1. /\ w[d] = IF pack THEN Append(v[d], Head(misc[d])) ELSE v[d]
            /\ w[e] = IF m = None THEN v[e] ELSE Tail(v[e])
        BY <2>7 DEF Advances
      <3>2. (link[d] => w[e] = wire'[e]) /\ (link[e] => w[d] = wire'[d])
        BY <1>3, <2>5, <3>1
      <3>. QED
        BY <1>1, <1>3, <3>2 DEF Agrees
    <2>10. /\ \A a \in Die : DataInSession(w, a)'
           /\ StartsEmpty(d)'
      <3>1. CASE /\ Moves(d, in, v, w)
                 /\ Switches(d, in, Half(d)) \/ Continues(d, in, Half(d))
        <4>1. DataInSession(w, d)'
          BY <2>3, <3>1, MovesOwnData
        <4>2. DataInSession(w, e)'
          BY <1>1, <2>3, <3>1, MovesPeerData
        <4>3. StartsEmpty(d)'
          BY <1>2, <2>4, <3>1, MovesStartsEmpty
        <4>. QED
          BY <1>1, <4>1, <4>2, <4>3
      <3>2. CASE Idles(d, v, w)
        <4>1. ASSUME NEW a \in Die PROVE DataInSession(w, a)'
          BY <2>3, <3>2, RestsData DEF Idles
        <4>2. StartsEmpty(d)'
          BY <3>2 DEF Idles, StartsEmpty, Half, Idle, QueuesReq
        <4>. QED
          BY <4>1, <4>2
      <3>. QED
        BY <2>8, <3>1, <3>2
    <2>11. StartsEmpty(e)'
      <3>1. StartsEmpty(e)
        BY <1>1, <2>4
      <3>2. Half(e)' = Half(e) /\ (QueuesReq(e, "activate")' <=> QueuesReq(e, "activate"))
        BY <2>1 DEF Half, Idle, QueuesReq
      <3>. QED
        BY <2>1, <3>1, <3>2 DEF StartsEmpty
    <2>12. Coherent(w)'
      BY <2>8, <2>9, <2>10 DEF Coherent
    <2>. QED
      BY <1>1, <2>10, <2>11, <2>12
  <1>. QED
    BY <1>5, <1>6 DEF HandshakeInv

\* The registers and FIFOs of the handshakes.
handVars == <<st, hs, actq, misc, gap>>

\* A step that neither sends nor receives.
LEMMA StillRests ==
    ASSUME UNCHANGED handVars, NEW v, NEW h \in Handshake, InStep(v, h)
    PROVE  /\ Rests(v, v)
           /\ \A a \in Die : Line(v, a)' = Line(v, a)
  BY DEF handVars, Line, Rests, InStep

LEMMA StillCoherent ==
    ASSUME UNCHANGED handVars, NEW v, NEW h \in Handshake, InStep(v, h),
           \A a \in Die : DataInSession(v, a)
    PROVE  InStep(v, h)' /\ \A a \in Die : DataInSession(v, a)'
  BY StillRests, RestsInStep, RestsData

\* Data join the line of d, or leave it.
Extended(d, kind, v, w) == w = [v EXCEPT ![d] = Append(@, kind)]
Consumed(d, v, w) == w = [v EXCEPT ![d] = Tail(@)]

\* Data are no message of a handshake.
LEMMA SendRests ==
    ASSUME TypeOK, UNCHANGED handVars, NEW d \in Die, misc[d] = <<>>, NEW kind \in Kind,
           NEW v \in [Die -> Seq(Item)], NEW h \in Handshake, InStep(v, h),
           NEW w, Extended(d, kind, v, w)
    PROVE  /\ Rests(v, w)
           /\ Line(w, d)' = Append(Line(v, d), kind)
           /\ \A a \in Die \ {d} : Line(w, a)' = Line(v, a)
  <1>1. w[d] = Append(v[d], kind) /\ (\A a \in Die \ {d} : w[a] = v[a])
    BY DEF Extended
  <1>2. v[d] \in Seq(Item) /\ kind \in Item /\ Append(v[d], kind) \in Seq(Item)
    BY ItemFacts, AppendProperties
  <1>3. /\ Line(v, d) = v[d]
        /\ Line(w, d)' = Append(v[d], kind)
    BY <1>1, <1>2, ConcatEmptySeq DEF Line, handVars
  <1>4. \A a \in Die \ {d} : Line(w, a)' = Line(v, a)
    BY <1>1 DEF Line, handVars
  <1>5. PICK L \in Seq(Item) : L = Line(v, d)
    BY <1>2, <1>3
  <1>6. PICK K : K = Line(w, d)'
    OBVIOUS
  <1>7. K = Append(L, kind) /\ Once(L)
    BY <1>3, <1>5, <1>6 DEF InStep
  <1>8. Once(K)
    <2>1. \A T \in Token : kind \notin T
      BY ItemFacts, MessageFacts DEF Token
    <2>. QED
      BY <1>2, <1>7, <2>1, AppendOnce
  <1>9. ASSUME NEW S \in SUBSET Message
        PROVE  /\ Holds(K, S) <=> Holds(L, S)
               /\ \A T : Before(L, S, T) => Before(K, S, T)
    <2>1. kind \notin S
      BY ItemFacts
    <2>2. Holds(K, S) <=> Holds(L, S)
      BY <1>2, <1>7, <2>1, AppendHolds
    <2>3. ASSUME NEW T, Before(L, S, T) PROVE Before(K, S, T)
      BY <1>2, <1>7, <2>1, <2>3, AppendBefore
    <2>. QED
      BY <2>2, <2>3
  <1>10. Rests(v, w)
    <2>1. ASSUME NEW a \in Die, a # d
          PROVE  Line(w, a)' = Line(v, a) /\ Once(Line(v, a))
      BY <1>4, <2>1 DEF InStep
    <2>. QED
      BY <1>5, <1>6, <1>8, <1>9, <2>1 DEF Rests, handVars
  <1>. QED
    BY <1>3, <1>4, <1>10

LEMMA RecvRests ==
    ASSUME TypeOK, UNCHANGED handVars, NEW d \in Die,
           NEW v \in [Die -> Seq(Item)], v[d] # <<>>, Head(v[d]) \in Kind,
           NEW h \in Handshake, InStep(v, h),
           NEW w, Consumed(d, v, w)
    PROVE  /\ Rests(v, w)
           /\ Line(w, d)' = Tail(Line(v, d))
           /\ Line(v, d) # <<>> /\ Head(Line(v, d)) \in Kind
           /\ \A a \in Die \ {d} : Line(w, a)' = Line(v, a)
  <1>1. w[d] = Tail(v[d]) /\ (\A a \in Die \ {d} : w[a] = v[a])
    BY DEF Consumed
  <1>2. Line(v, d) = v[d] \o misc[d] /\ v[d] \in Seq(Item) /\ misc[d] \in Seq(Item)
        /\ Line(v, d) \in Seq(Item)
    BY LineType DEF Line
  <1>3. /\ Line(v, d) # <<>> /\ Head(Line(v, d)) = Head(v[d])
        /\ Tail(v[d]) \o misc[d] = Tail(Line(v, d))
    <2>1. /\ v[d] \o misc[d] # <<>> /\ Head(v[d] \o misc[d]) = Head(v[d])
          /\ Tail(v[d]) \o misc[d] = Tail(v[d] \o misc[d])
      BY <1>2, DecodedLine
    <2>. QED
      BY <1>2, <2>1
  <1>4. /\ Line(w, d)' = Tail(Line(v, d))
        /\ \A a \in Die \ {d} : Line(w, a)' = Line(v, a)
    BY <1>1, <1>3 DEF Line, handVars
  <1>5. PICK L \in Seq(Item) : L = Line(v, d)
    BY <1>2
  <1>6. PICK K : K = Line(w, d)'
    OBVIOUS
  <1>7. K = Tail(L) /\ L # <<>> /\ Once(L)
    BY <1>3, <1>4, <1>5, <1>6 DEF InStep
  <1>8. Once(K)
    BY <1>7, TailOnce
  <1>9. ASSUME NEW S \in SUBSET Message
        PROVE  /\ Holds(K, S) <=> Holds(L, S)
               /\ \A T : Before(L, S, T) => Before(K, S, T)
    <2>1. Head(L) \notin S
      BY <1>3, <1>5, ItemFacts
    <2>2. Holds(K, S) <=> Holds(L, S)
      BY <1>7, <2>1, TailHolds
    <2>3. ASSUME NEW T, Before(L, S, T) PROVE Before(K, S, T)
      BY <1>7, <2>3, TailBefore
    <2>. QED
      BY <2>2, <2>3
  <1>10. Rests(v, w)
    <2>1. ASSUME NEW a \in Die, a # d
          PROVE  Line(w, a)' = Line(v, a) /\ Once(Line(v, a))
      BY <1>4, <2>1 DEF InStep
    <2>. QED
      BY <1>5, <1>6, <1>8, <1>9, <2>1 DEF Rests, handVars
  <1>. QED
    BY <1>3, <1>4, <1>10

\* A die sends each kind only before the message that ends the kind.
LEMMA CreditedOpen ==
    ASSUME NEW d \in Die, NEW kind \in CreditedEn(d)
    PROVE  \/ st[d] = "ACTIVATE" /\ Full(d, "activate")
           \/ /\ Session(d)
              /\ IF kind \in Ended(d) THEN "tx_deactivate_req" \notin hs[d]
                                      ELSE "rx_deactivate_req" \notin hs[d]
  <1>. DEFINE in == Stalled(d)
  <1>1. Sent(d, in) = None /\ in.msg = None
    BY DEF Stalled, CtrlInput, Sent
  <1>2. CreditedBoot(d, in) => st[d] = "ACTIVATE" /\ Full(d, "activate")
    BY <1>1 DEF CreditedBoot, Full, None, TxReq, TxAck, RxReq, RxAck
  <1>3. \/ kind = "req" /\ TxReqCreditedMessageEn(d, in)
        \/ kind = "rsp" /\ TxRspCreditedMessageEn(d, in)
    BY DEF CreditedEn, Bit
  <1>4. CreditedBoot(d, in) \/ ~CreditedBoot(d, in)
    OBVIOUS
  <1>. QED
    BY <1>2, <1>3 DEF TxReqCreditedMessageEn, TxRspCreditedMessageEn, Ended, Kind

LEMMA CreditedCovered ==
    ASSUME TypeOK, NEW d \in Die, NEW v \in [Die -> Seq(Item)],
           NEW h \in Handshake, InStep(v, h),
           NEW K, NEW i, K[i] \in CreditedEn(d)
    PROVE  Covered(K, i, d)
  <1>1. CASE st[d] = "ACTIVATE" /\ Full(d, "activate")
    <2>1. Half(d) = "activate"
      BY <1>1 DEF Half, Idle
    <2>. QED
      BY <1>1, <2>1 DEF Covered
  <1>2. CASE Session(d) /\ K[i] \in Ended(d) /\ "tx_deactivate_req" \notin hs[d]
    BY <1>2 DEF Covered, Half, Idle, Session
  <1>3. CASE Session(d) /\ K[i] \notin Ended(d) /\ "rx_deactivate_req" \notin hs[d]
    <2>1. Half(d) = "deactivate"
      BY <1>3 DEF Half, Idle, Session
    <2>2. "rx_deactivate_ack" \notin hs[d]
      <3>1. CASE Here(v, d, h)
        <4>1. h = "deactivate"
          BY <2>1, <3>1 DEF Here
        <4>2. Peer(d) \in Die /\ Peer(Peer(d)) = d
          BY PeerFacts
        <4>3. Exchange(v, Peer(d), h)
          BY <4>2 DEF InStep
        <4>. QED
          BY <1>3, <4>1, <4>2, <4>3 DEF Exchange, RxAck, RxReq
      <3>2. CASE Behind(v, d, Other(h))
        <4>1. Other(h) = "deactivate"
          BY <2>1, <3>2 DEF Behind, Other, Second, Half, Idle
        <4>. QED
          BY <1>3, <3>2, <4>1 DEF Behind, RxReq
      <3>. QED
        BY <3>1, <3>2 DEF InStep
    <2>. QED
      BY <1>3, <2>1, <2>2 DEF Covered
  <1>. QED
    BY <1>1, <1>2, <1>3, CreditedOpen

\* The peer of a die whose data are next is in the session.
LEMMA DataArrives ==
    ASSUME TypeOK, NEW d \in Die, NEW v \in [Die -> Seq(Item)],
           NEW h \in Handshake, InStep(v, h), DataInSession(v, Peer(d)),
           Line(v, Peer(d)) # <<>>, Head(Line(v, Peer(d))) \in Kind
    PROVE  \/ Session(d)
           \/ st[d] = "ACTIVATE" /\ Full(d, "activate")
  <1>. DEFINE e == Peer(d)
              L == Line(v, e)
              a == "activate"
  <1>1. /\ e \in Die /\ Peer(e) = d /\ L \in Seq(Item)
        /\ st \in [Die -> State] /\ st[d] \in State /\ st[e] \in State
    BY PeerFacts, LineType DEF TypeOK, CtrlTypeOK
  <1>2. /\ ~Holds(L, {"ActivateAck"})
        /\ Covered(L, 1, e)
    <2>1. 1 \in DOMAIN L /\ L[1] = Head(L)
      BY <1>1, LenProperties, EmptySeq
    <2>. QED
      BY <1>1, <2>1, TailBefore DEF DataInSession
  <1>3. CASE Half(d) = "deactivate"
    BY <1>1, <1>3 DEF Half, Idle, Session, State
  <1>4. CASE Half(d) = a
    <2>1. /\ AckOf(a) = "ActivateAck" /\ TxAck(a) = "tx_activate_ack"
          /\ Second(a) = "ACTIVATE" /\ a \in Handshake /\ "deactivate" \in Handshake
          /\ Other(a) = "deactivate" /\ Other("deactivate") = a
      BY DEF AckOf, TxAck, Second, Handshake, Other
    <2>2. CASE Half(e) = a /\ Full(e, a)
      <3>1. Here(v, e, h)
        <4>1. ASSUME Behind(v, e, Other(h)) PROVE FALSE
          <5>1. Here(v, d, h)
            BY <1>1, <4>1, AheadOfBehind
          <5>2. st[e] = Second(Other(h)) /\ Other(h) \in Handshake /\ Other(h) # h
            BY <4>1, HandshakeFacts DEF Behind
          <5>3. Half(e) = Other(h)
            BY <1>1, <5>2, HalfFacts
          <5>. QED
            BY <1>4, <2>2, <5>1, <5>2, <5>3 DEF Here
        <4>. QED
          BY <1>1, <4>1 DEF InStep
      <3>2. h = a
        BY <2>2, <3>1 DEF Here
      <3>. QED
        <4>1. /\ {TxReq(a), RxReq(a), RxAck(a)} \subseteq hs[d] /\ st[d] = Second(a)
              /\ TxAck(a) \in hs[d]
          BY <1>1, <1>2, <2>1, <2>2, <3>1, <3>2, FullHere
        <4>. QED
          BY <2>1, <4>1 DEF Full
    <2>3. CASE Half(e) = "deactivate"
      <3>1. CASE h = a
        <4>1. Behind(v, e, "deactivate")
          BY <1>1, <2>1, <2>3, <3>1 DEF InStep, Here
        <4>2. /\ "tx_deactivate_req" \in hs[e] /\ "rx_deactivate_ack" \in hs[e]
              /\ ~Holds(L, Message)
          BY <4>1 DEF Behind, TxReq, RxAck
        <4>3. Followed(L, 1, DeactReq) \/ Followed(L, 1, {"DeactivateAck"})
          BY <1>2, <2>3, <4>2 DEF Covered, Ended
        <4>. QED
          BY <4>2, <4>3, FollowedHolds, SubHolds DEF Message
      <3>2. CASE h = "deactivate"
        <4>1. Behind(v, d, a)
          BY <1>4, <2>1, <3>2 DEF InStep, Here
        <4>. QED
          BY <1>2, <2>1, <4>1 DEF Behind, Full
      <3>. QED
        BY <3>1, <3>2 DEF Handshake
    <2>4. Half(e) \in Handshake
      BY <1>1, HalfFacts, <2>1
    <2>. QED
      BY <1>1, <1>2, <1>4, <2>2, <2>3, <2>4 DEF Covered, Handshake
  <1>. QED
    BY <1>3, <1>4 DEF Half

\* A die packs a message for its peer.
LEMMA SendInv ==
    ASSUME TypeOK, HandshakeInv, NEW d \in Die, SendData(d)
    PROVE  HandshakeInv'
  <1>. DEFINE e == Peer(d)
  <1>1. /\ e \in Die /\ e # d /\ Peer(e) = d /\ (\A a \in Die : a = d \/ a = e)
    BY PeerFacts
  <1>2. PICK kind \in CreditedEn(d) \cap Kind :
           wire' = IF link[e] THEN [wire EXCEPT ![d] = Append(@, kind)] ELSE wire
    BY ActivationAssumption DEF SendData
  <1>3. /\ UNCHANGED handVars /\ misc[d] = <<>>
        /\ UNCHANGED <<st, hs, actq, rx, link, faulted>>
    BY DEF SendData, ctrlVars, handVars
  <1>4. /\ wire'[e] = wire[e]
        /\ wire'[d] = IF link[e] THEN Append(wire[d], kind) ELSE wire[d]
    BY <1>1, <1>2 DEF TypeOK
  <1>5. \A a \in Die : ~link[a] => wire[Peer(a)] = <<>>
    BY DEF HandshakeInv
  <1>6. \A a \in Die : ~link'[a] => wire'[Peer(a)] = <<>>
    BY <1>1, <1>3, <1>4, <1>5
  <1>7. ASSUME Healthy'
        PROVE  /\ \E v \in [Die -> Seq(Item)] : Coherent(v)'
               /\ \A a \in Die : StartsEmpty(a)'
    <2>1. Healthy
      BY <1>3, <1>7 DEF Healthy
    <2>2. PICK v \in [Die -> Seq(Item)], h \in Handshake :
             /\ Agrees(v) /\ InStep(v, h)
             /\ \A a \in Die : DataInSession(v, a)
      BY <2>1 DEF HandshakeInv, Coherent
    <2>3. PICK w : w = [v EXCEPT ![d] = Append(@, kind)]
      OBVIOUS
    <2>4. w \in [Die -> Seq(Item)]
      <3>1. Append(v[d], kind) \in Seq(Item)
        BY ItemFacts, AppendProperties
      <3>. QED
        BY <2>3, <3>1
    <2>5. /\ Rests(v, w)
          /\ Line(w, d)' = Append(Line(v, d), kind)
          /\ \A a \in Die \ {d} : Line(w, a)' = Line(v, a)
      <3>1. Extended(d, kind, v, w) /\ kind \in Kind
        BY <2>3 DEF Extended
      <3>. QED
        BY <1>3, <2>2, <3>1, SendRests
    <2>6. InStep(w, h)'
      BY <2>2, <2>5, RestsInStep
    <2>7. Agrees(w)'
      BY <1>1, <1>3, <1>4, <2>2, <2>3 DEF Agrees
    <2>8. DataInSession(w, d)'
      <3>1. PICK L \in Seq(Item) : L = Line(v, d)
        BY LineType
      <3>2. PICK K : K = Line(w, d)'
        OBVIOUS
      <3>3. K = Append(L, kind) /\ kind \in Item /\ kind # "ActivateAck"
        BY <2>5, <3>1, <3>2 DEF Item, Kind
      <3>4. /\ Before(L, {"ActivateAck"}, Kind)
            /\ \A i \in DOMAIN L : L[i] \in Kind => Covered(L, i, d)
        BY <2>2, <3>1 DEF DataInSession
      <3>5. Before(K, {"ActivateAck"}, Kind)
        BY <3>3, <3>4, AppendBefore
      <3>6. ASSUME NEW i \in DOMAIN K, K[i] \in Kind
            PROVE  Covered(K, i, d)'
        <4>1. CASE /\ i \in DOMAIN L /\ K[i] = L[i]
                   /\ \A T : Followed(L, i, T) \/ kind \in T => Followed(K, i, T)
          <5>1. Covered(L, i, d)
            BY <3>4, <3>6, <4>1
          <5>. QED
            BY <2>5, <4>1, <5>1, RestsCovered
        <4>2. CASE i = Len(L) + 1 /\ K[i] = kind
          <5>1. Covered(K, i, d)
            BY <1>2, <2>2, <4>2, CreditedCovered
          <5>. QED
            BY <2>5, <5>1, RestsCovered
        <4>. QED
          BY <3>3, <3>6, <4>1, <4>2, DataAppend
      <3>. QED
        BY <3>2, <3>5, <3>6 DEF DataInSession
    <2>9. DataInSession(w, e)'
      BY <1>1, <2>2, <2>5, RestsData
    <2>10. ASSUME NEW a \in Die PROVE StartsEmpty(a)'
      <3>1. StartsEmpty(a)
        BY <2>1 DEF HandshakeInv
      <3>. QED
        BY <1>3, <3>1 DEF StartsEmpty, Half, Idle, QueuesReq
    <2>. QED
      BY <1>1, <2>4, <2>6, <2>7, <2>8, <2>9, <2>10 DEF Coherent
  <1>. QED
    BY <1>6, <1>7 DEF HandshakeInv

\* A die takes the message that is next.
LEMMA RecvInv ==
    ASSUME TypeOK, HandshakeInv, NEW d \in Die, RecvData(d)
    PROVE  HandshakeInv'
  <1>. DEFINE e == Peer(d)
  <1>1. /\ e \in Die /\ e # d /\ Peer(e) = d /\ (\A a \in Die : a = d \/ a = e)
    BY PeerFacts
  <1>2. /\ wire[e] # <<>> /\ Head(wire[e]) \in Kind
        /\ wire'[e] = Tail(wire[e]) /\ wire'[d] = wire[d]
        /\ rx'[d] = rx[d] \cup {"new"} /\ rx'[e] = rx[e]
    BY <1>1 DEF RecvData, TypeOK
  <1>3. /\ UNCHANGED handVars
        /\ UNCHANGED <<st, hs, actq, link, faulted>>
    BY DEF RecvData, ctrlVars, handVars
  <1>4. /\ link[d]
        /\ \A a \in Die : ~link[a] => wire[Peer(a)] = <<>>
    BY <1>2 DEF HandshakeInv
  <1>5. \A a \in Die : ~link'[a] => wire'[Peer(a)] = <<>>
    BY <1>1, <1>2, <1>3, <1>4
  <1>6. ASSUME Healthy'
        PROVE  /\ \E v \in [Die -> Seq(Item)] : Coherent(v)'
               /\ \A a \in Die : StartsEmpty(a)'
    <2>1. Healthy
      BY <1>3, <1>6 DEF Healthy
    <2>2. PICK v \in [Die -> Seq(Item)], h \in Handshake :
             /\ Agrees(v) /\ InStep(v, h)
             /\ \A a \in Die : DataInSession(v, a)
      BY <2>1 DEF HandshakeInv, Coherent
    <2>3. PICK w : w = [v EXCEPT ![e] = Tail(@)]
      OBVIOUS
    <2>4. v[e] = wire[e]
      BY <1>4, <2>2 DEF Agrees
    <2>5. w \in [Die -> Seq(Item)]
      <3>1. Tail(v[e]) \in Seq(Item)
        BY <1>1, <1>2, <2>4, TailType
      <3>. QED
        BY <2>3, <3>1
    <2>6. /\ Rests(v, w)
          /\ Line(w, e)' = Tail(Line(v, e))
          /\ Line(v, e) # <<>> /\ Head(Line(v, e)) \in Kind
          /\ \A a \in Die \ {e} : Line(w, a)' = Line(v, a)
      <3>1. Consumed(e, v, w)
        BY <2>3 DEF Consumed
      <3>2. v[e] # <<>> /\ Head(v[e]) \in Kind
        BY <1>2, <2>4
      <3>. QED
        BY <1>1, <1>3, <2>2, <3>1, <3>2, RecvRests
    <2>7. InStep(w, h)'
      BY <2>2, <2>6, RestsInStep
    <2>8. Agrees(w)'
      BY <1>1, <1>2, <1>3, <2>2, <2>3, <2>4 DEF Agrees
    <2>9. DataInSession(w, e)'
      <3>1. PICK L \in Seq(Item) : L = Line(v, e)
        BY <1>1, LineType
      <3>2. PICK K : K = Line(w, e)'
        OBVIOUS
      <3>3. K = Tail(L) /\ L # <<>>
        BY <2>6, <3>1, <3>2
      <3>4. /\ Before(L, {"ActivateAck"}, Kind)
            /\ \A i \in DOMAIN L : L[i] \in Kind => Covered(L, i, e)
        BY <1>1, <2>2, <3>1 DEF DataInSession
      <3>5. Before(K, {"ActivateAck"}, Kind)
        BY <3>3, <3>4, TailBefore
      <3>6. ASSUME NEW i \in DOMAIN K, K[i] \in Kind
            PROVE  Covered(K, i, e)'
        <4>1. /\ i + 1 \in DOMAIN L /\ K[i] = L[i + 1]
              /\ \A T : Followed(L, i + 1, T) => Followed(K, i, T)
          BY <3>3, <3>6, DataTail
        <4>2. Covered(L, i + 1, e)
          BY <3>4, <3>6, <4>1
        <4>. QED
          BY <1>1, <2>6, <4>1, <4>2, RestsCovered
      <3>. QED
        BY <3>2, <3>5, <3>6 DEF DataInSession
    <2>10. DataInSession(w, d)'
      BY <1>1, <2>2, <2>6, RestsData
    <2>11. ASSUME NEW a \in Die PROVE StartsEmpty(a)'
      <3>1. StartsEmpty(a)
        BY <2>1 DEF HandshakeInv
      <3>2. st[d] # "DISABLED"
        BY <1>1, <2>2, <2>6, DataArrives DEF Session
      <3>. QED
        BY <1>1, <1>2, <1>3, <3>1, <3>2 DEF StartsEmpty, Half, Idle, QueuesReq
    <2>. QED
      BY <1>1, <2>5, <2>7, <2>8, <2>9, <2>10, <2>11 DEF Coherent
  <1>. QED
    BY <1>5, <1>6 DEF HandshakeInv

\* Every other step keeps the lines, or cuts one at an end that is down.
LEMMA StillInv ==
    ASSUME HandshakeInv, UNCHANGED handVars,
           \A d \in Die : link'[d] => link[d] /\ wire'[Peer(d)] = wire[Peer(d)],
           \A d \in Die : ~link'[d] => wire'[Peer(d)] = <<>>,
           Healthy' => Healthy,
           \A d \in Die : rx'[d] \in {rx[d], rx[d] \ {"old"}, {}}
    PROVE  HandshakeInv'
  <1>1. ASSUME Healthy' PROVE \E v \in [Die -> Seq(Item)] : Coherent(v)'
    <2>1. PICK v \in [Die -> Seq(Item)], h \in Handshake :
             /\ Agrees(v) /\ InStep(v, h)
             /\ \A a \in Die : DataInSession(v, a)
      BY <1>1 DEF HandshakeInv, Coherent
    <2>2. InStep(v, h)' /\ \A a \in Die : DataInSession(v, a)'
      BY <2>1, StillCoherent
    <2>3. Agrees(v)'
      BY <2>1 DEF Agrees
    <2>. QED
      BY <2>2, <2>3 DEF Coherent
  <1>2. ASSUME Healthy', NEW d \in Die PROVE StartsEmpty(d)'
    <2>1. StartsEmpty(d)
      BY <1>2 DEF HandshakeInv
    <2>2. /\ st'[d] = st[d] /\ hs'[d] = hs[d]
          /\ Half(d)' = Half(d) /\ (QueuesReq(d, "activate")' <=> QueuesReq(d, "activate"))
      BY DEF handVars, Half, Idle, QueuesReq
    <2>3. ("old" \in rx'[d] => "old" \in rx[d]) /\ (rx[d] = {} => rx'[d] = {})
      OBVIOUS
    <2>. QED
      BY <2>1, <2>2, <2>3 DEF StartsEmpty
  <1>. QED
    BY <1>1, <1>2 DEF HandshakeInv

\* Two dies with nothing on their way, at reset or before the link is used.
LEMMA CleanCoherent ==
    ASSUME \A d \in Die : /\ st[d] = "DISABLED" /\ hs[d] = {} /\ actq[d] = <<>>
                          /\ misc[d] = <<>>,
           NEW v \in [Die -> Seq(Item)], \A d \in Die : v[d] = <<>>
    PROVE  /\ InStep(v, "activate")
           /\ \A d \in Die : DataInSession(v, d) /\ StartsEmpty(d)
  <1>1. ASSUME NEW d \in Die
        PROVE  /\ Line(v, d) = <<>> /\ Peer(d) \in Die
               /\ Half(d) = "activate"
               /\ \A h \in Handshake : ~QueuesReq(d, h) /\ ~QueuesAck(d, h)
    <2>1. Line(v, d) = <<>>
      BY ConcatSlots DEF Line
    <2>. QED
      BY <2>1, PeerFacts, EmptyQueue DEF Half, Idle
  <1>2. ASSUME NEW d \in Die
        PROVE  /\ Once(Line(v, d)) /\ DataInSession(v, d)
               /\ \A S : ~Holds(Line(v, d), S)
    BY <1>1 DEF Once, DataInSession, Before, Holds
  <1>3. ASSUME NEW d \in Die
        PROVE  /\ Exchange(v, d, "activate") /\ Here(v, d, "activate")
               /\ StartsEmpty(d)
    <2>1. Exchange(v, d, "activate")
      BY <1>1, <1>2 DEF Exchange, Handshake
    <2>2. Here(v, d, "activate")
      BY <1>1, <1>2 DEF Here, Full
    <2>3. StartsEmpty(d)
      BY <1>1 DEF StartsEmpty, Handshake
    <2>. QED
      BY <2>1, <2>2, <2>3
  <1>4. \E d \in Die : Half(d) = "activate"
    BY <1>1, ActivationAssumption
  <1>. QED
    BY <1>2, <1>3, <1>4 DEF InStep

LEMMA InitHandshake == Init => HandshakeInv
  <1>. SUFFICES ASSUME Init PROVE HandshakeInv
    OBVIOUS
  <1>1. /\ \A d \in Die : /\ st[d] = "DISABLED" /\ hs[d] = {} /\ actq[d] = <<>>
                          /\ misc[d] = <<>> /\ wire[d] = <<>>
        /\ wire \in [Die -> Seq(Item)]
    BY EmptySeq DEF Init, CtrlInit
  <1>2. /\ InStep(wire, "activate")
        /\ \A d \in Die : DataInSession(wire, d) /\ StartsEmpty(d)
    BY <1>1, CleanCoherent
  <1>3. Coherent(wire)
    BY <1>2 DEF Coherent, Agrees, Handshake
  <1>. QED
    BY <1>1, <1>2, <1>3, PeerFacts DEF HandshakeInv

LEMMA ResetInv ==
    ASSUME TypeOK, HandshakeInv, NEW d \in Die, SwReset(d)
    PROVE  HandshakeInv'
  <1>1. \A a \in Die : ~link[a] /\ wire[Peer(a)] = <<>>
    BY DEF SwReset, HandshakeInv
  <1>2. link' = link /\ wire' = [wire EXCEPT ![d] = <<>>]
    BY DEF SwReset
  <1>3. \A a \in Die : wire'[Peer(a)] = <<>>
    BY <1>1, <1>2, PeerFacts DEF TypeOK
  <1>. QED
    BY <1>1, <1>2, <1>3 DEF HandshakeInv, Healthy

LEMMA RestartInv ==
    ASSUME TypeOK, LinkRestart
    PROVE  HandshakeInv'
  <1>1. /\ \A d \in Die : /\ st[d] = "DISABLED" /\ hs[d] = {} /\ actq[d] = <<>>
                          /\ misc[d] = <<>> /\ wire[d] = <<>>
        /\ UNCHANGED handVars /\ wire' = wire /\ rx' = rx
        /\ \A d \in Die : link'[d]
    BY DEF LinkRestart, Clean, ctrlVars, handVars
  <1>2. PICK v \in [Die -> Seq(Item)] : v = wire
    BY ItemFacts DEF TypeOK
  <1>3. /\ InStep(v, "activate")
        /\ \A d \in Die : DataInSession(v, d) /\ StartsEmpty(d)
    BY <1>1, <1>2, CleanCoherent
  <1>4. "activate" \in Handshake
    BY DEF Handshake
  <1>5. InStep(v, "activate")' /\ \A d \in Die : DataInSession(v, d)'
    BY <1>1, <1>3, <1>4, StillCoherent
  <1>6. Coherent(v)'
    BY <1>1, <1>2, <1>4, <1>5 DEF Coherent, Agrees
  <1>7. ASSUME NEW d \in Die PROVE StartsEmpty(d)'
    BY <1>1, <1>3 DEF StartsEmpty, handVars, Half, Idle, QueuesReq
  <1>. QED
    BY <1>1, <1>6, <1>7 DEF HandshakeInv

LEMMA NextHandshake ==
    ASSUME TypeOK, HandshakeInv, [Next]_vars
    PROVE  HandshakeInv'
  <1>0. \A d \in Die : ~link[d] => wire[Peer(d)] = <<>>
    BY DEF HandshakeInv
  <1>1. ASSUME NEW d \in Die, Clock(d) \/ Pack(d) \/ Decode(d)
        PROVE  HandshakeInv'
    BY <1>1, EdgeCases, EdgeInv
  <1>2. ASSUME NEW d \in Die, SendData(d) PROVE HandshakeInv'
    BY <1>2, SendInv
  <1>3. ASSUME NEW d \in Die, RecvData(d) PROVE HandshakeInv'
    BY <1>3, RecvInv
  <1>4. ASSUME NEW d \in Die, DrainData(d) PROVE HandshakeInv'
    <2>1. /\ UNCHANGED handVars /\ UNCHANGED <<wire, link, faulted>>
          /\ \A a \in Die : rx'[a] \in {rx[a], rx[a] \ {"old"}, {}}
      BY <1>4 DEF DrainData, ctrlVars, handVars, TypeOK
    <2>2. Healthy' => Healthy
      BY <2>1 DEF Healthy
    <2>. QED
      BY <1>0, <2>1, <2>2, StillInv
  <1>5. ASSUME \/ \E d \in Die : \/ WriteActivateStart(d) \/ WriteDeactivateStart(d)
                                 \/ WriteDeactivateForce(d)
               \/ UNCHANGED vars
        PROVE  HandshakeInv'
    <2>1. UNCHANGED handVars /\ UNCHANGED <<wire, link, faulted, rx>>
      BY <1>5 DEF WriteActivateStart, WriteDeactivateStart, WriteDeactivateForce,
                  WriteInit, vars, ctrlVars, linkVars, handVars
    <2>2. Healthy' => Healthy
      BY <2>1 DEF Healthy
    <2>. QED
      BY <1>0, <2>1, <2>2, StillInv
  <1>6. ASSUME NEW d \in Die, LinkFall(d) PROVE HandshakeInv'
    <2>1. /\ UNCHANGED handVars /\ UNCHANGED <<faulted, rx>> /\ link[d] /\ ~link'[d]
          /\ wire' = [wire EXCEPT ![Peer(d)] = <<>>]
          /\ \A a \in Die \ {d} : link'[a] = link[a]
      BY <1>6 DEF LinkFall, ctrlVars, handVars, TypeOK
    <2>2. Healthy' => Healthy
      BY <2>1 DEF Healthy
    <2>3. \A a \in Die : /\ link'[a] => link[a] /\ wire'[Peer(a)] = wire[Peer(a)]
                         /\ ~link'[a] => wire'[Peer(a)] = <<>>
      BY <1>0, <2>1, PeerFacts DEF TypeOK
    <2>. QED
      BY <2>1, <2>2, <2>3, StillInv
  <1>7. ASSUME NEW d \in Die, SwReset(d) PROVE HandshakeInv'
    BY <1>7, ResetInv
  <1>8. CASE LinkDisable
    <2>1. (\A d \in Die : ~link'[d]) /\ wire' = wire /\ (\A d \in Die : wire[d] = <<>>)
      BY <1>8 DEF LinkDisable, Clean
    <2>. QED
      BY <2>1, PeerFacts DEF HandshakeInv, Healthy
  <1>9. CASE LinkRestart
    BY <1>9, RestartInv
  <1>. QED
    BY <1>1, <1>2, <1>3, <1>4, <1>5, <1>6, <1>7, <1>8, <1>9 DEF Next

\* The two dies stay in step: as long as no die has an error and one end of
\* the link is up, every message is where the flags of the two dies say it is,
\* and one die is ahead of the other by the Ack it sent last at most.
THEOREM HandshakeCorrect == Spec => []HandshakeInv
  <1>1. Init => TypeOK /\ HandshakeInv
    BY InitType, InitHandshake
  <1>2. (TypeOK /\ HandshakeInv) /\ [Next]_vars => (TypeOK /\ HandshakeInv)'
    BY NextType, NextHandshake
  <1>. QED
    BY <1>1, <1>2, PTL DEF Spec

-----------------------------------------------------------------------------
(* What follows from it.                                                   *)

\* An end that is up sees the wire as it would be without a loss.
LEMMA SoundLines ==
    ASSUME TypeOK, HandshakeInv, \A d \in Die : ~faulted[d], NEW d \in Die, link[d]
    PROVE  /\ StartsEmpty(d)
           /\ \E v \in [Die -> Seq(Item)], h \in Handshake :
                 /\ InStep(v, h)
                 /\ \A a \in Die : DataInSession(v, a)
                 /\ \A a \in Die : link[a] => v[Peer(a)] = wire[Peer(a)]
  <1>1. Healthy
    BY DEF Healthy
  <1>. QED
    BY <1>1 DEF HandshakeInv, Coherent, Agrees

\* The head of the wire is the head of the line.
LEMMA NextOnLine ==
    ASSUME TypeOK, NEW v \in [Die -> Seq(Item)], NEW e \in Die, v[e] = wire[e],
           wire[e] # <<>>
    PROVE  Line(v, e) # <<>> /\ Head(Line(v, e)) = Head(wire[e])
  <1>1. /\ v[e] \in Seq(Item) /\ misc[e] \in Seq(Item) /\ v[e] # <<>>
        /\ Line(v, e) = v[e] \o misc[e]
    BY LineType DEF Line
  <1>2. v[e] \o misc[e] # <<>> /\ Head(v[e] \o misc[e]) = Head(v[e])
    BY <1>1, DecodedLine
  <1>. QED
    BY <1>1, <1>2

LEMMA NextHeld ==
    ASSUME NEW s \in Seq(Item), s # <<>>, NEW S, Head(s) \in S
    PROVE  Holds(s, S)
  BY TailHolds

LEMMA NoInvalid ==
    ASSUME TypeOK, HandshakeInv, \A d \in Die : ~faulted[d], NEW d \in Die
    PROVE  ~InvalidActmsg(d, Arriving(d))
  <1>. DEFINE e == Peer(d)
              m == Arriving(d)
  <1>. SUFFICES ASSUME InvalidActmsg(d, m) PROVE FALSE
    OBVIOUS
  <1>1. /\ m # None /\ wire[e] # <<>> /\ m = Head(wire[e]) /\ m \in Message
        /\ gap[d] = 0
    <2>1. m # None
      BY DEF InvalidActmsg, None, DeactReq
    <2>. QED
      BY <2>1 DEF Arriving
  <1>2. e \in Die /\ Peer(e) = d /\ link[d]
    BY <1>1, PeerFacts DEF HandshakeInv
  <1>3. PICK v \in [Die -> Seq(Item)], h \in Handshake :
           InStep(v, h) /\ v[e] = wire[e]
    BY <1>2, SoundLines
  <1>4. PICK L \in Seq(Item) : L = Line(v, e)
    BY <1>2, LineType
  <1>5. L # <<>> /\ Head(L) = m
    BY <1>1, <1>2, <1>3, <1>4, NextOnLine
  <1>6. \A S : m \in S => Holds(L, S)
    BY <1>5, NextHeld
  <1>. HIDE DEF e, m
  <1>7. st[d] \in State /\ Other(h) \in Handshake /\ Other(Other(h)) = h
    BY HandshakeFacts DEF TypeOK, CtrlTypeOK
  <1>8. CASE Here(v, d, h)
    <2>1. m \in ReqOf(h) \cup {AckOf(h)} /\ Half(d) = h
      BY <1>1, <1>4, <1>6, <1>8 DEF Here, e
    <2>. QED
      BY <2>1 DEF InvalidActmsg, Half, Idle, Session, ReqOf, AckOf, DeactReq, m
  <1>9. CASE Behind(v, d, Other(h))
    <2>1. /\ m \in ReqOf(h) \cup {AckOf(Other(h))}
          /\ st[d] = Second(Other(h))
          /\ TxAck(Other(h)) \in hs[d] <=> ~Holds(L, {AckOf(Other(h))})
          /\ Before(L, {AckOf(Other(h))}, ReqOf(h))
          /\ ~(gap[d] > 0) => TxAck(Other(h)) \notin hs[d]
      BY <1>1, <1>4, <1>6, <1>7, <1>9 DEF Behind, e
    <2>2. Holds(L, {AckOf(Other(h))})
      BY <1>1, <2>1
    <2>3. m \notin ReqOf(h)
      BY <1>5, <2>1, <2>2, TailBefore
    <2>. QED
      BY <2>1, <2>3 DEF InvalidActmsg, Second, Idle, Session, AckOf, DeactReq, m
  <1>. QED
    BY <1>3, <1>8, <1>9 DEF InStep

\* As long as no die has an error, the next message to arrive is one that the
\* state of the die accepts: INVALID_ACTMSG_INFO is never set, and a LinkReset
\* never requested for it, however edges, register writes, deliveries and
\* link failures interleave.
THEOREM NoInvalidMessage == Spec => []NoInvalidActmsg
  <1>1. TypeOK /\ HandshakeInv => NoInvalidActmsg
    BY NoInvalid DEF NoInvalidActmsg
  <1>. QED
    BY <1>1, TypeCorrect, HandshakeCorrect, PTL

\* What a line holds is in transit.
LEMMA HeldInTransit ==
    ASSUME TypeOK, NEW v \in [Die -> Seq(Item)], NEW d \in Die, v[d] = wire[d],
           NEW m \in Message, Holds(Line(v, d), {m})
    PROVE  m \in MsgsIn(d)
  <1>1. Line(v, d) \in Seq(Item) /\ actq[d] \in Seq(Item)
    BY LineType, ItemFacts, SeqMonotonic DEF TypeOK, CtrlTypeOK
  <1>2. InTransit(d) = Line(v, d) \o actq[d]
    BY DEF InTransit, Line
  <1>3. Holds(InTransit(d), {m})
    BY <1>1, <1>2, ConcatHolds
  <1>. QED
    BY <1>3 DEF Holds, MsgsIn

LEMMA Agreement ==
    ASSUME TypeOK, HandshakeInv, Sound, NEW d \in Die, Session(d), Idle(Peer(d))
    PROVE  \/ /\ st[Peer(d)] = "ACTIVATE"
              /\ \/ "ActivateAck" \in MsgsIn(d)
                 \/ "tx_activate_ack" \in hs[Peer(d)]
           \/ /\ st[d] = "DEACTIVATE"
              /\ \/ "DeactivateAck" \in MsgsIn(Peer(d))
                 \/ "tx_deactivate_ack" \in hs[d]
  <1>. DEFINE e == Peer(d)
  <1>1. e \in Die /\ Peer(e) = d
    BY PeerFacts
  <1>2. PICK v \in [Die -> Seq(Item)], h \in Handshake :
           InStep(v, h) /\ v[e] = wire[e] /\ v[d] = wire[d]
    BY <1>1, SoundLines DEF Sound
  <1>3. Half(d) = "deactivate" /\ Half(e) = "activate"
    BY DEF Half, Idle, Session
  <1>4. CASE h = "activate"
    <2>1. Behind(v, d, "deactivate")
      BY <1>2, <1>3, <1>4 DEF InStep, Here, Other
    <2>2. /\ st[d] = "DEACTIVATE"
          /\ "tx_deactivate_ack" \in hs[d] \/ Holds(Line(v, e), {"DeactivateAck"})
      BY <2>1 DEF Behind, Second, TxAck, AckOf
    <2>3. "DeactivateAck" \in Message
      BY DEF Message
    <2>. QED
      BY <1>1, <1>2, <2>2, <2>3, HeldInTransit
  <1>5. CASE h = "deactivate"
    <2>1. Behind(v, e, "activate")
      BY <1>1, <1>2, <1>3, <1>5 DEF InStep, Here, Other
    <2>2. /\ st[e] = "ACTIVATE"
          /\ "tx_activate_ack" \in hs[e] \/ Holds(Line(v, d), {"ActivateAck"})
      BY <1>1, <2>1 DEF Behind, Second, TxAck, AckOf
    <2>3. "ActivateAck" \in Message
      BY DEF Message
    <2>. QED
      BY <1>2, <2>2, <2>3, HeldInTransit
  <1>. QED
    BY <1>4, <1>5 DEF Handshake

\* On a link that works, one die has the session and the other not only while
\* the Ack that lets the other follow is on its way or was just received.
THEOREM SessionsAgree == Spec => []SessionAgreement
  <1>1. TypeOK /\ HandshakeInv => SessionAgreement
    BY Agreement DEF SessionAgreement
  <1>. QED
    BY <1>1, TypeCorrect, HandshakeCorrect, PTL

LEMMA DataNext ==
    ASSUME TypeOK, HandshakeInv, Sound, NEW d \in Die, NextUp(d) \in Kind
    PROVE  \/ Session(d)
           \/ st[d] = "ACTIVATE" /\ "tx_activate_ack" \in hs[d]
  <1>. DEFINE e == Peer(d)
  <1>1. e \in Die
    BY PeerFacts
  <1>2. wire[e] # <<>> /\ Head(wire[e]) \in Kind
    BY ItemFacts DEF NextUp
  <1>3. PICK v \in [Die -> Seq(Item)], h \in Handshake :
           InStep(v, h) /\ DataInSession(v, e) /\ v[e] = wire[e]
    BY <1>1, SoundLines DEF Sound
  <1>. QED
    BY <1>1, <1>2, <1>3, NextOnLine, DataArrives DEF Full, TxAck

\* On a link that works, credited messages reach a die only in the session
\* they were sent in.
THEOREM DataStayInSession == Spec => []DataOnlyInSession
  <1>1. TypeOK /\ HandshakeInv => DataOnlyInSession
    BY DataNext DEF DataOnlyInSession
  <1>. QED
    BY <1>1, TypeCorrect, HandshakeCorrect, PTL

\* A die that may receive data has asked for the session, or is in it.
LEMMA AskedFirst ==
    ASSUME TypeOK, NEW d \in Die, NEW v \in [Die -> Seq(Item)],
           NEW h \in Handshake, InStep(v, h), Half(d) = "activate",
           \/ "tx_activate_ack" \in hs[d]
           \/ CreditedEn(Peer(d)) # {}
    PROVE  "tx_activate_req" \in hs[d]
  <1>. DEFINE e == Peer(d)
              a == "activate"
  <1>1. /\ e \in Die /\ Peer(e) = d /\ st[e] \in State /\ st \in [Die -> State]
    BY PeerFacts DEF TypeOK, CtrlTypeOK
  <1>2. /\ a \in Handshake /\ Other("deactivate") = a /\ Other(a) = "deactivate"
        /\ TxReq(a) = "tx_activate_req" /\ TxAck(a) = "tx_activate_ack"
    BY DEF Handshake, Other, TxReq, TxAck
  <1>3. CASE h = "deactivate"
    <2>1. Behind(v, d, a)
      BY <1>2, <1>3 DEF InStep, Here
    <2>. QED
      BY <1>2, <2>1 DEF Behind
  <1>4. CASE h = a
    <2>1. CASE "tx_activate_ack" \in hs[d]
      <3>1. Exchange(v, d, a) /\ Exchange(v, e, a)
        BY <1>1, <1>4 DEF InStep
      <3>. QED
        BY <1>1, <1>2, <2>1, <3>1 DEF Exchange
    <2>2. CASE Half(e) = a /\ Full(e, a)
      <3>1. Here(v, e, a)
        <4>1. ASSUME Behind(v, e, "deactivate") PROVE FALSE
          BY <2>2, <4>1 DEF Behind, Second, Half, Idle
        <4>. QED
          BY <1>1, <1>2, <1>4, <4>1 DEF InStep
      <3>2. TxReq(a) \in hs[Peer(e)]
        BY <1>1, <1>2, <1>4, <2>2, <3>1, FullHere
      <3>. QED
        BY <1>1, <1>2, <3>2
    <2>3. CASE /\ Half(e) = "deactivate"
               /\ "tx_deactivate_req" \notin hs[e] \/ "rx_deactivate_req" \notin hs[e]
      <3>1. Behind(v, e, "deactivate")
        BY <1>1, <1>2, <1>4, <2>3 DEF InStep, Here
      <3>. QED
        BY <2>3, <3>1 DEF Behind, TxReq, RxReq
    <2>4. CASE CreditedEn(e) # {}
      <3>1. Half(e) = IF st[e] = "ACTIVATE" THEN a ELSE Half(e)
        BY DEF Half, Idle
      <3>2. Session(e) => Half(e) = "deactivate"
        BY DEF Session, Half, Idle
      <3>. QED
        BY <1>1, <2>2, <2>3, <2>4, <3>1, <3>2, CreditedOpen
    <2>. QED
      BY <2>1, <2>4
  <1>. QED
    BY <1>3, <1>4 DEF Handshake

LEMMA FreshEmpty ==
    ASSUME TypeOK, HandshakeInv, Sound, NEW d \in Die,
           CreditedEn(Peer(d)) # {} \/ NextUp(d) \in Kind
    PROVE  "old" \notin rx[d]
  <1>. SUFFICES ASSUME "old" \in rx[d] PROVE FALSE
    OBVIOUS
  <1>1. Peer(d) \in Die
    BY PeerFacts
  <1>2. PICK v \in [Die -> Seq(Item)], h \in Handshake : InStep(v, h)
    BY <1>1, SoundLines DEF Sound
  <1>3. Half(d) = "activate" /\ "tx_activate_req" \notin hs[d]
    BY SoundLines DEF Sound, StartsEmpty
  <1>4. CASE CreditedEn(Peer(d)) # {}
    BY <1>2, <1>3, <1>4, AskedFirst
  <1>5. CASE NextUp(d) \in Kind
    <2>1. "tx_activate_ack" \in hs[d]
      BY <1>3, <1>5, DataNext DEF Half, Idle, Session
    <2>. QED
      BY <1>2, <1>3, <2>1, AskedFirst
  <1>. QED
    BY <1>4, <1>5

\* On a link that works, a receive FIFO is empty of the last session before
\* the peer may send in the next one, although only the die that asks for the
\* session looks at its FIFO.
THEOREM SessionsStartEmpty == Spec => []FreshSessionStartsEmpty
  <1>1. TypeOK /\ HandshakeInv => FreshSessionStartsEmpty
    BY FreshEmpty DEF FreshSessionStartsEmpty
  <1>. QED
    BY <1>1, TypeCorrect, HandshakeCorrect, PTL

LEMMA ConcatOnce ==
    ASSUME NEW U, NEW s \in Seq(U), NEW t \in Seq(U), Once(s), Once(t),
           \A T \in Token : ~(Holds(s, T) /\ Holds(t, T))
    PROVE  Once(s \o t)
  <1>. DEFINE c == s \o t
  <1>1. /\ DOMAIN s = 1..Len(s) /\ Len(s) \in Nat
        /\ DOMAIN t = 1..Len(t) /\ Len(t) \in Nat
        /\ c \in Seq(U) /\ DOMAIN c = 1..(Len(s) + Len(t))
        /\ \A i \in 1..Len(s) + Len(t) :
              c[i] = IF i <= Len(s) THEN s[i] ELSE t[i - Len(s)]
    <2>1. c \in Seq(U) /\ Len(c) = Len(s) + Len(t)
      BY ConcatProperties
    <2>. QED
      BY <2>1, ConcatProperties, LenProperties
  <1>. HIDE DEF c
  <1>. SUFFICES ASSUME NEW T \in Token, NEW i \in DOMAIN c, NEW j \in DOMAIN c,
                       c[i] \in T, c[j] \in T
                PROVE  i = j
    BY DEF Once, c
  <1>2. ASSUME NEW k \in DOMAIN c, c[k] \in T
        PROVE  \/ k \in DOMAIN s /\ s[k] \in T /\ Holds(s, T)
               \/ /\ k - Len(s) \in DOMAIN t /\ t[k - Len(s)] \in T /\ Holds(t, T)
                  /\ ~(k <= Len(s))
    <2>1. CASE k <= Len(s)
      <3>1. k \in DOMAIN s /\ s[k] \in T
        BY <1>1, <1>2, <2>1
      <3>. QED
        BY <3>1 DEF Holds
    <2>2. CASE ~(k <= Len(s))
      <3>1. k - Len(s) \in DOMAIN t /\ t[k - Len(s)] \in T
        BY <1>1, <1>2, <2>2
      <3>. QED
        BY <2>2, <3>1 DEF Holds
    <2>. QED
      BY <2>1, <2>2
  <1>3. CASE Holds(s, T)
    <2>1. i \in DOMAIN s /\ s[i] \in T /\ j \in DOMAIN s /\ s[j] \in T
      BY <1>2, <1>3
    <2>. QED
      BY <2>1 DEF Once
  <1>4. CASE ~Holds(s, T)
    <2>1. /\ i - Len(s) \in DOMAIN t /\ t[i - Len(s)] \in T
          /\ j - Len(s) \in DOMAIN t /\ t[j - Len(s)] \in T
      BY <1>2, <1>4
    <2>2. i - Len(s) = j - Len(s)
      BY <2>1 DEF Once
    <2>. QED
      BY <1>1, <2>2
  <1>. QED
    BY <1>3, <1>4

\* The activation FIFO holds a Req and an Ack of one handshake at most.
LEMMA QueueShape ==
    ASSUME TypeOK, NEW d \in Die, NEW h \in Handshake,
           actq[d] = <<>> \/ QueuesReq(d, h) \/ QueuesAck(d, h)
    PROVE  /\ Once(actq[d]) /\ Len(actq[d]) <= 2
           /\ Holds(actq[d], ReqOf(h)) => QueuesReq(d, h)
           /\ Holds(actq[d], {AckOf(h)}) => QueuesAck(d, h)
           /\ ~Holds(actq[d], Message \ (ReqOf(h) \cup {AckOf(h)}))
  <1>. DEFINE a == AckOf(h)
              R == ReqOf(h)
  <1>1. /\ a \notin R /\ a \in Message /\ R \subseteq Message
        /\ \A T \in Token : ~(a \in T /\ \E r \in R : r \in T)
    <2>1. \A T \in Token : T = R \/ T = {a} \/ T = ReqOf(Other(h)) \/ T = {AckOf(Other(h))}
      BY MessageFacts
    <2>. QED
      BY <2>1, MessageFacts, HandshakeFacts
  <1>2. CASE actq[d] = <<>>
    BY <1>2 DEF Once, Holds
  <1>3. CASE actq[d] = <<a>>
    <2>1. DOMAIN actq[d] = {1} /\ actq[d][1] = a /\ Len(actq[d]) = 1
      BY <1>3
    <2>2. QueuesAck(d, h)
      BY <1>3 DEF QueuesAck
    <2>. QED
      BY <1>1, <2>1, <2>2 DEF Once, Holds
  <1>4. ASSUME NEW r \in R, actq[d] = <<r>>
        PROVE  /\ Once(actq[d]) /\ Len(actq[d]) <= 2
               /\ Holds(actq[d], ReqOf(h)) => QueuesReq(d, h)
               /\ Holds(actq[d], {AckOf(h)}) => QueuesAck(d, h)
               /\ ~Holds(actq[d], Message \ (ReqOf(h) \cup {AckOf(h)}))
    <2>1. DOMAIN actq[d] = {1} /\ actq[d][1] = r /\ Len(actq[d]) = 1
      BY <1>4
    <2>2. QueuesReq(d, h)
      BY <1>4 DEF QueuesReq
    <2>. QED
      BY <1>1, <2>1, <2>2 DEF Once, Holds
  <1>5. ASSUME NEW r \in R, actq[d] = <<r, a>>
        PROVE  /\ Once(actq[d]) /\ Len(actq[d]) <= 2
               /\ Holds(actq[d], ReqOf(h)) => QueuesReq(d, h)
               /\ Holds(actq[d], {AckOf(h)}) => QueuesAck(d, h)
               /\ ~Holds(actq[d], Message \ (ReqOf(h) \cup {AckOf(h)}))
    <2>1. /\ DOMAIN actq[d] = {1, 2} /\ actq[d][1] = r /\ actq[d][2] = a
          /\ Len(actq[d]) = 2
      BY <1>5
    <2>2. QueuesReq(d, h) /\ QueuesAck(d, h)
      BY <1>5 DEF QueuesReq, QueuesAck
    <2>3. Once(actq[d])
      BY <1>1, <2>1 DEF Once
    <2>4. ~Holds(actq[d], Message \ (R \cup {a}))
      BY <2>1 DEF Holds
    <2>. QED
      BY <2>1, <2>2, <2>3, <2>4
  <1>. QED
    BY <1>2, <1>3, <1>4, <1>5 DEF QueuesReq, QueuesAck

\* What a die has on its way: each message once, and of two kinds at most.
LEMMA TransitOnce ==
    ASSUME TypeOK, NEW d \in Die, NEW v \in [Die -> Seq(Item)],
           NEW h \in Handshake, InStep(v, h)
    PROVE  /\ Once(Line(v, d) \o actq[d])
           /\ \E R \in Token, m \in Message :
                 ~Holds(Line(v, d) \o actq[d], Message \ (R \cup {m}))
           /\ Len(actq[d]) <= 2
  <1>. DEFINE e == Peer(d)
              o == Other(h)
              R == ReqOf(h)
              a == AckOf(h)
  <1>0. PICK L \in Seq(Item) : L = Line(v, d)
    BY LineType
  <1>1. /\ e \in Die /\ Peer(e) = d /\ actq[d] \in Seq(Item)
        /\ st \in [Die -> State]
        /\ o \in Handshake /\ Other(o) = h
    BY PeerFacts, HandshakeFacts, ItemFacts, SeqMonotonic DEF TypeOK, CtrlTypeOK
  <1>2. /\ Once(L) /\ Exchange(v, d, h) /\ Exchange(v, e, h)
    BY <1>0, <1>1 DEF InStep
  <1>3. /\ R \in Token /\ {a} \in Token /\ a \in Message /\ R \subseteq Message
        /\ AckOf(o) \in Message
        /\ \A T \in Token : T = R \/ T = {a} \/ T \subseteq Message \ (R \cup {a})
    <2>1. /\ R \in Token /\ {a} \in Token /\ a \in Message /\ R \subseteq Message
          /\ AckOf(o) \in Message /\ ReqOf(o) \subseteq Message
      BY <1>1, HandshakeFacts, MessageFacts
    <2>2. R \cap ReqOf(o) = {} /\ a \notin ReqOf(o) /\ AckOf(o) \notin R /\ a # AckOf(o)
      BY <1>1, MessageFacts
    <2>3. \A T \in Token : T = R \/ T = {a} \/ T = ReqOf(o) \/ T = {AckOf(o)}
      BY MessageFacts
    <2>. QED
      BY <2>1, <2>2, <2>3
  <1>. HIDE DEF R, a, o, e
  <1>4. CASE Here(v, d, h)
    <2>1. actq[d] = <<>> \/ QueuesReq(d, h) \/ QueuesAck(d, h)
      BY <1>4 DEF Here
    <2>2. /\ Once(actq[d]) /\ Len(actq[d]) <= 2
          /\ Holds(actq[d], R) => QueuesReq(d, h)
          /\ Holds(actq[d], {a}) => QueuesAck(d, h)
          /\ ~Holds(actq[d], Message \ (R \cup {a}))
      BY <2>1, QueueShape DEF R, a
    <2>3. /\ QueuesReq(d, h) => ~Holds(L, R)
          /\ QueuesAck(d, h) => ~Holds(L, {a})
      BY <1>0, <1>1, <1>2 DEF Exchange, R, a, e
    <2>4. ASSUME NEW T \in Token, Holds(L, T), Holds(actq[d], T) PROVE FALSE
      BY <1>3, <2>2, <2>3, <2>4, SubHolds
    <2>5. Once(L \o actq[d])
      BY <1>1, <1>2, <2>2, <2>4, ConcatOnce
    <2>6. CASE Here(v, e, h)
      <3>1. ~Holds(L, Message \ (R \cup {a}))
        BY <1>0, <1>1, <2>6 DEF Here, R, a
      <3>2. ~Holds(L \o actq[d], Message \ (R \cup {a}))
        BY <1>1, <2>2, <3>1, ConcatHolds
      <3>. QED
        BY <1>0, <1>3, <2>2, <2>5, <3>2
    <2>7. CASE Behind(v, e, o)
      <3>1. /\ ~Holds(L, Message \ (R \cup {AckOf(o)}))
            /\ hs[e] \subseteq FlagOf(o)
        BY <1>0, <1>1, <2>7 DEF Behind, R
      <3>2. ~QueuesAck(d, h)
        <4>1. TxReq(h) \notin FlagOf(o)
          BY <1>1 DEF Handshake, Other, TxReq, FlagOf, ActFlag, DeactFlag, DeactHs, o
        <4>2. QueuesAck(d, h) => TxReq(h) \in hs[e]
          BY <1>1, <1>2 DEF Exchange
        <4>. QED
          BY <3>1, <4>1, <4>2
      <3>3. ~Holds(actq[d], Message \ (R \cup {AckOf(o)}))
        <4>1. ASSUME NEW i \in DOMAIN actq[d], actq[d][i] \in Message \ R PROVE FALSE
          <5>1. actq[d][i] = a
            BY <2>2, <4>1 DEF Holds
          <5>. QED
            BY <2>2, <3>2, <4>1, <5>1 DEF Holds
        <4>. QED
          BY <4>1 DEF Holds
      <3>4. ~Holds(L \o actq[d], Message \ (R \cup {AckOf(o)}))
        BY <1>1, <3>1, <3>3, ConcatHolds
      <3>. QED
        BY <1>0, <1>3, <2>2, <2>5, <3>4
    <2>. QED
      BY <1>1, <2>6, <2>7 DEF InStep, o
  <1>5. CASE Behind(v, d, o)
    <2>1. actq[d] = <<>> /\ ~Holds(L, Message)
      BY <1>0, <1>5 DEF Behind
    <2>2. L \o actq[d] = L /\ Len(actq[d]) = 0
      BY <2>1, ConcatEmptySeq
    <2>3. ~Holds(L, Message \ (R \cup {a}))
      BY <2>1, SubHolds
    <2>4. Once(L \o actq[d]) /\ ~Holds(L \o actq[d], Message \ (R \cup {a}))
      BY <1>2, <2>2, <2>3
    <2>5. Len(actq[d]) <= 2
      BY <2>2
    <2>. QED
      BY <1>0, <1>3, <2>4, <2>5
  <1>. QED
    BY <1>4, <1>5 DEF InStep, o

LEMMA PairCardinality ==
    ASSUME NEW S, NEW x, NEW y, S \subseteq {x, y}
    PROVE  Cardinality(S) <= 2
  <1>1. IsFiniteSet({x, y}) /\ Cardinality({x, y}) <= 2
    <2>1. IsFiniteSet({x}) /\ Cardinality({x}) = 1
      BY FS_Singleton
    <2>2. {x, y} = {x} \cup {y}
      OBVIOUS
    <2>3. /\ IsFiniteSet({x} \cup {y})
          /\ Cardinality({x} \cup {y}) = IF y \in {x} THEN Cardinality({x})
                                         ELSE Cardinality({x}) + 1
      BY <2>1, FS_AddElement
    <2>. QED
      BY <2>1, <2>2, <2>3
  <1>2. Cardinality(S) <= Cardinality({x, y}) /\ IsFiniteSet(S)
    BY <1>1, FS_Subset
  <1>3. Cardinality(S) \in Nat /\ Cardinality({x, y}) \in Nat
    BY <1>1, <1>2, FS_CardinalityType
  <1>. QED
    BY <1>1, <1>2, <1>3

LEMMA NoDuplicate ==
    ASSUME TypeOK, HandshakeInv, Sound, NEW d \in Die
    PROVE  /\ \A i, j \in DOMAIN InTransit(d) :
                 /\ InTransit(d)[i] \in Message
                 /\ \/ InTransit(d)[i] = InTransit(d)[j]
                    \/ {InTransit(d)[i], InTransit(d)[j]} \subseteq DeactReq
                 => i = j
           /\ Cardinality(MsgsIn(d)) <= 2
  <1>1. Peer(d) \in Die /\ Peer(Peer(d)) = d
    BY PeerFacts
  <1>2. PICK v \in [Die -> Seq(Item)], h \in Handshake :
           InStep(v, h) /\ v[d] = wire[d]
    BY <1>1, SoundLines DEF Sound
  <1>3. PICK t : t = InTransit(d)
    OBVIOUS
  <1>4. t = Line(v, d) \o actq[d]
    BY <1>2, <1>3 DEF InTransit, Line
  <1>5. Once(t)
    BY <1>2, <1>4, TransitOnce
  <1>6. PICK R \in Token, m \in Message : ~Holds(t, Message \ (R \cup {m}))
    BY <1>2, <1>4, TransitOnce
  <1>7. ASSUME NEW i \in DOMAIN t, NEW j \in DOMAIN t, t[i] \in Message,
               t[i] = t[j] \/ {t[i], t[j]} \subseteq DeactReq
        PROVE  i = j
    <2>1. PICK T \in Token : t[i] \in T /\ t[j] \in T
      BY <1>7 DEF Token, Message, Handshake, ReqOf, AckOf, DeactReq
    <2>. QED
      BY <1>5, <2>1 DEF Once
  <1>8. Cardinality(MsgsIn(d)) <= 2
    <2>1. ASSUME NEW x \in MsgsIn(d) PROVE x = m \/ (x \in R /\ x \in Message)
      <3>1. PICK i \in DOMAIN t : x = t[i] /\ x \in Message
        BY <1>3 DEF MsgsIn
      <3>. QED
        BY <1>6, <3>1 DEF Holds
    <2>2. ASSUME NEW x \in MsgsIn(d), NEW y \in MsgsIn(d), x \in R, y \in R
          PROVE  x = y
      <3>1. PICK i \in DOMAIN t, j \in DOMAIN t : x = t[i] /\ y = t[j]
        BY <1>3 DEF MsgsIn
      <3>2. i = j
        BY <1>5, <2>2, <3>1 DEF Once
      <3>. QED
        BY <3>1, <3>2
    <2>3. \E r : MsgsIn(d) \subseteq {r, m}
      BY <2>1, <2>2
    <2>. QED
      BY <2>3, PairCardinality
  <1>. QED
    BY <1>3, <1>7, <1>8

\* On a link that works, a die has at most one request, in any of its forms,
\* and one Ack of each kind on their way, and no more than two messages: the
\* edge detectors of the start bits and the activation FIFO issue nothing
\* twice.
THEOREM MessagesNotDuplicated == Spec => []NoDuplicateActmsg
  <1>1. TypeOK /\ HandshakeInv => NoDuplicateActmsg
    BY NoDuplicate DEF NoDuplicateActmsg
  <1>. QED
    BY <1>1, TypeCorrect, HandshakeCorrect, PTL

-----------------------------------------------------------------------------
(* Without a fault, no die reports an error, and the link goes down at     *)
(* both ends at once, between sessions.                                    *)

Faultless == Faults \subseteq {"force"}

LinkUpBoth == \A d \in Die : link[d]

Calm ==
    /\ \A d \in Die : ~faulted[d]
    /\ LinkUpBoth \/ \A d \in Die : ~link[d] /\ Clean(d)

\* An edge of d that reports no error, and what it does to the wires.
Works(d, m, pack, in) ==
    /\ EdgeEffect(d, m, pack, in)
    /\ ~LinkError(d, in) /\ ~IntFdiLinkDown(d, in)
    /\ m # None => /\ wire[Peer(d)] # <<>> /\ m = Head(wire[Peer(d)])
                   /\ gap[d] = 0
    /\ wire'[d] = IF pack THEN Append(wire[d], Head(misc[d])) ELSE wire[d]
    /\ wire'[Peer(d)] = IF m = None THEN wire[Peer(d)] ELSE Tail(wire[Peer(d)])

LEMMA CalmCases ==
    ASSUME Faultless, TypeOK, NEW d \in Die, Clock(d) \/ Pack(d) \/ Decode(d)
    PROVE  \E m \in Message \cup {None}, pack \in BOOLEAN, bus \in Bus,
              credit \in BOOLEAN :
              /\ m = None \/ m = Arriving(d)
              /\ Edge(d, m, pack, bus, credit, {})
  <1>1. Credit(d) \subseteq BOOLEAN /\ Expiry(d) = {{}}
    BY DEF Credit, Expiry, Faultless
  <1>2. Arriving(d) \in Message \cup {None}
    BY DEF Arriving
  <1>3. CASE Clock(d)
    BY <1>1, <1>3 DEF Clock
  <1>4. CASE Pack(d)
    BY <1>1, <1>4 DEF Pack
  <1>5. CASE Decode(d)
    BY <1>1, <1>2, <1>5 DEF Decode
  <1>. QED
    BY <1>3, <1>4, <1>5

LEMMA EdgeWorks ==
    ASSUME Faultless, TypeOK, HandshakeInv, Calm,
           NEW d \in Die, Clock(d) \/ Pack(d) \/ Decode(d)
    PROVE  \E m \in Message \cup {None}, pack \in BOOLEAN : \E in : Works(d, m, pack, in)
  <1>1. PICK m \in Message \cup {None}, pack \in BOOLEAN, bus \in Bus,
             credit \in BOOLEAN :
           /\ m = None \/ m = Arriving(d)
           /\ Edge(d, m, pack, bus, credit, {})
    BY CalmCases
  <1>2. PICK in : in = CtrlInput(d, m, bus, credit, {})
    OBVIOUS
  <1>3. {} \in SUBSET armed[d] /\ Peer(d) \in Die
    BY PeerFacts
  <1>4. EdgeEffect(d, m, pack, in)
    BY <1>1, <1>2, <1>3, EdgeFrame
  <1>5. /\ wire'[d] = IF pack /\ link[Peer(d)] THEN Append(wire[d], Head(misc[d]))
                      ELSE wire[d]
        /\ wire'[Peer(d)] = IF m = None THEN wire[Peer(d)] ELSE Tail(wire[Peer(d)])
    BY <1>1, <1>3, EdgeWire
  <1>6. pack => link[Peer(d)]
    BY <1>3, <1>4 DEF Calm, LinkUpBoth, EdgeEffect
  <1>7. m # None => /\ wire[Peer(d)] # <<>> /\ m = Head(wire[Peer(d)])
                    /\ gap[d] = 0
    BY <1>1 DEF Arriving
  <1>8. ~LinkError(d, in)
    <2>1. in.expired = {} /\ in.msg = m
      BY <1>2 DEF CtrlInput
    <2>2. ~InvalidActmsg(d, m)
      <3>1. CASE m = None
        BY <3>1 DEF InvalidActmsg, None, DeactReq
      <3>2. CASE m = Arriving(d)
        BY <3>2, NoInvalid DEF Calm
      <3>. QED
        BY <1>1, <3>1, <3>2
    <2>. QED
      BY <2>1, <2>2 DEF LinkError
  <1>9. ~IntFdiLinkDown(d, in)
    <2>1. CASE LinkUpBoth
      BY <1>4, <2>1 DEF LinkUpBoth, EdgeEffect, IntFdiLinkDown, LinkFell
    <2>2. CASE ~LinkUpBoth
      <3>1. /\ st[d] = "DISABLED" /\ hs[d] = {} /\ actq[d] = <<>>
            /\ wire[Peer(d)] = <<>>
        BY <1>3, <2>2 DEF Calm, Clean
      <3>2. in.msg # "ActivateReq" /\ Sent(d, in) # "ActivateReq"
        BY <1>4, <1>7, <3>1 DEF EdgeEffect, Sent, Offered, None
      <3>. QED
        BY <3>1, <3>2 DEF IntFdiLinkDown
    <2>. QED
      BY <2>1, <2>2
  <1>. QED
    BY <1>4, <1>5, <1>6, <1>7, <1>8, <1>9 DEF Works

\* An edge on a link that is down.
LEMMA DownEdge ==
    ASSUME TypeOK, Calm, ~LinkUpBoth, NEW d \in Die, NEW m \in Message \cup {None},
           NEW pack \in BOOLEAN, NEW in, Works(d, m, pack, in)
    PROVE  /\ st'[d] = "DISABLED" /\ hs'[d] = {}
           /\ actq'[d] = <<>> /\ misc'[d] = <<>>
           /\ wire'[d] = <<>> /\ wire'[Peer(d)] = <<>>
  <1>1. Peer(d) \in Die
    BY PeerFacts
  <1>2. /\ ~link[d] /\ st[d] = "DISABLED" /\ hs[d] = {}
        /\ actq[d] = <<>> /\ misc[d] = <<>> /\ wire[d] = <<>> /\ wire[Peer(d)] = <<>>
    BY <1>1 DEF Calm, Clean
  <1>3. /\ ~in.link /\ m = None /\ in.msg = None /\ ~pack
        /\ st'[d] = NextState(d, in) /\ hs'[d] = NextFlags(d, in)
        /\ actq'[d] = NextActq(d, in)
        /\ misc'[d] = (IF pack THEN Tail(misc[d]) ELSE misc[d]) \o Slot(Sent(d, in))
    BY <1>2 DEF Works, EdgeEffect
  <1>4. Sent(d, in) = None
    BY <1>2 DEF Sent, Offered
  <1>5. Request(d, in) = None /\ Answer(d, in) = None
    BY <1>2, <1>3 DEF Request, Answer, ActivateLevel, DeactivateLevel, ForceLevel,
                      DeactivateEn, Session, DeactReq, None
  <1>6. NextState(d, in) = "DISABLED"
    BY <1>2 DEF NextState, ActReq
  <1>7. NextFlags(d, in) = {}
    BY <1>2, <1>3, <1>4 DEF NextFlags, SetFlags, Bit, DeactReq, None
  <1>8. actq'[d] = <<>>
    <2>1. actq'[d] = <<>> \o (<<>> \o <<>>) \/ actq'[d] = <<>> \o <<>>
      BY <1>2, <1>3, <1>4, <1>5 DEF NextActq, Pushed, Slot
    <2>. QED
      BY <2>1, ConcatSlots
  <1>9. misc'[d] = <<>>
    <2>1. misc'[d] = <<>> \o <<>>
      BY <1>2, <1>3, <1>4 DEF Slot
    <2>. QED
      BY <2>1, ConcatSlots
  <1>. QED
    BY <1>2, <1>3, <1>6, <1>7, <1>8, <1>9 DEF Works

LEMMA EdgeCalm ==
    ASSUME TypeOK, Calm, NEW d \in Die, NEW m \in Message \cup {None},
           NEW pack \in BOOLEAN, NEW in, Works(d, m, pack, in)
    PROVE  Calm'
  <1>. DEFINE e == Peer(d)
  <1>1. e \in Die /\ e # d /\ \A a \in Die : a = d \/ a = e
    BY PeerFacts
  <1>2. /\ link' = link /\ ~faulted'[d] /\ faulted'[e] = faulted[e]
        /\ st'[e] = st[e] /\ hs'[e] = hs[e] /\ actq'[e] = actq[e] /\ misc'[e] = misc[e]
    BY <1>1 DEF Works, EdgeEffect, Calm
  <1>3. \A a \in Die : ~faulted'[a]
    BY <1>1, <1>2 DEF Calm
  <1>4. CASE LinkUpBoth
    BY <1>2, <1>3, <1>4 DEF Calm, LinkUpBoth
  <1>5. CASE ~LinkUpBoth
    <2>1. Clean(e) /\ \A a \in Die : ~link[a]
      BY <1>1, <1>5 DEF Calm
    <2>2. /\ st'[d] = "DISABLED" /\ hs'[d] = {} /\ actq'[d] = <<>>
          /\ misc'[d] = <<>> /\ wire'[d] = <<>> /\ wire'[e] = <<>>
      BY <1>5, DownEdge
    <2>3. Clean(d)' /\ Clean(e)'
      BY <1>1, <1>2, <1>3, <2>1, <2>2 DEF Clean
    <2>. QED
      BY <1>1, <1>2, <1>3, <2>1, <2>3 DEF Calm
  <1>. QED
    BY <1>4, <1>5

LEMMA NextCalm ==
    ASSUME Faultless, TypeOK, HandshakeInv, Calm, [Next]_vars
    PROVE  Calm'
  <1>1. ASSUME NEW d \in Die, Clock(d) \/ Pack(d) \/ Decode(d) PROVE Calm'
    BY <1>1, EdgeWorks, EdgeCalm
  <1>2. ASSUME NEW d \in Die, SendData(d) PROVE Calm'
    <2>1. LinkUpBoth /\ link' = link /\ faulted' = faulted
      BY <1>2 DEF SendData, Calm
    <2>. QED
      BY <2>1 DEF Calm, LinkUpBoth
  <1>3. ASSUME NEW d \in Die, RecvData(d) PROVE Calm'
    <2>1. Peer(d) \in Die /\ wire[Peer(d)] # <<>> /\ link' = link /\ faulted' = faulted
      BY <1>3, PeerFacts DEF RecvData
    <2>. QED
      BY <2>1 DEF Calm, Clean, LinkUpBoth
  <1>4. ASSUME \/ \E d \in Die : \/ DrainData(d) \/ WriteActivateStart(d)
                                 \/ WriteDeactivateStart(d) \/ WriteDeactivateForce(d)
               \/ UNCHANGED vars
        PROVE  Calm'
    <2>1. UNCHANGED <<ctrlVars, misc, wire, link, faulted>>
      BY <1>4 DEF DrainData, WriteActivateStart, WriteDeactivateStart,
                  WriteDeactivateForce, WriteInit, vars, linkVars
    <2>. QED
      BY <2>1 DEF Calm, Clean, LinkUpBoth, ctrlVars
  <1>5. ASSUME NEW d \in Die, LinkFall(d) PROVE FALSE
    BY <1>5, PeerFacts DEF LinkFall, Calm, LinkUpBoth, Faultless
  <1>6. ASSUME NEW d \in Die, SwReset(d) PROVE FALSE
    BY <1>6 DEF SwReset, Calm, LinkUpBoth
  <1>7. CASE LinkDisable
    BY <1>7 DEF LinkDisable, Calm, Clean, ctrlVars
  <1>8. CASE LinkRestart
    BY <1>8 DEF LinkRestart, Calm, LinkUpBoth, ctrlVars
  <1>. QED
    BY <1>1, <1>2, <1>3, <1>4, <1>5, <1>6, <1>7, <1>8 DEF Next

LEMMA CalmInvariant == ASSUME Faultless PROVE Spec => []Calm
  <1>1. Init => Calm
    BY DEF Init, CtrlInit, Calm, LinkUpBoth
  <1>2. TypeOK /\ HandshakeInv /\ Calm /\ [Next]_vars => Calm'
    BY NextCalm
  <1>. QED
    BY <1>1, <1>2, TypeCorrect, HandshakeCorrect, PTL DEF Spec

\* On a link that is up, the dies see the lines as they are.
LEMMA CalmLines ==
    ASSUME TypeOK, HandshakeInv, Calm, LinkUpBoth
    PROVE  \E h \in Handshake :
              InStep(wire, h) /\ \A d \in Die : DataInSession(wire, d)
  <1>1. PICK a \in Die : TRUE
    BY ActivationAssumption
  <1>2. PICK v \in [Die -> Seq(Item)], h \in Handshake :
           /\ InStep(v, h)
           /\ \A d \in Die : DataInSession(v, d)
           /\ \A d \in Die : link[d] => v[Peer(d)] = wire[Peer(d)]
    BY <1>1, SoundLines DEF Calm, LinkUpBoth
  <1>3. v = wire
    <2>1. \A d \in Die : v[d] = wire[d]
      BY <1>2, PeerFacts DEF LinkUpBoth
    <2>. QED
      BY <2>1, ItemFacts DEF TypeOK
  <1>. QED
    BY <1>2, <1>3

-----------------------------------------------------------------------------
(* What the enable outputs say, in terms of the states and the flags.      *)

Told == Direction!Told

LEMMA ToldFacts ==
    /\ Direction!Kind = Kind
    /\ Told = Kind \/ Told = {"req"}
    /\ \A d \in Die : Ended(d) = Told
  <1>1. PICK a \in Die : TRUE
    BY ActivationAssumption
  <1>. QED
    BY <1>1, GrantorAssumption DEF Told, Direction!Told, Direction!Kind, Kind, Ended

LEMMA EndFacts ==
    /\ Sender \in Die /\ Grantor \in Die /\ Sender # Grantor
    /\ Peer(Grantor) = Sender /\ Peer(Sender) = Grantor
    /\ \A d \in Die : d = Sender \/ d = Grantor
  BY GrantorAssumption, PeerFacts DEF Sender

Booted(d) == st[d] = "ACTIVATE" /\ ActFlag \subseteq hs[d]
Acked(d)  == st[d] = "ACTIVATE" /\ "tx_activate_ack" \in hs[d]
AcksNow(d)   == st[d] = "ACTIVATE" /\ "rx_activate_ack" \in hs[d]

\* The kinds that a flag of each end of the session has not stopped.
Unstopped(d, told, own) ==
         (IF told \in hs[d] THEN {} ELSE Told)
    \cup (IF own \in hs[d] THEN {} ELSE Kind \ Told)

View ==
    /\ SenderPhase = IF Session(Sender) \/ Booted(Sender) THEN "open"
                     ELSE IF Acked(Sender) THEN "counting" ELSE "down"
    /\ CreditedEn(Sender) =
          IF Booted(Sender) THEN Kind
          ELSE IF Session(Sender)
          THEN Unstopped(Sender, "tx_deactivate_req", "rx_deactivate_req") ELSE {}
    /\ GrantorPhase = IF Session(Grantor) \/ ActFlag \subseteq hs[Grantor]
                      THEN "session" ELSE IF AcksNow(Grantor) THEN "boot" ELSE "down"
    /\ Grants =
          IF AcksNow(Grantor) THEN Kind
          ELSE IF Session(Grantor)
          THEN Unstopped(Grantor, "rx_deactivate_req", "tx_deactivate_req") ELSE {}
    /\ \A k : k \in Flying <=> k \in Kind /\ Holds(wire[Sender], {k})

\* The enables of a die at which nothing arrives and nothing leaves.
LEMMA EnableFacts ==
    ASSUME NEW d \in Die, NEW in, in.msg = None, Sent(d, in) = None
    PROVE  /\ CreditedBoot(d, in) <=> Booted(d)
           /\ AdvertiseBoot(d, in) <=> AcksNow(d)
           /\ CrdCountEn(d, in) <=> Acked(d) \/ Session(d)
           /\ TxReqCreditedMessageEn(d, in)
                 <=> Booted(d) \/ (Session(d) /\ "tx_deactivate_req" \notin hs[d])
           /\ TxRspCreditedMessageEn(d, in)
                 <=> \/ Booted(d)
                     \/ Session(d) /\ IF d \in SeparateRsp
                                      THEN "rx_deactivate_req" \notin hs[d]
                                      ELSE "tx_deactivate_req" \notin hs[d]
           /\ ReqCrdAdvertiseEn(d, in)
                 <=> AcksNow(d) \/ (Session(d) /\ "rx_deactivate_req" \notin hs[d])
           /\ RspCrdAdvertiseEn(d, in)
                 <=> \/ AcksNow(d)
                     \/ Session(d) /\ IF d \in SeparateRsp
                                      THEN "tx_deactivate_req" \notin hs[d]
                                      ELSE "rx_deactivate_req" \notin hs[d]
  <1>0. None \notin DeactReq /\ None # "ActivateAck"
    BY DEF DeactReq, None
  <1>1. CreditedBoot(d, in) <=> Booted(d)
    BY <1>0 DEF CreditedBoot, Booted, ActFlag
  <1>2. AdvertiseBoot(d, in) <=> AcksNow(d)
    BY <1>0 DEF AdvertiseBoot, AcksNow
  <1>3. CrdCountEn(d, in) <=> Acked(d) \/ Session(d)
    BY <1>0 DEF CrdCountEn, Acked
  <1>4. TxReqCreditedMessageEn(d, in)
           <=> Booted(d) \/ (Session(d) /\ "tx_deactivate_req" \notin hs[d])
    BY <1>0, <1>1 DEF TxReqCreditedMessageEn
  <1>5. ReqCrdAdvertiseEn(d, in)
           <=> AcksNow(d) \/ (Session(d) /\ "rx_deactivate_req" \notin hs[d])
    BY <1>2 DEF ReqCrdAdvertiseEn
  <1>6. TxRspCreditedMessageEn(d, in)
           <=> \/ Booted(d)
               \/ Session(d) /\ IF d \in SeparateRsp
                                THEN "rx_deactivate_req" \notin hs[d]
                                ELSE "tx_deactivate_req" \notin hs[d]
    BY <1>0, <1>1, <1>4 DEF TxRspCreditedMessageEn
  <1>7. RspCrdAdvertiseEn(d, in)
           <=> \/ AcksNow(d)
               \/ Session(d) /\ IF d \in SeparateRsp
                                THEN "tx_deactivate_req" \notin hs[d]
                                ELSE "rx_deactivate_req" \notin hs[d]
    BY <1>2, <1>5 DEF RspCrdAdvertiseEn
  <1>. QED
    BY <1>1, <1>2, <1>3, <1>4, <1>5, <1>6, <1>7

LEMMA ViewHolds == View
  <1>1. Sender \in Die /\ Grantor \in Die
    BY EndFacts
  <1>2. PICK in : in = Stalled(Sender)
    OBVIOUS
  <1>3. PICK out : out = Stalled(Grantor)
    OBVIOUS
  <1>4. /\ in.msg = None /\ Sent(Sender, in) = None
        /\ out.msg = None /\ Sent(Grantor, out) = None
    BY <1>2, <1>3 DEF Stalled, CtrlInput, Sent
  <1>5. /\ ~(Session(Sender) /\ Booted(Sender)) /\ (Booted(Sender) => Acked(Sender))
        /\ ~(Session(Grantor) /\ AcksNow(Grantor))
    BY DEF Session, Booted, Acked, AcksNow, ActFlag
  <1>6. /\ Told = {"req"} \/ Told = Kind
        /\ \A d \in Die : d \in SeparateRsp <=> Told = {"req"}
    BY <1>1, GrantorAssumption DEF Told, Direction!Told, Direction!Kind, Kind
  <1>7. SenderPhase = IF Session(Sender) \/ Booted(Sender) THEN "open"
                      ELSE IF Acked(Sender) THEN "counting" ELSE "down"
    <2>1. SenderPhase = IF ~CrdCountEn(Sender, in) THEN "down"
                        ELSE IF Session(Sender) \/ CreditedBoot(Sender, in) THEN "open"
                        ELSE "counting"
      BY <1>2 DEF SenderPhase
    <2>2. /\ CreditedBoot(Sender, in) <=> Booted(Sender)
          /\ CrdCountEn(Sender, in) <=> Acked(Sender) \/ Session(Sender)
      BY <1>1, <1>4, EnableFacts
    <2>. QED
      BY <1>5, <2>1, <2>2
  <1>8. GrantorPhase = IF Session(Grantor) \/ ActFlag \subseteq hs[Grantor]
                       THEN "session" ELSE IF AcksNow(Grantor) THEN "boot" ELSE "down"
    <2>1. AdvertiseBoot(Grantor, out) <=> AcksNow(Grantor)
      BY <1>1, <1>4, EnableFacts
    <2>. QED
      BY <1>3, <2>1 DEF GrantorPhase
  <1>9. CreditedEn(Sender) =
          IF Booted(Sender) THEN Kind
          ELSE IF Session(Sender)
          THEN Unstopped(Sender, "tx_deactivate_req", "rx_deactivate_req") ELSE {}
    <2>1. CreditedEn(Sender) = Bit(TxReqCreditedMessageEn(Sender, in), "req")
                               \cup Bit(TxRspCreditedMessageEn(Sender, in), "rsp")
      BY <1>2 DEF CreditedEn
    <2>2. /\ TxReqCreditedMessageEn(Sender, in)
                <=> Booted(Sender) \/ (Session(Sender) /\ "tx_deactivate_req" \notin hs[Sender])
          /\ TxRspCreditedMessageEn(Sender, in)
                <=> \/ Booted(Sender)
                    \/ Session(Sender) /\ IF Sender \in SeparateRsp
                                          THEN "rx_deactivate_req" \notin hs[Sender]
                                          ELSE "tx_deactivate_req" \notin hs[Sender]
      BY <1>1, <1>4, EnableFacts
    <2>3. \A k : k \in CreditedEn(Sender)
                   <=> \/ k = "req" /\ TxReqCreditedMessageEn(Sender, in)
                       \/ k = "rsp" /\ TxRspCreditedMessageEn(Sender, in)
      BY <2>1 DEF Bit
    <2>4. CASE Told = {"req"}
      BY <1>1, <1>5, <1>6, <2>2, <2>3, <2>4 DEF Unstopped, Kind
    <2>5. CASE Told = Kind
      BY <1>1, <1>5, <1>6, <2>2, <2>3, <2>5 DEF Unstopped, Kind
    <2>. QED
      BY <1>6, <2>4, <2>5
  <1>10. Grants =
          IF AcksNow(Grantor) THEN Kind
          ELSE IF Session(Grantor)
          THEN Unstopped(Grantor, "rx_deactivate_req", "tx_deactivate_req") ELSE {}
    <2>1. Grants = Bit(ReqCrdAdvertiseEn(Grantor, out), "req")
                   \cup Bit(RspCrdAdvertiseEn(Grantor, out), "rsp")
      BY <1>3 DEF Grants
    <2>2. /\ ReqCrdAdvertiseEn(Grantor, out)
                <=> AcksNow(Grantor) \/ (Session(Grantor) /\ "rx_deactivate_req" \notin hs[Grantor])
          /\ RspCrdAdvertiseEn(Grantor, out)
                <=> \/ AcksNow(Grantor)
                    \/ Session(Grantor) /\ IF Grantor \in SeparateRsp
                                           THEN "tx_deactivate_req" \notin hs[Grantor]
                                           ELSE "rx_deactivate_req" \notin hs[Grantor]
      BY <1>1, <1>4, EnableFacts
    <2>3. \A k : k \in Grants
                   <=> \/ k = "req" /\ ReqCrdAdvertiseEn(Grantor, out)
                       \/ k = "rsp" /\ RspCrdAdvertiseEn(Grantor, out)
      BY <2>1 DEF Bit
    <2>4. CASE Told = {"req"}
      BY <1>1, <1>5, <1>6, <2>2, <2>3, <2>4 DEF Unstopped, Kind
    <2>5. CASE Told = Kind
      BY <1>1, <1>5, <1>6, <2>2, <2>3, <2>5 DEF Unstopped, Kind
    <2>. QED
      BY <1>6, <2>4, <2>5
  <1>11. \A k : k \in Flying <=> k \in Kind /\ Holds(wire[Sender], {k})
    BY DEF Flying, Holds
  <1>. QED
    BY <1>7, <1>8, <1>9, <1>10, <1>11 DEF View

-----------------------------------------------------------------------------
(* What the handshakes of one die say about the other's enables.           *)

\* The grantor's part of a handshake that ends.
GrantorQueue ==
    Half(Grantor) = "deactivate" =>
        /\ QueuesReq(Grantor, "deactivate") => "tx_deactivate_req" \notin hs[Grantor]
        /\ QueuesAck(Grantor, "deactivate") =>
              /\ "rx_deactivate_req" \in hs[Grantor]
              /\ "rx_deactivate_ack" \notin hs[Grantor]
        /\ "rx_deactivate_ack" \in hs[Grantor] => "rx_deactivate_req" \in hs[Grantor]

\* ... and of one that begins.
GrantorBegins ==
    /\ "rx_activate_ack" \in hs[Grantor] => st[Grantor] = "ACTIVATE"
    /\ Half(Grantor) = "activate" =>
          /\ hs[Grantor] \subseteq ActFlag
          /\ ~Full(Grantor, "activate") /\ QueuesAck(Grantor, "activate") =>
                ~Acked(Sender) /\ ~Session(Sender)

\* What a sender that has the Ack, and one that was told, knows of the grantor.
SenderKnows ==
    /\ Acked(Sender) => Told \subseteq Grants
    /\ "rx_deactivate_req" \in hs[Sender] => Grants \subseteq Told
    /\ Session(Sender) /\ DeactHs \subseteq hs[Sender] => Closed

\* What a grantor that was told, and one that is done, knows of the sender.
GrantorKnows ==
    Session(Grantor) /\ "rx_deactivate_req" \in hs[Grantor] =>
        /\ "rx_deactivate_ack" \notin hs[Grantor] =>
              Session(Sender) /\ (CreditedEn(Sender) \cup Flying) \cap Told = {}
        /\ DeactHs \subseteq hs[Grantor] => CreditedEn(Sender) = {} /\ Flying = {}

\* Messages arrive in a session.
DataInGrant ==
    wire[Sender] # <<>> /\ Head(wire[Sender]) \in Kind => GrantorPhase = "session"

Agreed == GrantorQueue /\ GrantorBegins /\ SenderKnows /\ GrantorKnows /\ DataInGrant

\* The names of one handshake.
LEMMA NameFacts ==
    /\ "activate" \in Handshake /\ "deactivate" \in Handshake
    /\ Other("activate") = "deactivate" /\ Other("deactivate") = "activate"
    /\ TxReq("activate") = "tx_activate_req" /\ TxReq("deactivate") = "tx_deactivate_req"
    /\ TxAck("activate") = "tx_activate_ack" /\ TxAck("deactivate") = "tx_deactivate_ack"
    /\ RxReq("activate") = "rx_activate_req" /\ RxReq("deactivate") = "rx_deactivate_req"
    /\ RxAck("activate") = "rx_activate_ack" /\ RxAck("deactivate") = "rx_deactivate_ack"
    /\ FlagOf("activate") = ActFlag /\ FlagOf("deactivate") = DeactFlag
    /\ Second("activate") = "ACTIVATE" /\ Second("deactivate") = "DEACTIVATE"
    /\ ReqOf("activate") = {"ActivateReq"} /\ ReqOf("deactivate") = DeactReq
    /\ AckOf("activate") = "ActivateAck" /\ AckOf("deactivate") = "DeactivateAck"
  BY DEF Handshake, Other, TxReq, TxAck, RxReq, RxAck, FlagOf, Second, ReqOf, AckOf

\* The two dies in handshake h, or one of them still in the one before.
LEMMA PairCases ==
    ASSUME TypeOK, NEW d \in Die, NEW v, NEW h \in Handshake, InStep(v, h)
    PROVE  \/ Here(v, d, h) /\ Half(d) = h
           \/ /\ Behind(v, d, Other(h)) /\ Half(d) = Other(h)
              /\ Here(v, Peer(d), h) /\ Half(Peer(d)) = h
  <1>1. st \in [Die -> State] /\ st[d] \in State
    BY DEF TypeOK, CtrlTypeOK
  <1>2. CASE Here(v, d, h)
    BY <1>2 DEF Here
  <1>3. CASE Behind(v, d, Other(h))
    <2>1. Half(d) = Other(h)
      BY <1>1, <1>3, HandshakeFacts, HalfFacts DEF Behind
    <2>2. Here(v, Peer(d), h)
      BY <1>1, <1>3, AheadOfBehind
    <2>. QED
      BY <1>3, <2>1, <2>2 DEF Here
  <1>. QED
    BY <1>2, <1>3 DEF InStep

LEMMA SessionHalfNames ==
    ASSUME TypeOK, NEW d \in Die
    PROVE  /\ Half(d) = "activate" <=> Idle(d)
           /\ Half(d) = "deactivate" <=> Session(d)
           /\ Session(d) <=> ~Idle(d)
           /\ Acked(d) \/ AcksNow(d) \/ Booted(d) => Half(d) = "activate"
           /\ Booted(d) => Acked(d) /\ AcksNow(d)
  BY DEF TypeOK, CtrlTypeOK, State, Half, Idle, Session, Acked, AcksNow, Booted, ActFlag

\* The flags of two dies in different handshakes.
LEMMA ApartFlags ==
    ASSUME TypeOK, NEW d \in Die, NEW v, NEW h \in Handshake, InStep(v, h)
    PROVE  /\ Half(d) = "activate" => hs[d] \subseteq ActFlag
           /\ Half(d) = "deactivate" => hs[d] \subseteq DeactFlag
  BY PairCases, NameFacts, HandshakeFacts DEF Here, Behind, Handshake

LEMMA QueuedMessage ==
    ASSUME TypeOK, NEW h \in Handshake, InStep(wire, h)
    PROVE  GrantorQueue
  <1>. DEFINE G == Grantor
              S == Sender
  <1>1. /\ G \in Die /\ S \in Die /\ Peer(G) = S /\ Peer(S) = G
    BY EndFacts
  <1>2. CASE Here(wire, G, h) /\ h = "deactivate"
    <2>1. Exchange(wire, G, h) /\ Exchange(wire, S, h)
      BY <1>1 DEF InStep
    <2>. QED
      BY <1>1, <1>2, <2>1, NameFacts DEF Exchange, GrantorQueue
  <1>3. CASE Behind(wire, G, Other(h)) /\ Other(h) = "deactivate"
    <2>1. "rx_deactivate_req" \in hs[G] /\ actq[G] = <<>>
      BY <1>3, NameFacts DEF Behind
    <2>. QED
      BY <1>1, <2>1, NameFacts, EmptyQueue DEF GrantorQueue
  <1>. QED
    BY <1>1, <1>2, <1>3, PairCases DEF GrantorQueue

LEMMA Begins ==
    ASSUME TypeOK, NEW h \in Handshake, InStep(wire, h)
    PROVE  GrantorBegins
  <1>. DEFINE G == Grantor
              S == Sender
              a == "activate"
  <1>1. /\ G \in Die /\ S \in Die /\ Peer(G) = S /\ Peer(S) = G
    BY EndFacts
  <1>2. \A d \in Die : /\ Half(d) = "activate" => hs[d] \subseteq ActFlag
                       /\ Half(d) = "deactivate" => hs[d] \subseteq DeactFlag
    BY ApartFlags
  <1>3. "rx_activate_ack" \in hs[G] => st[G] = "ACTIVATE"
    <2>1. CASE Here(wire, G, h) /\ h = a
      BY <2>1, NameFacts DEF Here
    <2>2. CASE Behind(wire, G, Other(h)) /\ Other(h) = a
      BY <2>2, NameFacts DEF Behind
    <2>3. CASE Half(G) = "deactivate"
      BY <1>1, <1>2, <2>3 DEF DeactFlag, DeactHs
    <2>. QED
      BY <1>1, <2>1, <2>2, <2>3, PairCases, HandshakeFacts DEF Handshake
  <1>4. ASSUME Half(G) = a, ~Full(G, a), QueuesAck(G, a)
        PROVE  ~Acked(S) /\ ~Session(S)
    <2>1. Half(S) # "deactivate"
      <3>1. wire \in [Die -> Seq(Item)]
        BY ItemFacts DEF TypeOK
      <3>. QED
        BY <1>1, <1>4, <3>1, AckWaits
    <2>2. h = a
      BY <1>1, <1>4, <2>1, PairCases, NameFacts DEF Handshake
    <2>3. Exchange(wire, S, a)
      BY <1>1, <2>2 DEF InStep
    <2>4. "tx_activate_ack" \notin hs[S]
      BY <1>1, <1>4, <2>3, NameFacts DEF Exchange
    <2>. QED
      BY <1>1, <2>1, <2>4, SessionHalfNames DEF Acked
  <1>. QED
    BY <1>1, <1>2, <1>3, <1>4 DEF GrantorBegins

LEMMA SenderInformed ==
    ASSUME TypeOK, NEW h \in Handshake, InStep(wire, h)
    PROVE  SenderKnows
  <1>. DEFINE G == Grantor
              S == Sender
  <1>1. /\ G \in Die /\ S \in Die /\ Peer(G) = S /\ Peer(S) = G
        /\ wire \in [Die -> Seq(Item)] /\ Told \subseteq Kind
    BY EndFacts, ToldFacts, ItemFacts DEF TypeOK, Kind
  <1>2. \A d \in Die : /\ Half(d) = "activate" => hs[d] \subseteq ActFlag
                       /\ Half(d) = "deactivate" => hs[d] \subseteq DeactFlag
                       /\ Half(d) = "activate" <=> ~Session(d)
                       /\ Half(d) = "deactivate" <=> Session(d)
                       /\ Acked(d) \/ AcksNow(d) => Half(d) = "activate"
    BY ApartFlags, SessionHalfNames
  <1>3. ActFlag \cap DeactFlag = {}
    BY DEF ActFlag, DeactFlag, DeactHs
  <1>4. Grants = IF AcksNow(G) THEN Kind
                 ELSE IF Session(G)
                 THEN Unstopped(G, "rx_deactivate_req", "tx_deactivate_req") ELSE {}
    BY ViewHolds DEF View
  <1>. HIDE DEF G, S
  <1>5. ASSUME Session(S), h = "activate" PROVE ~AcksNow(G) /\ ~Session(G)
    <2>1. Half(S) = "deactivate" /\ Half(G) = "activate"
      BY <1>1, <1>2, <1>5, PairCases, NameFacts
    <2>2. Exchange(wire, S, h)
      BY <1>1 DEF InStep
    <2>3. "tx_activate_req" \notin hs[S]
      BY <1>1, <1>2, <2>1 DEF DeactFlag, DeactHs
    <2>4. "rx_activate_ack" \notin hs[G]
      BY <1>1, <1>5, <2>2, <2>3, NameFacts DEF Exchange
    <2>. QED
      BY <1>1, <1>2, <2>1, <2>4 DEF AcksNow
  <1>6. ASSUME Acked(S) PROVE Told \subseteq Grants
    <2>1. Half(S) = "activate" /\ "tx_activate_ack" \in hs[S]
      BY <1>1, <1>2, <1>6 DEF Acked
    <2>2. CASE h = "activate"
      <3>1. Exchange(wire, S, h)
        BY <1>1 DEF InStep
      <3>2. "rx_activate_ack" \in hs[G]
        BY <1>1, <2>1, <2>2, <3>1, NameFacts DEF Exchange
      <3>3. AcksNow(G)
        BY <1>1, <3>2, Begins DEF GrantorBegins, AcksNow, G
      <3>. QED
        BY <1>1, <1>4, <3>3
    <2>3. CASE h = "deactivate"
      <3>1. Half(G) = "deactivate"
        BY <1>1, <2>1, <2>3, PairCases, NameFacts
      <3>2. Exchange(wire, S, h)
        BY <1>1 DEF InStep
      <3>3. "tx_deactivate_req" \notin hs[S]
        BY <1>1, <1>2, <2>1 DEF ActFlag
      <3>4. "rx_deactivate_req" \notin hs[G]
        BY <1>1, <2>3, <3>2, <3>3, NameFacts DEF Exchange
      <3>. QED
        BY <1>1, <1>2, <1>4, <3>1, <3>4 DEF Unstopped
    <2>. QED
      BY <2>2, <2>3 DEF Handshake
  <1>7. ASSUME "rx_deactivate_req" \in hs[S] PROVE Grants \subseteq Told
    <2>1. Half(S) # "activate"
      BY <1>1, <1>2, <1>7 DEF ActFlag
    <2>2. Session(S)
      BY <1>1, <1>2, <2>1
    <2>3. CASE h = "activate"
      BY <1>4, <1>5, <2>2, <2>3
    <2>4. CASE h = "deactivate"
      <3>1. Exchange(wire, G, h)
        BY <1>1 DEF InStep
      <3>2. "tx_deactivate_req" \in hs[G]
        BY <1>1, <1>7, <2>4, <3>1, NameFacts DEF Exchange
      <3>3. ~AcksNow(G)
        BY <1>1, <1>2, <3>2 DEF ActFlag
      <3>. QED
        BY <1>4, <3>2, <3>3 DEF Unstopped
    <2>. QED
      BY <2>3, <2>4 DEF Handshake
  <1>8. ASSUME Session(S), DeactHs \subseteq hs[S] PROVE Closed
    <2>0. Half(S) = "deactivate" /\ Full(S, "deactivate")
      BY <1>1, <1>2, <1>8, NameFacts DEF Full, DeactHs
    <2>1. CASE h = "deactivate"
      <3>1. Here(wire, S, h)
        BY <1>1, <2>0, <2>1, PairCases, NameFacts
      <3>2. /\ Here(wire, G, h) /\ {"tx_deactivate_req", "rx_deactivate_ack"} \subseteq hs[G]
            /\ ~Holds(Line(wire, G), Message)
        <4>1. /\ Here(wire, Peer(S), h) /\ {TxReq(h), RxReq(h), RxAck(h)} \subseteq hs[Peer(S)]
              /\ ~Holds(Line(wire, Peer(S)), Message)
          BY <1>1, <2>0, <2>1, <3>1, FullHere
        <4>. QED
          BY <1>1, <2>1, <4>1, NameFacts
      <3>3. misc[G] = <<>>
        <4>1. wire[G] \in Seq(Item) /\ misc[G] \in Seq(Item) /\ misc[G] \in Seq(Message)
          BY <1>1, LineType
        <4>2. ~Holds(misc[G], Message)
          BY <3>2, <4>1, ConcatHolds DEF Line
        <4>. QED
          BY <4>1, <4>2, LenProperties, EmptySeq DEF Holds
      <3>4. GrantorPhase = "session"
        <4>1. Session(G)
          BY <1>1, <1>2, <2>1, <3>2 DEF Here
        <4>. QED
          BY <4>1, ViewHolds DEF View, G
      <3>. QED
        BY <3>2, <3>3, <3>4 DEF Closed, G
    <2>2. CASE h = "activate"
      <3>1. ~AcksNow(G) /\ ~Session(G)
        BY <1>5, <1>8, <2>2
      <3>2. ~(ActFlag \subseteq hs[G])
        BY <1>1, <3>1, Begins DEF GrantorBegins, AcksNow, ActFlag, G
      <3>3. GrantorPhase = "down"
        BY <3>1, <3>2, ViewHolds DEF View, G
      <3>4. Behind(wire, S, "deactivate")
        BY <1>1, <2>0, <2>2, PairCases, NameFacts
      <3>5. /\ ~Holds(Line(wire, G), Message \ {"ActivateReq", "DeactivateAck"})
            /\ ~Holds(Line(wire, G), {"DeactivateAck"})
        <4>1. "tx_deactivate_ack" \in hs[S]
          BY <1>8 DEF DeactHs
        <4>. QED
          BY <1>1, <3>4, <4>1, NameFacts DEF Behind
      <3>6. ~Holds(Line(wire, G), DeactReq \cup {"DeactivateAck"})
        BY <3>5 DEF Holds, Message, DeactReq
      <3>7. ~Holds(misc[G], DeactReq \cup {"DeactivateAck"})
        <4>1. wire[G] \in Seq(Item) /\ misc[G] \in Seq(Item)
          BY <1>1, LineType
        <4>. QED
          BY <3>6, <4>1, ConcatHolds DEF Line
      <3>. QED
        BY <3>3, <3>7 DEF Closed, Holds, G
    <2>. QED
      BY <2>1, <2>2 DEF Handshake
  <1>. QED
    BY <1>6, <1>7, <1>8 DEF SenderKnows, S

\* Data of the sender on the line, and what is still to follow them.
LEMMA FlyingCovered ==
    ASSUME TypeOK, DataInSession(wire, Sender), NEW k \in Flying
    PROVE  \/ Half(Sender) = "activate" /\ Full(Sender, "activate")
           \/ /\ Half(Sender) = "activate" /\ Half(Grantor) = "deactivate"
              /\ k \notin Told /\ Holds(Line(wire, Sender), {"DeactivateAck"})
           \/ /\ Half(Sender) = "deactivate"
              /\ IF k \in Told
                 THEN \/ "tx_deactivate_req" \notin hs[Sender]
                      \/ Holds(Line(wire, Sender), DeactReq)
                 ELSE \/ "rx_deactivate_ack" \notin hs[Sender]
                      \/ Holds(Line(wire, Sender), {"DeactivateAck"})
  <1>1. /\ wire \in [Die -> Seq(Item)] /\ Sender \in Die /\ Peer(Sender) = Grantor
        /\ Ended(Sender) = Told
    BY EndFacts, ToldFacts, ItemFacts DEF TypeOK
  <1>2. k \in Kind /\ Holds(wire[Sender], {k})
    BY ViewHolds DEF View
  <1>3. PICK L \in Seq(Item) : L = Line(wire, Sender)
    BY <1>1, LineType
  <1>4. Holds(L, {k})
    <2>1. wire[Sender] \in Seq(Item) /\ misc[Sender] \in Seq(Item)
      BY <1>1, LineType
    <2>. QED
      BY <1>2, <1>3, <2>1, ConcatHolds DEF Line
  <1>5. PICK i \in DOMAIN L : L[i] = k
    BY <1>4 DEF Holds
  <1>6. Covered(L, i, Sender)
    BY <1>2, <1>3, <1>5 DEF DataInSession
  <1>7. \A T : Followed(L, i, T) => Holds(L, T)
    BY FollowedHolds
  <1>. QED
    BY <1>1, <1>3, <1>5, <1>6, <1>7 DEF Covered

LEMMA GrantorInformed ==
    ASSUME TypeOK, NEW h \in Handshake, InStep(wire, h), DataInSession(wire, Sender)
    PROVE  GrantorKnows
  <1>. DEFINE G == Grantor
              S == Sender
              L == Line(wire, S)
  <1>1. /\ G \in Die /\ S \in Die /\ Peer(G) = S /\ Peer(S) = G
        /\ wire \in [Die -> Seq(Item)] /\ Told \subseteq Kind
    BY EndFacts, ToldFacts, ItemFacts DEF TypeOK, Kind
  <1>2. \A d \in Die : /\ Half(d) = "activate" => hs[d] \subseteq ActFlag
                       /\ Half(d) = "deactivate" => hs[d] \subseteq DeactFlag
                       /\ Half(d) = "activate" <=> ~Session(d)
                       /\ Half(d) = "deactivate" <=> Session(d)
                       /\ Acked(d) \/ Booted(d) => Half(d) = "activate"
                       /\ Booted(d) => Acked(d)
    BY ApartFlags, SessionHalfNames
  <1>3. CreditedEn(S) =
          IF Booted(S) THEN Kind
          ELSE IF Session(S)
          THEN Unstopped(S, "tx_deactivate_req", "rx_deactivate_req") ELSE {}
    BY ViewHolds DEF View
  <1>4. \A k \in Flying :
           \/ Half(S) = "activate" /\ Full(S, "activate")
           \/ /\ Half(S) = "activate" /\ Half(G) = "deactivate"
              /\ k \notin Told /\ Holds(L, {"DeactivateAck"})
           \/ /\ Half(S) = "deactivate"
              /\ IF k \in Told
                 THEN "tx_deactivate_req" \notin hs[S] \/ Holds(L, DeactReq)
                 ELSE "rx_deactivate_ack" \notin hs[S] \/ Holds(L, {"DeactivateAck"})
    BY FlyingCovered
  <1>. HIDE DEF G, S, L
  <1>5. ASSUME Session(G), "rx_deactivate_req" \in hs[G], "rx_deactivate_ack" \notin hs[G]
        PROVE  Session(S) /\ (CreditedEn(S) \cup Flying) \cap Told = {}
    <2>1. Here(wire, G, h) /\ h = "deactivate"
      BY <1>1, <1>2, <1>5, PairCases, NameFacts DEF Behind, Handshake
    <2>2. Exchange(wire, S, h)
      BY <1>1 DEF InStep
    <2>3. "tx_deactivate_req" \in hs[S] /\ ~Holds(L, DeactReq)
      BY <1>1, <1>5, <2>1, <2>2, NameFacts DEF Exchange, L
    <2>4. Session(S) /\ Half(S) = "deactivate"
      <3>1. Half(S) # "activate"
        BY <1>1, <1>2, <2>3 DEF ActFlag
      <3>. QED
        BY <1>1, <1>2, <3>1
    <2>5. CreditedEn(S) \cap Told = {}
      BY <1>1, <1>2, <1>3, <2>3, <2>4 DEF Unstopped
    <2>6. Flying \cap Told = {}
      BY <1>4, <2>3, <2>4
    <2>. QED
      BY <2>4, <2>5, <2>6
  <1>6. ASSUME Session(G), DeactHs \subseteq hs[G]
        PROVE  CreditedEn(S) = {} /\ Flying = {}
    <2>1. Half(G) = "deactivate" /\ Full(G, "deactivate")
      BY <1>1, <1>2, <1>6, NameFacts DEF Full, DeactHs
    <2>2. CASE h = "deactivate"
      <3>1. Here(wire, G, h)
        BY <1>1, <2>1, <2>2, PairCases, NameFacts
      <3>2. /\ Here(wire, Peer(G), h) /\ {TxReq(h), RxReq(h), RxAck(h)} \subseteq hs[Peer(G)]
            /\ ~Holds(Line(wire, Peer(G)), Message)
        BY <1>1, <2>1, <2>2, <3>1, FullHere
      <3>3. /\ {"tx_deactivate_req", "rx_deactivate_req", "rx_deactivate_ack"} \subseteq hs[S]
            /\ ~Holds(L, Message) /\ Half(S) = "deactivate"
        BY <1>1, <2>2, <3>2, NameFacts DEF Here, L
      <3>4. ~Holds(L, DeactReq) /\ ~Holds(L, {"DeactivateAck"})
        BY <3>3, SubHolds DEF Message
      <3>5. Session(S) /\ ~Booted(S)
        BY <1>1, <1>2, <3>3
      <3>6. CreditedEn(S) = {}
        BY <1>3, <3>3, <3>5 DEF Unstopped
      <3>. QED
        BY <1>4, <3>3, <3>4, <3>6
    <2>3. CASE h = "activate"
      <3>1. Behind(wire, G, "deactivate") /\ Half(S) = "activate"
        BY <1>1, <2>1, <2>3, PairCases, NameFacts
      <3>2. Exchange(wire, S, h)
        BY <1>1 DEF InStep
      <3>3. "tx_activate_ack" \notin hs[S]
        <4>1. "rx_activate_ack" \notin hs[G]
          BY <1>1, <1>2, <2>1 DEF DeactFlag, DeactHs
        <4>. QED
          BY <1>1, <2>3, <3>2, <4>1, NameFacts DEF Exchange
      <3>4. ~Holds(L, {"DeactivateAck"})
        <4>1. "tx_deactivate_ack" \in hs[G]
          BY <1>6 DEF DeactHs
        <4>. QED
          BY <1>1, <3>1, <4>1, NameFacts DEF Behind, L
      <3>5. ~Booted(S) /\ ~Session(S) /\ ~Full(S, "activate")
        BY <1>1, <1>2, <3>1, <3>3, NameFacts DEF Booted, Full, ActFlag
      <3>. QED
        BY <1>3, <1>4, <3>1, <3>4, <3>5
    <2>. QED
      BY <2>2, <2>3 DEF Handshake
  <1>. QED
    BY <1>5, <1>6 DEF GrantorKnows, G, S

LEMMA AgreedHolds ==
    ASSUME TypeOK, HandshakeInv, Calm
    PROVE  Agreed
  <1>1. /\ Grantor \in Die /\ Sender \in Die /\ Peer(Grantor) = Sender
        /\ wire \in [Die -> Seq(Item)]
    BY EndFacts, ItemFacts DEF TypeOK
  <1>2. CASE LinkUpBoth
    <2>1. PICK h \in Handshake :
             InStep(wire, h) /\ \A d \in Die : DataInSession(wire, d)
      BY <1>2, CalmLines
    <2>2. GrantorQueue /\ GrantorBegins /\ SenderKnows /\ GrantorKnows
      BY <1>1, <2>1, QueuedMessage, Begins, SenderInformed, GrantorInformed
    <2>3. ASSUME wire[Sender] # <<>>, Head(wire[Sender]) \in Kind
          PROVE  GrantorPhase = "session"
      <3>1. Line(wire, Sender) # <<>> /\ Head(Line(wire, Sender)) \in Kind
        BY <1>1, <2>3, NextOnLine
      <3>2. \/ Session(Grantor)
            \/ st[Grantor] = "ACTIVATE" /\ Full(Grantor, "activate")
        BY <1>1, <2>1, <3>1, DataArrives
      <3>. QED
        BY <3>2, ViewHolds, NameFacts DEF View, Full, ActFlag
    <2>. QED
      BY <2>2, <2>3 DEF Agreed, DataInGrant
  <1>3. CASE ~LinkUpBoth
    <2>1. \A d \in {Sender, Grantor} :
             st[d] = "DISABLED" /\ hs[d] = {} /\ actq[d] = <<>> /\ wire[d] = <<>>
      BY <1>1, <1>3 DEF Calm, Clean
    <2>2. /\ ~Session(Sender) /\ ~Session(Grantor) /\ ~Acked(Sender)
          /\ Half(Grantor) = "activate" /\ ~QueuesAck(Grantor, "activate")
      BY <1>1, <2>1, EmptyQueue DEF Session, Acked, Half, Idle
    <2>. QED
      BY <2>1, <2>2 DEF Agreed, GrantorQueue, GrantorBegins, SenderKnows, GrantorKnows,
                        DataInGrant
  <1>. QED
    BY <1>2, <1>3

-----------------------------------------------------------------------------
(* The steps.                                                              *)

\* What the steps of AouSession see.
mapped == <<SenderPhase, CreditedEn(Sender), GrantorPhase, Grants, Closed, Flying>>

LEMMA MappedFacts ==
    UNCHANGED mapped => UNCHANGED Direction!vars
  BY DEF mapped, Direction!vars

LEMMA ViewNext == View'
  BY ViewHolds, PTL

\* A die whose registers stay keeps its part.
LEMMA SenderKept ==
    ASSUME View, View', st'[Sender] = st[Sender], hs'[Sender] = hs[Sender]
    PROVE  SenderPhase' = SenderPhase /\ CreditedEn(Sender)' = CreditedEn(Sender)
  BY DEF View, Session, Booted, Acked, Unstopped

LEMMA GrantorKept ==
    ASSUME View, View', st'[Grantor] = st[Grantor], hs'[Grantor] = hs[Grantor],
           misc'[Grantor] = misc[Grantor]
    PROVE  GrantorPhase' = GrantorPhase /\ Grants' = Grants /\ Closed' = Closed
  <1>1. GrantorPhase' = GrantorPhase /\ Grants' = Grants
    BY DEF View, Session, AcksNow, Unstopped
  <1>. QED
    BY <1>1 DEF Closed

\* Only data count as flying.
LEMMA FlyingKept ==
    ASSUME View, View', TypeOK,
           \/ wire'[Sender] = wire[Sender]
           \/ \E x \in Message : wire'[Sender] = Append(wire[Sender], x)
           \/ /\ wire[Sender] # <<>> /\ Head(wire[Sender]) \in Message
              /\ wire'[Sender] = Tail(wire[Sender])
    PROVE  Flying' = Flying
  <1>1. Sender \in Die /\ wire[Sender] \in Seq(Item) /\ Message \subseteq Item
        /\ Message \cap Kind = {}
    BY EndFacts, ItemFacts DEF TypeOK
  <1>2. \A k \in Kind : Holds(wire'[Sender], {k}) <=> Holds(wire[Sender], {k})
    <2>1. CASE wire'[Sender] = wire[Sender]
      BY <2>1
    <2>2. ASSUME NEW x \in Message, wire'[Sender] = Append(wire[Sender], x),
                 NEW k \in Kind
          PROVE  Holds(wire'[Sender], {k}) <=> Holds(wire[Sender], {k})
      BY <1>1, <2>2, AppendHolds
    <2>3. ASSUME wire[Sender] # <<>>, Head(wire[Sender]) \in Message,
                 wire'[Sender] = Tail(wire[Sender]), NEW k \in Kind
          PROVE  Holds(wire'[Sender], {k}) <=> Holds(wire[Sender], {k})
      BY <1>1, <2>3, TailHolds
    <2>. QED
      BY <2>1, <2>2, <2>3
  <1>3. /\ \A k : k \in Flying <=> k \in Kind /\ Holds(wire[Sender], {k})
        /\ \A k : k \in Flying' <=> k \in Kind /\ Holds(wire'[Sender], {k})
    BY DEF View
  <1>. QED
    BY <1>2, <1>3

\* What an edge on a link that is up does to the handshake of its die.
LEMMA EdgeOutcome ==
    ASSUME TypeOK, TypeOK', HandshakeInv, Calm, LinkUpBoth,
           NEW d \in Die, NEW m \in Message \cup {None}, NEW pack \in BOOLEAN, NEW in,
           Works(d, m, pack, in)
    PROVE  \/ Switches(d, in, Half(d))
           \/ Continues(d, in, Half(d))
           \/ st'[d] = st[d] /\ hs'[d] = hs[d] /\ misc'[d] = misc[d]
  <1>1. PICK h \in Handshake : InStep(wire, h)
    BY CalmLines
  <1>2. PICK w : w = wire'
    OBVIOUS
  <1>3. wire \in [Die -> Seq(Item)] /\ w \in [Die -> Seq(Item)]
    BY <1>2, ItemFacts DEF TypeOK
  <1>4. ~faulted'[d] /\ Advances(d, m, pack, wire, w)
    BY <1>2 DEF Works, EdgeEffect, Calm, Advances
  <1>5. /\ link[d]
        /\ m # None => /\ wire[Peer(d)] # <<>> /\ m = Head(wire[Peer(d)])
                       /\ gap[d] = 0
    BY DEF Works, LinkUpBoth
  <1>6. \/ Moves(d, in, wire, w) /\ (Switches(d, in, Half(d)) \/ Continues(d, in, Half(d)))
        \/ Idles(d, wire, w)
    BY <1>1, <1>3, <1>4, <1>5, EdgeMoves DEF Works
  <1>. QED
    BY <1>6 DEF Idles, Rests

\* The registers of the other die, and what is not on the wires.
LEMMA WorksFrame ==
    ASSUME TypeOK, View, View', NEW d \in Die, NEW m \in Message \cup {None},
           NEW pack \in BOOLEAN, NEW in, Works(d, m, pack, in)
    PROVE  /\ d = Sender => GrantorPhase' = GrantorPhase /\ Grants' = Grants
                            /\ Closed' = Closed
           /\ d = Grantor => SenderPhase' = SenderPhase
                             /\ CreditedEn(Sender)' = CreditedEn(Sender)
           /\ Flying' = Flying
  <1>1. /\ Sender \in Die /\ Grantor \in Die /\ Sender # Grantor
        /\ Peer(Grantor) = Sender /\ (d = Sender \/ d = Grantor)
    BY EndFacts
  <1>2. \A e \in Die \ {d} : st'[e] = st[e] /\ hs'[e] = hs[e] /\ misc'[e] = misc[e]
    BY DEF Works, EdgeEffect
  <1>3. Flying' = Flying
    <2>1. CASE d = Sender
      <3>1. pack => Head(misc[d]) \in Message
        <4>1. misc[d] \in Seq(Message)
          BY DEF TypeOK
        <4>2. pack => misc[d] # <<>>
          BY DEF Works, EdgeEffect
        <4>. QED
          BY <4>1, <4>2, TailType
      <3>. QED
        BY <2>1, <3>1, FlyingKept DEF Works
    <2>2. CASE d = Grantor
      <3>1. m \in Message \/ wire'[Sender] = wire[Sender]
        BY <1>1, <2>2 DEF Works
      <3>. QED
        BY <1>1, <2>2, <3>1, FlyingKept, ItemFacts DEF Works
    <2>. QED
      BY <1>1, <2>1, <2>2
  <1>. QED
    BY <1>1, <1>2, <1>3, SenderKept, GrantorKept

\* The die that sends ends one handshake and enters the other.
LEMMA SenderSwitches ==
    ASSUME TypeOK, TypeOK', View, View', Agreed,
           GrantorPhase' = GrantorPhase, Grants' = Grants, Closed' = Closed,
           Flying' = Flying, NEW in, Switches(Sender, in, Half(Sender))
    PROVE  Direction!SenderDown \/ UNCHANGED mapped
  <1>. DEFINE S == Sender
  <1>1. S \in Die /\ Told \subseteq Kind
    BY EndFacts, ToldFacts DEF Kind
  <1>2. hs'[S] = {} /\ Full(S, Half(S)) /\ st[S] = Second(Half(S))
        /\ st'[S] = First(Other(Half(S)))
    BY DEF Switches
  <1>3. CASE Half(S) = "activate"
    <2>1. Booted(S) /\ ActFlag \subseteq hs[S] /\ st'[S] = "ENABLED"
      BY <1>2, <1>3, NameFacts DEF Full, Booted, ActFlag, First
    <2>2. SenderPhase = "open" /\ CreditedEn(S) = Kind
      BY <2>1 DEF View
    <2>3. Session(S)' /\ ~Booted(S)'
      BY <2>1 DEF Session, Booted
    <2>4. SenderPhase' = "open" /\ CreditedEn(S)' = Kind
      BY <1>1, <1>2, <2>3 DEF View, Unstopped
    <2>. QED
      BY <2>2, <2>4 DEF mapped
  <1>4. CASE Half(S) = "deactivate"
    <2>1. Session(S) /\ ~Booted(S) /\ DeactHs \subseteq hs[S] /\ st'[S] = "DISABLED"
      BY <1>2, <1>4, NameFacts DEF Full, Session, Booted, DeactHs, First
    <2>2. SenderPhase = "open" /\ CreditedEn(S) = {}
      BY <2>1 DEF View, Unstopped, DeactHs
    <2>3. ~Session(S)' /\ ~Booted(S)' /\ ~Acked(S)'
      BY <2>1 DEF Session, Booted, Acked
    <2>4. SenderPhase' = "down" /\ CreditedEn(S)' = {}
      BY <2>3 DEF View
    <2>5. Closed
      BY <2>1 DEF Agreed, SenderKnows
    <2>. QED
      BY <2>2, <2>4, <2>5 DEF Direction!SenderDown
  <1>. QED
    BY <1>1, <1>3, <1>4 DEF Half

\* The die that sends goes on with the handshake that starts a session.
LEMMA SenderStarts ==
    ASSUME TypeOK, TypeOK', View, View', Agreed',
           GrantorPhase' = GrantorPhase, Grants' = Grants, Closed' = Closed,
           Flying' = Flying,
           NEW in, Half(Sender) = "activate", Continues(Sender, in, "activate")
    PROVE  Direction!Count \/ Direction!Open \/ UNCHANGED mapped
  <1>. DEFINE S == Sender
  <1>1. /\ S \in Die /\ ~Session(S) /\ ~Session(S)' /\ ~Booted(S)
        /\ Acked(S) => Acked(S)'
    <2>1. /\ Half(S)' = "activate" /\ ~Full(S, "activate")
          /\ st[S] = "ACTIVATE" => st'[S] = "ACTIVATE"
          /\ "tx_activate_ack" \in hs[S] => "tx_activate_ack" \in hs'[S]
      BY NameFacts DEF Continues
    <2>2. ~Session(S) /\ ~Session(S)'
      BY <2>1 DEF Half, Idle, Session
    <2>3. ~Booted(S)
      BY <2>1, NameFacts DEF Booted, Full, ActFlag
    <2>. QED
      BY <2>1, <2>2, <2>3, EndFacts DEF Acked
  <1>2. SenderPhase # "open" /\ CreditedEn(S) = {}
    BY <1>1 DEF View
  <1>3. CASE Booted(S)'
    <2>1. SenderPhase' = "open" /\ CreditedEn(S)' = Kind
      BY <1>3 DEF View
    <2>2. Told \subseteq Grants
      <3>1. Acked(S)'
        BY <1>3 DEF Booted, Acked, ActFlag
      <3>. QED
        BY <3>1 DEF Agreed, SenderKnows
    <2>. QED
      BY <1>2, <2>1, <2>2, ToldFacts DEF Direction!Open, Told
  <1>4. CASE ~Booted(S)' /\ Acked(S)'
    <2>1. SenderPhase' = "counting" /\ CreditedEn(S)' = {}
      BY <1>1, <1>4 DEF View
    <2>2. Told \subseteq Grants
      BY <1>4 DEF Agreed, SenderKnows
    <2>3. CASE Acked(S)
      <3>1. SenderPhase = "counting"
        BY <1>1, <2>3 DEF View
      <3>. QED
        BY <1>2, <2>1, <3>1 DEF mapped
    <2>4. CASE ~Acked(S)
      <3>1. SenderPhase = "down"
        BY <1>1, <2>4 DEF View
      <3>. QED
        BY <1>2, <2>1, <2>2, <3>1 DEF Direction!Count, Told
    <2>. QED
      BY <2>3, <2>4
  <1>5. CASE ~Booted(S)' /\ ~Acked(S)'
    <2>1. SenderPhase' = "down" /\ CreditedEn(S)' = {}
      BY <1>1, <1>5 DEF View
    <2>2. SenderPhase = "down"
      BY <1>1, <1>5 DEF View
    <2>. QED
      BY <1>2, <2>1, <2>2 DEF mapped
  <1>. QED
    BY <1>3, <1>4, <1>5

\* ... and with the one that ends it.
LEMMA SenderStops ==
    ASSUME TypeOK, TypeOK', View, View', Agreed',
           GrantorPhase' = GrantorPhase, Grants' = Grants, Closed' = Closed,
           Flying' = Flying,
           NEW in, Half(Sender) = "deactivate", Continues(Sender, in, "deactivate")
    PROVE  Direction!StopSending \/ Direction!HearGrantorStop \/ UNCHANGED mapped
  <1>. DEFINE S == Sender
              asked == "tx_deactivate_req"
              heard == "rx_deactivate_req"
  <1>1. /\ Session(S) /\ Session(S)' /\ ~Booted(S) /\ ~Booted(S)'
        /\ asked \in hs[S] => asked \in hs'[S]
        /\ heard \in hs[S] => heard \in hs'[S]
    <2>1. /\ Half(S)' = "deactivate"
          /\ asked \in hs[S] => asked \in hs'[S]
          /\ heard \in hs[S] => heard \in hs'[S]
      BY NameFacts DEF Continues
    <2>2. (Half(S) = "deactivate" <=> Session(S)) /\ (Half(S) = "activate" <=> ~Session(S))
      BY EndFacts, SessionHalfNames
    <2>3. Session(S)'
      BY <2>1, EndFacts DEF TypeOK, CtrlTypeOK, State, Half, Idle, Session
    <2>. QED
      BY <2>1, <2>2, <2>3 DEF Session, Booted
  <1>2. /\ SenderPhase = "open" /\ SenderPhase' = "open"
        /\ CreditedEn(S) = (IF asked \in hs[S] THEN {} ELSE Told)
                           \cup (IF heard \in hs[S] THEN {} ELSE Kind \ Told)
        /\ CreditedEn(S)' = (IF asked \in hs'[S] THEN {} ELSE Told)
                            \cup (IF heard \in hs'[S] THEN {} ELSE Kind \ Told)
    BY <1>1 DEF View, Unstopped
  <1>3. heard \in hs'[S] => Grants \subseteq Told
    BY DEF Agreed, SenderKnows
  <1>4. Told = Kind \/ Told = {"req"}
    BY ToldFacts
  <1>. HIDE DEF S
  <1>5. CASE asked \notin hs[S] /\ asked \in hs'[S]
    <2>1. CreditedEn(S) \cap Told # {}
      BY <1>2, <1>4, <1>5 DEF Kind
    <2>2. CASE heard \notin hs[S] /\ heard \in hs'[S]
      <3>1. CreditedEn(S)' = {}
        BY <1>2, <1>5, <2>2
      <3>. QED
        BY <1>2, <1>3, <2>1, <2>2, <3>1 DEF Direction!StopSending, Told, S
    <2>3. CASE heard \in hs[S] \/ heard \notin hs'[S]
      <3>1. CreditedEn(S)' = CreditedEn(S) \ Told
        BY <1>1, <1>2, <1>5, <2>3
      <3>. QED
        BY <1>2, <2>1, <3>1 DEF Direction!StopSending, Told, S
    <2>. QED
      BY <2>2, <2>3
  <1>6. CASE asked \in hs[S] \/ asked \notin hs'[S]
    <2>1. CASE heard \notin hs[S] /\ heard \in hs'[S]
      <3>1. CreditedEn(S)' = CreditedEn(S) \cap Told
        BY <1>1, <1>2, <1>6, <2>1
      <3>2. CASE CreditedEn(S) \ Told = {}
        <4>1. CreditedEn(S)' = CreditedEn(S)
          BY <3>1, <3>2
        <4>. QED
          BY <1>2, <4>1 DEF mapped, S
      <3>3. CASE CreditedEn(S) \ Told # {}
        BY <1>2, <1>3, <2>1, <3>1, <3>3 DEF Direction!HearGrantorStop, Told, S
      <3>. QED
        BY <3>2, <3>3
    <2>2. CASE heard \in hs[S] \/ heard \notin hs'[S]
      <3>1. CreditedEn(S)' = CreditedEn(S)
        BY <1>1, <1>2, <1>6, <2>2
      <3>. QED
        BY <1>2, <3>1 DEF mapped, S
    <2>. QED
      BY <2>1, <2>2
  <1>. QED
    BY <1>5, <1>6

LEMMA SenderEdge ==
    ASSUME TypeOK, TypeOK', HandshakeInv, Calm, LinkUpBoth, View, View', Agreed, Agreed',
           NEW m \in Message \cup {None}, NEW pack \in BOOLEAN, NEW in,
           Works(Sender, m, pack, in)
    PROVE  Direction!Next \/ UNCHANGED mapped
  <1>0. Sender \in Die
    BY EndFacts
  <1>1. /\ GrantorPhase' = GrantorPhase /\ Grants' = Grants /\ Closed' = Closed
        /\ Flying' = Flying
    BY <1>0, WorksFrame
  <1>2. CASE Switches(Sender, in, Half(Sender))
    BY <1>1, <1>2, SenderSwitches DEF Direction!Next
  <1>3. CASE Continues(Sender, in, Half(Sender))
    <2>1. CASE Half(Sender) = "activate"
      BY <1>1, <1>3, <2>1, SenderStarts DEF Direction!Next
    <2>2. CASE Half(Sender) = "deactivate"
      BY <1>1, <1>3, <2>2, SenderStops DEF Direction!Next
    <2>. QED
      BY <2>1, <2>2 DEF Half
  <1>4. CASE st'[Sender] = st[Sender] /\ hs'[Sender] = hs[Sender]
    BY <1>1, <1>4, SenderKept DEF mapped
  <1>. QED
    BY <1>0, <1>2, <1>3, <1>4, EdgeOutcome

\* The activation FIFO of the grantor loses its head and takes what is sent.
LEMMA MiscStep ==
    ASSUME TypeOK, NEW d \in Die, NEW m, NEW pack \in BOOLEAN, NEW in,
           Works(d, m, pack, in)
    PROVE  /\ \A T : Holds(misc'[d], T) =>
                        Holds(misc[d], T) \/ (Sent(d, in) # None /\ Sent(d, in) \in T)
           /\ Sent(d, in) # None => misc'[d] # <<>>
           /\ Sent(d, in) = None /\ misc[d] = <<>> => misc'[d] = <<>>
  <1>1. /\ pack => misc[d] # <<>>
        /\ misc'[d] = (IF pack THEN Tail(misc[d]) ELSE misc[d]) \o Slot(Sent(d, in))
        /\ Sent(d, in) # None => Holds(misc'[d], {Sent(d, in)})
        /\ Sent(d, in) \in Message \cup {None}
    BY DEF Works, EdgeEffect
  <1>2. PICK q : q = IF pack THEN Tail(misc[d]) ELSE misc[d]
    OBVIOUS
  <1>3. misc[d] \in Seq(Message) /\ q \in Seq(Message)
    <2>1. misc[d] \in Seq(Message)
      BY DEF TypeOK
    <2>. QED
      BY <1>1, <1>2, <2>1, TailType
  <1>4. \A T : Holds(q, T) => Holds(misc[d], T)
    BY <1>1, <1>2, <1>3, TailHolds
  <1>5. CASE Sent(d, in) = None
    <2>1. misc'[d] = q
      <3>1. misc'[d] = q \o <<>>
        BY <1>1, <1>2, <1>5 DEF Slot
      <3>. QED
        BY <1>3, <3>1, ConcatEmptySeq
    <2>. QED
      BY <1>1, <1>2, <1>4, <1>5, <2>1
  <1>6. CASE Sent(d, in) # None
    <2>1. misc'[d] = q \o <<Sent(d, in)>> /\ <<Sent(d, in)>> \in Seq(Message)
      BY <1>1, <1>2, <1>6 DEF Slot
    <2>2. \A T : Holds(<<Sent(d, in)>>, T) => Sent(d, in) \in T
      BY DEF Holds
    <2>3. ASSUME NEW T, Holds(misc'[d], T)
          PROVE  Holds(q, T) \/ Sent(d, in) \in T
      <3>1. Holds(q \o <<Sent(d, in)>>, T)
        BY <2>1, <2>3
      <3>2. Holds(q, T) \/ Holds(<<Sent(d, in)>>, T)
        BY <1>3, <2>1, <3>1, ConcatHolds
      <3>. QED
        BY <2>2, <3>2
    <2>4. misc'[d] # <<>>
      BY <1>1, <1>6, EmptyHolds
    <2>. QED
      BY <1>4, <1>6, <2>3, <2>4
  <1>. QED
    BY <1>5, <1>6

Ending == DeactReq \cup {"DeactivateAck"}

\* The flit with the last activation message of the session has left.
ClosedView ==
    /\ GrantorPhase = "boot" => Closed = FALSE
    /\ GrantorPhase = "session" =>
          Closed = (/\ {"tx_deactivate_req", "rx_deactivate_ack"} \subseteq hs[Grantor]
                    /\ misc[Grantor] = <<>>)
    /\ GrantorPhase = "down" => Closed = ~Holds(misc[Grantor], Ending)

LEMMA ClosedHolds == ClosedView
  <1>1. GrantorPhase = "down" => Closed = ~Holds(misc[Grantor], Ending)
    BY DEF Closed, Holds, Ending
  <1>. QED
    BY <1>1 DEF Closed, ClosedView

LEMMA ClosedNext == ClosedView'
  BY ClosedHolds, PTL

\* The die that grants ends one handshake and enters the other.
LEMMA GrantorSwitches ==
    ASSUME TypeOK, TypeOK', View, View', Agreed,
           SenderPhase' = SenderPhase, CreditedEn(Sender)' = CreditedEn(Sender),
           Flying' = Flying,
           NEW m, NEW pack \in BOOLEAN, NEW in, Works(Grantor, m, pack, in),
           Switches(Grantor, in, Half(Grantor))
    PROVE  Direction!GrantorDown \/ UNCHANGED mapped
  <1>. DEFINE G == Grantor
  <1>1. G \in Die /\ Told \subseteq Kind
    BY EndFacts, ToldFacts DEF Kind
  <1>2. /\ hs'[G] = {} /\ Full(G, Half(G)) /\ st[G] = Second(Half(G))
        /\ st'[G] = First(Other(Half(G))) /\ Sent(G, in) = None
    BY DEF Switches
  <1>3. CASE Half(G) = "activate"
    <2>1. /\ AcksNow(G) /\ ActFlag \subseteq hs[G] /\ hs[G] \subseteq ActFlag
          /\ st'[G] = "ENABLED"
      BY <1>2, <1>3, NameFacts DEF Full, AcksNow, ActFlag, First, Agreed, GrantorBegins
    <2>2. GrantorPhase = "session" /\ Grants = Kind
      BY <2>1 DEF View
    <2>3. Session(G)' /\ ~AcksNow(G)'
      BY <2>1 DEF Session, AcksNow
    <2>4. GrantorPhase' = "session" /\ Grants' = Kind
      BY <1>1, <1>2, <2>3 DEF View, Unstopped
    <2>5. Closed = FALSE /\ Closed' = FALSE
      BY <1>2, <2>1, <2>2, <2>4, ClosedHolds, ClosedNext DEF ClosedView, ActFlag
    <2>. QED
      BY <2>2, <2>4, <2>5 DEF mapped
  <1>4. CASE Half(G) = "deactivate"
    <2>1. Session(G) /\ ~AcksNow(G) /\ DeactHs \subseteq hs[G] /\ st'[G] = "DISABLED"
      BY <1>2, <1>4, NameFacts DEF Full, Session, AcksNow, DeactHs, First
    <2>2. GrantorPhase = "session" /\ Grants = {}
      BY <2>1 DEF View, Unstopped, DeactHs
    <2>3. ~Session(G)' /\ ~AcksNow(G)' /\ ~(ActFlag \subseteq hs'[G])
      BY <1>2, <2>1 DEF Session, AcksNow, ActFlag
    <2>4. GrantorPhase' = "down" /\ Grants' = {}
      BY <2>3 DEF View
    <2>5. CreditedEn(Sender) = {} /\ Flying = {}
      BY <2>1 DEF Agreed, GrantorKnows, DeactHs
    <2>6. Closed' \in {Closed, TRUE}
      <3>1. Closed = (misc[G] = <<>>)
        BY <2>1, <2>2, ClosedHolds DEF ClosedView, DeactHs
      <3>2. Closed' = ~Holds(misc'[G], Ending)
        BY <2>4, ClosedNext DEF ClosedView
      <3>3. misc[G] = <<>> => misc'[G] = <<>>
        BY <1>1, <1>2, MiscStep
      <3>4. CASE misc[G] = <<>>
        BY <3>2, <3>3, <3>4, EmptyHolds
      <3>5. CASE misc[G] # <<>>
        BY <3>1, <3>2, <3>5
      <3>. QED
        BY <3>4, <3>5
    <2>. QED
      BY <2>2, <2>4, <2>5, <2>6 DEF Direction!GrantorDown
  <1>. QED
    BY <1>1, <1>3, <1>4 DEF Half

\* The die that grants goes on with the handshake that starts a session.
LEMMA GrantorStarts ==
    ASSUME TypeOK, TypeOK', View, View', Agreed, Agreed',
           SenderPhase' = SenderPhase, CreditedEn(Sender)' = CreditedEn(Sender),
           Flying' = Flying,
           NEW m, NEW pack \in BOOLEAN, NEW in, Works(Grantor, m, pack, in),
           Half(Grantor) = "activate", Continues(Grantor, in, "activate")
    PROVE  \/ Direction!Boot \/ Direction!Establish \/ Direction!Close
           \/ UNCHANGED mapped
  <1>. DEFINE G == Grantor
              ack == "rx_activate_ack"
              x == Sent(G, in)
  <1>1. /\ G \in Die /\ Half(G)' = "activate" /\ ~Full(G, "activate")
        /\ ack \in hs'[G] <=> ack \in hs[G] \/ x = "ActivateAck"
        /\ x \in {None, "ActivateAck", "ActivateReq"}
        /\ x = "ActivateAck" => QueuesAck(G, "activate")
    BY NameFacts, EndFacts DEF Continues
  <1>2. /\ ~Session(G) /\ ~Session(G)' /\ ~(ActFlag \subseteq hs[G])
        /\ AcksNow(G) <=> ack \in hs[G]
        /\ AcksNow(G)' <=> ack \in hs'[G]
    <2>1. ~Session(G) /\ ~Session(G)'
      BY <1>1 DEF Half, Idle, Session
    <2>2. ~(ActFlag \subseteq hs[G])
      BY <1>1, NameFacts DEF Full, ActFlag
    <2>. QED
      BY <2>1, <2>2 DEF Agreed, GrantorBegins, AcksNow
  <1>3. CASE ack \in hs[G]
    <2>1. GrantorPhase = "boot" /\ Grants = Kind /\ Grants' = Kind
      BY <1>1, <1>2, <1>3 DEF View
    <2>2. Closed = FALSE
      BY <2>1, ClosedHolds DEF ClosedView
    <2>3. GrantorPhase' \in {"boot", "session"} /\ Closed' = FALSE
      <3>1. GrantorPhase' \in {"boot", "session"}
        BY <1>1, <1>2, <1>3 DEF View
      <3>2. "tx_deactivate_req" \notin hs'[G]
        BY <1>1 DEF Agreed, GrantorBegins, ActFlag
      <3>. QED
        BY <3>1, <3>2, ClosedNext DEF ClosedView
    <2>. QED
      BY <2>1, <2>2, <2>3 DEF Direction!Establish, mapped
  <1>4. CASE ack \notin hs[G] /\ ack \in hs'[G]
    <2>1. GrantorPhase = "down" /\ Grants' = Kind
      BY <1>2, <1>4 DEF View
    <2>2. GrantorPhase' \in {"boot", "session"} /\ Closed' = FALSE
      <3>1. GrantorPhase' \in {"boot", "session"}
        BY <1>2, <1>4 DEF View
      <3>2. "tx_deactivate_req" \notin hs'[G]
        BY <1>1 DEF Agreed, GrantorBegins, ActFlag
      <3>. QED
        BY <3>1, <3>2, ClosedNext DEF ClosedView
    <2>3. SenderPhase = "down"
      <3>1. ~Acked(Sender) /\ ~Session(Sender)
        BY <1>1, <1>4 DEF Agreed, GrantorBegins
      <3>2. ~Booted(Sender)
        BY <3>1 DEF Booted, Acked, ActFlag
      <3>. QED
        BY <3>1, <3>2 DEF View
    <2>. QED
      BY <2>1, <2>2, <2>3, ToldFacts DEF Direction!Boot
  <1>5. CASE ack \notin hs'[G]
    <2>1. ack \notin hs[G] /\ ~(ActFlag \subseteq hs'[G])
      BY <1>1, <1>5 DEF ActFlag
    <2>2. /\ GrantorPhase = "down" /\ GrantorPhase' = "down"
          /\ Grants = {} /\ Grants' = {}
      BY <1>2, <1>5, <2>1 DEF View
    <2>3. Closed = ~Holds(misc[G], Ending) /\ Closed' = ~Holds(misc'[G], Ending)
      BY <2>2, ClosedHolds, ClosedNext DEF ClosedView
    <2>4. Closed => Closed'
      <3>1. x \notin Ending
        BY <1>1 DEF Ending, DeactReq, None
      <3>2. Holds(misc'[G], Ending) => Holds(misc[G], Ending)
        BY <1>1, <3>1, MiscStep
      <3>. QED
        BY <2>3, <3>2
    <2>5. CASE Closed' = Closed
      BY <2>2, <2>5 DEF mapped
    <2>6. CASE ~Closed /\ Closed'
      <3>1. Closed' = TRUE
        BY <2>3, <2>6
      <3>. QED
        BY <2>2, <2>6, <3>1 DEF Direction!Close
    <2>. QED
      BY <2>3, <2>4, <2>5, <2>6
  <1>. QED
    BY <1>3, <1>4, <1>5

\* ... and with the one that ends it.
LEMMA GrantorStops ==
    ASSUME TypeOK, TypeOK', View, View', Agreed, Agreed',
           SenderPhase' = SenderPhase, CreditedEn(Sender)' = CreditedEn(Sender),
           Flying' = Flying,
           NEW m, NEW pack \in BOOLEAN, NEW in, Works(Grantor, m, pack, in),
           Half(Grantor) = "deactivate", Continues(Grantor, in, "deactivate")
    PROVE  \/ Direction!HearSenderStop \/ Direction!StopGranting \/ Direction!Close
           \/ UNCHANGED mapped
  <1>. DEFINE G == Grantor
              asked == "tx_deactivate_req"
              heard == "rx_deactivate_req"
              ack == "rx_deactivate_ack"
              x == Sent(G, in)
  <1>1. /\ G \in Die /\ Half(G)' = "deactivate"
        /\ asked \in hs'[G] <=> asked \in hs[G] \/ x \in DeactReq
        /\ ack \in hs'[G] <=> ack \in hs[G] \/ x = "DeactivateAck"
        /\ heard \in hs[G] => heard \in hs'[G]
        /\ x \in {None, "DeactivateAck"} \cup DeactReq
        /\ x = "DeactivateAck" => QueuesAck(G, "deactivate")
        /\ x \in DeactReq => QueuesReq(G, "deactivate")
    BY NameFacts, EndFacts DEF Continues
  <1>2. Session(G) /\ Session(G)' /\ ~AcksNow(G) /\ ~AcksNow(G)'
    <2>1. Session(G) /\ Session(G)'
      BY <1>1 DEF TypeOK, CtrlTypeOK, State, Half, Idle, Session
    <2>. QED
      BY <2>1 DEF Session, AcksNow
  <1>3. /\ GrantorPhase = "session" /\ GrantorPhase' = "session"
        /\ Grants = (IF heard \in hs[G] THEN {} ELSE Told)
                    \cup (IF asked \in hs[G] THEN {} ELSE Kind \ Told)
        /\ Grants' = (IF heard \in hs'[G] THEN {} ELSE Told)
                     \cup (IF asked \in hs'[G] THEN {} ELSE Kind \ Told)
    BY <1>2 DEF View, Unstopped
  <1>4. /\ Closed = ({asked, ack} \subseteq hs[G] /\ misc[G] = <<>>)
        /\ Closed' = ({asked, ack} \subseteq hs'[G] /\ misc'[G] = <<>>)
    BY <1>3, ClosedHolds, ClosedNext DEF ClosedView
  <1>5. /\ QueuesReq(G, "deactivate") => asked \notin hs[G]
        /\ QueuesAck(G, "deactivate") => heard \in hs[G] /\ ack \notin hs[G]
        /\ ack \in hs[G] => heard \in hs[G]
        /\ ack \in hs'[G] => heard \in hs'[G]
    BY <1>1 DEF Agreed, GrantorQueue
  <1>6. None \notin DeactReq /\ None # "DeactivateAck"
    BY DEF None, DeactReq
  <1>7. /\ x # None => misc'[G] # <<>>
        /\ x = None /\ misc[G] = <<>> => misc'[G] = <<>>
    BY <1>1, MiscStep
  <1>8. Told = Kind \/ Told = {"req"}
    BY ToldFacts
  <1>9. ASSUME heard \notin hs[G], heard \in hs'[G]
        PROVE  /\ SenderPhase = "open"
               /\ (CreditedEn(Sender) \cup Flying) \cap Told = {}
               /\ Grants \cap Told # {}
               /\ Closed' = Closed
    <2>1. ack \notin hs[G] /\ ack \notin hs'[G]
      BY <1>1, <1>5, <1>9
    <2>2. Session(Sender)' /\ (CreditedEn(Sender)' \cup Flying') \cap Told = {}
      BY <1>2, <1>9, <2>1 DEF Agreed, GrantorKnows
    <2>3. SenderPhase' = "open"
      BY <2>2 DEF View
    <2>4. Grants \cap Told # {}
      BY <1>3, <1>8, <1>9 DEF Kind
    <2>. QED
      BY <1>4, <2>1, <2>2, <2>3, <2>4
  <1>10. ASSUME asked \notin hs[G] PROVE Closed' = Closed
    <2>1. asked \in hs'[G] => misc'[G] # <<>>
      BY <1>1, <1>6, <1>7, <1>10
    <2>. QED
      BY <1>4, <1>10, <2>1
  <1>. HIDE DEF G, x
  <1>11. CASE heard \notin hs[G] /\ heard \in hs'[G]
    <2>1. Grants' \in {Grants \ Told, {}}
      <3>1. CASE asked \notin hs[G] /\ asked \in hs'[G]
        BY <1>3, <1>11, <3>1
      <3>2. CASE asked \in hs[G] \/ asked \notin hs'[G]
        <4>1. Grants' = Grants \ Told
          BY <1>1, <1>3, <1>11, <3>2
        <4>. QED
          BY <4>1
      <3>. QED
        BY <3>1, <3>2
    <2>. QED
      BY <1>3, <1>9, <1>11, <2>1 DEF Direction!HearSenderStop, Told
  <1>12. CASE (heard \in hs[G] \/ heard \notin hs'[G]) /\ asked \notin hs[G] /\ asked \in hs'[G]
    <2>1. Grants' = Grants \cap Told
      BY <1>1, <1>3, <1>12
    <2>2. CASE Grants \ Told = {}
      <3>1. Grants' = Grants
        BY <2>1, <2>2
      <3>. QED
        BY <1>3, <1>10, <1>12, <3>1 DEF mapped
    <2>3. CASE Grants \ Told # {}
      BY <1>3, <1>10, <1>12, <2>1, <2>3 DEF Direction!StopGranting, Told
    <2>. QED
      BY <2>2, <2>3
  <1>13. CASE /\ heard \in hs[G] \/ heard \notin hs'[G]
              /\ asked \in hs[G] \/ asked \notin hs'[G]
    <2>1. Grants' = Grants
      BY <1>1, <1>3, <1>13
    <2>2. Closed => Closed'
      <3>. SUFFICES ASSUME Closed PROVE Closed'
        OBVIOUS
      <3>1. asked \in hs[G] /\ ack \in hs[G] /\ misc[G] = <<>>
        BY <1>4
      <3>2. x = None
        BY <1>1, <1>5, <3>1
      <3>. QED
        BY <1>1, <1>4, <1>7, <3>1, <3>2
    <2>3. CASE Closed' = Closed
      BY <1>3, <2>1, <2>3 DEF mapped
    <2>4. CASE ~Closed /\ Closed'
      <3>1. Grants = {}
        BY <1>3, <1>4, <1>5, <1>13, <2>4
      <3>2. Closed' = TRUE
        BY <1>4, <2>4
      <3>. QED
        BY <1>3, <2>1, <2>4, <3>1, <3>2 DEF Direction!Close
    <2>. QED
      BY <1>4, <2>2, <2>3, <2>4
  <1>. QED
    BY <1>11, <1>12, <1>13

LEMMA GrantorEdge ==
    ASSUME TypeOK, TypeOK', HandshakeInv, Calm, LinkUpBoth, View, View', Agreed, Agreed',
           NEW m \in Message \cup {None}, NEW pack \in BOOLEAN, NEW in,
           Works(Grantor, m, pack, in)
    PROVE  Direction!Next \/ UNCHANGED mapped
  <1>0. Grantor \in Die
    BY EndFacts
  <1>1. /\ SenderPhase' = SenderPhase /\ CreditedEn(Sender)' = CreditedEn(Sender)
        /\ Flying' = Flying
    BY <1>0, WorksFrame
  <1>2. CASE Switches(Grantor, in, Half(Grantor))
    BY <1>1, <1>2, GrantorSwitches DEF Direction!Next
  <1>3. CASE Continues(Grantor, in, Half(Grantor))
    <2>1. CASE Half(Grantor) = "activate"
      BY <1>1, <1>3, <2>1, GrantorStarts DEF Direction!Next
    <2>2. CASE Half(Grantor) = "deactivate"
      BY <1>1, <1>3, <2>2, GrantorStops DEF Direction!Next
    <2>. QED
      BY <2>1, <2>2 DEF Half
  <1>4. CASE /\ st'[Grantor] = st[Grantor] /\ hs'[Grantor] = hs[Grantor]
             /\ misc'[Grantor] = misc[Grantor]
    BY <1>1, <1>4, GrantorKept DEF mapped
  <1>. QED
    BY <1>0, <1>2, <1>3, <1>4, EdgeOutcome

-----------------------------------------------------------------------------
\* Messages that leave and arrive.
LEMMA DataStep ==
    ASSUME TypeOK, Calm, View, View', Agreed, NEW d \in Die, SendData(d) \/ RecvData(d)
    PROVE  Direction!Next \/ UNCHANGED mapped
  <1>1. /\ Sender \in Die /\ Grantor \in Die /\ Sender # Grantor
        /\ Peer(Grantor) = Sender /\ Peer(Sender) = Grantor
        /\ (d = Sender \/ d = Grantor) /\ wire \in [Die -> Seq(Item)]
        /\ wire[Sender] \in Seq(Item) /\ Kind \subseteq Item
    BY EndFacts, ItemFacts DEF TypeOK
  <1>2. UNCHANGED <<st, hs, misc>>
    BY DEF SendData, RecvData, ctrlVars
  <1>3. /\ SenderPhase' = SenderPhase /\ CreditedEn(Sender)' = CreditedEn(Sender)
        /\ GrantorPhase' = GrantorPhase /\ Grants' = Grants /\ Closed' = Closed
    BY <1>2, SenderKept, GrantorKept
  <1>4. /\ \A k : k \in Flying <=> k \in Kind /\ Holds(wire[Sender], {k})
        /\ \A k : k \in Flying' <=> k \in Kind /\ Holds(wire'[Sender], {k})
    BY DEF View
  <1>5. CASE SendData(d) /\ d = Sender
    <2>1. /\ link[Grantor]
          /\ \E kind \in CreditedEn(Sender) :
                wire'[Sender] = Append(wire[Sender], kind)
      BY <1>1, <1>5 DEF SendData, Calm, LinkUpBoth
    <2>2. PICK kind \in CreditedEn(Sender) : wire'[Sender] = Append(wire[Sender], kind)
      BY <2>1
    <2>3. kind \in Kind
      BY DEF CreditedEn, Bit, Kind
    <2>4. ASSUME NEW k \in Kind
          PROVE  Holds(wire'[Sender], {k}) <=> Holds(wire[Sender], {k}) \/ k = kind
      BY <1>1, <2>2, <2>3, AppendHolds
    <2>5. Flying' = Flying \cup {kind}
      BY <1>4, <2>3, <2>4
    <2>. QED
      BY <1>3, <2>2, <2>3, <2>5, ToldFacts DEF Direction!Next, Direction!Depart
  <1>6. CASE RecvData(d) /\ d = Grantor
    <2>1. /\ wire[Sender] # <<>> /\ Head(wire[Sender]) \in Kind
          /\ wire'[Sender] = Tail(wire[Sender])
      BY <1>1, <1>6 DEF RecvData
    <2>2. PICK kind \in Kind : kind = Head(wire[Sender])
      BY <2>1
    <2>3. ASSUME NEW k
          PROVE  Holds(wire[Sender], {k}) <=> k = kind \/ Holds(wire'[Sender], {k})
      BY <1>1, <2>1, <2>2, TailHolds
    <2>4. kind \in Flying /\ Flying' \in {Flying, Flying \ {kind}}
      BY <1>4, <2>2, <2>3
    <2>5. GrantorPhase = "session"
      BY <2>1 DEF Agreed, DataInGrant
    <2>. QED
      BY <1>3, <2>2, <2>4, <2>5, ToldFacts DEF Direction!Next, Direction!Arrive
  <1>7. CASE \/ SendData(d) /\ d = Grantor
             \/ RecvData(d) /\ d = Sender
    <2>1. wire'[Sender] = wire[Sender]
      BY <1>1, <1>7 DEF SendData, RecvData
    <2>2. Flying' = Flying
      BY <1>4, <2>1
    <2>. QED
      BY <1>3, <2>2 DEF mapped
  <1>8. d = Sender \/ d = Grantor
    BY <1>1
  <1>. HIDE DEF mapped
  <1>. QED
    BY <1>5, <1>6, <1>7, <1>8

LEMMA InitSession == Init /\ View => Direction!Init
  <1>. SUFFICES ASSUME Init, View PROVE Direction!Init
    OBVIOUS
  <1>1. Sender \in Die /\ Grantor \in Die
    BY EndFacts
  <1>2. \A d \in Die : /\ ~Session(d) /\ ~Booted(d) /\ ~Acked(d) /\ ~AcksNow(d)
                       /\ ~(ActFlag \subseteq hs[d])
                       /\ misc[d] = <<>> /\ wire[d] = <<>>
    BY DEF Init, CtrlInit, Session, Booted, Acked, AcksNow, ActFlag
  <1>3. /\ SenderPhase = "down" /\ CreditedEn(Sender) = {}
        /\ GrantorPhase = "down" /\ Grants = {}
    BY <1>1, <1>2 DEF View
  <1>4. Flying = {}
    BY <1>1, <1>2, EmptyHolds DEF View
  <1>5. Closed = TRUE
    BY <1>1, <1>2, <1>3, ClosedHolds, EmptyHolds DEF ClosedView
  <1>. QED
    BY <1>3, <1>4, <1>5 DEF Direction!Init

\* Every step of the two dies is a step of AouSession, or none.
LEMMA StepImplements ==
    ASSUME Faultless, TypeOK, TypeOK', HandshakeInv, Calm, Calm', View, View',
           Agreed, Agreed', [Next]_vars
    PROVE  [Direction!Next]_(Direction!vars)
  <1>. SUFFICES Direction!Next \/ UNCHANGED mapped
    BY MappedFacts
  <1>0. Sender \in Die /\ Grantor \in Die /\ \A d \in Die : d = Sender \/ d = Grantor
    BY EndFacts
  <1>1. ASSUME /\ wire'[Sender] = wire[Sender] /\ misc'[Grantor] = misc[Grantor]
               /\ \A d \in Die : st'[d] = st[d] /\ hs'[d] = hs[d]
        PROVE  UNCHANGED mapped
    <2>1. Flying' = Flying
      BY <1>1, FlyingKept
    <2>. QED
      BY <1>0, <1>1, <2>1, SenderKept, GrantorKept DEF mapped
  <1>2. ASSUME NEW d \in Die, Clock(d) \/ Pack(d) \/ Decode(d)
        PROVE  Direction!Next \/ UNCHANGED mapped
    <2>0. PICK m \in Message \cup {None}, pack \in BOOLEAN : \E in : Works(d, m, pack, in)
      BY <1>2, EdgeWorks
    <2>1. PICK in : Works(d, m, pack, in)
      BY <2>0
    <2>2. CASE LinkUpBoth
      BY <1>0, <2>1, <2>2, SenderEdge, GrantorEdge
    <2>3. CASE ~LinkUpBoth
      <3>1. /\ st'[d] = "DISABLED" /\ hs'[d] = {} /\ misc'[d] = <<>>
            /\ wire'[d] = <<>> /\ wire'[Peer(d)] = <<>>
        BY <2>1, <2>3, DownEdge
      <3>2. \A e \in Die : st[e] = "DISABLED" /\ hs[e] = {} /\ misc[e] = <<>> /\ wire[e] = <<>>
        BY <2>3 DEF Calm, Clean
      <3>3. /\ \A e \in Die : e = d \/ e = Peer(d)
            /\ \A e \in Die \ {d} : st'[e] = st[e] /\ hs'[e] = hs[e] /\ misc'[e] = misc[e]
        BY <2>1, PeerFacts DEF Works, EdgeEffect
      <3>4. \A e \in Die : /\ st'[e] = st[e] /\ hs'[e] = hs[e]
                           /\ misc'[e] = misc[e] /\ wire'[e] = wire[e]
        BY <3>1, <3>2, <3>3
      <3>. QED
        BY <1>0, <1>1, <3>4
    <2>. QED
      BY <2>2, <2>3
  <1>3. ASSUME NEW d \in Die, SendData(d) \/ RecvData(d)
        PROVE  Direction!Next \/ UNCHANGED mapped
    BY <1>3, DataStep
  <1>4. ASSUME NEW d \in Die,
               \/ DrainData(d) \/ WriteActivateStart(d)
               \/ WriteDeactivateStart(d) \/ WriteDeactivateForce(d)
        PROVE  UNCHANGED mapped
    BY <1>1, <1>4 DEF DrainData, WriteActivateStart, WriteDeactivateStart,
                      WriteDeactivateForce, WriteInit, ctrlVars
  <1>5. ASSUME LinkDisable \/ LinkRestart \/ UNCHANGED vars PROVE UNCHANGED mapped
    BY <1>1, <1>5 DEF LinkDisable, LinkRestart, vars, ctrlVars, linkVars
  <1>6. ASSUME NEW d \in Die, LinkFall(d) \/ SwReset(d) PROVE FALSE
    BY <1>6, PeerFacts DEF LinkFall, SwReset, Calm, LinkUpBoth, Faultless
  <1>. QED
    BY <1>2, <1>3, <1>4, <1>5, <1>6 DEF Next

\* Without a fault the two activation controllers implement AouSession in
\* each direction: credits are advertised only to a sender that will count
\* them, messages are sent only between two complete handshakes, and each kind
\* stops at the die that asks, with its last message, before it stops at the
\* die that is told, whatever the interleaving of the edges of the two dies,
\* of software, of PM entries and of DEACTIVATE_FORCE.
THEOREM SessionImplemented ==
    ASSUME Faults \subseteq {"force"}
    PROVE  Spec => ImplementsSession
  <1>1. Faultless
    BY DEF Faultless
  <1>2. Spec => [](TypeOK /\ HandshakeInv /\ Calm)
    BY <1>1, TypeCorrect, HandshakeCorrect, CalmInvariant, PTL
  <1>3. TypeOK /\ HandshakeInv /\ Calm => View /\ Agreed
    BY ViewHolds, AgreedHolds
  <1>4. Init => Direction!Init
    BY ViewHolds, InitSession
  <1>5. /\ TypeOK /\ HandshakeInv /\ Calm /\ View /\ Agreed
        /\ (TypeOK /\ HandshakeInv /\ Calm /\ View /\ Agreed)'
        /\ [Next]_vars
        => [Direction!Next]_(Direction!vars)
    BY <1>1, StepImplements
  <1>. QED
    BY <1>2, <1>3, <1>4, <1>5, PTL DEF Spec, ImplementsSession, Direction!Spec

===============================================================================

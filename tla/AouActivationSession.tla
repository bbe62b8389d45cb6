------------------------- MODULE AouActivationSession -------------------------
(***************************************************************************)
(* AouActivation implements AouSession, in the direction whose receive     *)
(* FIFOs are those of Grantor.  The other direction is the same            *)
(* specification with the dies exchanged.                                  *)
(***************************************************************************)
EXTENDS AouActivation

CONSTANT Grantor

ASSUME GrantorAssumption ==
    /\ Grantor \in Die
    /\ SeparateRsp \in {{}, Die}

Sender == Peer(Grantor)

SenderPhase ==
    IF ~CrdCountEn(Sender, Stalled(Sender)) THEN "down"
    ELSE IF Session(Sender) \/ CreditedBoot(Sender, Stalled(Sender)) THEN "open"
    ELSE "counting"

\* A message decoded after the Ack is taken from its FIFO in ENABLED.
GrantorPhase ==
    IF Session(Grantor) \/ ActFlag \subseteq hs[Grantor] THEN "session"
    ELSE IF AdvertiseBoot(Grantor, Stalled(Grantor)) THEN "boot"
    ELSE "down"

Grants ==
         Bit(ReqCrdAdvertiseEn(Grantor, Stalled(Grantor)), "req")
    \cup Bit(RspCrdAdvertiseEn(Grantor, Stalled(Grantor)), "rsp")

\* The Req and the Ack that end the session have left in flits.
Closed ==
    CASE GrantorPhase = "boot" -> FALSE
      [] GrantorPhase = "session" ->
            /\ {"tx_deactivate_req", "rx_deactivate_ack"} \subseteq hs[Grantor]
            /\ misc[Grantor] = <<>>
      [] GrantorPhase = "down" ->
            \A i \in DOMAIN misc[Grantor] :
                misc[Grantor][i] \notin DeactReq \cup {"DeactivateAck"}

Flying == Kind \cap {wire[Sender][i] : i \in DOMAIN wire[Sender]}

Direction == INSTANCE AouSession WITH
    SeparateRsp <- SeparateRsp = Die,
    sender <- SenderPhase, sends <- CreditedEn(Sender),
    grantor <- GrantorPhase, grants <- Grants,
    closed <- Closed, flying <- Flying

\* Whatever the interleaving of the two dies' edges, of software and of the
\* link: credits are advertised only to a sender that will count them,
\* messages are sent only between two complete handshakes, and each kind
\* stops at the die that asks, with its last message, before it stops at
\* the die that is told.
ImplementsSession == Direction!Spec
===============================================================================

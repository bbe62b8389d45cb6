------------------------------ MODULE AouAnswers ------------------------------
(***************************************************************************)
(* Why the activation FIFO of a die never overflows, and why no session    *)
(* starts on a dead link, also when the other die is in error: the         *)
(* invariant that ActFifoNeverDrops and NoSessionOnDeadLink follow from.   *)
(* AouAnswersProofs proves it.                                             *)
(*                                                                         *)
(* A die in error has left the handshake its peer may still be in.  It     *)
(* forgot its own Req and may ask once more, because its start bit is      *)
(* still 1; it answers what it receives, and cannot be in error for a      *)
(* second time-out before it is reset.  So HandshakeInv is lost, but the   *)
(* peer never owes more than two answers, and it is answered once.  Only   *)
(* how many messages of a kind there are matters here: a message that is   *)
(* lost makes every bound easier to meet.                                  *)
(***************************************************************************)
EXTENDS AouHandshake

Count(s, S) == Cardinality({i \in DOMAIN s : s[i] \in S})

\* The messages of S that d has to send, or has sent and its peer not taken.
OnWay(d, S) == Count(wire[d], S) + Count(misc[d], S) + Count(actq[d], S)

Acks == {"ActivateAck", "DeactivateAck"}

\* The Acks that d owes its transmit path.
Owes(d, S) == Count(misc[d], S) + Count(actq[d], S)

LinkUp == \E d \in Die : link[d]

\* The Reqs of d that no Ack has come back for.  When the link is down at both
\* ends none will.
Open(d, h) ==
    OnWay(d, ReqOf(h)) + (IF LinkUp THEN OnWay(Peer(d), {AckOf(h)}) ELSE 0)

\* 1 when the Ack has come back and the handshake is not over.
Latched(d, h) == IF TxAck(h) \in hs[d] THEN 1 ELSE 0

Queued(d, h) == Count(actq[d], ReqOf(h))

Asked(d, h) == TxReq(h) \in hs[d] \/ Queued(d, h) # 0

\* A Req waits at the head of the activation FIFO, and is the only one there.
ReqFirst(d, h) ==
    Queued(d, h) # 0 =>
        Queued(d, h) = 1 /\ TxReq(h) \notin hs[d] /\ Head(actq[d]) \in ReqOf(h)

-----------------------------------------------------------------------------
(* A die without an error.                                                 *)

\* It asks once in a handshake, and is answered once.
AsksOnce(d) ==
    \A h \in Handshake :
        /\ Open(d, h) + Latched(d, h) <= 1
        /\ ReqFirst(d, h)
        /\ Half(d) # h => TxReq(h) \notin hs[d]
        /\ Half(d) # h \/ ~Asked(d, h) =>
              Open(d, h) + Latched(d, h) = 0

\* It owes two answers at most, one of them for a DeactivateReq; the second
\* waits in the activation FIFO, and behind a Req only for an edge.
AnswersFit(d) ==
    /\ Owes(d, Acks) <= 2
    /\ Owes(d, {"DeactivateAck"}) <= 1
    /\ Count(actq[d], Acks) <= 1
    /\ Count(actq[d], Acks) # 0 /\ (\E h \in Handshake : Queued(d, h) # 0)
         => gap[d] > 0

\* An ActivateAck leaves before the flag that made it, and ahead of the
\* DeactivateReq that ends the session.
AcksLeaveFirst(d) ==
    /\ Idle(d) /\ Owes(d, {"ActivateAck"}) # 0 => "rx_activate_req" \in hs[d]
    /\ Session(d) /\ Asked(d, "deactivate") => Count(actq[d], {"ActivateAck"}) = 0
    /\ Session(d) /\ "tx_deactivate_req" \in hs[d] =>
          \A i \in DOMAIN misc[d] :
              misc[d][i] = "ActivateAck" => Followed(misc[d], i, DeactReq)

\* The start bit is 1 until the session it asks for has come.
StartKept(d) ==
    Idle(d) /\ Asked(d, "activate") => "ACTIVATE_START" \in sfr[d]

\* A die that has not seen its link up has nothing to do on it.
Unstarted(d) ==
    "ucie_init_done" \notin reg[d] =>
        /\ st[d] = "DISABLED"
        /\ hs[d] \cap ActReq = {}
        /\ Queued(d, "activate") = 0

Alone(d) ==
    AsksOnce(d) /\ AnswersFit(d) /\ AcksLeaveFirst(d) /\ StartKept(d) /\ Unstarted(d)

-----------------------------------------------------------------------------
(* A die e in error, and its peer d without one.                           *)

\* e can still ask for a session.
MayAsk(e) == Idle(e) /\ link[e] /\ "ACTIVATE_START" \in sfr[e]

\* d waits for the end of the last session, and has said all.
Waits(d) ==
    st[d] = "DEACTIVATE" /\ "tx_deactivate_req" \in hs[d] /\ OnWay(d, Message) = 0

\* d is in a session that e left before it began: nothing ends it but an error.
Stuck(d) ==
    LET e == Peer(d) IN
    /\ Session(d) /\ Idle(e)
    /\ "rx_deactivate_req" \notin hs[d] /\ OnWay(e, DeactReq) = 0
    /\ "rx_activate_req" \notin hs[e]

AsksTwice(d) ==
    LET e == Peer(d)
        activates == Open(e, "activate")
        deactivates == Open(e, "deactivate") IN
    /\ deactivates <= 1 /\ activates + deactivates <= 2
    /\ MayAsk(e) =>
          /\ ReqFirst(e, "activate")
          /\ activates + Latched(e, "activate")
                <= IF Asked(e, "activate") THEN 2 ELSE 1
          /\ deactivates = 0
          /\ "rx_deactivate_req" \in hs[d] => Waits(d)
    /\ Session(e) =>
          /\ ReqFirst(e, "deactivate")
          /\ ~Asked(e, "activate")
          /\ activates <= 1
          /\ ~Asked(e, "deactivate") => deactivates = 0
    /\ StartKept(e)

AnswersInv ==
    /\ \A d \in Die :
          /\ st[d] = "DEACTIVATE" => "ACTIVATE_START" \notin sfr[d]
          /\ "ucie_init_done" \notin reg[d] => Idle(d) /\ "rx_activate_req" \notin hs[d]
          /\ ~faulted[d] => Alone(d)
    /\ \A d \in Die :
          ~faulted[d] /\ faulted[Peer(d)] /\ link[d] => Stuck(d) \/ AsksTwice(d)
===============================================================================

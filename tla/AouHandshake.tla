----------------------------- MODULE AouHandshake -----------------------------
(***************************************************************************)
(* Why the two controllers of AouActivation stay in step: the invariant    *)
(* that NoInvalidActmsg, SessionAgreement and the other properties of the  *)
(* handshakes follow from.  AouActivationProofs proves it.                  *)
(*                                                                         *)
(* Activation and deactivation are the same handshake.  Each die sends a   *)
(* Req and the Ack of the other's Req, the four flags record what left and *)
(* what came, and with all four the FSM goes on to the other handshake.    *)
(* So a message is where the flags of the two dies say it is, and one die  *)
(* can be a handshake ahead of the other only by the Ack it sent last.     *)
(***************************************************************************)
EXTENDS AouActivation

Handshake == {"activate", "deactivate"}

Other(h) == IF h = "activate" THEN "deactivate" ELSE "activate"

ReqOf(h) == IF h = "activate" THEN {"ActivateReq"} ELSE DeactReq
AckOf(h) == IF h = "activate" THEN "ActivateAck" ELSE "DeactivateAck"

TxReq(h) == IF h = "activate" THEN "tx_activate_req" ELSE "tx_deactivate_req"
TxAck(h) == IF h = "activate" THEN "tx_activate_ack" ELSE "tx_deactivate_ack"
RxReq(h) == IF h = "activate" THEN "rx_activate_req" ELSE "rx_deactivate_req"
RxAck(h) == IF h = "activate" THEN "rx_activate_ack" ELSE "rx_deactivate_ack"

FlagOf(h) == IF h = "activate" THEN ActFlag ELSE DeactFlag

\* The states before and after the first flag is seen.
First(h)  == IF h = "activate" THEN "DISABLED" ELSE "ENABLED"
Second(h) == IF h = "activate" THEN "ACTIVATE" ELSE "DEACTIVATE"

\* The handshake die d is in.
Half(d) == IF Idle(d) THEN "activate" ELSE "deactivate"

Full(d, h) == {TxReq(h), TxAck(h), RxReq(h), RxAck(h)} \subseteq hs[d]

-----------------------------------------------------------------------------
(* Messages on their way.  A die whose link is down decodes nothing, but   *)
(* its peer may not know yet and goes on packing: v[d] is what would be on *)
(* the wire of d had nothing been lost.                                    *)

Item == Message \cup Kind

Line(v, d) == v[d] \o misc[d]

Holds(s, S) == \E i \in DOMAIN s : s[i] \in S

\* Whatever of S is in s comes before whatever of T is in s.
Before(s, S, T) == \A i, j \in DOMAIN s : s[i] \in S /\ s[j] \in T => i < j

\* An item of T comes after position i.
Followed(s, i, T) == \E j \in DOMAIN s : j > i /\ s[j] \in T

\* A Req in any of its forms, or an Ack.
Token == {ReqOf(h) : h \in Handshake} \cup {{AckOf(h)} : h \in Handshake}

Once(s) ==
    \A T \in Token : \A i, j \in DOMAIN s : s[i] \in T /\ s[j] \in T => i = j

\* The activation FIFO holds the Req, the Ack, both, or nothing.
QueuesReq(d, h) ==
    \E r \in ReqOf(h) : actq[d] = <<r>> \/ actq[d] = <<r, AckOf(h)>>
QueuesAck(d, h) ==
    \/ actq[d] = <<AckOf(h)>>
    \/ \E r \in ReqOf(h) : actq[d] = <<r, AckOf(h)>>

-----------------------------------------------------------------------------
(* The handshakes.                                                         *)

\* The Req of d, and the Ack that answers it.
Exchange(v, d, h) ==
    LET e == Peer(d) IN
    /\ TxReq(h) \in hs[d] => ~QueuesReq(d, h)
    /\ RxReq(h) \in hs[e] => TxReq(h) \in hs[d]
    /\ RxAck(h) \in hs[e] => RxReq(h) \in hs[e]
    /\ TxAck(h) \in hs[d] => RxAck(h) \in hs[e]
    /\ Holds(Line(v, d), ReqOf(h)) <=> TxReq(h) \in hs[d] /\ RxReq(h) \notin hs[e]
    /\ QueuesAck(e, h) <=> RxReq(h) \in hs[e] /\ RxAck(h) \notin hs[e]
    /\ Holds(Line(v, e), {AckOf(h)}) <=> RxAck(h) \in hs[e] /\ TxAck(h) \notin hs[d]

\* d is in handshake h.  A flag is seen by the FSM one edge after it is set:
\* what set it is still in the misc FIFO, or nothing else is decoded before.
Here(v, d, h) ==
    /\ Half(d) = h
    /\ hs[d] \subseteq FlagOf(h)
    /\ actq[d] = <<>> \/ QueuesReq(d, h) \/ QueuesAck(d, h)
    /\ ~Holds(Line(v, Peer(d)), Message \ (ReqOf(h) \cup {AckOf(h)}))
    /\ TxReq(h) \in hs[d] /\ st[d] = First(h) => Holds(misc[d], ReqOf(h))
    /\ RxAck(h) \in hs[d] => st[d] = Second(h)
    /\ Full(d, h) => gap[d] > 0 \/ Holds(misc[d], {AckOf(h)})

\* d is in handshake h and its peer in the next one: d has only to receive
\* the Ack, or has just received it.
Behind(v, d, h) ==
    /\ st[d] = Second(h)
    /\ {TxReq(h), RxReq(h), RxAck(h)} \subseteq hs[d] /\ hs[d] \subseteq FlagOf(h)
    /\ actq[d] = <<>>
    /\ ~Holds(Line(v, d), Message)
    /\ ~Holds(Line(v, Peer(d)), Message \ (ReqOf(Other(h)) \cup {AckOf(h)}))
    /\ TxAck(h) \in hs[d] <=> ~Holds(Line(v, Peer(d)), {AckOf(h)})
    /\ Before(Line(v, Peer(d)), {AckOf(h)}, ReqOf(Other(h)))
    /\ TxAck(h) \in hs[d] => gap[d] > 0

\* h is the handshake of the die that is ahead.
InStep(v, h) ==
    /\ \E d \in Die : Half(d) = h
    /\ \A d \in Die :
          /\ Once(Line(v, d))
          /\ Exchange(v, d, h)
          /\ Here(v, d, h) \/ Behind(v, d, Other(h))

-----------------------------------------------------------------------------
(* Data and receive FIFOs.                                                 *)

\* The kinds that the DeactivateReq of d ends; its DeactivateAck ends the rest.
Ended(d) == IF d \in SeparateRsp THEN {"req"} ELSE Kind

\* Data at position i of s, the line of d, are ahead of the message of d that
\* ends them in the session they belong to.
Covered(s, i, d) ==
    \/ Half(d) = "activate" /\ Full(d, "activate")
    \/ /\ Half(d) = "activate" /\ Half(Peer(d)) = "deactivate"
       /\ s[i] \notin Ended(d) /\ Followed(s, i, {"DeactivateAck"})
    \/ /\ Half(d) = "deactivate"
       /\ IF s[i] \in Ended(d)
          THEN "tx_deactivate_req" \notin hs[d] \/ Followed(s, i, DeactReq)
          ELSE "rx_deactivate_ack" \notin hs[d] \/ Followed(s, i, {"DeactivateAck"})

\* ... and behind the ActivateAck with which d enters it.
DataInSession(v, d) ==
    LET L == Line(v, d) IN
    /\ Before(L, {"ActivateAck"}, Kind)
    /\ \A i \in DOMAIN L : L[i] \in Kind => Covered(L, i, d)

\* A die that asked for a session had an empty receive FIFO, and has nothing
\* in it before the session.
StartsEmpty(d) ==
    /\ "old" \in rx[d] =>
          /\ Half(d) = "activate"
          /\ "tx_activate_req" \notin hs[d]
          /\ ~QueuesReq(d, "activate")
    /\ /\ st[d] = "DISABLED"
       /\ "tx_activate_req" \in hs[d] \/ QueuesReq(d, "activate")
       => rx[d] = {}

-----------------------------------------------------------------------------

\* No die has an error, and the link is up at one end at least.
Healthy == (\A d \in Die : ~faulted[d]) /\ (\E d \in Die : link[d])

\* v is the wire at the ends that are up.
Agrees(v) == \A d \in Die : link[d] => v[Peer(d)] = wire[Peer(d)]

Coherent(v) ==
    /\ Agrees(v)
    /\ \E h \in Handshake : InStep(v, h)
    /\ \A d \in Die : DataInSession(v, d)

HandshakeInv ==
    /\ \A d \in Die : ~link[d] => wire[Peer(d)] = <<>>
    /\ Healthy => /\ \E v \in [Die -> Seq(Item)] : Coherent(v)
                  /\ \A d \in Die : StartsEmpty(d)
===============================================================================

------------------------------ MODULE AouSession ------------------------------
(***************************************************************************)
(* What the two activation controllers promise about one direction of the  *)
(* traffic.  The sender's transmit path spends credits that the grantor's  *)
(* receive path advertises; a session first opens the way for credits and  *)
(* then the way for messages, and closes them in the order that leaves no  *)
(* message without a credit.  The state is what the enable outputs of the  *)
(* two controllers (RTL/AOU_ACTIVATION_CTRL.sv) say at the end of a cycle. *)
(*                                                                         *)
(* AouActivationSession shows that AouActivation implements this           *)
(* specification; AouCredit builds the credit loop on top of it.           *)
(***************************************************************************)

CONSTANT SeparateRsp    \* TRUE or FALSE: AOU_CON0.CREDIT_MANAGE, the same
                        \* at both dies

VARIABLES
    sender,     \* "down": credits that arrive are dropped (O_CRD_COUNT_EN
                \* is 0); "counting": they are counted; "open": it has been
                \* allowed to send
    sends,      \* the kinds it may send (O_TX_*_CREDITED_MESSAGE_EN)
    grantor,    \* "down"; "boot": it advertises for the first time;
                \* "session": messages may arrive
    grants,     \* the kinds it may grant credit for (O_*_CRD_ADVERTISE_EN)
    closed,     \* the flit with the grantor's last activation message of
                \* the last session has left
    flying      \* the kinds of which a message is on the way

vars == <<sender, sends, grantor, grants, closed, flying>>

\* Requests and write data; responses.
Kind == {"req", "rsp"}

\* The sender's DeactivateReq ends these kinds, the grantor's the others.
Told == IF SeparateRsp THEN {"req"} ELSE Kind

TypeOK ==
    /\ sender \in {"down", "counting", "open"}
    /\ sends \in SUBSET Kind
    /\ grantor \in {"down", "boot", "session"}
    /\ grants \in SUBSET Kind
    /\ closed \in BOOLEAN
    /\ flying \in SUBSET Kind

Init ==
    /\ sender = "down" /\ sends = {}
    /\ grantor = "down" /\ grants = {} /\ closed = TRUE
    /\ flying = {}

-----------------------------------------------------------------------------
(* A session begins.                                                       *)

\* The grantor's ActivateAck leaves, perhaps the last of its four activation
\* messages: it advertises.
Boot ==
    /\ grantor = "down" /\ sender = "down"
    /\ grantor' \in {"boot", "session"}
    /\ grants' = Kind
    /\ closed' = FALSE
    /\ UNCHANGED <<sender, sends, flying>>

\* That Ack arrives.
Count ==
    /\ sender = "down"
    /\ Told \subseteq grants
    /\ sender' = "counting"
    /\ UNCHANGED <<sends, grantor, grants, closed, flying>>

\* The sender has all four activation messages, the Ack perhaps just now.
Open ==
    /\ sender # "open"
    /\ Told \subseteq grants
    /\ sender' = "open"
    /\ sends' = Kind
    /\ UNCHANGED <<grantor, grants, closed, flying>>

\* And so has the grantor.
Establish ==
    /\ grantor = "boot"
    /\ grantor' = "session"
    /\ UNCHANGED <<sender, sends, grants, closed, flying>>

-----------------------------------------------------------------------------
(* Messages.                                                               *)

Depart(kind) ==
    /\ kind \in sends
    /\ flying' = flying \cup {kind}
    /\ UNCHANGED <<sender, sends, grantor, grants, closed>>

\* Others of its kind may follow it.
Arrive(kind) ==
    /\ kind \in flying
    /\ grantor = "session"
    /\ flying' \in {flying, flying \ {kind}}
    /\ UNCHANGED <<sender, sends, grantor, grants, closed>>

-----------------------------------------------------------------------------
(* A session ends.  A kind stops at the die that asks before it stops at   *)
(* the die that is told, and a die may ask and be told in one cycle.       *)

\* The sender's DeactivateReq leaves ...
StopSending ==
    /\ sender = "open"
    /\ sends \cap Told # {}
    /\ sends' \in {sends \ Told, IF grants \subseteq Told THEN {} ELSE sends \ Told}
    /\ UNCHANGED <<sender, grantor, grants, closed, flying>>

\* ... and arrives, after all that was sent before it.
HearSenderStop ==
    /\ grantor = "session"
    /\ sender = "open"
    /\ (sends \cup flying) \cap Told = {}
    /\ grants \cap Told # {}
    /\ grants' \in {grants \ Told, {}}
    /\ UNCHANGED <<sender, sends, grantor, closed, flying>>

\* The grantor's DeactivateReq leaves ...
StopGranting ==
    /\ grantor = "session"
    /\ grants \ Told # {}
    /\ grants' = grants \cap Told
    /\ UNCHANGED <<sender, sends, grantor, closed, flying>>

\* ... and arrives.
HearGrantorStop ==
    /\ sender = "open"
    /\ grants \subseteq Told
    /\ sends \ Told # {}
    /\ sends' = sends \cap Told
    /\ UNCHANGED <<sender, grantor, grants, closed, flying>>

\* The grantor's last activation message waits in its FIFO, perhaps until
\* the grantor is DISABLED.
Close ==
    /\ ~closed
    /\ grantor # "boot"
    /\ grants = {}
    /\ closed' = TRUE
    /\ UNCHANGED <<sender, sends, grantor, grants, flying>>

\* Each side is DISABLED when it has sent and received Req and Ack.
SenderDown ==
    /\ sender = "open"
    /\ sends = {}
    /\ closed
    /\ sender' = "down"
    /\ UNCHANGED <<sends, grantor, grants, closed, flying>>

GrantorDown ==
    /\ grantor = "session"
    /\ grants = {}
    /\ sends = {} /\ flying = {}
    /\ grantor' = "down"
    /\ closed' \in {closed, TRUE}
    /\ UNCHANGED <<sender, sends, grants, flying>>

Next ==
    \/ Boot \/ Count \/ Open \/ Establish
    \/ \E kind \in Kind : Depart(kind) \/ Arrive(kind)
    \/ StopSending \/ HearSenderStop
    \/ StopGranting \/ HearGrantorStop
    \/ Close \/ SenderDown \/ GrantorDown

Spec == Init /\ [][Next]_vars
===============================================================================

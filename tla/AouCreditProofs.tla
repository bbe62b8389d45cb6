--------------------------- MODULE AouCreditProofs ---------------------------
(***************************************************************************)
(* The credit loop never loses a message, for any number of resource       *)
(* planes and classes, any FIFO depths and message sizes, as long as       *)
(* sessions end in the orderly way with CREDIT_MANAGE = 1.                  *)
(***************************************************************************)
EXTENDS AouCredit, TLAPS

Orderly == Quiescent /\ SeparateRsp

-----------------------------------------------------------------------------
(* The inductive invariant.                                                *)

Typed ==
    /\ sender \in {"down", "counting", "open"}
    /\ grantor \in {"down", "boot", "session"}
    /\ sends \in SUBSET {"req", "rsp"} /\ grants \in SUBSET {"req", "rsp"}
    /\ closed \in BOOLEAN
    /\ cnt \in [Channel -> Nat] /\ rxq \in [Channel -> Nat]
    /\ crd \in [Channel -> Nat] /\ data \in [Channel -> Nat]
    /\ held \in [Channel -> Nat] /\ txq \in [Channel -> Nat]
    /\ slot \in Slot

Bounded == \A ch \in Channel : cnt[ch] <= Max[ch] /\ rxq[ch] <= Max[ch]

Covered == grantor # "down" => \A ch \in Channel : Outstanding(ch) <= cnt[ch]

\* What is empty in which phase of the session.
Phases ==
    /\ grantor = "down" =>
          /\ sends = {} /\ grants = {} /\ stage # "done"
          /\ \A ch \in Channel : cnt[ch] = 0 /\ data[ch] = 0
    /\ sender = "down" => \A ch \in Channel : held[ch] = 0
    /\ sender # "open" => sends = {}
    /\ sender # "open" /\ grants # {} => "req" \in grants
    /\ sender = "counting" => grants # {}
    /\ sender = "down" /\ grants = {} =>
          closed /\ \A ch \in Channel : crd[ch] = 0
    /\ closed => grants = {} /\ \A ch \in Channel : InSlot[ch] = 0

\* No message waits when its kind has stopped.
Stopped ==
    \A ch \in Channel :
        /\ KindOf(ch) \notin sends => txq[ch] = 0
        /\ KindOf(ch) = "rsp" /\ "rsp" \notin grants =>
              txq[ch] = 0 /\ data[ch] = 0 /\ rxq[ch] = 0
        /\ KindOf(ch) = "rsp" /\ grantor # "session" => rxq[ch] = 0

IInv == Typed /\ Bounded /\ Covered /\ Phases /\ Stopped

-----------------------------------------------------------------------------
(* The operators.                                                          *)

LEMMA ChannelFacts ==
    \A ch \in Channel :
        /\ Max[ch] \in Nat /\ Wrap[ch] \in Nat /\ Max[ch] < Wrap[ch]
        /\ Gran[ch[1]] \in Nat /\ Gran[ch[1]] >= 1
        /\ TxMax[ch] \in Nat
        /\ KindOf(ch) \in {"req", "rsp"}
    BY CreditAssumption DEF Channel, KindOf

\* The amount a field names never exceeds what is available.
LEMMA BestBound ==
    ASSUME NEW c, NEW n \in Nat
    PROVE  Best(c, n) \in Nat /\ Best(c, n) <= n
<1> DEFINE P(m) == /\ m \in CreditTable(c) /\ m <= n
                   /\ \A k \in CreditTable(c) : k <= n => k <= m
<1>1. \E m \in CreditTable(c) : P(m)
    <2>1. CASE n < 1               BY <2>1 DEF CreditTable
    <2>2. CASE 1 <= n /\ n < 4     BY <2>2 DEF CreditTable
    <2>3. CASE 4 <= n /\ n < 8     BY <2>3 DEF CreditTable
    <2>4. CASE 8 <= n /\ (c \in ShortClass \/ n < 16)
        BY <2>4 DEF CreditTable
    <2>5. CASE c \notin ShortClass /\ 16 <= n /\ n < 32   BY <2>5 DEF CreditTable
    <2>6. CASE c \notin ShortClass /\ 32 <= n /\ n < 64   BY <2>6 DEF CreditTable
    <2>7. CASE c \notin ShortClass /\ 64 <= n /\ n < 128  BY <2>7 DEF CreditTable
    <2>8. CASE c \notin ShortClass /\ 128 <= n            BY <2>8 DEF CreditTable
    <2> QED BY <2>1, <2>2, <2>3, <2>4, <2>5, <2>6, <2>7, <2>8
<1>2. P(Best(c, n)) BY <1>1 DEF Best
<1> QED BY <1>2 DEF CreditTable

LEMMA EmptyFacts == Empty \in [Channel -> Nat] /\ \A ch \in Channel : Empty[ch] = 0
    BY DEF Empty

LEMMA SlotFacts ==
    ASSUME slot \in Slot, NEW flit \in BOOLEAN
    PROVE  /\ InSlot \in [Channel -> Nat]
           /\ SlotLeaving(flit) \in [Channel -> Nat]
    BY EmptyFacts DEF Slot, SlotLeaving, InSlot

\* A header never carries more than the counters take up.
LEMMA PayloadCounted ==
    ASSUME NEW best \in [Channel -> Nat]
    PROVE  /\ Payload(best) \in [Channel -> Nat]
           /\ Counted(best) \in [Channel -> Nat]
           /\ \A ch \in Channel :
                /\ Payload(best)[ch] <= Counted(best)[ch]
                /\ Counted(best)[ch] <= best[ch]
                /\ stage # "done" => Counted(best)[ch] = 0
<1>1. \A r : /\ OfPlane(best, r) \in [Channel -> Nat]
             /\ \A ch \in Channel : /\ OfPlane(best, r)[ch] <= best[ch]
                                    /\ stage # "done" => OfPlane(best, r)[ch] = 0
    BY DEF OfPlane
<1>2. /\ Payload(best) \in [Channel -> Nat] /\ Counted(best) \in [Channel -> Nat]
      /\ \A ch \in Channel : /\ Counted(best)[ch] <= best[ch]
                             /\ stage # "done" => Counted(best)[ch] = 0
    BY <1>1 DEF Payload, Counted
<1>3. CASE Payload(best) = Empty
    BY <1>2, <1>3, EmptyFacts
<1>4. CASE Payload(best) # Empty
    BY <1>2, <1>4 DEF Payload, Counted, NamedRp
<1> QED BY <1>2, <1>3, <1>4

-----------------------------------------------------------------------------
(* One clock edge of the grantor.                                          *)

\* Within the FIFO, the counters do not wrap, and a field names no more than
\* is free.
LEMMA Advertised ==
    ASSUME Typed, Bounded, NEW pop \in SUBSET Poppable, NEW kinds,
           \A ch \in Channel : Returned(pop, ch) <= cnt[ch]
    PROVE  /\ BestIndex(pop, kinds) \in [Channel -> Nat]
           /\ \A ch \in Channel :
                /\ Returned(pop, ch) \in Nat
                /\ BestIndex(pop, kinds)[ch] <= Max[ch] - cnt[ch] + Returned(pop, ch)
                /\ kinds = {} => BestIndex(pop, kinds)[ch] = 0
<1>1. ASSUME NEW ch \in Channel
      PROVE  /\ Returned(pop, ch) \in Nat
             /\ Available(pop, ch) \in Nat
             /\ Available(pop, ch) = Max[ch] - cnt[ch] + Returned(pop, ch)
    <2>1. Returned(pop, ch) \in Nat BY ChannelFacts DEF Returned
    <2>2. cnt[ch] \in Nat /\ cnt[ch] <= Max[ch] BY DEF Typed, Bounded
    <2> QED BY <2>1, <2>2, ChannelFacts DEF Available, Truncate
<1>2. ASSUME NEW ch \in Channel
      PROVE  /\ BestIndex(pop, kinds)[ch] \in Nat
             /\ BestIndex(pop, kinds)[ch] <= Max[ch] - cnt[ch] + Returned(pop, ch)
             /\ kinds = {} => BestIndex(pop, kinds)[ch] = 0
    <2>1. Best(ch[1], Available(pop, ch)) \in Nat /\ Best(ch[1], Available(pop, ch)) <= Available(pop, ch)
        BY <1>1, BestBound
    <2> QED BY <1>1, <2>1 DEF BestIndex
<1> QED BY <1>1, <1>2 DEF BestIndex

\* The counter moves with the credit, and the credit with the slot.
LEMMA EdgeStep ==
    ASSUME Typed, Bounded,
           NEW pop \in SUBSET Poppable, NEW flit \in BOOLEAN, NEW initial \in BOOLEAN,
           \A ch \in Channel : Returned(pop, ch) <= cnt[ch],
           stage # "done" \/ ~initial,
           Edge(pop, flit, initial)
    PROVE  /\ rxq' \in [Channel -> Nat] /\ cnt' \in [Channel -> Nat]
           /\ crd' \in [Channel -> Nat] /\ slot' \in Slot
           /\ \A ch \in Channel :
                /\ rxq'[ch] = rxq[ch] - (IF ch \in pop THEN Gran[ch[1]] ELSE 0)
                /\ cnt'[ch] <= Max[ch]
                /\ crd'[ch] + InSlot'[ch] - crd[ch] - InSlot[ch]
                      <= cnt'[ch] - cnt[ch] + Returned(pop, ch)
                /\ grants = {} /\ ~initial /\ InSlot[ch] = 0 => crd'[ch] = crd[ch]
                /\ grants = {} /\ ~initial /\ (flit \/ InSlot[ch] = 0) =>
                      InSlot'[ch] = 0
<1> DEFINE kinds     == IF initial THEN Session!Kind ELSE grants
           best      == BestIndex(pop, kinds)
           fill      == flit \/ ~slot.valid
           crdtGrant == IF initial THEN best ELSE Empty
           msgCredit == IF fill THEN Counted(best) ELSE Empty
<1>1. /\ best \in [Channel -> Nat]
      /\ \A ch \in Channel :
            /\ Returned(pop, ch) \in Nat
            /\ best[ch] <= Max[ch] - cnt[ch] + Returned(pop, ch)
            /\ kinds = {} => best[ch] = 0
    BY Advertised
<1>2. /\ Payload(best) \in [Channel -> Nat] /\ Counted(best) \in [Channel -> Nat]
      /\ \A ch \in Channel : /\ Payload(best)[ch] <= Counted(best)[ch]
                             /\ Counted(best)[ch] <= best[ch]
                             /\ stage # "done" => Counted(best)[ch] = 0
    BY <1>1, PayloadCounted
<1> HIDE DEF kinds, best
<1>3. /\ rxq' = [ch \in Channel |-> IF ch \in pop THEN rxq[ch] - Gran[ch[1]] ELSE rxq[ch]]
      /\ cnt' = [ch \in Channel |-> Truncate(ch, cnt[ch] - Returned(pop, ch)
                                                 + msgCredit[ch] + crdtGrant[ch])]
      /\ slot' = IF fill THEN [valid |-> TRUE, grant |-> Payload(best)] ELSE slot
      /\ crd' = Plus(Plus(crd, SlotLeaving(flit)), crdtGrant)
    BY DEF Edge, kinds, best
<1>4. /\ InSlot \in [Channel -> Nat] /\ SlotLeaving(flit) \in [Channel -> Nat]
      /\ fill /\ ~flit => \A ch \in Channel : InSlot[ch] = 0
      /\ flit => SlotLeaving(flit) = InSlot
      /\ ~flit => \A ch \in Channel : SlotLeaving(flit)[ch] = 0
    BY SlotFacts, EmptyFacts DEF Typed, SlotLeaving, InSlot
<1>5. /\ slot' \in Slot
      /\ InSlot' = IF fill THEN Payload(best) ELSE InSlot
    BY <1>2, <1>3 DEF Slot, InSlot, Typed
<1>6. /\ msgCredit \in [Channel -> Nat] /\ crdtGrant \in [Channel -> Nat]
      /\ \A ch \in Channel :
            /\ msgCredit[ch] + crdtGrant[ch] <= best[ch]
            /\ fill => msgCredit[ch] = Counted(best)[ch]
    BY <1>1, <1>2, EmptyFacts
<1>7. ASSUME NEW ch \in Channel
      PROVE  /\ crd'[ch] = crd[ch] + SlotLeaving(flit)[ch] + crdtGrant[ch]
             /\ crd'[ch] \in Nat
    BY <1>3, <1>4, <1>6 DEF Plus, Typed
<1>8. ASSUME NEW ch \in Channel
      PROVE  /\ cnt'[ch] = cnt[ch] - Returned(pop, ch) + msgCredit[ch] + crdtGrant[ch]
             /\ cnt'[ch] \in Nat /\ cnt'[ch] <= Max[ch]
    <2>1. cnt[ch] \in Nat BY DEF Typed
    <2> QED BY <1>1, <1>3, <1>6, <2>1, ChannelFacts DEF Truncate
<1>9. ASSUME NEW ch \in Channel
      PROVE  /\ rxq'[ch] = rxq[ch] - (IF ch \in pop THEN Gran[ch[1]] ELSE 0)
             /\ rxq'[ch] \in Nat
    BY <1>3, ChannelFacts DEF Poppable, Typed
<1>10. /\ rxq' \in [Channel -> Nat] /\ cnt' \in [Channel -> Nat] /\ crd' \in [Channel -> Nat]
    BY <1>3, <1>7, <1>8, <1>9 DEF Plus
<1>11. ASSUME NEW ch \in Channel
       PROVE  crd'[ch] + InSlot'[ch] - crd[ch] - InSlot[ch]
                <= cnt'[ch] - cnt[ch] + Returned(pop, ch)
    <2>2. crd[ch] \in Nat /\ cnt[ch] \in Nat /\ InSlot[ch] \in Nat
          /\ SlotLeaving(flit)[ch] \in Nat /\ Returned(pop, ch) \in Nat
        BY <1>1, <1>4 DEF Typed
    <2>3. /\ msgCredit[ch] \in Nat /\ crdtGrant[ch] \in Nat
          /\ Payload(best)[ch] \in Nat /\ Payload(best)[ch] <= Counted(best)[ch]
          /\ Counted(best)[ch] \in Nat
        BY <1>2, <1>6
    <2>4. CASE fill
        <3>1. InSlot'[ch] = Payload(best)[ch] BY <1>5, <2>4
        <3>2. SlotLeaving(flit)[ch] = InSlot[ch] BY <1>4, <2>4
        <3>3. msgCredit[ch] = Counted(best)[ch] BY <1>6, <2>4
        <3>4. crd'[ch] = crd[ch] + InSlot[ch] + crdtGrant[ch]
            BY <1>7, <3>2
        <3>5. cnt'[ch] = cnt[ch] - Returned(pop, ch) + Counted(best)[ch] + crdtGrant[ch]
            BY <1>8, <3>3
        <3> HIDE DEF msgCredit, crdtGrant
        <3> QED BY <2>2, <2>3, <3>1, <3>4, <3>5
    <2>5. CASE ~fill
        <3>1. InSlot'[ch] = InSlot[ch] BY <1>5, <2>5
        <3>2. SlotLeaving(flit)[ch] = 0 BY <1>4, <2>5
        <3>3. crd'[ch] = crd[ch] + crdtGrant[ch]
            BY <1>7, <2>2, <2>3, <3>2
        <3>4. cnt'[ch] = cnt[ch] - Returned(pop, ch) + crdtGrant[ch]
            BY <1>8, <2>2, <2>3, <2>5, EmptyFacts
        <3> HIDE DEF msgCredit, crdtGrant
        <3> QED BY <2>2, <2>3, <3>1, <3>3, <3>4
    <2> QED BY <2>4, <2>5
<1>12. ASSUME NEW ch \in Channel, grants = {}, ~initial, flit \/ InSlot[ch] = 0
       PROVE  /\ InSlot'[ch] = 0
              /\ InSlot[ch] = 0 => crd'[ch] = crd[ch]
    <2>1. best[ch] = 0 BY <1>1, <1>12 DEF kinds
    <2>2. Payload(best)[ch] = 0 BY <1>2, <2>1
    <2>3. crdtGrant[ch] = 0 BY <1>12, EmptyFacts
    <2>4. InSlot[ch] = 0 => SlotLeaving(flit)[ch] = 0 BY <1>4
    <2>5. InSlot[ch] = 0 => crd'[ch] = crd[ch] BY <1>7, <2>3, <2>4 DEF Typed
    <2>6. CASE fill
        BY <1>5, <2>2, <2>5, <2>6
    <2>7. CASE ~fill
        <3>1. ~flit BY <2>7
        <3>2. InSlot' = InSlot BY <1>5, <2>7
        <3> QED BY <1>12, <2>5, <3>1, <3>2
    <2> QED BY <2>6, <2>7
<1> QED BY <1>5, <1>8, <1>9, <1>10, <1>11, <1>12

-----------------------------------------------------------------------------
(* The actions preserve the invariant.                                     *)

LEMMA InitIInv == Init => IInv
<1> SUFFICES ASSUME Init PROVE IInv
    OBVIOUS
<1>1. \A ch \in Channel :
        /\ cnt[ch] = 0 /\ rxq[ch] = 0 /\ crd[ch] = 0 /\ data[ch] = 0
        /\ held[ch] = 0 /\ txq[ch] = 0 /\ InSlot[ch] = 0
    BY EmptyFacts DEF Init, InSlot, NoSlot
<1>2. Typed
    BY EmptyFacts DEF Init, Typed, NoSlot, Slot, Session!Init
<1>3. Bounded BY <1>1, ChannelFacts DEF Bounded
<1>4. Covered BY DEF Init, Session!Init, Covered
<1>5. Phases BY <1>1 DEF Init, Session!Init, Phases
<1>6. Stopped BY <1>1 DEF Stopped
<1> QED BY <1>2, <1>3, <1>4, <1>5, <1>6 DEF IInv

\* A pop returns no more credit than the counter holds.
LEMMA ReturnedCovered ==
    ASSUME IInv, NEW pop \in SUBSET Poppable
    PROVE  \A ch \in Channel :
            /\ Returned(pop, ch) \in Nat /\ Returned(pop, ch) <= cnt[ch]
            /\ ch \in pop => rxq[ch] >= Gran[ch[1]]
            /\ grantor = "session" =>
                  Returned(pop, ch) = IF ch \in pop THEN Gran[ch[1]] ELSE 0
            /\ grantor # "session" => Returned(pop, ch) = 0
<1> SUFFICES ASSUME NEW ch \in Channel
             PROVE  /\ Returned(pop, ch) \in Nat /\ Returned(pop, ch) <= cnt[ch]
                    /\ ch \in pop => rxq[ch] >= Gran[ch[1]]
                    /\ grantor = "session" =>
                          Returned(pop, ch) = IF ch \in pop THEN Gran[ch[1]] ELSE 0
                    /\ grantor # "session" => Returned(pop, ch) = 0
    OBVIOUS
<1>1. ch \in pop => rxq[ch] >= Gran[ch[1]] BY DEF Poppable
<1>2. Gran[ch[1]] \in Nat /\ Gran[ch[1]] >= 1 BY ChannelFacts
<1>3. cnt[ch] \in Nat /\ rxq[ch] \in Nat BY DEF IInv, Typed
<1>4. CASE grantor = "session"
    <2>1. rxq[ch] <= cnt[ch]
        <3>1. Outstanding(ch) <= cnt[ch] BY <1>4 DEF IInv, Covered
        <3>2. InSlot[ch] \in Nat BY SlotFacts DEF IInv, Typed
        <3>3. held[ch] \in Nat /\ crd[ch] \in Nat /\ txq[ch] \in Nat /\ data[ch] \in Nat
            BY DEF IInv, Typed
        <3> QED BY <1>3, <1>4, <3>1, <3>2, <3>3 DEF Outstanding
    <2>2. Returned(pop, ch) = IF ch \in pop THEN Gran[ch[1]] ELSE 0
        BY <1>4 DEF Returned
    <2> QED BY <1>1, <1>2, <1>3, <1>4, <2>1, <2>2
<1>5. CASE grantor # "session"
    <2>1. ch \in pop => KindOf(ch) # "rsp"
        BY <1>1, <1>2, <1>3, <1>5 DEF IInv, Stopped
    <2>2. Returned(pop, ch) = 0 BY <1>5, <2>1 DEF Returned
    <2> QED BY <1>1, <1>3, <1>5, <2>2
<1> QED BY <1>4, <1>5

\* A clock edge of the grantor in a session, or before it.
LEMMA GrantorStepIInv ==
    ASSUME IInv, NEW pop \in SUBSET Poppable, NEW flit \in BOOLEAN,
           grantor # "down", Edge(pop, flit, FALSE),
           UNCHANGED <<sender, sends, grantor, grants, data, held, txq>>,
           closed' = closed \/ (closed' = TRUE /\ grants = {} /\ flit)
    PROVE  IInv'
<1>1. Typed /\ Bounded /\ Covered /\ Phases /\ Stopped
    BY DEF IInv
<1>2. \A ch \in Channel :
        /\ Returned(pop, ch) \in Nat /\ Returned(pop, ch) <= cnt[ch]
        /\ ch \in pop => rxq[ch] >= Gran[ch[1]]
        /\ grantor = "session" =>
              Returned(pop, ch) = IF ch \in pop THEN Gran[ch[1]] ELSE 0
        /\ grantor # "session" => Returned(pop, ch) = 0
    BY ReturnedCovered
<1>3. /\ rxq' \in [Channel -> Nat] /\ cnt' \in [Channel -> Nat]
      /\ crd' \in [Channel -> Nat] /\ slot' \in Slot
      /\ \A ch \in Channel :
            /\ rxq'[ch] = rxq[ch] - (IF ch \in pop THEN Gran[ch[1]] ELSE 0)
            /\ cnt'[ch] <= Max[ch]
            /\ crd'[ch] + InSlot'[ch] - crd[ch] - InSlot[ch]
                  <= cnt'[ch] - cnt[ch] + Returned(pop, ch)
            /\ grants = {} /\ InSlot[ch] = 0 => crd'[ch] = crd[ch]
            /\ grants = {} /\ (flit \/ InSlot[ch] = 0) => InSlot'[ch] = 0
    <2>1. \A ch \in Channel : Returned(pop, ch) <= cnt[ch] BY <1>2
    <2>2. PICK initial \in BOOLEAN : initial = FALSE /\ Edge(pop, flit, initial)
        OBVIOUS
    <2>3. stage # "done" \/ ~initial BY <2>2
    <2>4. /\ rxq' \in [Channel -> Nat] /\ cnt' \in [Channel -> Nat]
          /\ crd' \in [Channel -> Nat] /\ slot' \in Slot
        BY <1>1, <2>1, <2>2, <2>3, EdgeStep
    <2>5. ASSUME NEW ch \in Channel
          PROVE  /\ rxq'[ch] = rxq[ch] - (IF ch \in pop THEN Gran[ch[1]] ELSE 0)
                 /\ cnt'[ch] <= Max[ch]
                 /\ crd'[ch] + InSlot'[ch] - crd[ch] - InSlot[ch]
                       <= cnt'[ch] - cnt[ch] + Returned(pop, ch)
        BY <1>1, <2>1, <2>2, <2>3, EdgeStep
    <2>6. ASSUME NEW ch \in Channel
          PROVE  /\ grants = {} /\ InSlot[ch] = 0 => crd'[ch] = crd[ch]
                 /\ grants = {} /\ (flit \/ InSlot[ch] = 0) => InSlot'[ch] = 0
        BY <1>1, <2>1, <2>2, <2>3, EdgeStep
    <2> QED BY <2>4, <2>5, <2>6
<1>4. closed \in BOOLEAN /\ closed' \in BOOLEAN /\ (closed => closed')
    BY <1>1 DEF Typed
<1>5. Typed' BY <1>1, <1>3, <1>4 DEF Typed, Slot
<1>6. \A ch \in Channel : rxq'[ch] \in Nat /\ rxq'[ch] <= rxq[ch]
    <2> TAKE ch \in Channel
    <2>1. Gran[ch[1]] \in Nat BY ChannelFacts
    <2>2. rxq'[ch] \in Nat /\ rxq[ch] \in Nat BY <1>1, <1>3 DEF Typed
    <2>3. rxq'[ch] = rxq[ch] - (IF ch \in pop THEN Gran[ch[1]] ELSE 0) BY <1>3
    <2> QED BY <2>1, <2>2, <2>3
<1>7. Bounded'
    <2> SUFFICES ASSUME NEW ch \in Channel PROVE cnt'[ch] <= Max[ch] /\ rxq'[ch] <= Max[ch]
        BY DEF Bounded
    <2>1. rxq[ch] \in Nat /\ rxq[ch] <= Max[ch] BY <1>1 DEF Typed, Bounded
    <2>2. rxq'[ch] \in Nat /\ rxq'[ch] <= rxq[ch] BY <1>6
    <2>3. Max[ch] \in Nat BY ChannelFacts
    <2> QED BY <1>3, <2>1, <2>2, <2>3
<1>8. Covered'
    <2> SUFFICES ASSUME NEW ch \in Channel PROVE Outstanding(ch)' <= cnt'[ch]
        BY DEF Covered
    <2>1. Outstanding(ch) <= cnt[ch] BY <1>1 DEF Covered
    <2>2. /\ held[ch] \in Nat /\ crd[ch] \in Nat /\ InSlot[ch] \in Nat /\ txq[ch] \in Nat
          /\ data[ch] \in Nat /\ rxq[ch] \in Nat /\ cnt[ch] \in Nat
        BY <1>1, SlotFacts DEF Typed
    <2>3. crd'[ch] \in Nat /\ cnt'[ch] \in Nat /\ rxq'[ch] \in Nat BY <1>3
    <2>4. InSlot'[ch] \in Nat BY <1>3, EmptyFacts DEF InSlot, Slot
    <2>5. crd'[ch] + InSlot'[ch] - crd[ch] - InSlot[ch]
            <= cnt'[ch] - cnt[ch] + Returned(pop, ch)
        BY <1>3
    <2>6. held'[ch] = held[ch] /\ txq'[ch] = txq[ch] /\ data'[ch] = data[ch]
        OBVIOUS
    <2>7. Returned(pop, ch) \in Nat BY <1>2
    <2>8. CASE grantor = "session"
        <3>1. rxq'[ch] = rxq[ch] - Returned(pop, ch) BY <1>2, <1>3, <2>8
        <3>2. Outstanding(ch) = held[ch] + crd[ch] + InSlot[ch] + txq[ch] + data[ch] + rxq[ch]
            BY <2>8 DEF Outstanding
        <3>3. Outstanding(ch)' = held[ch] + crd'[ch] + InSlot'[ch] + txq[ch] + data[ch] + rxq'[ch]
            BY <2>8, <2>6 DEF Outstanding
        <3> QED BY <2>1, <2>2, <2>3, <2>4, <2>5, <2>7, <3>1, <3>2, <3>3
    <2>9. CASE grantor # "session"
        <3>1. Returned(pop, ch) = 0 BY <1>2, <2>9
        <3>2. Outstanding(ch) = held[ch] + crd[ch] + InSlot[ch] + txq[ch] + data[ch] + 0
            BY <2>9 DEF Outstanding
        <3>3. Outstanding(ch)' = held[ch] + crd'[ch] + InSlot'[ch] + txq[ch] + data[ch] + 0
            BY <2>9, <2>6 DEF Outstanding
        <3> QED BY <2>1, <2>2, <2>3, <2>4, <2>5, <3>1, <3>2, <3>3
    <2> QED BY <2>8, <2>9
<1>9. Phases'
    <2>1. closed' => grants = {} /\ \A ch \in Channel : InSlot'[ch] = 0
        BY <1>1, <1>3, <1>4 DEF Phases
    <2>2. sender = "down" /\ grants = {} =>
             closed' /\ \A ch \in Channel : crd'[ch] = 0
        BY <1>1, <1>3, <1>4 DEF Phases
    <2> QED BY <1>1, <2>1, <2>2 DEF Phases
<1>10. Stopped'
    <2> SUFFICES ASSUME NEW ch \in Channel
                 PROVE  /\ KindOf(ch) \notin sends => txq[ch] = 0
                        /\ KindOf(ch) = "rsp" /\ "rsp" \notin grants =>
                              txq[ch] = 0 /\ data[ch] = 0 /\ rxq'[ch] = 0
                        /\ KindOf(ch) = "rsp" /\ grantor # "session" => rxq'[ch] = 0
        BY DEF Stopped, KindOf
    <2>1. rxq[ch] = 0 => rxq'[ch] = 0 BY <1>6
    <2> QED BY <1>1, <2>1 DEF Stopped
<1> QED BY <1>5, <1>7, <1>8, <1>9, <1>10 DEF IInv

LEMMA StutterIInv == ASSUME IInv, UNCHANGED vars PROVE IInv'
<1>1. /\ UNCHANGED <<sender, sends, grantor, grants, closed, cnt, stage, slot, crd>>
      /\ UNCHANGED <<rxq, data, held, txq>>
    BY DEF vars, sessionVars, grantorVars
<1>2. Typed' BY <1>1 DEF IInv, Typed, Slot
<1>3. Bounded' BY <1>1 DEF IInv, Bounded
<1>4. InSlot' = InSlot BY <1>1, EmptyFacts DEF InSlot
<1>5. Covered' BY <1>1, <1>4 DEF IInv, Covered, Outstanding
<1>6. Phases' BY <1>1, <1>4 DEF IInv, Phases
<1>7. Stopped' BY <1>1 DEF IInv, Stopped, KindOf
<1> QED BY <1>2, <1>3, <1>5, <1>6, <1>7 DEF IInv

LEMMA GrantorEdgeIInv == ASSUME IInv, GrantorEdge PROVE IInv'
<1>1. PICK pop \in SUBSET Poppable, flit \in BOOLEAN : GrantorStep(pop, flit)
    BY DEF GrantorEdge
<1>2. /\ grantor # "down" /\ Edge(pop, flit, FALSE)
      /\ UNCHANGED <<sender, sends, grantor, grants, data, held, txq>> /\ closed' = closed
    BY <1>1 DEF GrantorStep, sessionVars
<1> QED BY <1>2, GrantorStepIInv

LEMMA DrainDisabledIInv == ASSUME IInv, DrainDisabled PROVE IInv'
<1>1. PICK ch \in Poppable : rxq' = [rxq EXCEPT ![ch] = @ - Gran[ch[1]]]
    BY DEF DrainDisabled
<1>2. /\ UNCHANGED <<sender, sends, grantor, grants, closed, cnt, stage, slot, crd>>
      /\ UNCHANGED <<data, held, txq>> /\ grantor = "down"
    BY DEF DrainDisabled, sessionVars, grantorVars
<1>3. Typed /\ Bounded /\ Phases /\ Stopped BY DEF IInv
<1>4. ch \in Channel /\ rxq[ch] >= Gran[ch[1]] BY DEF Poppable
<1>5. \A c \in Channel : rxq'[c] \in Nat /\ rxq'[c] <= rxq[c]
    BY <1>1, <1>3, <1>4, ChannelFacts DEF Typed
<1>6. rxq' \in [Channel -> Nat] BY <1>1, <1>3, <1>5 DEF Typed
<1>7. Typed' BY <1>2, <1>3, <1>6 DEF Typed, Slot
<1>8. Bounded'
    <2> SUFFICES ASSUME NEW c \in Channel PROVE rxq'[c] <= Max[c]
        BY <1>2, <1>3 DEF Bounded
    <2>1. rxq[c] \in Nat /\ rxq[c] <= Max[c] BY <1>3 DEF Typed, Bounded
    <2> QED BY <1>5, <2>1, ChannelFacts
<1>9. Covered' BY <1>2 DEF Covered
<1>10. InSlot' = InSlot BY <1>2, EmptyFacts DEF InSlot
<1>11. Phases' BY <1>2, <1>3, <1>10 DEF Phases
<1>12. \A c \in Channel : rxq[c] = 0 => rxq'[c] = 0 BY <1>5
<1>13. Stopped' BY <1>2, <1>3, <1>12 DEF Stopped, KindOf
<1> QED BY <1>7, <1>8, <1>9, <1>11, <1>13 DEF IInv

\* With CREDIT_MANAGE = 1 the sender ends the requests, the grantor the
\* responses.
LEMMA ToldFacts ==
    /\ Orderly => Session!Told = {"req"} /\ Quiescent
    /\ Session!Kind = {"req", "rsp"}
    BY DEF Orderly, Session!Told, Session!Kind

\* What the messages and the credit of a channel may use in all.
Used(ch) == held[ch] + crd[ch] + txq[ch] + data[ch]
              + (IF grantor = "session" THEN rxq[ch] ELSE 0)

\* Messages and credit move, or get lost, but do not multiply.
LEMMA MoveIInv ==
    ASSUME IInv, UNCHANGED <<sender, sends, grantor, grants, closed, cnt, stage, slot>>,
           held' \in [Channel -> Nat], crd' \in [Channel -> Nat],
           txq' \in [Channel -> Nat], data' \in [Channel -> Nat],
           rxq' \in [Channel -> Nat],
           grantor # "session" => rxq' = rxq,
           \A c \in Channel : Used(c)' <= Used(c)
    PROVE  Typed' /\ Bounded' /\ Covered' /\ InSlot' = InSlot
<1>1. Typed /\ Bounded /\ Covered BY DEF IInv
<1>2. InSlot' = InSlot BY EmptyFacts DEF InSlot
<1>3. Typed' BY <1>1 DEF Typed, Slot
<1>4. ASSUME NEW c \in Channel, grantor # "down"
      PROVE  Outstanding(c)' <= cnt[c] /\ (grantor = "session" => rxq'[c] <= cnt[c])
    <2>1. Outstanding(c) <= cnt[c] BY <1>1, <1>4 DEF Covered
    <2>2. /\ held[c] \in Nat /\ txq[c] \in Nat /\ crd[c] \in Nat /\ InSlot[c] \in Nat
          /\ data[c] \in Nat /\ rxq[c] \in Nat /\ cnt[c] \in Nat
        BY <1>1, SlotFacts DEF Typed
    <2>3. /\ held'[c] \in Nat /\ txq'[c] \in Nat /\ crd'[c] \in Nat
          /\ data'[c] \in Nat /\ rxq'[c] \in Nat
        OBVIOUS
    <2>4. Used(c)' <= Used(c) OBVIOUS
    <2>5. PICK q \in Nat : q = IF grantor = "session" THEN rxq[c] ELSE 0
        BY <2>2
    <2>6. PICK r \in Nat : /\ r = IF grantor = "session" THEN rxq'[c] ELSE 0
                           /\ grantor = "session" => rxq'[c] = r
        BY <2>3
    <2>7. /\ Outstanding(c) = held[c] + crd[c] + InSlot[c] + txq[c] + data[c] + q
          /\ Used(c) = held[c] + crd[c] + txq[c] + data[c] + q
        BY <2>5 DEF Outstanding, Used
    <2>8. /\ Outstanding(c)' = held'[c] + crd'[c] + InSlot[c] + txq'[c] + data'[c] + r
          /\ Used(c)' = held'[c] + crd'[c] + txq'[c] + data'[c] + r
        BY <1>2, <2>6 DEF Outstanding, Used
    <2>9. Outstanding(c)' <= cnt[c] /\ r <= cnt[c]
        BY <2>1, <2>2, <2>3, <2>4, <2>7, <2>8
    <2> QED BY <2>6, <2>9
<1>5. Covered' BY <1>4 DEF Covered
<1>6. Bounded'
    <2> SUFFICES ASSUME NEW c \in Channel PROVE rxq'[c] <= Max[c]
        BY <1>1 DEF Bounded
    <2>1. CASE grantor = "session"
        <3>1. rxq'[c] <= cnt[c] BY <1>4, <2>1
        <3>2. cnt[c] <= Max[c] /\ cnt[c] \in Nat BY <1>1 DEF Bounded, Typed
        <3>3. rxq'[c] \in Nat OBVIOUS
        <3> QED BY <3>1, <3>2, <3>3, ChannelFacts
    <2>2. CASE grantor # "session"
        BY <1>1, <2>2 DEF Bounded
    <2> QED BY <2>1, <2>2
<1> QED BY <1>2, <1>3, <1>5, <1>6

LEMMA InsertIInv == ASSUME IInv, Orderly, NEW ch \in Channel, Insert(ch) PROVE IInv'
<1>1. /\ KindOf(ch) \in sends /\ Owed(ch) /\ held[ch] >= Gran[ch[1]]
      /\ held' = [held EXCEPT ![ch] = @ - Gran[ch[1]]]
      /\ txq' = [txq EXCEPT ![ch] = @ + Gran[ch[1]]]
      /\ UNCHANGED <<sender, sends, grantor, grants, closed, cnt, stage, slot, crd, rxq, data>>
    BY DEF Insert, sessionVars, grantorVars
<1>2. Typed /\ Phases /\ Stopped BY DEF IInv
<1>3. Gran[ch[1]] \in Nat BY ChannelFacts
<1>4. ASSUME NEW c \in Channel
      PROVE  /\ held'[c] \in Nat /\ txq'[c] \in Nat
             /\ held'[c] + txq'[c] = held[c] + txq[c]
             /\ c # ch => txq'[c] = txq[c]
    BY <1>1, <1>2, <1>3 DEF Typed
<1>5. held' \in [Channel -> Nat] /\ txq' \in [Channel -> Nat]
    BY <1>1, <1>2, <1>4 DEF Typed
<1>6. ASSUME NEW c \in Channel PROVE Used(c)' <= Used(c)
    <2>1. held[c] \in Nat /\ txq[c] \in Nat /\ crd[c] \in Nat /\ data[c] \in Nat
          /\ rxq[c] \in Nat
        BY <1>2 DEF Typed
    <2> QED BY <1>1, <1>4, <2>1 DEF Used
<1>7. Typed' /\ Bounded' /\ Covered' /\ InSlot' = InSlot
    BY <1>1, <1>2, <1>5, <1>6, MoveIInv DEF Typed
<1>8. sender = "open" /\ grantor # "down" BY <1>1, <1>2 DEF Phases
<1>9. Phases' BY <1>1, <1>2, <1>7, <1>8 DEF Phases
<1>10. KindOf(ch) = "rsp" => "rsp" \in grants
    BY <1>1, ToldFacts DEF Owed
<1>11. Stopped' BY <1>1, <1>2, <1>4, <1>10 DEF Stopped, KindOf
<1> QED BY <1>7, <1>9, <1>11 DEF IInv

LEMMA PackIInv == ASSUME IInv, NEW ch \in Channel, Pack(ch) PROVE IInv'
<1>1. /\ KindOf(ch) \in sends /\ txq[ch] >= Gran[ch[1]]
      /\ txq' = [txq EXCEPT ![ch] = @ - Gran[ch[1]]]
      /\ data' = [data EXCEPT ![ch] = @ + Gran[ch[1]]]
      /\ UNCHANGED <<sender, sends, grantor, grants, closed, cnt, stage, slot, crd, rxq, held>>
    BY DEF Pack, Session!Depart, grantorVars
<1>2. Typed /\ Phases /\ Stopped BY DEF IInv
<1>3. Gran[ch[1]] \in Nat /\ Gran[ch[1]] >= 1 BY ChannelFacts
<1>4. ASSUME NEW c \in Channel
      PROVE  /\ data'[c] \in Nat /\ txq'[c] \in Nat
             /\ data'[c] + txq'[c] = data[c] + txq[c]
             /\ c # ch => txq'[c] = txq[c] /\ data'[c] = data[c]
    BY <1>1, <1>2, <1>3 DEF Typed
<1>5. data' \in [Channel -> Nat] /\ txq' \in [Channel -> Nat]
    BY <1>1, <1>2, <1>4 DEF Typed
<1>6. ASSUME NEW c \in Channel PROVE Used(c)' <= Used(c)
    <2>1. held[c] \in Nat /\ txq[c] \in Nat /\ crd[c] \in Nat /\ data[c] \in Nat
          /\ rxq[c] \in Nat
        BY <1>2 DEF Typed
    <2> QED BY <1>1, <1>4, <2>1 DEF Used
<1>7. Typed' /\ Bounded' /\ Covered' /\ InSlot' = InSlot
    BY <1>1, <1>2, <1>5, <1>6, MoveIInv DEF Typed
<1>8. sender = "open" /\ grantor # "down" BY <1>1, <1>2 DEF Phases
<1>9. Phases' BY <1>1, <1>2, <1>7, <1>8 DEF Phases
<1>10. KindOf(ch) = "rsp" => "rsp" \in grants
    <2>1. txq[ch] # 0 BY <1>1, <1>2, <1>3 DEF Typed
    <2> QED BY <1>2, <2>1 DEF Stopped
<1>11. Stopped' BY <1>1, <1>2, <1>4, <1>10 DEF Stopped, KindOf
<1> QED BY <1>7, <1>9, <1>11 DEF IInv

LEMMA DeliverIInv == ASSUME IInv, NEW ch \in Channel, Deliver(ch) PROVE IInv'
<1>1. /\ grantor = "session" /\ data[ch] >= Gran[ch[1]]
      /\ data' = [data EXCEPT ![ch] = @ - Gran[ch[1]]]
      /\ rxq' = [rxq EXCEPT ![ch] = @ + Gran[ch[1]]]
      /\ UNCHANGED <<sender, sends, grantor, grants, closed, cnt, stage, slot, crd, held, txq>>
    BY DEF Deliver, Session!Arrive, grantorVars
<1>2. Typed /\ Phases /\ Stopped BY DEF IInv
<1>3. Gran[ch[1]] \in Nat /\ Gran[ch[1]] >= 1 BY ChannelFacts
<1>4. ASSUME NEW c \in Channel
      PROVE  /\ data'[c] \in Nat /\ rxq'[c] \in Nat
             /\ data'[c] + rxq'[c] = data[c] + rxq[c]
             /\ c # ch => rxq'[c] = rxq[c] /\ data'[c] = data[c]
    BY <1>1, <1>2, <1>3 DEF Typed
<1>5. data' \in [Channel -> Nat] /\ rxq' \in [Channel -> Nat]
    BY <1>1, <1>2, <1>4 DEF Typed
<1>6. ASSUME NEW c \in Channel PROVE Used(c)' <= Used(c)
    <2>1. held[c] \in Nat /\ txq[c] \in Nat /\ crd[c] \in Nat /\ data[c] \in Nat
          /\ rxq[c] \in Nat
        BY <1>2 DEF Typed
    <2> QED BY <1>1, <1>4, <2>1 DEF Used
<1>7. Typed' /\ Bounded' /\ Covered' /\ InSlot' = InSlot
    BY <1>1, <1>2, <1>5, <1>6, MoveIInv DEF Typed
<1>8. Phases' BY <1>1, <1>2, <1>7 DEF Phases
<1>9. KindOf(ch) = "rsp" => "rsp" \in grants
    <2>1. data[ch] # 0 BY <1>1, <1>2, <1>3 DEF Typed
    <2> QED BY <1>2, <2>1 DEF Stopped
<1>10. Stopped' BY <1>1, <1>2, <1>4, <1>9 DEF Stopped, KindOf
<1> QED BY <1>7, <1>8, <1>10 DEF IInv

LEMMA CreditArrivesIInv == ASSUME IInv, NEW ch \in Channel, CreditArrives(ch) PROVE IInv'
<1>1. PICK n \in 1..crd[ch] :
          /\ crd' = [crd EXCEPT ![ch] = @ - n]
          /\ held' = [held EXCEPT ![ch] = IF @ + n < TxMax[ch] THEN @ + n ELSE TxMax[ch]]
    BY DEF CreditArrives
<1>2. /\ sender # "down"
      /\ UNCHANGED <<sender, sends, grantor, grants, closed, cnt, stage, slot, rxq, data, txq>>
    BY DEF CreditArrives, sessionVars
<1>3. Typed /\ Phases /\ Stopped BY DEF IInv
<1>4. TxMax[ch] \in Nat /\ n \in Nat /\ n <= crd[ch] /\ crd[ch] \in Nat /\ held[ch] \in Nat
    BY <1>3, ChannelFacts DEF Typed
<1>5. ASSUME NEW c \in Channel
      PROVE  /\ crd'[c] \in Nat /\ held'[c] \in Nat
             /\ crd'[c] + held'[c] <= crd[c] + held[c]
    <2>1. CASE c = ch
        <3>1. crd'[c] = crd[c] - n BY <1>1, <1>3, <2>1 DEF Typed
        <3>2. held'[c] = IF held[c] + n < TxMax[c] THEN held[c] + n ELSE TxMax[c]
            BY <1>1, <1>3, <2>1 DEF Typed
        <3> QED BY <1>4, <2>1, <3>1, <3>2
    <2>2. CASE c # ch
        BY <1>1, <1>3, <2>2 DEF Typed
    <2> QED BY <2>1, <2>2
<1>6. crd' \in [Channel -> Nat] /\ held' \in [Channel -> Nat]
    BY <1>1, <1>3, <1>5 DEF Typed
<1>7. ASSUME NEW c \in Channel PROVE Used(c)' <= Used(c)
    <2>1. held[c] \in Nat /\ txq[c] \in Nat /\ crd[c] \in Nat /\ data[c] \in Nat
          /\ rxq[c] \in Nat
        BY <1>3 DEF Typed
    <2> QED BY <1>2, <1>5, <2>1 DEF Used
<1>8. Typed' /\ Bounded' /\ Covered' /\ InSlot' = InSlot
    BY <1>2, <1>3, <1>6, <1>7, MoveIInv DEF Typed
<1>9. Phases' BY <1>2, <1>3, <1>8 DEF Phases
<1>10. Stopped' BY <1>2, <1>3 DEF Stopped, KindOf
<1> QED BY <1>8, <1>9, <1>10 DEF IInv

-----------------------------------------------------------------------------
(* The steps of the session.                                               *)

\* Only the session changes.
LEMMA SessionStep ==
    ASSUME IInv, UNCHANGED <<grantorVars, rxq, data, held, txq>>,
           sender' \in {"down", "counting", "open"},
           sends' \in SUBSET {"req", "rsp"}, grants' \in SUBSET {"req", "rsp"},
           closed' = closed,
           grantor' = grantor \/ (grantor = "boot" /\ grantor' = "session" /\ rxq = Empty)
    PROVE  /\ Typed' /\ Bounded' /\ Covered' /\ InSlot' = InSlot
           /\ UNCHANGED <<cnt, stage, slot, crd, rxq, data, held, txq>>
<1>1. Typed /\ Bounded /\ Covered BY DEF IInv
<1>2. UNCHANGED <<cnt, stage, slot, crd, rxq, data, held, txq>>
    BY DEF grantorVars
<1>3. InSlot' = InSlot BY <1>2, EmptyFacts DEF InSlot
<1>4. Typed' BY <1>1, <1>2 DEF Typed, Slot
<1>5. Bounded' BY <1>1, <1>2 DEF Bounded
<1>6. CASE grantor' = grantor
    <2>1. Covered' BY <1>1, <1>2, <1>3, <1>6 DEF Covered, Outstanding
    <2> QED BY <1>2, <1>3, <1>4, <1>5, <2>1
<1>7. CASE grantor = "boot" /\ grantor' = "session" /\ rxq = Empty
    <2>1. ASSUME NEW c \in Channel PROVE Outstanding(c)' <= cnt'[c]
        <3>1. Outstanding(c) <= cnt[c] BY <1>1, <1>7 DEF Covered
        <3>2. Outstanding(c)' = Outstanding(c)
            BY <1>2, <1>3, <1>7, EmptyFacts DEF Outstanding
        <3> QED BY <1>2, <3>1, <3>2
    <2>2. Covered' BY <2>1 DEF Covered
    <2> QED BY <1>2, <1>3, <1>4, <1>5, <2>2
<1> QED BY <1>6, <1>7

LEMMA OpenIInv == ASSUME IInv, Orderly, Open PROVE IInv'
<1>1. /\ "req" \in grants /\ sender' = "open" /\ sends' = {"req", "rsp"}
      /\ UNCHANGED <<grantor, grants, closed>>
      /\ UNCHANGED <<grantorVars, rxq, data, held, txq>>
    BY ToldFacts DEF Open, Session!Open
<1>2. Typed /\ Phases /\ Stopped BY DEF IInv
<1>3. /\ Typed' /\ Bounded' /\ Covered' /\ InSlot' = InSlot
      /\ UNCHANGED <<cnt, stage, slot, crd, rxq, data, held, txq>>
    BY <1>1, <1>2, SessionStep DEF Typed
<1>4. Phases' BY <1>1, <1>2, <1>3 DEF Phases
<1>5. Stopped' BY <1>1, <1>2, <1>3, ChannelFacts DEF Stopped, KindOf
<1> QED BY <1>3, <1>4, <1>5 DEF IInv

LEMMA EstablishIInv == ASSUME IInv, Establish PROVE IInv'
<1>1. /\ grantor = "boot" /\ grantor' = "session" /\ rxq = Empty
      /\ UNCHANGED <<sender, sends, grants, closed>>
      /\ UNCHANGED <<grantorVars, rxq, data, held, txq>>
    BY DEF Establish, Session!Establish
<1>2. Typed /\ Phases /\ Stopped BY DEF IInv
<1>3. /\ Typed' /\ Bounded' /\ Covered' /\ InSlot' = InSlot
      /\ UNCHANGED <<cnt, stage, slot, crd, rxq, data, held, txq>>
    BY <1>1, <1>2, SessionStep DEF Typed
<1>4. Phases' BY <1>1, <1>2, <1>3 DEF Phases
<1>5. Stopped' BY <1>1, <1>2, <1>3 DEF Stopped, KindOf
<1> QED BY <1>3, <1>4, <1>5 DEF IInv

LEMMA CountIInv ==
    ASSUME IInv, Orderly, Session!Count, UNCHANGED <<grantorVars, rxq, data, held, txq>>
    PROVE  IInv'
<1>1. /\ sender = "down" /\ "req" \in grants /\ sender' = "counting"
      /\ UNCHANGED <<sends, grantor, grants, closed>>
    BY ToldFacts DEF Session!Count
<1>2. Typed /\ Phases /\ Stopped BY DEF IInv
<1>3. /\ Typed' /\ Bounded' /\ Covered' /\ InSlot' = InSlot
      /\ UNCHANGED <<cnt, stage, slot, crd, rxq, data, held, txq>>
    BY <1>1, <1>2, SessionStep DEF Typed
<1>4. Phases' BY <1>1, <1>2, <1>3 DEF Phases
<1>5. Stopped' BY <1>1, <1>2, <1>3 DEF Stopped, KindOf
<1> QED BY <1>3, <1>4, <1>5 DEF IInv

LEMMA HearGrantorStopIInv ==
    ASSUME IInv, Orderly, Session!HearGrantorStop,
           UNCHANGED <<grantorVars, rxq, data, held, txq>>
    PROVE  IInv'
<1>1. /\ sender = "open" /\ "rsp" \notin grants /\ sends' = sends \cap {"req"}
      /\ UNCHANGED <<sender, grantor, grants, closed>>
    BY ToldFacts DEF Session!HearGrantorStop
<1>2. Typed /\ Phases /\ Stopped BY DEF IInv
<1>3. /\ Typed' /\ Bounded' /\ Covered' /\ InSlot' = InSlot
      /\ UNCHANGED <<cnt, stage, slot, crd, rxq, data, held, txq>>
    BY <1>1, <1>2, SessionStep DEF Typed
<1>4. Phases' BY <1>1, <1>2, <1>3 DEF Phases
<1>5. Stopped' BY <1>1, <1>2, <1>3, ChannelFacts DEF Stopped, KindOf
<1> QED BY <1>3, <1>4, <1>5 DEF IInv

\* Nothing of a kind that is pending has anything in the queues.
LEMMA PendingFacts ==
    ASSUME NEW ch \in Channel, Typed
    PROVE  /\ KindOf(ch) \notin Pending({txq}) => txq[ch] = 0
           /\ KindOf(ch) \notin Pending({txq, data, rxq}) =>
                 txq[ch] = 0 /\ data[ch] = 0 /\ rxq[ch] = 0
<1>1. txq[ch] \in Nat /\ data[ch] \in Nat /\ rxq[ch] \in Nat BY DEF Typed
<1> QED BY <1>1 DEF Pending

LEMMA StopSendingIInv == ASSUME IInv, Orderly, StopSending PROVE IInv'
<1>1. /\ sender = "open"
      /\ sends' = sends \ {"req"} \/ (grants \subseteq {"req"} /\ sends' = {})
      /\ "req" \notin Pending({txq})
      /\ UNCHANGED <<sender, grantor, grants, closed>>
      /\ UNCHANGED <<grantorVars, rxq, data, held, txq>>
    BY ToldFacts DEF StopSending, Session!StopSending
<1>2. Typed /\ Phases /\ Stopped BY DEF IInv
<1>3. /\ Typed' /\ Bounded' /\ Covered' /\ InSlot' = InSlot
      /\ UNCHANGED <<cnt, stage, slot, crd, rxq, data, held, txq>>
    BY <1>1, <1>2, SessionStep DEF Typed
<1>4. Phases' BY <1>1, <1>2, <1>3 DEF Phases
<1>5. ASSUME NEW ch \in Channel PROVE KindOf(ch) \notin sends' => txq[ch] = 0
    <2>1. CASE KindOf(ch) = "req" BY <1>1, <1>2, <2>1, PendingFacts
    <2>2. CASE KindOf(ch) = "rsp" BY <1>1, <1>2, <2>2 DEF Stopped
    <2> QED BY <2>1, <2>2, ChannelFacts
<1>6. Stopped' BY <1>1, <1>2, <1>3, <1>5 DEF Stopped, KindOf
<1> QED BY <1>3, <1>4, <1>6 DEF IInv

LEMMA HearSenderStopIInv == ASSUME IInv, Orderly, HearSenderStop PROVE IInv'
<1>1. /\ grantor = "session" /\ sender = "open"
      /\ grants' = grants \ {"req"} \/ grants' = {}
      /\ grants \ grants' \subseteq {"req"} \/ "rsp" \notin Pending({txq, data, rxq})
      /\ UNCHANGED <<sender, sends, grantor, closed>>
      /\ UNCHANGED <<grantorVars, rxq, data, held, txq>>
    BY ToldFacts DEF HearSenderStop, Session!HearSenderStop, Answered
<1>2. Typed /\ Phases /\ Stopped BY DEF IInv
<1>3. /\ Typed' /\ Bounded' /\ Covered' /\ InSlot' = InSlot
      /\ UNCHANGED <<cnt, stage, slot, crd, rxq, data, held, txq>>
    BY <1>1, <1>2, SessionStep DEF Typed
<1>4. Phases' BY <1>1, <1>2, <1>3 DEF Phases
<1>5. ASSUME NEW ch \in Channel, KindOf(ch) = "rsp", "rsp" \notin grants'
      PROVE  txq[ch] = 0 /\ data[ch] = 0 /\ rxq[ch] = 0
    <2>1. CASE "rsp" \in grants
        BY <1>1, <1>2, <1>5, <2>1, PendingFacts
    <2>2. CASE "rsp" \notin grants
        BY <1>2, <1>5, <2>2 DEF Stopped
    <2> QED BY <2>1, <2>2
<1>6. Stopped' BY <1>1, <1>2, <1>3, <1>5 DEF Stopped, KindOf
<1> QED BY <1>3, <1>4, <1>6 DEF IInv

LEMMA StopGrantingIInv == ASSUME IInv, Orderly, StopGranting PROVE IInv'
<1>1. /\ grantor = "session" /\ grants \ {"req"} # {} /\ grants' = grants \cap {"req"}
      /\ "rsp" \notin Pending({txq, data, rxq})
      /\ UNCHANGED <<sender, sends, grantor, closed>>
      /\ UNCHANGED <<grantorVars, rxq, data, held, txq>>
    BY ToldFacts DEF StopGranting, Session!StopGranting, Answered
<1>2. Typed /\ Phases /\ Stopped BY DEF IInv
<1>3. /\ Typed' /\ Bounded' /\ Covered' /\ InSlot' = InSlot
      /\ UNCHANGED <<cnt, stage, slot, crd, rxq, data, held, txq>>
    BY <1>1, <1>2, SessionStep DEF Typed
<1>4. sender # "open" => "req" \in grants' BY <1>1, <1>2 DEF Phases
<1>5. Phases' BY <1>1, <1>2, <1>3, <1>4 DEF Phases
<1>6. ASSUME NEW ch \in Channel, KindOf(ch) = "rsp"
      PROVE  txq[ch] = 0 /\ data[ch] = 0 /\ rxq[ch] = 0
    BY <1>1, <1>2, <1>6, PendingFacts
<1>7. Stopped' BY <1>1, <1>2, <1>3, <1>6 DEF Stopped, KindOf
<1> QED BY <1>3, <1>5, <1>7 DEF IInv

LEMMA CloseIInv == ASSUME IInv, Close PROVE IInv'
<1>1. /\ ~closed /\ grants = {} /\ closed' = TRUE
      /\ UNCHANGED <<sender, sends, grantor, grants>> /\ UNCHANGED <<data, held, txq>>
    BY DEF Close, Session!Close
<1>2. Typed /\ Bounded /\ Phases /\ Stopped BY DEF IInv
<1>3. CASE grantor = "down"
    <2>1. slot' = NoSlot /\ crd' = Plus(crd, InSlot) /\ UNCHANGED <<cnt, stage, rxq>>
        BY <1>3 DEF Close
    <2>2. slot' \in Slot /\ \A ch \in Channel : InSlot'[ch] = 0
        BY <2>1, EmptyFacts DEF NoSlot, Slot, InSlot
    <2>3. crd' \in [Channel -> Nat]
        BY <1>2, <2>1, SlotFacts DEF Plus, Typed
    <2>4. Typed' BY <1>1, <1>2, <2>1, <2>2, <2>3 DEF Typed, Slot
    <2>5. Bounded' BY <1>2, <2>1 DEF Bounded
    <2>6. Covered' BY <1>1, <1>3 DEF Covered
    <2>7. sender # "down" BY <1>1, <1>2 DEF Phases
    <2>8. Phases' BY <1>1, <1>2, <2>1, <2>2, <2>7 DEF Phases
    <2>9. Stopped' BY <1>1, <1>2, <2>1 DEF Stopped, KindOf
    <2> QED BY <2>4, <2>5, <2>6, <2>8, <2>9 DEF IInv
<1>4. CASE grantor # "down"
    <2>1. PICK pop \in SUBSET Poppable : Edge(pop, TRUE, FALSE)
        BY <1>4 DEF Close
    <2>2. PICK flit \in BOOLEAN : flit /\ Edge(pop, flit, FALSE) BY <2>1
    <2> QED BY <1>1, <1>4, <2>2, GrantorStepIInv
<1> QED BY <1>3, <1>4

LEMMA GrantorDownIInv == ASSUME IInv, GrantorDown PROVE IInv'
<1>1. /\ grantor = "session" /\ grants = {} /\ sends = {} /\ Flying = {}
      /\ grantor' = "down" /\ cnt' = Empty /\ stage' = "none" /\ closed' = closed
      /\ UNCHANGED <<sender, sends, grants>> /\ UNCHANGED <<slot, crd, rxq, data, held, txq>>
    BY DEF GrantorDown, Session!GrantorDown
<1>2. Typed /\ Bounded /\ Phases /\ Stopped BY DEF IInv
<1>3. \A ch \in Channel : data[ch] = 0
    <2> SUFFICES ASSUME NEW ch \in Channel PROVE data[ch] = 0
        OBVIOUS
    <2>1. ~(data[ch] > 0) BY <1>1 DEF Flying
    <2>2. data[ch] \in Nat BY <1>2 DEF Typed
    <2> QED BY <2>1, <2>2
<1>4. InSlot' = InSlot BY <1>1, EmptyFacts DEF InSlot
<1>5. Typed' BY <1>1, <1>2, EmptyFacts DEF Typed, Slot
<1>6. Bounded'
    <2> SUFFICES ASSUME NEW ch \in Channel PROVE cnt'[ch] <= Max[ch]
        BY <1>1, <1>2 DEF Bounded
    <2> QED BY <1>1, EmptyFacts, ChannelFacts
<1>7. Covered' BY <1>1 DEF Covered
<1>8. Phases' BY <1>1, <1>2, <1>3, <1>4, EmptyFacts DEF Phases
<1>9. Stopped' BY <1>1, <1>2 DEF Stopped, KindOf
<1> QED BY <1>5, <1>6, <1>7, <1>8, <1>9 DEF IInv

LEMMA SenderDownIInv == ASSUME IInv, SenderDown PROVE IInv'
<1>1. /\ sends = {} /\ closed /\ sender' = "down" /\ crd = Empty /\ held' = Empty
      /\ UNCHANGED <<sends, grantor, grants, closed>>
      /\ UNCHANGED <<cnt, stage, slot, crd, rxq, data, txq>>
    BY DEF SenderDown, Session!SenderDown, grantorVars
<1>2. Typed /\ Phases /\ Stopped BY DEF IInv
<1>4. InSlot' = InSlot BY <1>1, EmptyFacts DEF InSlot
<1>5. Typed' BY <1>1, <1>2, EmptyFacts DEF Typed, Slot
<1>6. Bounded' BY <1>1 DEF IInv, Bounded
<1>7. Covered'
    <2> SUFFICES ASSUME NEW c \in Channel, grantor # "down" PROVE Outstanding(c)' <= cnt[c]
        BY <1>1 DEF Covered
    <2>1. Outstanding(c) <= cnt[c] BY DEF IInv, Covered
    <2>2. /\ held[c] \in Nat /\ txq[c] \in Nat /\ crd[c] \in Nat /\ InSlot[c] \in Nat
          /\ data[c] \in Nat /\ rxq[c] \in Nat /\ cnt[c] \in Nat
        BY <1>2, SlotFacts DEF Typed
    <2>3. PICK q \in Nat : q = IF grantor = "session" THEN rxq[c] ELSE 0
        BY <2>2
    <2>4. Outstanding(c) = held[c] + crd[c] + InSlot[c] + txq[c] + data[c] + q
        BY <2>3 DEF Outstanding
    <2>5. Outstanding(c)' = 0 + crd[c] + InSlot[c] + txq[c] + data[c] + q
        BY <1>1, <1>4, <2>3, EmptyFacts DEF Outstanding
    <2> QED BY <2>1, <2>2, <2>4, <2>5
<1>8. Phases' BY <1>1, <1>2, <1>4, EmptyFacts DEF Phases
<1>9. Stopped' BY <1>1, <1>2 DEF Stopped, KindOf
<1> QED BY <1>5, <1>6, <1>7, <1>8, <1>9 DEF IInv

\* Advertising begins: all counters are 0, and nothing is left on the way.
LEMMA BootIInv == ASSUME IInv, Orderly, Boot PROVE IInv'
<1>1. /\ grantor = "down" /\ sender = "down"
      /\ grantor' \in {"boot", "session"} /\ grants' = {"req", "rsp"} /\ closed' = FALSE
      /\ UNCHANGED <<sender, sends>> /\ UNCHANGED <<data, held, txq>>
      /\ grantor' = "session" => rxq = Empty
    BY ToldFacts DEF Boot, Session!Boot
<1>2. PICK pop \in SUBSET Poppable, flit \in BOOLEAN : Edge(pop, flit, TRUE)
    BY DEF Boot
<1>3. PICK initial \in BOOLEAN : initial = TRUE /\ Edge(pop, flit, initial)
    BY <1>2
<1>4. Typed /\ Bounded /\ Phases /\ Stopped BY DEF IInv
<1>5. \A ch \in Channel :
        /\ Returned(pop, ch) = 0 /\ Returned(pop, ch) <= cnt[ch]
        /\ ch \in pop => rxq[ch] >= Gran[ch[1]]
    BY <1>1, ReturnedCovered
<1>6. stage # "done" \/ ~initial BY <1>1, <1>4 DEF Phases
<1>7. \A ch \in Channel : Returned(pop, ch) <= cnt[ch] BY <1>5
<1>8. /\ rxq' \in [Channel -> Nat] /\ cnt' \in [Channel -> Nat]
      /\ crd' \in [Channel -> Nat] /\ slot' \in Slot
    BY <1>3, <1>4, <1>6, <1>7, EdgeStep
<1>9. ASSUME NEW ch \in Channel
      PROVE  /\ rxq'[ch] = rxq[ch] - (IF ch \in pop THEN Gran[ch[1]] ELSE 0)
             /\ cnt'[ch] <= Max[ch]
             /\ crd'[ch] + InSlot'[ch] - crd[ch] - InSlot[ch]
                   <= cnt'[ch] - cnt[ch] + Returned(pop, ch)
    <2>1. Typed /\ Bounded BY <1>4
    <2>2. rxq'[ch] = rxq[ch] - (IF ch \in pop THEN Gran[ch[1]] ELSE 0)
        BY <1>3, <1>6, <1>7, <2>1, EdgeStep
    <2>3. cnt'[ch] <= Max[ch]
        BY <1>3, <1>6, <1>7, <2>1, EdgeStep
    <2>4. crd'[ch] + InSlot'[ch] - crd[ch] - InSlot[ch]
            <= cnt'[ch] - cnt[ch] + Returned(pop, ch)
        BY <1>3, <1>6, <1>7, <2>1, EdgeStep
    <2> QED BY <2>2, <2>3, <2>4
<1>10. \A ch \in Channel : rxq'[ch] \in Nat /\ rxq[ch] \in Nat /\ rxq'[ch] <= rxq[ch]
    <2> SUFFICES ASSUME NEW ch \in Channel
                 PROVE  rxq'[ch] \in Nat /\ rxq[ch] \in Nat /\ rxq'[ch] <= rxq[ch]
        OBVIOUS
    <2>1. rxq'[ch] \in Nat /\ rxq[ch] \in Nat BY <1>4, <1>8 DEF Typed
    <2>2. Gran[ch[1]] \in Nat BY ChannelFacts
    <2> QED BY <1>9, <2>1, <2>2
<1>11. Typed' BY <1>1, <1>4, <1>8 DEF Typed, Slot
<1>12. Bounded'
    <2> SUFFICES ASSUME NEW ch \in Channel PROVE cnt'[ch] <= Max[ch] /\ rxq'[ch] <= Max[ch]
        BY DEF Bounded
    <2>1. rxq[ch] <= Max[ch] BY <1>4 DEF Bounded
    <2> QED BY <1>9, <1>10, <2>1, ChannelFacts
<1>13. Covered'
    <2> SUFFICES ASSUME NEW ch \in Channel PROVE Outstanding(ch)' <= cnt'[ch]
        BY DEF Covered
    <2>1. /\ cnt[ch] = 0 /\ data[ch] = 0 /\ held[ch] = 0 /\ crd[ch] = 0 /\ InSlot[ch] = 0
          /\ txq[ch] = 0
        BY <1>1, <1>4 DEF Phases, Stopped
    <2>2. crd'[ch] \in Nat /\ cnt'[ch] \in Nat BY <1>8
    <2>3. InSlot'[ch] \in Nat BY <1>8, EmptyFacts DEF InSlot, Slot
    <2>4. Returned(pop, ch) = 0 BY <1>5
    <2>5. crd'[ch] + InSlot'[ch] <= cnt'[ch] BY <1>9, <2>1, <2>2, <2>3, <2>4
    <2>6. grantor' = "session" => rxq'[ch] = 0 BY <1>1, <1>10, EmptyFacts
    <2>7. Outstanding(ch)' = 0 + crd'[ch] + InSlot'[ch] + 0 + 0 + 0
        BY <1>1, <2>1, <2>6 DEF Outstanding
    <2> QED BY <2>2, <2>3, <2>5, <2>7
<1>14. Phases' BY <1>1, <1>4 DEF Phases
<1>15. \A ch \in Channel : rxq[ch] = 0 => rxq'[ch] = 0 BY <1>10
<1>16. Stopped' BY <1>1, <1>4, <1>15 DEF Stopped, KindOf
<1> QED BY <1>11, <1>12, <1>13, <1>14, <1>16 DEF IInv

LEMMA NextIInv == ASSUME IInv, Orderly, [Next]_vars PROVE IInv'
<1>1. CASE GrantorEdge BY <1>1, GrantorEdgeIInv
<1>2. CASE DrainDisabled BY <1>2, DrainDisabledIInv
<1>3. ASSUME NEW ch \in Channel, Insert(ch) PROVE IInv' BY <1>3, InsertIInv
<1>4. ASSUME NEW ch \in Channel, Pack(ch) PROVE IInv' BY <1>4, PackIInv
<1>5. ASSUME NEW ch \in Channel, Deliver(ch) PROVE IInv' BY <1>5, DeliverIInv
<1>6. ASSUME NEW ch \in Channel, CreditArrives(ch) PROVE IInv' BY <1>6, CreditArrivesIInv
<1>7. CASE Boot BY <1>7, BootIInv
<1>8. CASE Open BY <1>8, OpenIInv
<1>9. CASE Establish BY <1>9, EstablishIInv
<1>10. CASE Handshake
    BY <1>10, CountIInv, HearGrantorStopIInv DEF Handshake
<1>11. CASE StopSending BY <1>11, StopSendingIInv
<1>12. CASE HearSenderStop BY <1>12, HearSenderStopIInv
<1>13. CASE StopGranting BY <1>13, StopGrantingIInv
<1>14. CASE Close BY <1>14, CloseIInv
<1>15. CASE GrantorDown BY <1>15, GrantorDownIInv
<1>16. CASE SenderDown BY <1>16, SenderDownIInv
<1>17. CASE UNCHANGED vars BY <1>17, StutterIInv
<1> QED
    BY <1>1, <1>2, <1>3, <1>4, <1>5, <1>6, <1>7, <1>8, <1>9, <1>10, <1>11, <1>12,
       <1>13, <1>14, <1>15, <1>16, <1>17 DEF Next

-----------------------------------------------------------------------------
(* The rest of the type.                                                   *)

ArbiterTyped ==
    /\ stage \in {"none", "granted", "done"}
    /\ frozen \in SUBSET RP
    /\ last \in 0..3
    /\ \A ch \in Channel : held[ch] <= TxMax[ch]

\* The arbiter serves one of those that ask.
LEMMA RoundRobinType ==
    ASSUME NEW set \in SUBSET RP, last \in 0..3
    PROVE  RoundRobin(set) \in 0..3
<1>1. CASE set = {} BY <1>1 DEF RoundRobin
<1>2. CASE set # {}
    <2> DEFINE wait(r) == (r - last - 1) % 4
               first(r) == \A q \in set : wait(r) <= wait(q)
    <2>1. set \subseteq 0..3 BY CreditAssumption DEF RP
    <2>2. \A r \in 0..3 : wait(r) \in 0..3 OBVIOUS
    <2> HIDE DEF wait
    <2>3. \E r \in set : first(r)
        <3>1. PICK a \in set : TRUE BY <1>2
        <3>2. CASE \E r \in set : wait(r) = 0 BY <2>1, <2>2, <3>2
        <3>3. CASE /\ \A r \in set : wait(r) # 0
                   /\ \E r \in set : wait(r) = 1
            BY <2>1, <2>2, <3>3
        <3>4. CASE /\ \A r \in set : wait(r) # 0 /\ wait(r) # 1
                   /\ \E r \in set : wait(r) = 2
            BY <2>1, <2>2, <3>4
        <3>5. CASE \A r \in set : wait(r) # 0 /\ wait(r) # 1 /\ wait(r) # 2
            <4>1. \A r \in set : wait(r) = 3 BY <2>1, <2>2, <3>5
            <4> QED BY <3>1, <4>1
        <3> QED BY <3>2, <3>3, <3>4, <3>5
    <2>4. RoundRobin(set) = CHOOSE r \in set : first(r)
        BY <1>2 DEF RoundRobin, wait
    <2>5. RoundRobin(set) \in set BY <2>3, <2>4
    <2> QED BY <2>1, <2>5
<1> QED BY <1>1, <1>2

LEMMA EdgeArbiter ==
    ASSUME ArbiterTyped, NEW pop, NEW flit, NEW initial, Edge(pop, flit, initial),
           UNCHANGED held
    PROVE  ArbiterTyped'
<1> DEFINE best == BestIndex(pop, IF initial THEN Session!Kind ELSE grants)
<1>1. Asking(best) \in SUBSET RP BY DEF Asking
<1>2. Chosen(best) \in 0..3
    BY <1>1, RoundRobinType DEF Chosen, ArbiterTyped
<1>3. stage' \in {stage, "granted", "done"}
    BY DEF Edge
<1>4. frozen' \in {{}, frozen, Asking(best)}
    BY DEF Edge
<1>5. last' \in {last, Chosen(best)}
    BY DEF Edge
<1> HIDE DEF best
<1> QED BY <1>1, <1>2, <1>3, <1>4, <1>5 DEF ArbiterTyped

LEMMA NextArbiter == ASSUME IInv, ArbiterTyped, [Next]_vars PROVE ArbiterTyped'
<1>1. CASE GrantorEdge
    BY <1>1, EdgeArbiter DEF GrantorEdge, GrantorStep
<1>2. CASE Boot
    BY <1>2, EdgeArbiter DEF Boot
<1>3. CASE Close
    BY <1>3, EdgeArbiter DEF Close, ArbiterTyped
<1>4. CASE GrantorDown
    BY <1>4 DEF GrantorDown, ArbiterTyped
<1>5. CASE SenderDown
    BY <1>5, EmptyFacts, ChannelFacts DEF SenderDown, ArbiterTyped, grantorVars
<1>6. ASSUME NEW ch \in Channel, Insert(ch) PROVE ArbiterTyped'
    <2>1. /\ held' = [held EXCEPT ![ch] = @ - Gran[ch[1]]]
          /\ UNCHANGED <<stage, frozen, last>>
        BY <1>6 DEF Insert, grantorVars
    <2>2. \A c \in Channel : held'[c] <= TxMax[c]
        BY <2>1, ChannelFacts DEF ArbiterTyped, IInv, Typed
    <2> QED BY <2>1, <2>2 DEF ArbiterTyped
<1>7. ASSUME NEW ch \in Channel, CreditArrives(ch) PROVE ArbiterTyped'
    <2>1. PICK n \in 1..crd[ch] :
            held' = [held EXCEPT ![ch] = IF @ + n < TxMax[ch] THEN @ + n ELSE TxMax[ch]]
        BY <1>7 DEF CreditArrives
    <2>2. UNCHANGED <<stage, frozen, last>> BY <1>7 DEF CreditArrives
    <2>3. n \in Nat BY DEF IInv, Typed
    <2>4. \A c \in Channel : held'[c] <= TxMax[c]
        BY <2>1, <2>3, ChannelFacts DEF ArbiterTyped, IInv, Typed
    <2> QED BY <2>2, <2>4 DEF ArbiterTyped
<1>8. CASE UNCHANGED <<stage, frozen, last, held>>
    BY <1>8 DEF ArbiterTyped
<1> QED
    BY <1>1, <1>2, <1>3, <1>4, <1>5, <1>6, <1>7, <1>8
    DEF Next, DrainDisabled, Pack, Deliver, Open, Establish, Handshake, StopSending,
        HearSenderStop, StopGranting, vars, grantorVars

-----------------------------------------------------------------------------
(* The theorems.                                                           *)

\* The credit loop keeps its invariant through any number of sessions.
THEOREM Inductive == ASSUME Orderly PROVE Spec => []IInv
<1>1. IInv /\ [Next]_vars => IInv' BY NextIInv
<1> QED BY <1>1, InitIInv, PTL DEF Spec

\* Every register of the credit loop keeps its type and its width: the
\* counters never wrap, the sender's stay within their maximum.
THEOREM TypeCorrect == ASSUME Orderly PROVE Spec => []TypeOK
<1>1. Init => ArbiterTyped
    BY EmptyFacts, ChannelFacts DEF Init, ArbiterTyped
<1>2. IInv /\ ArbiterTyped /\ [Next]_vars => ArbiterTyped' BY NextArbiter
<1>3. IInv /\ ArbiterTyped => TypeOK
    <2> SUFFICES ASSUME IInv, ArbiterTyped PROVE TypeOK
        OBVIOUS
    <2>1. Typed /\ Bounded BY DEF IInv
    <2>2. \A ch \in Channel : cnt[ch] < Wrap[ch]
        BY <2>1, ChannelFacts DEF Typed, Bounded
    <2>3. Flying \subseteq {"req", "rsp"} BY ChannelFacts DEF Flying
    <2>4. Session!TypeOK BY <2>1, <2>3 DEF Typed, Session!TypeOK, Session!Kind
    <2> QED BY <2>1, <2>2, <2>4 DEF ArbiterTyped, Typed, TypeOK
<1> QED BY <1>1, <1>2, <1>3, Inductive, PTL DEF Spec

\* All credit in use and all messages in flight are accounted for in the
\* grantor's counters (AOU_RX_CRD_CTRL.sv), for every FIFO depth and every
\* number of resource planes and classes.
THEOREM CreditIsCovered == ASSUME Orderly PROVE Spec => []CreditCovered
<1>1. IInv => CreditCovered BY DEF IInv, Covered, Bounded, CreditCovered
<1> QED BY <1>1, Inductive, PTL

\* So no message meets a full RX FIFO (AOU_FIFO_RP.sv).
THEOREM NoOverflow == ASSUME Orderly PROVE Spec => []RxFifoNeverOverflows
<1>1. IInv => RxFifoNeverOverflows BY DEF IInv, Bounded, RxFifoNeverOverflows
<1> QED BY <1>1, Inductive, PTL

-----------------------------------------------------------------------------
(***************************************************************************)
(* With one resource plane the credit loop loses no credit either: what    *)
(* the grantor's counter stands for can still be used or is in the RX      *)
(* FIFO, as long as the sender's counters are as deep as the grantor's     *)
(* FIFOs.                                                                  *)
(*                                                                         *)
(* The two assumptions are needed.  With several planes the MsgCredit of a *)
(* plane that had to wait until its credit stopped names plane 0, and the  *)
(* counters follow the name; a sender's counter that is too small          *)
(* saturates.                                                              *)
(***************************************************************************)

OnePlane == RpCount = 1 /\ \A ch \in Channel : Max[ch] <= TxMax[ch]

\* From the first credit of a session until the sender's counters restart.
Live == grantor # "down" /\ (sender # "down" \/ grants # {})

Conserved == Live => \A ch \in Channel : Outstanding(ch) = cnt[ch]

ExactInv == IInv /\ ArbiterTyped /\ Conserved

-----------------------------------------------------------------------------
(* The grantor's clock edge.                                               *)

\* The header carries what the counters take up.
LEMMA PayloadExact ==
    ASSUME OnePlane, ArbiterTyped, NEW best \in [Channel -> Nat]
    PROVE  Counted(best) = Payload(best)
<1>1. RP = {0} BY DEF OnePlane, RP
<1>2. CASE Payload(best) # Empty
    BY <1>2 DEF Counted, Payload, NamedRp
<1>3. CASE Payload(best) = Empty /\ frozen = {} /\ Asking(best) = {}
    <2>1. NamedRp(best) = 0 BY <1>3 DEF NamedRp
    <2>2. \A ch \in Channel : best[ch] = 0
        <3> SUFFICES ASSUME NEW ch \in Channel PROVE best[ch] = 0
            OBVIOUS
        <3>1. PICK c \in Class, r \in RP : ch = <<c, r>> BY DEF Channel
        <3>2. ~(best[<<c, r>>] > 0) BY <1>3 DEF Asking
        <3> QED BY <3>1, <3>2
    <2>3. \A r : OfPlane(best, r) = Empty BY <2>2 DEF OfPlane, Empty
    <2> QED BY <2>3 DEF Counted, Payload
<1>4. CASE Payload(best) = Empty /\ ~(frozen = {} /\ Asking(best) = {})
    <2>1. NamedRp(best) = 0 BY <1>4 DEF NamedRp
    <2>2. Asking(best) \subseteq {0} /\ frozen \subseteq {0}
        BY <1>1 DEF Asking, ArbiterTyped
    <2>3. Chosen(best) = RoundRobin({0})
        BY <1>4, <2>2 DEF Chosen
    <2>4. RoundRobin({0}) = 0
        <3>1. RoundRobin({0}) =
                CHOOSE r \in {0} : \A q \in {0} : (r - last - 1) % 4 <= (q - last - 1) % 4
            BY DEF RoundRobin
        <3>2. \A q \in {0} : (0 - last - 1) % 4 <= (q - last - 1) % 4
            BY DEF ArbiterTyped
        <3> QED BY <3>1, <3>2
    <2> QED BY <2>1, <2>3, <2>4 DEF Counted, Payload
<1> QED BY <1>2, <1>3, <1>4

\* The counter moves exactly as the credit does.
LEMMA EdgeExact ==
    ASSUME Typed, Bounded, OnePlane, ArbiterTyped,
           NEW pop \in SUBSET Poppable, NEW flit \in BOOLEAN, NEW initial \in BOOLEAN,
           \A ch \in Channel : Returned(pop, ch) <= cnt[ch],
           stage # "done" \/ ~initial,
           Edge(pop, flit, initial)
    PROVE  \A ch \in Channel :
              crd'[ch] + InSlot'[ch] - crd[ch] - InSlot[ch]
                 = cnt'[ch] - cnt[ch] + Returned(pop, ch)
<1> DEFINE kinds     == IF initial THEN Session!Kind ELSE grants
           best      == BestIndex(pop, kinds)
           fill      == flit \/ ~slot.valid
           crdtGrant == IF initial THEN best ELSE Empty
           msgCredit == IF fill THEN Counted(best) ELSE Empty
<1>1. /\ best \in [Channel -> Nat]
      /\ \A ch \in Channel :
            /\ Returned(pop, ch) \in Nat
            /\ best[ch] <= Max[ch] - cnt[ch] + Returned(pop, ch)
    BY Advertised
<1>2. /\ Counted(best) \in [Channel -> Nat] /\ Payload(best) = Counted(best)
      /\ \A ch \in Channel : /\ Counted(best)[ch] <= best[ch]
                             /\ stage # "done" => Counted(best)[ch] = 0
    BY <1>1, PayloadCounted, PayloadExact
<1> HIDE DEF kinds, best
<1>3. /\ cnt' = [ch \in Channel |-> Truncate(ch, cnt[ch] - Returned(pop, ch)
                                                 + msgCredit[ch] + crdtGrant[ch])]
      /\ slot' = IF fill THEN [valid |-> TRUE, grant |-> Payload(best)] ELSE slot
      /\ crd' = Plus(Plus(crd, SlotLeaving(flit)), crdtGrant)
    BY DEF Edge, kinds, best
<1>4. /\ InSlot \in [Channel -> Nat] /\ SlotLeaving(flit) \in [Channel -> Nat]
      /\ \A ch \in Channel :
            SlotLeaving(flit)[ch] = IF fill THEN InSlot[ch] ELSE 0
    BY SlotFacts, EmptyFacts DEF Typed, SlotLeaving, InSlot
<1>5. InSlot' = IF fill THEN Counted(best) ELSE InSlot
    BY <1>2, <1>3 DEF InSlot
<1>6. /\ msgCredit \in [Channel -> Nat] /\ crdtGrant \in [Channel -> Nat]
      /\ \A ch \in Channel :
            /\ msgCredit[ch] + crdtGrant[ch] <= best[ch]
            /\ msgCredit[ch] = IF fill THEN Counted(best)[ch] ELSE 0
    BY <1>1, <1>2, EmptyFacts
<1> SUFFICES ASSUME NEW ch \in Channel
             PROVE  crd'[ch] + InSlot'[ch] - crd[ch] - InSlot[ch]
                       = cnt'[ch] - cnt[ch] + Returned(pop, ch)
    OBVIOUS
<1>7. /\ crd[ch] \in Nat /\ cnt[ch] \in Nat /\ InSlot[ch] \in Nat
      /\ Returned(pop, ch) \in Nat /\ Counted(best)[ch] \in Nat
      /\ msgCredit[ch] \in Nat /\ crdtGrant[ch] \in Nat
    BY <1>1, <1>2, <1>4, <1>6 DEF Typed
<1>8. crd'[ch] = crd[ch] + SlotLeaving(flit)[ch] + crdtGrant[ch]
    BY <1>3, <1>4, <1>6 DEF Plus, Typed
<1>9. cnt'[ch] = cnt[ch] - Returned(pop, ch) + msgCredit[ch] + crdtGrant[ch]
    BY <1>1, <1>3, <1>6, <1>7, ChannelFacts DEF Truncate
<1>10. /\ SlotLeaving(flit)[ch] = IF fill THEN InSlot[ch] ELSE 0
       /\ InSlot'[ch] = IF fill THEN Counted(best)[ch] ELSE InSlot[ch]
       /\ msgCredit[ch] = IF fill THEN Counted(best)[ch] ELSE 0
    BY <1>4, <1>5, <1>6
<1> HIDE DEF msgCredit, crdtGrant
<1> QED BY <1>7, <1>8, <1>9, <1>10

\* A clock edge of the grantor in a session, or before it.
LEMMA GrantorStepExact ==
    ASSUME ExactInv, OnePlane, NEW pop \in SUBSET Poppable, NEW flit \in BOOLEAN,
           grantor # "down", Edge(pop, flit, FALSE),
           UNCHANGED <<sender, grantor, grants, data, held, txq>>
    PROVE  Conserved'
<1>1. IInv /\ Typed /\ Bounded /\ ArbiterTyped BY DEF ExactInv, IInv
<1>2. \A ch \in Channel : Returned(pop, ch) <= cnt[ch] BY <1>1, ReturnedCovered
<1>3. PICK initial \in BOOLEAN : initial = FALSE /\ Edge(pop, flit, initial)
    OBVIOUS
<1>4. stage # "done" \/ ~initial BY <1>3
<1>5. \A ch \in Channel : crd'[ch] + InSlot'[ch] - crd[ch] - InSlot[ch]
                             = cnt'[ch] - cnt[ch] + Returned(pop, ch)
    BY <1>1, <1>2, <1>3, <1>4, EdgeExact
<1>6. /\ rxq' \in [Channel -> Nat] /\ cnt' \in [Channel -> Nat]
      /\ crd' \in [Channel -> Nat] /\ slot' \in Slot
    BY <1>1, <1>2, <1>3, <1>4, EdgeStep
<1>7. \A ch \in Channel : rxq'[ch] = rxq[ch] - (IF ch \in pop THEN Gran[ch[1]] ELSE 0)
    BY <1>1, <1>2, <1>3, <1>4, EdgeStep
<1>8. SUFFICES ASSUME NEW ch \in Channel, Live PROVE Outstanding(ch)' = cnt'[ch]
    BY DEF Conserved, Live
<1>9. Outstanding(ch) = cnt[ch] BY <1>8 DEF ExactInv, Conserved
<1>10. /\ held[ch] \in Nat /\ crd[ch] \in Nat /\ InSlot[ch] \in Nat /\ txq[ch] \in Nat
       /\ data[ch] \in Nat /\ rxq[ch] \in Nat /\ cnt[ch] \in Nat
       /\ crd'[ch] \in Nat /\ cnt'[ch] \in Nat /\ rxq'[ch] \in Nat
    BY <1>1, <1>6, SlotFacts DEF Typed
<1>11. InSlot'[ch] \in Nat BY <1>6, EmptyFacts DEF InSlot, Slot
<1>12. Returned(pop, ch) \in Nat BY <1>1, ReturnedCovered
<1>13. CASE grantor = "session"
    <2>1. rxq'[ch] = rxq[ch] - Returned(pop, ch)
        BY <1>1, <1>7, <1>13, ReturnedCovered
    <2>2. held[ch] + crd[ch] + InSlot[ch] + txq[ch] + data[ch] + rxq[ch] = cnt[ch]
        BY <1>9, <1>13 DEF Outstanding
    <2>3. held[ch] + crd'[ch] + InSlot'[ch] + txq[ch] + data[ch] + rxq'[ch] = cnt'[ch]
        BY <1>5, <1>10, <1>11, <1>12, <2>1, <2>2
    <2> QED BY <1>13, <2>3 DEF Outstanding
<1>14. CASE grantor # "session"
    <2>1. Returned(pop, ch) = 0 BY <1>1, <1>14, ReturnedCovered
    <2>2. held[ch] + crd[ch] + InSlot[ch] + txq[ch] + data[ch] + 0 = cnt[ch]
        BY <1>9, <1>14 DEF Outstanding
    <2>3. held[ch] + crd'[ch] + InSlot'[ch] + txq[ch] + data[ch] + 0 = cnt'[ch]
        BY <1>5, <1>10, <1>11, <2>1, <2>2
    <2> QED BY <1>14, <2>3 DEF Outstanding
<1> QED BY <1>13, <1>14

\* Advertising begins: all counters are 0, and nothing is left on the way.
LEMMA BootExact == ASSUME ExactInv, OnePlane, Boot PROVE Conserved'
<1>1. /\ grantor = "down" /\ sender = "down"
      /\ grantor' \in {"boot", "session"}
      /\ UNCHANGED <<data, held, txq>>
      /\ grantor' = "session" => rxq = Empty
    BY DEF Boot, Session!Boot
<1>2. PICK pop \in SUBSET Poppable, flit \in BOOLEAN : Edge(pop, flit, TRUE)
    BY DEF Boot
<1>3. PICK initial \in BOOLEAN : initial = TRUE /\ Edge(pop, flit, initial)
    BY <1>2
<1>4. IInv /\ Typed /\ Bounded /\ Phases /\ Stopped /\ ArbiterTyped
    BY DEF ExactInv, IInv
<1>5. \A ch \in Channel :
        /\ Returned(pop, ch) = 0 /\ Returned(pop, ch) <= cnt[ch]
        /\ ch \in pop => rxq[ch] >= Gran[ch[1]]
    BY <1>1, <1>4, ReturnedCovered
<1>6. \A ch \in Channel : Returned(pop, ch) <= cnt[ch] BY <1>5
<1>7. stage # "done" \/ ~initial BY <1>1, <1>4 DEF Phases
<1>8. /\ cnt' \in [Channel -> Nat] /\ crd' \in [Channel -> Nat] /\ slot' \in Slot
    BY <1>3, <1>4, <1>6, <1>7, EdgeStep
<1>9. ASSUME NEW ch \in Channel
      PROVE  rxq'[ch] = rxq[ch] - (IF ch \in pop THEN Gran[ch[1]] ELSE 0)
    BY <1>3, <1>4, <1>6, <1>7, EdgeStep
<1>10. \A ch \in Channel : crd'[ch] + InSlot'[ch] - crd[ch] - InSlot[ch]
                              = cnt'[ch] - cnt[ch] + Returned(pop, ch)
    BY <1>3, <1>4, <1>6, <1>7, EdgeExact
<1>11. SUFFICES ASSUME NEW ch \in Channel PROVE Outstanding(ch)' = cnt'[ch]
    BY DEF Conserved
<1>12. /\ cnt[ch] = 0 /\ data[ch] = 0 /\ held[ch] = 0 /\ crd[ch] = 0 /\ InSlot[ch] = 0
       /\ txq[ch] = 0
    BY <1>1, <1>4 DEF Phases, Stopped
<1>13. crd'[ch] \in Nat /\ cnt'[ch] \in Nat BY <1>8
<1>14. InSlot'[ch] \in Nat BY <1>8, EmptyFacts DEF InSlot, Slot
<1>15. crd'[ch] + InSlot'[ch] = cnt'[ch] BY <1>5, <1>10, <1>12, <1>13, <1>14
<1>16. grantor' = "session" => rxq'[ch] = 0
    BY <1>1, <1>5, <1>9, EmptyFacts, ChannelFacts
<1>17. Outstanding(ch)' = 0 + crd'[ch] + InSlot'[ch] + 0 + 0 + 0
    BY <1>1, <1>12, <1>16 DEF Outstanding
<1> QED BY <1>13, <1>14, <1>15, <1>17

-----------------------------------------------------------------------------
(* The other actions.                                                      *)

\* Messages and credit move.
LEMMA MoveExact ==
    ASSUME ExactInv, UNCHANGED <<sender, grantor, grants, cnt, slot>>,
           held' \in [Channel -> Nat], crd' \in [Channel -> Nat],
           txq' \in [Channel -> Nat], data' \in [Channel -> Nat],
           rxq' \in [Channel -> Nat],
           \A c \in Channel : grantor # "down" => Used(c)' = Used(c)
    PROVE  Conserved'
<1>1. Typed BY DEF ExactInv, IInv
<1>2. InSlot' = InSlot BY EmptyFacts DEF InSlot
<1>3. SUFFICES ASSUME NEW c \in Channel, Live PROVE Outstanding(c)' = cnt[c]
    BY DEF Conserved, Live
<1>4. Outstanding(c) = cnt[c] BY <1>3 DEF ExactInv, Conserved
<1>5. /\ held[c] \in Nat /\ txq[c] \in Nat /\ crd[c] \in Nat /\ InSlot[c] \in Nat
      /\ data[c] \in Nat /\ rxq[c] \in Nat
    BY <1>1, SlotFacts DEF Typed
<1>6. /\ held'[c] \in Nat /\ txq'[c] \in Nat /\ crd'[c] \in Nat
      /\ data'[c] \in Nat /\ rxq'[c] \in Nat
    OBVIOUS
<1>7. Used(c)' = Used(c) BY <1>3 DEF Live
<1>8. PICK q \in Nat : q = IF grantor = "session" THEN rxq[c] ELSE 0
    BY <1>5
<1>9. PICK r \in Nat : r = IF grantor = "session" THEN rxq'[c] ELSE 0
    BY <1>6
<1>10. held[c] + crd[c] + InSlot[c] + txq[c] + data[c] + q = cnt[c]
    BY <1>4, <1>8 DEF Outstanding
<1>11. held'[c] + crd'[c] + txq'[c] + data'[c] + r
         = held[c] + crd[c] + txq[c] + data[c] + q
    BY <1>7, <1>8, <1>9 DEF Used
<1>12. held'[c] + crd'[c] + InSlot[c] + txq'[c] + data'[c] + r = cnt[c]
    BY <1>5, <1>6, <1>10, <1>11
<1> QED BY <1>2, <1>9, <1>12 DEF Outstanding

LEMMA InsertExact == ASSUME ExactInv, NEW ch \in Channel, Insert(ch) PROVE Conserved'
<1>1. /\ held[ch] >= Gran[ch[1]]
      /\ held' = [held EXCEPT ![ch] = @ - Gran[ch[1]]]
      /\ txq' = [txq EXCEPT ![ch] = @ + Gran[ch[1]]]
      /\ UNCHANGED <<sender, grantor, grants, cnt, slot, crd, rxq, data>>
    BY DEF Insert, sessionVars, grantorVars
<1>2. Typed BY DEF ExactInv, IInv
<1>3. Gran[ch[1]] \in Nat BY ChannelFacts
<1>4. ASSUME NEW c \in Channel
      PROVE  /\ held'[c] \in Nat /\ txq'[c] \in Nat
             /\ held'[c] + txq'[c] = held[c] + txq[c]
    BY <1>1, <1>2, <1>3 DEF Typed
<1>5. held' \in [Channel -> Nat] /\ txq' \in [Channel -> Nat]
    BY <1>1, <1>2, <1>4 DEF Typed
<1>6. ASSUME NEW c \in Channel PROVE Used(c)' = Used(c)
    <2>1. held[c] \in Nat /\ txq[c] \in Nat /\ crd[c] \in Nat /\ data[c] \in Nat
          /\ rxq[c] \in Nat
        BY <1>2 DEF Typed
    <2> QED BY <1>1, <1>4, <2>1 DEF Used
<1> QED BY <1>1, <1>2, <1>5, <1>6, MoveExact DEF Typed

LEMMA PackExact == ASSUME ExactInv, NEW ch \in Channel, Pack(ch) PROVE Conserved'
<1>1. /\ txq[ch] >= Gran[ch[1]]
      /\ txq' = [txq EXCEPT ![ch] = @ - Gran[ch[1]]]
      /\ data' = [data EXCEPT ![ch] = @ + Gran[ch[1]]]
      /\ UNCHANGED <<sender, grantor, grants, cnt, slot, crd, rxq, held>>
    BY DEF Pack, Session!Depart, grantorVars
<1>2. Typed BY DEF ExactInv, IInv
<1>3. Gran[ch[1]] \in Nat BY ChannelFacts
<1>4. ASSUME NEW c \in Channel
      PROVE  /\ data'[c] \in Nat /\ txq'[c] \in Nat
             /\ data'[c] + txq'[c] = data[c] + txq[c]
    BY <1>1, <1>2, <1>3 DEF Typed
<1>5. data' \in [Channel -> Nat] /\ txq' \in [Channel -> Nat]
    BY <1>1, <1>2, <1>4 DEF Typed
<1>6. ASSUME NEW c \in Channel PROVE Used(c)' = Used(c)
    <2>1. held[c] \in Nat /\ txq[c] \in Nat /\ crd[c] \in Nat /\ data[c] \in Nat
          /\ rxq[c] \in Nat
        BY <1>2 DEF Typed
    <2> QED BY <1>1, <1>4, <2>1 DEF Used
<1> QED BY <1>1, <1>2, <1>5, <1>6, MoveExact DEF Typed

LEMMA DeliverExact == ASSUME ExactInv, NEW ch \in Channel, Deliver(ch) PROVE Conserved'
<1>1. /\ grantor = "session" /\ data[ch] >= Gran[ch[1]]
      /\ data' = [data EXCEPT ![ch] = @ - Gran[ch[1]]]
      /\ rxq' = [rxq EXCEPT ![ch] = @ + Gran[ch[1]]]
      /\ UNCHANGED <<sender, grantor, grants, cnt, slot, crd, held, txq>>
    BY DEF Deliver, Session!Arrive, grantorVars
<1>2. Typed BY DEF ExactInv, IInv
<1>3. Gran[ch[1]] \in Nat BY ChannelFacts
<1>4. ASSUME NEW c \in Channel
      PROVE  /\ data'[c] \in Nat /\ rxq'[c] \in Nat
             /\ data'[c] + rxq'[c] = data[c] + rxq[c]
    BY <1>1, <1>2, <1>3 DEF Typed
<1>5. data' \in [Channel -> Nat] /\ rxq' \in [Channel -> Nat]
    BY <1>1, <1>2, <1>4 DEF Typed
<1>6. ASSUME NEW c \in Channel PROVE Used(c)' = Used(c)
    <2>1. held[c] \in Nat /\ txq[c] \in Nat /\ crd[c] \in Nat /\ data[c] \in Nat
          /\ rxq[c] \in Nat
        BY <1>2 DEF Typed
    <2>2. /\ data'[c] \in Nat /\ rxq'[c] \in Nat
          /\ data'[c] + rxq'[c] = data[c] + rxq[c]
        BY <1>4
    <2>3. grantor = "session" /\ UNCHANGED <<grantor, held, crd, txq>> BY <1>1
    <2>4. Used(c)' = held[c] + crd[c] + txq[c] + data'[c] + rxq'[c]
        BY <2>3 DEF Used
    <2>5. Used(c) = held[c] + crd[c] + txq[c] + data[c] + rxq[c]
        BY <2>3 DEF Used
    <2> QED BY <2>1, <2>2, <2>4, <2>5
<1> QED BY <1>1, <1>2, <1>5, <1>6, MoveExact DEF Typed

\* The sender's counter does not saturate: all that it holds and all that
\* is on the way fits the grantor's FIFO.
LEMMA CreditArrivesExact ==
    ASSUME ExactInv, OnePlane, NEW ch \in Channel, CreditArrives(ch)
    PROVE  Conserved'
<1>1. PICK n \in 1..crd[ch] :
          /\ crd' = [crd EXCEPT ![ch] = @ - n]
          /\ held' = [held EXCEPT ![ch] = IF @ + n < TxMax[ch] THEN @ + n ELSE TxMax[ch]]
    BY DEF CreditArrives
<1>2. UNCHANGED <<sender, grantor, grants, cnt, slot, rxq, data, txq>>
    BY DEF CreditArrives, sessionVars
<1>3. Typed BY DEF ExactInv, IInv
<1>4. TxMax[ch] \in Nat /\ n \in Nat /\ n <= crd[ch] /\ crd[ch] \in Nat /\ held[ch] \in Nat
    BY <1>3, ChannelFacts DEF Typed
<1>5. ASSUME NEW c \in Channel
      PROVE  /\ crd'[c] \in Nat /\ held'[c] \in Nat
             /\ grantor # "down" => crd'[c] + held'[c] = crd[c] + held[c]
    <2>1. CASE c = ch
        <3>1. crd'[c] = crd[c] - n BY <1>1, <1>3, <2>1 DEF Typed
        <3>2. held'[c] = IF held[c] + n < TxMax[c] THEN held[c] + n ELSE TxMax[c]
            BY <1>1, <1>3, <2>1 DEF Typed
        <3>3. grantor # "down" => held[c] + crd[c] <= TxMax[c]
            <4> SUFFICES ASSUME grantor # "down" PROVE held[c] + crd[c] <= TxMax[c]
                OBVIOUS
            <4>1. Outstanding(c) <= cnt[c] BY DEF ExactInv, IInv, Covered
            <4>2. cnt[c] <= Max[c] BY DEF ExactInv, IInv, Bounded
            <4>3. Max[c] <= TxMax[c] BY DEF OnePlane
            <4>4. /\ txq[c] \in Nat /\ InSlot[c] \in Nat /\ data[c] \in Nat /\ rxq[c] \in Nat
                  /\ held[c] \in Nat /\ crd[c] \in Nat /\ cnt[c] \in Nat /\ Max[c] \in Nat
                BY <1>3, SlotFacts, ChannelFacts DEF Typed
            <4>5. PICK q \in Nat : q = IF grantor = "session" THEN rxq[c] ELSE 0
                BY <4>4
            <4>6. Outstanding(c) = held[c] + crd[c] + InSlot[c] + txq[c] + data[c] + q
                BY <4>5 DEF Outstanding
            <4> QED BY <1>4, <2>1, <4>1, <4>2, <4>3, <4>4, <4>6
        <3> QED BY <1>4, <2>1, <3>1, <3>2, <3>3
    <2>2. CASE c # ch
        BY <1>1, <1>3, <2>2 DEF Typed
    <2> QED BY <2>1, <2>2
<1>6. crd' \in [Channel -> Nat] /\ held' \in [Channel -> Nat]
    BY <1>1, <1>3, <1>5 DEF Typed
<1>7. ASSUME NEW c \in Channel, grantor # "down" PROVE Used(c)' = Used(c)
    <2>1. held[c] \in Nat /\ txq[c] \in Nat /\ crd[c] \in Nat /\ data[c] \in Nat
          /\ rxq[c] \in Nat
        BY <1>3 DEF Typed
    <2> QED BY <1>2, <1>5, <1>7, <2>1 DEF Used
<1> QED BY <1>2, <1>3, <1>6, <1>7, MoveExact DEF Typed

\* Only the session changes.
LEMMA SessionExact ==
    ASSUME ExactInv, UNCHANGED <<cnt, slot, crd, rxq, data, held, txq>>,
           grantor' = grantor \/ (grantor = "boot" /\ grantor' = "session" /\ rxq = Empty),
           Live' => Live
    PROVE  Conserved'
<1>1. InSlot' = InSlot BY EmptyFacts DEF InSlot
<1>2. SUFFICES ASSUME NEW c \in Channel, Live PROVE Outstanding(c)' = cnt[c]
    BY DEF Conserved
<1>3. Outstanding(c) = cnt[c] BY <1>2 DEF ExactInv, Conserved
<1>4. CASE grantor' = grantor
    BY <1>1, <1>3, <1>4 DEF Outstanding
<1>5. CASE grantor = "boot" /\ grantor' = "session" /\ rxq = Empty
    BY <1>1, <1>3, <1>5, EmptyFacts DEF Outstanding
<1> QED BY <1>4, <1>5

LEMMA HandshakeExact ==
    ASSUME ExactInv, Orderly,
           Open \/ Establish \/ Handshake \/ StopSending \/ HearSenderStop \/ StopGranting
    PROVE  Conserved'
<1>1. UNCHANGED <<cnt, slot, crd, rxq, data, held, txq>>
    BY DEF Open, Establish, Handshake, StopSending, HearSenderStop, StopGranting,
           grantorVars
<1>2. Phases BY DEF ExactInv, IInv
<1>3. CASE Open \/ (Handshake /\ Session!Count)
    <2>1. "req" \in grants /\ grantor' = grantor /\ grants' = grants
        BY <1>3, ToldFacts DEF Open, Session!Open, Session!Count
    <2>2. Live BY <1>2, <2>1 DEF Live, Phases
    <2> QED BY <1>1, <2>1, <2>2, SessionExact
<1>4. CASE Establish
    <2>1. /\ grantor = "boot" /\ grantor' = "session" /\ rxq = Empty
          /\ UNCHANGED <<sender, grants>>
        BY <1>4 DEF Establish, Session!Establish
    <2> QED BY <1>1, <2>1, SessionExact DEF Live
<1>5. CASE (Handshake /\ Session!HearGrantorStop) \/ StopSending
    <2>1. UNCHANGED <<sender, grantor, grants>>
        BY <1>5 DEF Session!HearGrantorStop, StopSending, Session!StopSending
    <2> QED BY <1>1, <2>1, SessionExact DEF Live
<1>6. CASE HearSenderStop \/ StopGranting
    <2>1. grants # {} /\ grantor = "session" /\ UNCHANGED grantor
        BY <1>6 DEF HearSenderStop, Session!HearSenderStop, StopGranting, Session!StopGranting
    <2> QED BY <1>1, <2>1, SessionExact DEF Live
<1> QED BY <1>3, <1>4, <1>5, <1>6 DEF Handshake

LEMMA NextConserved ==
    ASSUME ExactInv, Orderly, OnePlane, [Next]_vars PROVE Conserved'
<1>1. CASE GrantorEdge
    BY <1>1, GrantorStepExact DEF GrantorEdge, GrantorStep, sessionVars
<1>2. CASE DrainDisabled
    BY <1>2 DEF DrainDisabled, sessionVars, Conserved, Live
<1>3. ASSUME NEW ch \in Channel, Insert(ch) PROVE Conserved' BY <1>3, InsertExact
<1>4. ASSUME NEW ch \in Channel, Pack(ch) PROVE Conserved' BY <1>4, PackExact
<1>5. ASSUME NEW ch \in Channel, Deliver(ch) PROVE Conserved' BY <1>5, DeliverExact
<1>6. ASSUME NEW ch \in Channel, CreditArrives(ch) PROVE Conserved'
    BY <1>6, CreditArrivesExact
<1>7. CASE Boot BY <1>7, BootExact
<1>8. CASE Open \/ Establish \/ Handshake \/ StopSending \/ HearSenderStop \/ StopGranting
    BY <1>8, HandshakeExact
<1>9. CASE Close
    <2>1. UNCHANGED <<sender, grantor, grants, data, held, txq>>
        BY <1>9 DEF Close, Session!Close
    <2>2. CASE grantor = "down"
        BY <2>1, <2>2 DEF Conserved, Live
    <2>3. CASE grantor # "down"
        <3>1. PICK pop \in SUBSET Poppable : Edge(pop, TRUE, FALSE)
            BY <1>9, <2>3 DEF Close
        <3> QED BY <2>1, <2>3, <3>1, GrantorStepExact
    <2> QED BY <2>2, <2>3
\* The session of this direction is over.
<1>10. CASE GrantorDown
    BY <1>10 DEF GrantorDown, Session!GrantorDown, Conserved, Live
<1>11. CASE SenderDown
    <2>1. closed /\ sender' = "down" /\ grants' = grants
        BY <1>11 DEF SenderDown, Session!SenderDown
    <2>2. grants = {} BY <2>1 DEF ExactInv, IInv, Phases
    <2> QED BY <2>1, <2>2 DEF Conserved, Live
<1>12. CASE UNCHANGED vars
    BY <1>12, SessionExact DEF vars, sessionVars, grantorVars, Live
<1> QED
    BY <1>1, <1>2, <1>3, <1>4, <1>5, <1>6, <1>7, <1>8, <1>9, <1>10, <1>11, <1>12
    DEF Next

-----------------------------------------------------------------------------

\* No credit is lost (AOU_RX_CRD_CTRL.sv, AOU_TX_CRD_CTRL.sv): while the
\* sender may send, all that the grantor's counter stands for is in the
\* sender's counter, on the way, in a queue or in the RX FIFO.
THEOREM CreditIsConserved ==
    ASSUME Orderly, OnePlane PROVE Spec => []CreditConserved
<1>1. Init => ExactInv
    <2>1. Init => ArbiterTyped
        BY EmptyFacts, ChannelFacts DEF Init, ArbiterTyped
    <2>2. Init => Conserved BY DEF Init, Session!Init, Conserved, Live
    <2> QED BY <2>1, <2>2, InitIInv DEF ExactInv
<1>2. ExactInv /\ [Next]_vars => ExactInv'
    BY NextIInv, NextArbiter, NextConserved DEF ExactInv
<1>3. ExactInv => CreditConserved BY DEF ExactInv, Conserved, Live, CreditConserved
<1> QED BY <1>1, <1>2, <1>3, PTL DEF Spec
==============================================================================

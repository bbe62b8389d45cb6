--------------------------- MODULE AouAnswersProofs ---------------------------
(***************************************************************************)
(* AnswersInv is an invariant of AouActivation: a die without an error     *)
(* asks once and owes two answers at most, whatever the other die does.    *)
(* So its activation FIFO always has room, and after the link fell nothing *)
(* in it starts a session.                                                 *)
(*                                                                         *)
(* An edge is taken apart twice, by what it does to the counts: once for   *)
(* the die itself, once for its peer.  The peer is one without an error,   *)
(* one in error that the die waits for or is stuck with, or one that has   *)
(* its error on this edge (PairEntry).                                     *)
(***************************************************************************)
EXTENDS AouAnswers, AouActivationProofs

-----------------------------------------------------------------------------
(* Counting in sequences.                                                  *)

LEMMA CountType ==
    ASSUME NEW U, NEW s \in Seq(U), NEW S
    PROVE  /\ Count(s, S) \in Nat /\ Count(s, S) <= Len(s)
           /\ IsFiniteSet({i \in DOMAIN s : s[i] \in S})
  <1>. DEFINE c == {i \in DOMAIN s : s[i] \in S}
  <1>1. /\ DOMAIN s = 1..Len(s) /\ Len(s) \in Nat
        /\ IsFiniteSet(1..Len(s)) /\ Cardinality(1..Len(s)) = Len(s)
    BY LenProperties, FS_Interval
  <1>2. c \subseteq 1..Len(s)
    BY <1>1
  <1>3. IsFiniteSet(c) /\ Cardinality(c) <= Len(s)
    BY <1>1, <1>2, FS_Subset
  <1>. QED
    BY <1>3, FS_CardinalityType DEF Count

LEMMA CountEmpty == ASSUME NEW S PROVE Count(<<>>, S) = 0
  <1>1. {i \in DOMAIN <<>> : <<>>[i] \in S} = {}
    OBVIOUS
  <1>. QED
    BY <1>1, FS_EmptySet DEF Count

LEMMA CountZero ==
    ASSUME NEW U, NEW s \in Seq(U), NEW S
    PROVE  Count(s, S) = 0 <=> ~Holds(s, S)
  <1>1. Count(s, S) = 0 <=> {i \in DOMAIN s : s[i] \in S} = {}
    BY CountType, FS_EmptySet DEF Count
  <1>. QED
    BY <1>1 DEF Holds

\* The elements of s that are in S or in T, which share none.
LEMMA CountUnion ==
    ASSUME NEW U, NEW s \in Seq(U), NEW S, NEW T, S \cap T = {}
    PROVE  Count(s, S \cup T) = Count(s, S) + Count(s, T)
  <1>. DEFINE c == {i \in DOMAIN s : s[i] \in S}
              t == {i \in DOMAIN s : s[i] \in T}
  <1>1. IsFiniteSet(c) /\ IsFiniteSet(t)
    BY CountType
  <1>2. c \cap t = {} /\ c \cup t = {i \in DOMAIN s : s[i] \in S \cup T}
    OBVIOUS
  <1>3. Cardinality(c \cup t) = Cardinality(c) + Cardinality(t)
    <2>1. Cardinality(c \cap t) = 0 /\ Cardinality(c) \in Nat /\ Cardinality(t) \in Nat
      BY <1>1, <1>2, FS_EmptySet, FS_CardinalityType
    <2>2. Cardinality(c \cup t)
            = Cardinality(c) + Cardinality(t) - Cardinality(c \cap t)
      BY <1>1, FS_Union
    <2>. HIDE DEF c, t
    <2>. QED
      BY <2>1, <2>2
  <1>. QED
    BY <1>2, <1>3 DEF Count

LEMMA CountAll ==
    ASSUME NEW U, NEW s \in Seq(U)
    PROVE  Count(s, U) = Len(s)
  <1>1. DOMAIN s = 1..Len(s) /\ Len(s) \in Nat /\ (\A i \in 1..Len(s) : s[i] \in U)
    BY LenProperties, ElementOfSeq
  <1>2. {i \in DOMAIN s : s[i] \in U} = 1..Len(s)
    BY <1>1
  <1>3. Cardinality(1..Len(s)) = Len(s)
    <2>1. 1 \in Int /\ Len(s) \in Int
      BY <1>1
    <2>2. Cardinality(1..Len(s)) = IF 1 > Len(s) THEN 0 ELSE Len(s) - 1 + 1
      BY <2>1, FS_Interval
    <2>. QED
      BY <1>1, <2>2
  <1>. QED
    BY <1>2, <1>3 DEF Count

One(x, S) == IF x \in S THEN 1 ELSE 0

LEMMA CountAppend ==
    ASSUME NEW U, NEW s \in Seq(U), NEW x \in U, NEW S
    PROVE  Count(Append(s, x), S) = Count(s, S) + One(x, S)
  <1>. DEFINE t == Append(s, x)
              c == {i \in DOMAIN s : s[i] \in S}
              e == {i \in DOMAIN t : t[i] \in S}
  <1>1. /\ t \in Seq(U) /\ Len(t) = Len(s) + 1
        /\ t[Len(s) + 1] = x /\ \A i \in 1..Len(s) : t[i] = s[i]
    BY AppendProperties
  <1>2. /\ DOMAIN s = 1..Len(s) /\ Len(s) \in Nat
        /\ DOMAIN t = 1..(Len(s) + 1)
    BY <1>1, LenProperties
  <1>3. IsFiniteSet(c) /\ Cardinality(c) \in Nat
    BY CountType, FS_CardinalityType
  <1>. HIDE DEF t
  <1>4. CASE x \in S
    <2>1. e = c \cup {Len(s) + 1} /\ Len(s) + 1 \notin c
      BY <1>1, <1>2, <1>4
    <2>2. Cardinality(e) = Cardinality(c) + 1
      BY <1>3, <2>1, FS_AddElement
    <2>. QED
      BY <1>4, <2>2 DEF Count, One, t
  <1>5. CASE x \notin S
    <2>1. e = c
      BY <1>1, <1>2, <1>5
    <2>2. Count(t, S) = Cardinality(e) /\ Count(s, S) = Cardinality(c)
      BY DEF Count
    <2>. HIDE DEF c, e
    <2>. QED
      BY <1>3, <1>5, <2>1, <2>2 DEF One, t
  <1>. QED
    BY <1>4, <1>5

LEMMA CountTail ==
    ASSUME NEW U, NEW s \in Seq(U), s # <<>>, NEW S
    PROVE  Count(s, S) = One(Head(s), S) + Count(Tail(s), S)
  <1>. DEFINE t == Tail(s)
              c == {i \in DOMAIN s : s[i] \in S}
              r == {i \in DOMAIN t : t[i] \in S}
              q == {i \in c : i # 1}
              f == [i \in q |-> i - 1]
  <1>1. /\ t \in Seq(U) /\ Len(t) = Len(s) - 1 /\ Head(s) = s[1]
        /\ \A i \in 1..Len(t) : t[i] = s[i + 1]
    BY HeadTailProperties
  <1>2. /\ DOMAIN s = 1..Len(s) /\ Len(s) \in Nat \ {0}
        /\ DOMAIN t = 1..Len(t)
    BY <1>1, LenProperties, EmptySeq
  <1>3. /\ IsFiniteSet(c) /\ IsFiniteSet(r)
        /\ Cardinality(c) \in Nat /\ Cardinality(r) \in Nat
    BY <1>1, CountType, FS_CardinalityType
  <1>. HIDE DEF t
  <1>4. IsFiniteSet(q) /\ Cardinality(q) \in Nat
    <2>1. q \subseteq c
      OBVIOUS
    <2>2. IsFiniteSet(q)
      BY <1>3, <2>1, FS_Subset
    <2>. QED
      BY <2>2, FS_CardinalityType
  <1>5. Cardinality(q) = Cardinality(r)
    <2>1. \A i \in q : i \in 2..Len(s) /\ i - 1 \in r
      BY <1>1, <1>2
    <2>2. \A j \in r : j + 1 \in q /\ f[j + 1] = j
      BY <1>1, <1>2
    <2>3. f \in Bijection(q, r)
      <3>1. f \in [q -> r]
        BY <2>1
      <3>2. \A a, b \in q : f[a] = f[b] => a = b
        BY <2>1
      <3>3. \A j \in r : \E i \in q : f[i] = j
        BY <2>2
      <3>. QED
        BY <3>1, <3>2, <3>3 DEF Bijection, Injection, Surjection, IsInjective
    <2>. QED
      BY <1>4, <2>3, FS_Bijection DEF ExistsBijection
  <1>6. Count(s, S) = Cardinality(c) /\ Count(t, S) = Cardinality(r)
    BY DEF Count
  <1>7. CASE Head(s) \in S
    <2>1. c = q \cup {1} /\ 1 \notin q
      BY <1>1, <1>2, <1>7
    <2>2. Cardinality(c) = Cardinality(q) + 1
      BY <1>4, <2>1, FS_AddElement
    <2>. HIDE DEF c, r, q
    <2>. QED
      BY <1>3, <1>4, <1>5, <1>6, <1>7, <2>2 DEF One, t
  <1>8. CASE Head(s) \notin S
    <2>1. c = q
      BY <1>1, <1>2, <1>8
    <2>. HIDE DEF c, r, q
    <2>. QED
      BY <1>3, <1>4, <1>5, <1>6, <1>8, <2>1 DEF One, t
  <1>. QED
    BY <1>7, <1>8

LEMMA CountSlot ==
    ASSUME NEW U, NEW s \in Seq(U), NEW x \in U \cup {None}, None \notin U,
           NEW S, None \notin S
    PROVE  /\ s \o Slot(x) \in Seq(U)
           /\ Count(s \o Slot(x), S) = Count(s, S) + One(x, S)
  <1>0. Count(s, S) \in Nat
    BY CountType
  <1>1. CASE x = None
    <2>1. s \o Slot(x) = s
      BY <1>1, ConcatEmptySeq DEF Slot
    <2>. QED
      BY <1>0, <1>1, <2>1 DEF One
  <1>2. CASE x # None
    <2>1. s \o Slot(x) = Append(s, x)
      BY <1>2, AppendIsConcat DEF Slot
    <2>2. x \in U
      BY <1>2
    <2>. QED
      BY <2>1, <2>2, CountAppend, AppendProperties
  <1>. QED
    BY <1>1, <1>2

\* A FIFO that is popped and takes what the two write ports hold.
LEMMA CountFifo ==
    ASSUME NEW U, None \notin U, NEW s \in Seq(U),
           NEW x \in U \cup {None}, NEW y \in U \cup {None}, NEW S, None \notin S
    PROVE  Count(s \o (Slot(x) \o Slot(y)), S) = Count(s, S) + One(x, S) + One(y, S)
  <1>1. Slot(x) \in Seq(U) /\ Slot(y) \in Seq(U)
    BY SlotType
  <1>2. s \o (Slot(x) \o Slot(y)) = (s \o Slot(x)) \o Slot(y)
    BY <1>1, ConcatAssociative
  <1>3. s \o Slot(x) \in Seq(U) /\ Count(s \o Slot(x), S) = Count(s, S) + One(x, S)
    BY CountSlot
  <1>4. PICK t \in Seq(U) : t = s \o Slot(x)
    BY <1>3
  <1>5. Count(t \o Slot(y), S) = Count(t, S) + One(y, S)
    BY CountSlot
  <1>. QED
    BY <1>2, <1>3, <1>4, <1>5

-----------------------------------------------------------------------------
(* What an edge of a die does to the counts.                               *)

\* An edge of d, with what else its actions say of it.
EdgeOf(d, m, pack, in) ==
    /\ EdgeEffect(d, m, pack, in)
    /\ wire'[d] = IF pack /\ link[Peer(d)] THEN Append(wire[d], Head(misc[d]))
                  ELSE wire[d]
    /\ wire'[Peer(d)] = IF m = None THEN wire[Peer(d)] ELSE Tail(wire[Peer(d)])
    /\ m # None => /\ wire[Peer(d)] # <<>> /\ m = Head(wire[Peer(d)])
                   /\ gap[d] = 0 /\ link[d]
    /\ faulted[d] => in.expired = {}
    /\ in.field = sfr[d]
    /\ sfr'[d] = sfr[d] \ AutoClear(d)
    /\ \A e \in Die \ {d} : sfr'[e] = sfr[e] /\ reg'[e] = reg[e]

LEMMA EdgeIsEdgeOf ==
    ASSUME TypeOK, HandshakeInv, NEW d \in Die, Clock(d) \/ Pack(d) \/ Decode(d)
    PROVE  \E m \in Message \cup {None}, pack \in BOOLEAN, in \in Input :
              EdgeOf(d, m, pack, in)
  <1>1. PICK m \in Message \cup {None}, pack \in BOOLEAN, bus \in Bus,
             credit \in BOOLEAN, expired \in SUBSET armed[d] :
           /\ m # None => /\ wire[Peer(d)] # <<>> /\ m = Head(wire[Peer(d)])
                          /\ gap[d] = 0
           /\ faulted[d] => expired = {}
           /\ Edge(d, m, pack, bus, credit, expired)
    <2>1. /\ Credit(d) \subseteq BOOLEAN /\ Expiry(d) \subseteq SUBSET armed[d]
          /\ \A expired \in Expiry(d) : faulted[d] => expired = {}
      BY DEF Credit, Expiry
    <2>2. /\ Arriving(d) \in Message \cup {None}
          /\ Arriving(d) # None => /\ wire[Peer(d)] # <<>>
                                   /\ Arriving(d) = Head(wire[Peer(d)])
                                   /\ gap[d] = 0
      BY DEF Arriving
    <2>3. CASE Clock(d)
      BY <2>1, <2>3 DEF Clock
    <2>4. CASE Pack(d)
      BY <2>1, <2>4 DEF Pack
    <2>5. CASE Decode(d)
      BY <2>1, <2>2, <2>5 DEF Decode
    <2>. QED
      BY <2>3, <2>4, <2>5
  <1>2. PICK in : in = CtrlInput(d, m, bus, credit, expired)
    OBVIOUS
  <1>3. in \in Input /\ in.expired = expired /\ in.field = sfr[d]
    <2>1. in \in Input
      BY <1>2, InputType
    <2>. QED
      BY <1>2, <2>1 DEF CtrlInput
  <1>4. EdgeEffect(d, m, pack, in)
    BY <1>1, <1>2, EdgeFrame
  <1>5. /\ wire'[d] = IF pack /\ link[Peer(d)] THEN Append(wire[d], Head(misc[d]))
                      ELSE wire[d]
        /\ wire'[Peer(d)] = IF m = None THEN wire[Peer(d)] ELSE Tail(wire[Peer(d)])
    BY <1>1, EdgeWire
  <1>6. m # None => link[d]
    BY <1>1 DEF HandshakeInv
  <1>7. /\ sfr'[d] = sfr[d] \ AutoClear(d)
        /\ \A e \in Die \ {d} : sfr'[e] = sfr[e] /\ reg'[e] = reg[e]
    BY <1>1 DEF Edge, Tick, TypeOK, CtrlTypeOK
  <1>8. EdgeOf(d, m, pack, in)
    BY <1>1, <1>3, <1>4, <1>5, <1>6, <1>7 DEF EdgeOf
  <1>. QED
    BY <1>3, <1>8

LEMMA CountMessages ==
    ASSUME TypeOK, NEW d \in Die, NEW S
    PROVE  /\ Count(wire[d], S) \in Nat /\ Count(misc[d], S) \in Nat
           /\ Count(actq[d], S) \in Nat /\ OnWay(d, S) \in Nat
           /\ OnWay(d, S) = Count(wire[d], S) + Count(misc[d], S) + Count(actq[d], S)
  <1>1. /\ wire[d] \in Seq(Message \cup Kind) /\ misc[d] \in Seq(Message)
        /\ actq[d] \in Seq(Message)
    BY DEF TypeOK, CtrlTypeOK
  <1>2. /\ Count(wire[d], S) \in Nat /\ Count(misc[d], S) \in Nat
        /\ Count(actq[d], S) \in Nat
    BY <1>1, CountType
  <1>. QED
    BY <1>2 DEF OnWay

\* What the two write ports push, if the FIFO has room.
Pushes(d, in, S) ==
    IF ActFifoReady(d) THEN One(Request(d, in), S) + One(Answer(d, in), S) ELSE 0

LEMMA QueueCount ==
    ASSUME TypeOK, NEW d \in Die, NEW in \in Input, NEW S \in SUBSET Message,
           actq'[d] = NextActq(d, in)
    PROVE  Count(actq'[d], S)
              = Count(actq[d], S) - One(Sent(d, in), S) + Pushes(d, in, S)
  <1>. DEFINE x == Sent(d, in)
              q == IF x = None THEN actq[d] ELSE Tail(actq[d])
              p == Request(d, in)
              a == Answer(d, in)
  <1>1. /\ actq[d] \in Seq(Message) /\ None \notin Message /\ None \notin S
        /\ x # None => actq[d] # <<>> /\ x = Head(actq[d])
        /\ p \in Message \cup {None} /\ a \in Message \cup {None}
    <2>1. x # None => x = Head(actq[d])
      BY DEF Sent, Offered
    <2>. QED
      BY <2>1, MessageCases, ItemFacts DEF TypeOK, CtrlTypeOK
  <1>2. /\ q \in Seq(Message)
        /\ Count(q, S) \in Nat /\ Count(actq[d], S) \in Nat
        /\ Count(q, S) = Count(actq[d], S) - One(x, S)
    <2>1. CASE x = None
      <3>1. Count(actq[d], S) \in Nat /\ One(x, S) = 0 /\ q = actq[d]
        BY <1>1, <2>1, CountMessages DEF One
      <3>. QED
        BY <1>1, <3>1
    <2>2. CASE x # None
      <3>1. Tail(actq[d]) \in Seq(Message)
        BY <1>1, <2>2, TailType
      <3>2. Count(actq[d], S) = One(x, S) + Count(Tail(actq[d]), S)
        BY <1>1, <2>2, CountTail
      <3>3. Count(actq[d], S) \in Nat /\ Count(Tail(actq[d]), S) \in Nat
        BY <1>1, <3>1, CountType
      <3>4. One(x, S) \in {0, 1}
        BY DEF One
      <3>. QED
        BY <2>2, <3>1, <3>2, <3>3, <3>4
    <2>. QED
      BY <2>1, <2>2
  <1>3. actq'[d] = q \o (IF ActFifoReady(d) THEN Slot(p) \o Slot(a) ELSE <<>>)
    BY DEF NextActq, Pushed
  <1>4. One(x, S) \in {0, 1} /\ One(p, S) \in {0, 1} /\ One(a, S) \in {0, 1}
    BY DEF One
  <1>. HIDE DEF q, p, a, x
  <1>5. CASE ActFifoReady(d)
    <2>1. Count(q \o (Slot(p) \o Slot(a)), S) = Count(q, S) + One(p, S) + One(a, S)
      BY <1>1, <1>2, CountFifo
    <2>. QED
      BY <1>2, <1>3, <1>4, <1>5, <2>1 DEF Pushes, p, a, x
  <1>6. CASE ~ActFifoReady(d)
    <2>1. actq'[d] = q
      BY <1>2, <1>3, <1>6, ConcatEmptySeq
    <2>. QED
      BY <1>2, <1>4, <1>6, <2>1 DEF Pushes, x
  <1>. QED
    BY <1>5, <1>6

\* d sends what it pushes, and a message leaves the wire of its peer.
LEMMA EdgeCounts ==
    ASSUME TypeOK, TypeOK', NEW d \in Die, NEW m \in Message \cup {None},
           NEW pack \in BOOLEAN, NEW in \in Input, EdgeOf(d, m, pack, in),
           NEW S \in SUBSET Message
    PROVE  /\ Count(actq'[d], S)
                = Count(actq[d], S) - One(Sent(d, in), S) + Pushes(d, in, S)
           /\ Count(misc'[d], S) <= Count(misc[d], S) + One(Sent(d, in), S)
           /\ OnWay(d, S)' <= OnWay(d, S) + Pushes(d, in, S)
           /\ OnWay(Peer(d), S)' = OnWay(Peer(d), S) - One(m, S)
           /\ Count(wire[Peer(d)], S) >= One(m, S)
           /\ Count(actq'[Peer(d)], S) = Count(actq[Peer(d)], S)
           /\ Count(misc'[Peer(d)], S) = Count(misc[Peer(d)], S)
  <1>. DEFINE e == Peer(d)
              x == Sent(d, in)
              h == Head(misc[d])
              q == IF pack THEN Tail(misc[d]) ELSE misc[d]
              k == IF pack THEN One(h, S) ELSE 0
  <1>1. /\ e \in Die /\ e # d
        /\ misc[d] \in Seq(Message) /\ None \notin Message /\ None \notin S
        /\ wire[d] \in Seq(Message \cup Kind) /\ wire[e] \in Seq(Message \cup Kind)
    BY PeerFacts, ItemFacts DEF TypeOK
  <1>2. /\ pack => misc[d] # <<>>
        /\ misc'[d] = q \o Slot(x) /\ x \in Message \cup {None}
        /\ misc'[e] = misc[e] /\ actq'[e] = actq[e]
        /\ wire'[d] = IF pack /\ link[e] THEN Append(wire[d], h) ELSE wire[d]
        /\ wire'[e] = IF m = None THEN wire[e] ELSE Tail(wire[e])
        /\ m # None => wire[e] # <<>> /\ m = Head(wire[e])
        /\ actq'[d] = NextActq(d, in)
    BY <1>1 DEF EdgeOf, EdgeEffect
  <1>3. Count(actq'[d], S) = Count(actq[d], S) - One(x, S) + Pushes(d, in, S)
    BY <1>2, QueueCount
  <1>4. q \in Seq(Message) /\ Count(q, S) = Count(misc[d], S) - k
    <2>1. CASE pack
      <3>1. Count(misc[d], S) = One(h, S) + Count(Tail(misc[d]), S)
        BY <1>1, <1>2, <2>1, CountTail
      <3>2. /\ Tail(misc[d]) \in Seq(Message)
            /\ Count(misc[d], S) \in Nat /\ Count(Tail(misc[d]), S) \in Nat
        BY <1>1, <1>2, <2>1, TailType, CountType
      <3>3. One(h, S) \in {0, 1}
        BY DEF One
      <3>. QED
        BY <2>1, <3>1, <3>2, <3>3
    <2>2. CASE ~pack
      <3>1. Count(misc[d], S) \in Nat /\ k = 0 /\ q = misc[d]
        BY <2>2, CountMessages
      <3>. HIDE DEF q, k
      <3>. QED
        BY <1>1, <3>1
    <2>. QED
      BY <2>1, <2>2
  <1>5. Count(misc'[d], S) = Count(q, S) + One(x, S)
    <2>1. PICK t : t = q
      OBVIOUS
    <2>2. t \in Seq(Message) /\ misc'[d] = t \o Slot(x)
      BY <1>2, <1>4, <2>1
    <2>3. Count(t \o Slot(x), S) = Count(t, S) + One(x, S)
      BY <1>1, <1>2, <2>2, CountSlot
    <2>. QED
      BY <2>1, <2>2, <2>3
  <1>6. Count(wire'[d], S) <= Count(wire[d], S) + k
    <2>1. CASE pack /\ link[e]
      <3>1. h \in Message \cup Kind
        BY <1>1, <1>2, <2>1, TailType
      <3>2. Count(Append(wire[d], h), S) = Count(wire[d], S) + One(h, S)
        BY <1>1, <3>1, CountAppend
      <3>3. Count(wire[d], S) \in Nat /\ One(h, S) \in {0, 1}
        BY CountMessages DEF One
      <3>. QED
        BY <1>2, <2>1, <3>2, <3>3
    <2>2. CASE ~(pack /\ link[e])
      <3>1. Count(wire[d], S) \in Nat /\ k \in {0, 1} /\ wire'[d] = wire[d]
        BY <1>2, <2>2, CountMessages DEF One
      <3>. QED
        BY <3>1
    <2>. QED
      BY <2>1, <2>2
  <1>7. /\ Count(wire'[e], S) = Count(wire[e], S) - One(m, S)
        /\ Count(wire[e], S) >= One(m, S)
    <2>1. CASE m = None
      <3>1. Count(wire[e], S) \in Nat /\ One(m, S) = 0 /\ wire'[e] = wire[e]
        BY <1>1, <1>2, <2>1, CountMessages DEF One
      <3>. QED
        BY <3>1
    <2>2. CASE m # None
      <3>1. Count(wire[e], S) = One(m, S) + Count(Tail(wire[e]), S)
        BY <1>1, <1>2, <2>2, CountTail
      <3>2. /\ Tail(wire[e]) \in Seq(Message \cup Kind)
            /\ Count(wire[e], S) \in Nat /\ Count(Tail(wire[e]), S) \in Nat
        BY <1>1, <1>2, <2>2, TailType, CountType
      <3>3. One(m, S) \in {0, 1} /\ wire'[e] = Tail(wire[e])
        BY <1>2, <2>2 DEF One
      <3>. QED
        BY <3>1, <3>2, <3>3
    <2>. QED
      BY <2>1, <2>2
  <1>8. /\ One(x, S) \in {0, 1} /\ k \in {0, 1} /\ One(m, S) \in {0, 1}
        /\ Pushes(d, in, S) \in {0, 1, 2}
    BY DEF One, Pushes
  <1>9. ASSUME NEW a \in Die
        PROVE  /\ Count(wire[a], S) \in Nat /\ Count(misc[a], S) \in Nat
               /\ Count(actq[a], S) \in Nat
               /\ OnWay(a, S) = Count(wire[a], S) + Count(misc[a], S) + Count(actq[a], S)
               /\ Count(wire'[a], S) \in Nat /\ Count(misc'[a], S) \in Nat
               /\ Count(actq'[a], S) \in Nat
               /\ OnWay(a, S)' = Count(wire'[a], S) + Count(misc'[a], S) + Count(actq'[a], S)
    <2>1. /\ wire'[a] \in Seq(Message \cup Kind) /\ misc'[a] \in Seq(Message)
          /\ actq'[a] \in Seq(Message)
      BY DEF TypeOK, CtrlTypeOK
    <2>2. /\ Count(wire'[a], S) \in Nat /\ Count(misc'[a], S) \in Nat
          /\ Count(actq'[a], S) \in Nat
      BY <2>1, CountType
    <2>. QED
      BY <2>2, CountMessages DEF OnWay
  <1>10. Count(q, S) \in Nat
    BY <1>4, CountType
  <1>11. /\ Count(wire[d], S) \in Nat /\ Count(misc[d], S) \in Nat
         /\ Count(actq[d], S) \in Nat
         /\ OnWay(d, S) = Count(wire[d], S) + Count(misc[d], S) + Count(actq[d], S)
         /\ Count(wire'[d], S) \in Nat /\ Count(misc'[d], S) \in Nat
         /\ Count(actq'[d], S) \in Nat
         /\ OnWay(d, S)' = Count(wire'[d], S) + Count(misc'[d], S) + Count(actq'[d], S)
    BY <1>9
  <1>12. /\ Count(wire[e], S) \in Nat /\ Count(misc[e], S) \in Nat
         /\ Count(actq[e], S) \in Nat
         /\ OnWay(e, S) = Count(wire[e], S) + Count(misc[e], S) + Count(actq[e], S)
         /\ OnWay(e, S)' = Count(wire'[e], S) + Count(misc'[e], S) + Count(actq'[e], S)
    BY <1>1, <1>9
  <1>13. Count(misc'[e], S) = Count(misc[e], S) /\ Count(actq'[e], S) = Count(actq[e], S)
    BY <1>2
  <1>. HIDE DEF q, k, x, h, e
  <1>14. Count(misc'[d], S) <= Count(misc[d], S) + One(x, S)
    BY <1>4, <1>5, <1>8, <1>10, <1>11
  <1>15. OnWay(d, S)' <= OnWay(d, S) + Pushes(d, in, S)
    <2>1. Count(misc'[d], S) + Count(actq'[d], S)
             = (Count(misc[d], S) - k) + (Count(actq[d], S) + Pushes(d, in, S))
      <3>1. Count(misc'[d], S) = (Count(misc[d], S) - k) + One(x, S)
        BY <1>4, <1>5
      <3>2. Count(actq'[d], S) = Count(actq[d], S) - One(x, S) + Pushes(d, in, S)
        BY <1>3
      <3>. QED
        BY <1>8, <1>11, <3>1, <3>2
    <2>. QED
      BY <1>6, <1>8, <1>11, <2>1
  <1>16. OnWay(e, S)' = OnWay(e, S) - One(m, S)
    BY <1>7, <1>8, <1>12, <1>13
  <1>. QED
    BY <1>3, <1>7, <1>13, <1>14, <1>15, <1>16 DEF x, e

LEMMA OneFacts ==
    ASSUME NEW x, NEW S
    PROVE  One(x, S) \in {0, 1} /\ (One(x, S) = 1 <=> x \in S)
  BY DEF One

LEMMA PushFacts ==
    ASSUME NEW d \in Die, NEW in \in Input, NEW h \in Handshake
    PROVE  /\ Pushes(d, in, ReqOf(h)) =
                 IF ActFifoReady(d) THEN One(Request(d, in), ReqOf(h)) ELSE 0
           /\ Pushes(d, in, {AckOf(h)}) <= One(in.msg, ReqOf(h))
           /\ Pushes(d, in, {AckOf(h)}) \in {0, 1}
           /\ Pushes(d, in, Acks) =
                 IF ActFifoReady(d) THEN One(Answer(d, in), Acks) ELSE 0
           /\ Answer(d, in) # None =>
                 Answer(d, in) \in Acks /\ \E g \in Handshake : in.msg \in ReqOf(g)
  <1>1. Request(d, in) \in {None} \cup {"ActivateReq"} \cup DeactReq
    BY DEF Request, DeactReq
  <1>2. /\ Answer(d, in) \in {None, "ActivateAck", "DeactivateAck"}
        /\ Answer(d, in) = "ActivateAck" => in.msg = "ActivateReq"
        /\ Answer(d, in) = "DeactivateAck" => in.msg \in DeactReq
    BY DEF Answer, None
  <1>3. /\ One(Answer(d, in), ReqOf(h)) = 0 /\ One(Request(d, in), {AckOf(h)}) = 0
        /\ One(Request(d, in), Acks) = 0
        /\ One(Answer(d, in), {AckOf(h)}) = 1 => One(in.msg, ReqOf(h)) = 1
    BY <1>1, <1>2 DEF One, None, DeactReq, ReqOf, AckOf, Handshake, Acks
  <1>4. /\ One(Request(d, in), ReqOf(h)) \in {0, 1}
        /\ One(Answer(d, in), {AckOf(h)}) \in {0, 1}
        /\ One(Answer(d, in), Acks) \in {0, 1}
        /\ One(in.msg, ReqOf(h)) \in {0, 1}
    BY OneFacts
  <1>5. Answer(d, in) # None =>
           Answer(d, in) \in Acks /\ \E g \in Handshake : in.msg \in ReqOf(g)
    BY <1>2 DEF Acks, ReqOf, Handshake
  <1>. QED
    BY <1>3, <1>4, <1>5 DEF Pushes

\* The edge on which die d goes on to the next handshake.
Ends(d, h) == st[d] = Second(h) /\ Full(d, h)

LEMMA FlagMoves ==
    ASSUME NEW d \in Die, NEW in, NEW h \in Handshake, ~FsmAbort(d, in)
    PROVE  /\ TxReq(h) \in NextFlags(d, in) <=>
                 Sent(d, in) \in ReqOf(h) \/ (TxReq(h) \in hs[d] /\ ~Ends(d, h))
           /\ RxReq(h) \in NextFlags(d, in) <=>
                 \/ in.msg \in ReqOf(h) /\ (h = "activate" => Idle(d))
                 \/ RxReq(h) \in hs[d] /\ ~Ends(d, h)
           /\ TxAck(h) \in NextFlags(d, in) =>
                 in.msg = AckOf(h) \/ (TxAck(h) \in hs[d] /\ ~Ends(d, h))
  <1>1. NextFlags(d, in) = (hs[d] \ ClearFlags(d, in)) \cup SetFlags(d, in)
    BY DEF NextFlags
  <1>2. CASE h = "activate"
    <2>1. Ends(d, h) <=> st[d] = "ACTIVATE" /\ ActFlag \subseteq hs[d]
      BY <1>2 DEF Ends, Second, Full, ActFlag, TxReq, TxAck, RxReq, RxAck
    <2>2. "tx_activate_req" \in ClearFlags(d, in) <=> Ends(d, h)
      BY <2>1 DEF ClearFlags, NextState, DeactFlag, DeactHs, ActFlag
    <2>3. "rx_activate_req" \in ClearFlags(d, in) <=> Ends(d, h)
      BY <2>1 DEF ClearFlags, NextState, DeactFlag, DeactHs, ActFlag
    <2>4. Ends(d, h) => "tx_activate_ack" \in ClearFlags(d, in)
      BY <2>1 DEF ClearFlags, NextState, ActFlag
    <2>5. /\ "tx_activate_req" \in SetFlags(d, in) <=> Sent(d, in) = "ActivateReq"
          /\ "rx_activate_req" \in SetFlags(d, in) <=> in.msg = "ActivateReq" /\ Idle(d)
          /\ "tx_activate_ack" \in SetFlags(d, in) => in.msg = "ActivateAck"
      BY DEF SetFlags, Bit
    <2>. QED
      BY <1>1, <1>2, <2>2, <2>3, <2>4, <2>5 DEF TxReq, RxReq, TxAck, ReqOf, AckOf
  <1>3. CASE h = "deactivate"
    <2>1. Ends(d, h) <=> st[d] = "DEACTIVATE" /\ DeactHs \subseteq hs[d]
      BY <1>3 DEF Ends, Second, Full, DeactHs, TxReq, TxAck, RxReq, RxAck
    <2>2. \A f \in DeactHs : f \in ClearFlags(d, in) <=> Ends(d, h)
      BY <2>1 DEF ClearFlags, NextState, DeactFlag, DeactHs, ActFlag
    <2>3. /\ "tx_deactivate_req" \in SetFlags(d, in) <=> Sent(d, in) \in DeactReq
          /\ "rx_deactivate_req" \in SetFlags(d, in) <=> in.msg \in DeactReq
          /\ "tx_deactivate_ack" \in SetFlags(d, in) => in.msg = "DeactivateAck"
      BY DEF SetFlags, Bit
    <2>. QED
      BY <1>1, <1>3, <2>2, <2>3 DEF TxReq, RxReq, TxAck, ReqOf, AckOf, DeactHs
  <1>. QED
    BY <1>2, <1>3 DEF Handshake

LEMMA StateMoves ==
    ASSUME NEW d \in Die, NEW in, st[d] \in State, ~FsmAbort(d, in), NEW h \in Handshake
    PROVE  /\ Ends(d, h) => Half(d) = h /\ NextState(d, in) = First(Other(h))
           /\ Half(d) = h /\ ~Ends(d, h) =>
                 /\ NextState(d, in) \in {First(h), Second(h)}
                 /\ st[d] = Second(h) => NextState(d, in) = Second(h)
  <1>1. CASE h = "activate"
    BY <1>1 DEF Ends, First, Second, Other, Half, Idle, State, NextState, Full,
                ActFlag, TxReq, TxAck, RxReq, RxAck
  <1>2. CASE h = "deactivate"
    BY <1>2 DEF Ends, First, Second, Other, Half, Idle, State, NextState, Full,
                DeactHs, TxReq, TxAck, RxReq, RxAck
  <1>. QED
    BY <1>1, <1>2 DEF Handshake

\* A die that has no error on an edge does not leave the FSM, or sees its link
\* fall when nothing is going on.
Falls(d, in) ==
    /\ FsmAbort(d, in) /\ LinkFell(d, in) /\ ~in.link
    /\ st[d] = "DISABLED" /\ hs[d] \cap ActReq = {}
    /\ Sent(d, in) # "ActivateReq" /\ in.msg = None
    /\ Request(d, in) = None

LEMMA NoErrorEdge ==
    ASSUME NEW d \in Die, NEW m, NEW pack, NEW in, EdgeOf(d, m, pack, in), ~faulted'[d]
    PROVE  /\ ~faulted[d] /\ ~LinkError(d, in)
           /\ ~FsmAbort(d, in) \/ Falls(d, in)
  <1>1. /\ ~faulted[d] /\ ~LinkError(d, in) /\ ~IntFdiLinkDown(d, in)
        /\ in.msg = m /\ in.link = link[d]
        /\ m # None => link[d]
    BY DEF EdgeOf, EdgeEffect
  <1>2. ASSUME FsmAbort(d, in) PROVE Falls(d, in)
    <2>1. LinkFell(d, in) /\ ~in.link /\ in.msg = None
      BY <1>1, <1>2 DEF FsmAbort, LinkFell
    <2>2. /\ st[d] = "DISABLED" /\ hs[d] \cap ActReq = {}
          /\ Sent(d, in) # "ActivateReq"
      BY <1>1, <2>1 DEF IntFdiLinkDown
    <2>3. Request(d, in) = None
      BY <2>1, <2>2 DEF Request, ActivateLevel, DeactivateLevel, ForceLevel,
                        DeactivateEn, Session
    <2>. QED
      BY <1>2, <2>1, <2>2, <2>3 DEF Falls
  <1>. QED
    BY <1>1, <1>2

-----------------------------------------------------------------------------
(* The activation FIFO.                                                    *)

LEMMA SplitCount ==
    ASSUME NEW s \in Seq(Message), NEW h \in Handshake
    PROVE  /\ Len(s) = Count(s, ReqOf(h)) + Count(s, ReqOf(Other(h))) + Count(s, Acks)
           /\ Count(s, Message) = Len(s)
           /\ Count(s, Acks) = Count(s, {AckOf(h)}) + Count(s, {AckOf(Other(h))})
           /\ Len(s) \in Nat /\ Count(s, Acks) \in Nat
           /\ Count(s, ReqOf(h)) \in Nat /\ Count(s, ReqOf(Other(h))) \in Nat
           /\ Count(s, {AckOf(h)}) \in Nat /\ Count(s, {AckOf(Other(h))}) \in Nat
  <1>. DEFINE R == ReqOf(h)
              P == ReqOf(Other(h))
              a == {AckOf(h)}
              b == {AckOf(Other(h))}
  <1>1. /\ R \cap P = {} /\ (R \cup P) \cap Acks = {} /\ a \cap b = {}
        /\ a \cup b = Acks /\ (R \cup P) \cup Acks = Message
    BY DEF Handshake, Other, ReqOf, AckOf, Acks, Message, DeactReq
  <1>. HIDE DEF R, P, a, b
  <1>2. Count(s, R \cup P) = Count(s, R) + Count(s, P)
    BY <1>1, CountUnion
  <1>3. Count(s, (R \cup P) \cup Acks) = Count(s, R \cup P) + Count(s, Acks)
    BY <1>1, CountUnion
  <1>4. Count(s, a \cup b) = Count(s, a) + Count(s, b)
    BY <1>1, CountUnion
  <1>5. Count(s, Message) = Len(s)
    BY CountAll
  <1>6. /\ Len(s) \in Nat /\ Count(s, Acks) \in Nat /\ Count(s, R) \in Nat
        /\ Count(s, P) \in Nat /\ Count(s, a) \in Nat /\ Count(s, b) \in Nat
    BY CountType, LenProperties
  <1>. QED
    BY <1>1, <1>2, <1>3, <1>4, <1>5, <1>6 DEF R, P, a, b

LEMMA HeadOfConcat ==
    ASSUME NEW U, NEW s \in Seq(U), NEW t \in Seq(U), s # <<>>
    PROVE  s \o t # <<>> /\ Head(s \o t) = Head(s)
  BY DecodedLine

LEMMA HeadStays ==
    ASSUME TypeOK, NEW d \in Die, NEW in \in Input, actq[d] # <<>>,
           Sent(d, in) = None, actq'[d] = NextActq(d, in)
    PROVE  actq'[d] # <<>> /\ Head(actq'[d]) = Head(actq[d])
  <1>. DEFINE t == IF ActFifoReady(d) THEN Pushed(d, in) ELSE <<>>
  <1>1. actq[d] \in Seq(Message) /\ actq'[d] = actq[d] \o t
    BY DEF NextActq, TypeOK, CtrlTypeOK
  <1>2. t \in Seq(Message)
    <2>1. Slot(Request(d, in)) \in Seq(Message) /\ Slot(Answer(d, in)) \in Seq(Message)
      BY SlotType, MessageCases DEF TypeOK, CtrlTypeOK
    <2>2. Pushed(d, in) \in Seq(Message)
      BY <2>1, ConcatType DEF Pushed
    <2>. QED
      BY <2>2, EmptySeq
  <1>. HIDE DEF t
  <1>. QED
    BY <1>1, <1>2, HeadOfConcat

LEMMA HeadPushed ==
    ASSUME TypeOK, NEW d \in Die, NEW in \in Input, Len(actq[d]) <= 1,
           actq[d] # <<>> => in.ready, Request(d, in) # None,
           actq'[d] = NextActq(d, in)
    PROVE  actq'[d] # <<>> /\ Head(actq'[d]) = Request(d, in) /\ ActFifoReady(d)
  <1>. DEFINE r == Request(d, in)
              a == Answer(d, in)
  <1>1. actq[d] \in Seq(Message) /\ Len(actq[d]) \in {0, 1}
    <2>1. actq[d] \in Seq(Message)
      BY DEF TypeOK, CtrlTypeOK
    <2>2. PICK n \in Nat : n = Len(actq[d])
      BY <2>1, LenProperties
    <2>3. n <= 1
      BY <2>2
    <2>4. n = 0 \/ n = 1
      BY <2>3
    <2>. QED
      BY <2>1, <2>2, <2>4
  <1>2. ActFifoReady(d)
    BY <1>1 DEF ActFifoReady, ActFifoDepth
  <1>3. r \in Message /\ Slot(r) = <<r>> /\ Slot(a) \in Seq(Message)
    BY SlotType, MessageCases DEF TypeOK, CtrlTypeOK, Slot
  <1>4. actq'[d] = <<>> \o (<<r>> \o Slot(a))
    <2>1. CASE actq[d] = <<>>
      <3>1. Sent(d, in) = None
        BY <2>1 DEF Sent, Offered
      <3>. QED
        BY <1>2, <1>3, <2>1, <3>1 DEF NextActq, Pushed
    <2>2. CASE actq[d] # <<>>
      <3>1. Sent(d, in) # None
        BY <1>1, <2>2, TailType, ItemFacts DEF Sent, Offered
      <3>2. Tail(actq[d]) \in Seq(Message) /\ Len(Tail(actq[d])) = Len(actq[d]) - 1
        BY <1>1, <2>2, HeadTailProperties
      <3>3. Len(actq[d]) # 0
        BY <1>1, <2>2, EmptySeq
      <3>4. Len(Tail(actq[d])) = 0
        <4>1. Len(actq[d]) = 1
          BY <1>1, <3>3
        <4>. QED
          BY <3>2, <4>1
      <3>5. Tail(actq[d]) = <<>>
        BY <3>2, <3>4, EmptySeq
      <3>. QED
        BY <1>2, <1>3, <3>1, <3>5 DEF NextActq, Pushed
    <2>. QED
      BY <2>1, <2>2
  <1>. HIDE DEF r, a
  <1>5. <<r>> \in Seq(Message) /\ <<r>> # <<>> /\ Head(<<r>>) = r
    BY <1>3
  <1>6. PICK t \in Seq(Message) : t = <<r>> \o Slot(a)
    BY <1>3, <1>5, ConcatType
  <1>7. t # <<>> /\ Head(t) = r
    BY <1>3, <1>5, <1>6, HeadOfConcat
  <1>8. actq'[d] = t
    BY <1>4, <1>6, ConcatEmptySeq
  <1>. QED
    BY <1>2, <1>7, <1>8 DEF r

\* A Req that is pushed is the first of its handshake.
LEMMA ReqNew ==
    ASSUME NEW d \in Die, NEW in, st[d] \in State, NEW h \in Handshake,
           Request(d, in) \in ReqOf(h), ReqFirst(d, h)
    PROVE  /\ Half(d) = h /\ TxReq(h) \notin hs[d] /\ Queued(d, h) = 0
           /\ Offered(d) \notin ReqOf(h) /\ ~Asked(d, h)
  <1>1. Half(d) = h /\ TxReq(h) \notin hs[d] /\ Offered(d) \notin ReqOf(h)
    <2>1. Request(d, in) # None
      BY MessageFacts, ItemFacts
    <2>2. /\ Request(d, in) \in ReqOf(Half(d)) /\ TxReq(Half(d)) \notin hs[d]
          /\ Offered(d) \notin ReqOf(Half(d)) /\ Half(d) \in Handshake
      BY <2>1, RequestOfHalf, HalfFacts
    <2>3. Half(d) = h
      BY <2>2 DEF Handshake, ReqOf, DeactReq
    <2>. QED
      BY <2>2, <2>3
  <1>2. Queued(d, h) = 0
    <2>. SUFFICES ASSUME Queued(d, h) # 0 PROVE FALSE
      OBVIOUS
    <2>1. Head(actq[d]) \in ReqOf(h)
      BY DEF ReqFirst
    <2>2. actq[d] # <<>>
      BY CountEmpty DEF Queued
    <2>. QED
      BY <1>1, <2>1, <2>2 DEF Offered
  <1>. QED
    BY <1>1, <1>2 DEF Asked

\* A Req that is pushed comes to the head of the FIFO.
LEMMA ReqPushed ==
    ASSUME TypeOK, TypeOK', NEW d \in Die, NEW m \in Message \cup {None},
           NEW pack \in BOOLEAN, NEW in \in Input, EdgeOf(d, m, pack, in),
           NEW h \in Handshake, Request(d, in) \in ReqOf(h), ReqFirst(d, h),
           Count(actq[d], ReqOf(Other(h))) = 0, Count(actq[d], Acks) <= 1,
           Count(actq[d], Acks) = 1 => Len(misc[d]) <= 1
    PROVE  /\ Half(d) = h /\ TxReq(h) \notin hs[d] /\ Queued(d, h) = 0
           /\ Sent(d, in) \notin ReqOf(h)
           /\ ActFifoReady(d)
           /\ Queued(d, h)' = 1
           /\ Head(actq'[d]) \in ReqOf(h)
           /\ Count(actq'[d], Acks) = One(Answer(d, in), Acks)
  <1>. DEFINE R == ReqOf(h)
              x == Sent(d, in)
  <1>1. /\ st[d] \in State /\ actq[d] \in Seq(Message) /\ misc[d] \in Seq(Message)
        /\ actq'[d] = NextActq(d, in) /\ in.ready = (Len(misc[d]) < MiscDepth)
        /\ R \in SUBSET Message /\ Acks \in SUBSET Message /\ R \cap Acks = {}
        /\ None \notin Message
    BY MessageFacts, ItemFacts
       DEF EdgeOf, EdgeEffect, TypeOK, CtrlTypeOK, Acks, Message, DeactReq,
           Handshake, ReqOf
  <1>2. /\ Half(d) = h /\ TxReq(h) \notin hs[d] /\ Offered(d) \notin R
        /\ Queued(d, h) = 0
    BY <1>1, ReqNew
  <1>3. /\ Len(actq[d]) = Count(actq[d], Acks) /\ Len(actq[d]) \in Nat
        /\ Len(misc[d]) \in Nat
    <2>1. /\ Len(actq[d]) = Count(actq[d], R) + Count(actq[d], ReqOf(Other(h)))
                              + Count(actq[d], Acks)
          /\ Count(actq[d], Acks) \in Nat /\ Len(misc[d]) \in Nat /\ Len(actq[d]) \in Nat
      BY <1>1, SplitCount
    <2>. QED
      BY <1>2, <2>1 DEF Queued
  <1>4. actq[d] # <<>> => in.ready /\ Len(actq[d]) = 1
    <2>. SUFFICES ASSUME actq[d] # <<>> PROVE in.ready /\ Len(actq[d]) = 1
      OBVIOUS
    <2>1. Len(actq[d]) # 0
      BY <1>1, EmptySeq
    <2>2. Count(actq[d], Acks) = 1
      BY <1>3, <2>1
    <2>3. Len(misc[d]) < MiscDepth
      BY <1>3, <2>2 DEF MiscDepth
    <2>. QED
      BY <1>1, <1>3, <2>2, <2>3
  <1>5. Head(actq'[d]) = Request(d, in) /\ ActFifoReady(d)
    BY <1>1, <1>3, <1>4, HeadPushed
  <1>6. x \notin R
    BY <1>1, <1>2 DEF Sent
  <1>7. /\ Count(actq'[d], R) = Count(actq[d], R) - One(x, R) + Pushes(d, in, R)
        /\ Count(actq'[d], Acks) = Count(actq[d], Acks) - One(x, Acks) + Pushes(d, in, Acks)
    BY <1>1, QueueCount
  <1>8. One(x, R) = 0 /\ One(Request(d, in), R) = 1
    BY <1>6 DEF One
  <1>9. Pushes(d, in, R) = 1 /\ Pushes(d, in, Acks) = One(Answer(d, in), Acks)
    BY <1>5, <1>8, PushFacts
  <1>10. Queued(d, h)' = 1
    BY <1>2, <1>7, <1>8, <1>9 DEF Queued
  <1>11. One(x, Acks) = Count(actq[d], Acks)
    <2>1. CASE actq[d] = <<>>
      BY <1>1, <2>1, CountEmpty DEF One, Sent, Offered
    <2>2. CASE actq[d] # <<>>
      <3>1. x = Head(actq[d]) /\ x \in Message /\ Count(actq[d], Acks) = 1
        BY <1>1, <1>3, <1>4, <2>2, TailType DEF Sent, Offered
      <3>2. ~Holds(actq[d], ReqOf(Other(h))) /\ ~Holds(actq[d], R)
        BY <1>1, <1>2, CountZero DEF Queued
      <3>3. Head(actq[d]) \notin ReqOf(Other(h)) /\ Head(actq[d]) \notin R
        BY <1>1, <2>2, <3>2, TailHolds
      <3>4. x \in Acks
        BY <3>1, <3>3 DEF Acks, Message, DeactReq, Handshake, ReqOf, Other
      <3>. QED
        BY <3>1, <3>4 DEF One
    <2>. QED
      BY <2>1, <2>2
  <1>12. Count(actq'[d], Acks) = One(Answer(d, in), Acks)
    <2>1. One(Answer(d, in), Acks) \in {0, 1} /\ Count(actq[d], Acks) \in Nat
      BY <1>3, OneFacts
    <2>. QED
      BY <1>7, <1>9, <1>11, <2>1
  <1>. QED
    BY <1>2, <1>2, <1>5, <1>6, <1>10, <1>12

-----------------------------------------------------------------------------
(* The Reqs that are open.                                                 *)

LEMMA OpenType ==
    ASSUME TypeOK, NEW d \in Die, NEW h \in Handshake
    PROVE  /\ Open(d, h) \in Nat
           /\ Latched(d, h) \in {0, 1} /\ (Latched(d, h) = 1 <=> TxAck(h) \in hs[d])
           /\ Queued(d, h) \in Nat
           /\ Queued(d, h) + Count(misc[d], ReqOf(h)) + Count(wire[d], ReqOf(h))
                 <= Open(d, h)
           /\ OnWay(d, ReqOf(h)) <= Open(d, h)
           /\ LinkUp => Open(d, h) = OnWay(d, ReqOf(h)) + OnWay(Peer(d), {AckOf(h)})
           /\ ~LinkUp => Open(d, h) = OnWay(d, ReqOf(h))
  <1>1. Peer(d) \in Die
    BY PeerFacts
  <1>2. OnWay(Peer(d), {AckOf(h)}) \in Nat
    BY <1>1, CountMessages
  <1>3. /\ Count(wire[d], ReqOf(h)) \in Nat /\ Count(misc[d], ReqOf(h)) \in Nat
        /\ Count(actq[d], ReqOf(h)) \in Nat /\ OnWay(d, ReqOf(h)) \in Nat
        /\ OnWay(d, ReqOf(h)) = Count(wire[d], ReqOf(h)) + Count(misc[d], ReqOf(h))
                                  + Count(actq[d], ReqOf(h))
    BY CountMessages
  <1>4. Latched(d, h) \in {0, 1} /\ (Latched(d, h) = 1 <=> TxAck(h) \in hs[d])
    BY DEF Latched
  <1>5. Queued(d, h) = Count(actq[d], ReqOf(h))
    BY DEF Queued
  <1>6. CASE LinkUp
    <2>1. Open(d, h) = OnWay(d, ReqOf(h)) + OnWay(Peer(d), {AckOf(h)})
      BY <1>6 DEF Open
    <2>. QED
      BY <1>2, <1>3, <1>4, <1>5, <1>6, <2>1
  <1>7. CASE ~LinkUp
    <2>1. Open(d, h) = OnWay(d, ReqOf(h))
      BY <1>2, <1>3, <1>7 DEF Open
    <2>. QED
      BY <1>2, <1>3, <1>4, <1>5, <1>7, <2>1
  <1>. QED
    BY <1>6, <1>7

\* A die opens what it pushes, and an Ack it decodes closes one.
LEMMA OpenOwn ==
    ASSUME TypeOK, TypeOK', NEW d \in Die, NEW m \in Message \cup {None},
           NEW pack \in BOOLEAN, NEW in \in Input, EdgeOf(d, m, pack, in),
           NEW h \in Handshake
    PROVE  /\ Open(d, h)' <= Open(d, h) - One(m, {AckOf(h)}) + Pushes(d, in, ReqOf(h))
           /\ Open(d, h) >= One(m, {AckOf(h)})
           /\ Open(d, h)' \in Nat
           /\ One(m, {AckOf(h)}) \in {0, 1}
           /\ Pushes(d, in, ReqOf(h)) \in {0, 1}
           /\ Pushes(d, in, ReqOf(h)) = 1 => Request(d, in) \in ReqOf(h)
           /\ Queued(d, h)' = Queued(d, h) - One(Sent(d, in), ReqOf(h))
                                + Pushes(d, in, ReqOf(h))
           /\ Queued(d, h)' \in Nat
  <1>. DEFINE e == Peer(d)
              R == ReqOf(h)
              a == {AckOf(h)}
  <1>1. /\ e \in Die /\ R \in SUBSET Message /\ a \in SUBSET Message
        /\ link' = link /\ (m # None => link[d])
    BY PeerFacts, MessageFacts DEF EdgeOf, EdgeEffect
  <1>2. /\ OnWay(d, R)' <= OnWay(d, R) + Pushes(d, in, R)
        /\ OnWay(e, a)' = OnWay(e, a) - One(m, a)
        /\ Count(wire[e], a) >= One(m, a)
        /\ Count(actq'[d], R) = Count(actq[d], R) - One(Sent(d, in), R) + Pushes(d, in, R)
    <2>1. /\ OnWay(d, R)' <= OnWay(d, R) + Pushes(d, in, R)
          /\ Count(actq'[d], R) = Count(actq[d], R) - One(Sent(d, in), R)
                                    + Pushes(d, in, R)
      BY <1>1, EdgeCounts
    <2>2. /\ OnWay(e, a)' = OnWay(e, a) - One(m, a)
          /\ Count(wire[e], a) >= One(m, a)
      BY <1>1, EdgeCounts
    <2>. QED
      BY <2>1, <2>2
  <1>3. LinkUp' = LinkUp /\ (m # None => LinkUp)
    BY <1>1 DEF LinkUp
  <1>4. Pushes(d, in, R) = IF ActFifoReady(d) THEN One(Request(d, in), R) ELSE 0
    BY PushFacts
  <1>5. Pushes(d, in, R) \in {0, 1} /\ (Pushes(d, in, R) = 1 => Request(d, in) \in R)
    BY <1>4 DEF One
  <1>6. One(m, a) \in {0, 1} /\ (m = None => One(m, a) = 0)
    BY <1>1, ItemFacts DEF One
  <1>7. /\ OnWay(d, R) \in Nat /\ OnWay(e, a) \in Nat /\ Count(wire[e], a) \in Nat
        /\ OnWay(e, a) >= Count(wire[e], a)
    <2>1. /\ OnWay(d, R) \in Nat /\ OnWay(e, a) \in Nat /\ Count(wire[e], a) \in Nat
          /\ Count(misc[e], a) \in Nat /\ Count(actq[e], a) \in Nat
          /\ OnWay(e, a) = Count(wire[e], a) + Count(misc[e], a) + Count(actq[e], a)
      BY <1>1, CountMessages
    <2>. QED
      BY <2>1
  <1>8. OnWay(d, R)' \in Nat /\ OnWay(e, a)' \in Nat
    <2>1. \A b \in Die : /\ wire'[b] \in Seq(Message \cup Kind) /\ misc'[b] \in Seq(Message)
                         /\ actq'[b] \in Seq(Message)
      BY DEF TypeOK, CtrlTypeOK
    <2>2. ASSUME NEW b \in Die, NEW S PROVE OnWay(b, S)' \in Nat
      <3>1. /\ Count(wire'[b], S) \in Nat /\ Count(misc'[b], S) \in Nat
            /\ Count(actq'[b], S) \in Nat
        BY <2>1, CountType
      <3>. QED
        BY <3>1 DEF OnWay
    <2>. QED
      BY <1>1, <2>2
  <1>9. Queued(d, h) = Count(actq[d], R) /\ Queued(d, h)' = Count(actq'[d], R)
    BY DEF Queued
  <1>10. Queued(d, h)' \in Nat
    <2>1. actq'[d] \in Seq(Message)
      BY DEF TypeOK, CtrlTypeOK
    <2>. QED
      BY <1>9, <2>1, CountType
  <1>11. CASE LinkUp
    <2>1. /\ Open(d, h) = OnWay(d, R) + OnWay(e, a)
          /\ Open(d, h)' = OnWay(d, R)' + OnWay(e, a)'
      BY <1>3, <1>11 DEF Open
    <2>2. /\ Open(d, h)' \in Nat
          /\ Open(d, h)' <= Open(d, h) - One(m, a) + Pushes(d, in, R)
          /\ Open(d, h) >= One(m, a)
      <3>. HIDE DEF R, a, e
      <3>. QED
        BY <1>2, <1>5, <1>6, <1>7, <1>8, <2>1
    <2>. QED
      BY <1>2, <1>5, <1>6, <1>9, <1>10, <2>2
  <1>12. CASE ~LinkUp
    <2>1. Open(d, h) = OnWay(d, R) /\ Open(d, h)' = OnWay(d, R)' /\ One(m, a) = 0
      BY <1>3, <1>6, <1>7, <1>8, <1>12 DEF Open
    <2>2. /\ Open(d, h)' \in Nat
          /\ Open(d, h)' <= Open(d, h) - One(m, a) + Pushes(d, in, R)
          /\ Open(d, h) >= One(m, a)
      <3>. HIDE DEF R, a, e
      <3>. QED
        BY <1>2, <1>5, <1>6, <1>7, <1>8, <2>1
    <2>. QED
      BY <1>2, <1>5, <1>6, <1>9, <1>10, <2>2
  <1>. QED
    BY <1>11, <1>12

\* An edge of its peer opens nothing for a die: the Req that is answered has
\* left its wire.
LEMMA OpenPeer ==
    ASSUME TypeOK, TypeOK', NEW d \in Die, NEW m \in Message \cup {None},
           NEW pack \in BOOLEAN, NEW in \in Input, EdgeOf(d, m, pack, in),
           NEW h \in Handshake
    PROVE  /\ Open(Peer(d), h)' <= Open(Peer(d), h)
           /\ Open(Peer(d), h)' \in Nat
           /\ Queued(Peer(d), h)' = Queued(Peer(d), h)
  <1>. DEFINE e == Peer(d)
              R == ReqOf(h)
              a == {AckOf(h)}
  <1>1. /\ e \in Die /\ Peer(e) = d /\ e # d
        /\ R \in SUBSET Message /\ a \in SUBSET Message
        /\ link' = link /\ in.msg = m
    BY PeerFacts, MessageFacts DEF EdgeOf, EdgeEffect
  <1>2. OnWay(d, a)' <= OnWay(d, a) + Pushes(d, in, a)
    BY <1>1, EdgeCounts
  <1>3. /\ OnWay(e, R)' = OnWay(e, R) - One(m, R)
        /\ Count(actq'[e], R) = Count(actq[e], R)
    BY <1>1, EdgeCounts
  <1>4. LinkUp' = LinkUp
    BY <1>1 DEF LinkUp
  <1>5. /\ Pushes(d, in, a) <= One(m, R) /\ Pushes(d, in, a) \in {0, 1}
        /\ One(m, R) \in {0, 1}
    BY <1>1, PushFacts, OneFacts
  <1>6. OnWay(d, a) \in Nat /\ OnWay(e, R) \in Nat
    BY <1>1, CountMessages
  <1>7. OnWay(d, a)' \in Nat /\ OnWay(e, R)' \in Nat
    <2>1. \A b \in Die : /\ wire'[b] \in Seq(Message \cup Kind) /\ misc'[b] \in Seq(Message)
                         /\ actq'[b] \in Seq(Message)
      BY DEF TypeOK, CtrlTypeOK
    <2>2. ASSUME NEW b \in Die, NEW S PROVE OnWay(b, S)' \in Nat
      <3>1. /\ Count(wire'[b], S) \in Nat /\ Count(misc'[b], S) \in Nat
            /\ Count(actq'[b], S) \in Nat
        BY <2>1, CountType
      <3>. QED
        BY <3>1 DEF OnWay
    <2>. QED
      BY <1>1, <2>2
  <1>8. Queued(e, h)' = Queued(e, h)
    BY <1>3 DEF Queued
  <1>9. CASE LinkUp
    <2>1. /\ Open(e, h) = OnWay(e, R) + OnWay(d, a)
          /\ Open(e, h)' = OnWay(e, R)' + OnWay(d, a)'
      BY <1>1, <1>4, <1>9 DEF Open
    <2>. HIDE DEF R, a, e
    <2>2. Open(e, h)' <= Open(e, h) /\ Open(e, h)' \in Nat
      BY <1>2, <1>3, <1>5, <1>6, <1>7, <2>1
    <2>. QED
      BY <1>8, <2>2 DEF e
  <1>10. CASE ~LinkUp
    <2>1. Open(e, h) = OnWay(e, R) /\ Open(e, h)' = OnWay(e, R)'
      BY <1>4, <1>6, <1>7, <1>10 DEF Open
    <2>. HIDE DEF R, a, e
    <2>2. Open(e, h)' <= Open(e, h) /\ Open(e, h)' \in Nat
      BY <1>3, <1>5, <1>6, <1>7, <2>1
    <2>. QED
      BY <1>8, <2>2 DEF e
  <1>. QED
    BY <1>9, <1>10

-----------------------------------------------------------------------------
(* An edge of a die that has no error.                                     *)

\* The flags after an edge, an error or none.
LEMMA FlagsAfter ==
    ASSUME NEW d \in Die, NEW m, NEW pack, NEW in, EdgeOf(d, m, pack, in),
           NEW h \in Handshake
    PROVE  /\ TxReq(h) \in hs'[d] =>
                 Sent(d, in) \in ReqOf(h) \/ (TxReq(h) \in hs[d] /\ ~Ends(d, h))
           /\ TxAck(h) \in hs'[d] =>
                 m = AckOf(h) \/ (TxAck(h) \in hs[d] /\ ~Ends(d, h))
           /\ RxReq(h) \in hs'[d] =>
                 \/ m \in ReqOf(h) /\ (h = "activate" => Idle(d))
                 \/ RxReq(h) \in hs[d] /\ ~Ends(d, h)
           /\ ~FsmAbort(d, in) =>
                 /\ Sent(d, in) \in ReqOf(h) \/ (TxReq(h) \in hs[d] /\ ~Ends(d, h))
                       => TxReq(h) \in hs'[d]
                 /\ (\/ m \in ReqOf(h) /\ (h = "activate" => Idle(d))
                     \/ RxReq(h) \in hs[d] /\ ~Ends(d, h))
                        => RxReq(h) \in hs'[d]
           /\ FsmAbort(d, in) => hs'[d] = {} /\ st'[d] = "DISABLED"
  <1>1. in.msg = m /\ hs'[d] = NextFlags(d, in) /\ st'[d] = NextState(d, in)
    BY DEF EdgeOf, EdgeEffect
  <1>2. CASE FsmAbort(d, in)
    BY <1>1, <1>2 DEF NextFlags, NextState
  <1>3. CASE ~FsmAbort(d, in)
    BY <1>1, <1>3, FlagMoves
  <1>. QED
    BY <1>2, <1>3

\* The die stays in the handshake unless it ends it.
LEMMA HalfAfter ==
    ASSUME TypeOK, NEW d \in Die, NEW m, NEW pack, NEW in, EdgeOf(d, m, pack, in),
           NEW h \in Handshake
    PROVE  /\ Half(d) \in Handshake
           /\ ~FsmAbort(d, in) /\ Half(d) = h =>
                 /\ Ends(d, h) => Half(d)' = Other(h) /\ st'[d] = First(Other(h))
                 /\ ~Ends(d, h) => Half(d)' = h
                 /\ ~Ends(d, h) /\ st[d] = Second(h) => st'[d] = Second(h)
           /\ FsmAbort(d, in) => Half(d)' = "activate"
           /\ Ends(d, h) => Half(d) = h
  <1>1. /\ st[d] \in State /\ st'[d] = NextState(d, in)
    BY DEF EdgeOf, EdgeEffect, TypeOK, CtrlTypeOK
  <1>2. Half(d) \in Handshake
    BY <1>1, HalfFacts
  <1>3. Ends(d, h) => Half(d) = h
    BY DEF Ends, Half, Idle, Second, Handshake
  <1>4. CASE FsmAbort(d, in)
    BY <1>1, <1>2, <1>3, <1>4 DEF NextState, Half, Idle
  <1>5. CASE ~FsmAbort(d, in)
    <2>1. /\ Ends(d, h) => NextState(d, in) = First(Other(h))
          /\ Half(d) = h /\ ~Ends(d, h) =>
                /\ NextState(d, in) \in {First(h), Second(h)}
                /\ st[d] = Second(h) => NextState(d, in) = Second(h)
      BY <1>1, <1>5, StateMoves
    <2>2. st'[d] \in {First(h), Second(h)} => Half(d)' = h
      BY DEF Half, Idle, First, Second, Handshake
    <2>3. st'[d] = First(Other(h)) => Half(d)' = Other(h)
      BY DEF Half, Idle, First, Other, Handshake
    <2>. QED
      BY <1>1, <1>2, <1>3, <1>5, <2>1, <2>2, <2>3
  <1>. QED
    BY <1>4, <1>5

\* What is sent was queued, at the head.
LEMMA SentQueued ==
    ASSUME TypeOK, NEW d \in Die, NEW in \in Input, NEW h \in Handshake,
           Sent(d, in) \in ReqOf(h)
    PROVE  Queued(d, h) # 0 /\ Asked(d, h)
  <1>1. /\ actq[d] \in Seq(Message) /\ Sent(d, in) # None
        /\ actq[d] # <<>> /\ Sent(d, in) = Head(actq[d])
    BY MessageFacts, ItemFacts DEF Sent, Offered, TypeOK, CtrlTypeOK
  <1>2. Holds(actq[d], ReqOf(h))
    BY <1>1, TailHolds
  <1>3. Queued(d, h) # 0
    BY <1>1, <1>2, CountZero DEF Queued
  <1>. QED
    BY <1>3 DEF Asked

LEMMA ReqFirstAfter ==
    ASSUME TypeOK, TypeOK', NEW d \in Die, NEW m \in Message \cup {None},
           NEW pack \in BOOLEAN, NEW in \in Input, EdgeOf(d, m, pack, in),
           NEW h \in Handshake, ReqFirst(d, h),
           Request(d, in) \in ReqOf(h) =>
              Queued(d, h)' = 1 /\ Head(actq'[d]) \in ReqOf(h)
    PROVE  ReqFirst(d, h)'
  <1>. DEFINE R == ReqOf(h)
              x == Sent(d, in)
  <1>. SUFFICES ASSUME Queued(d, h)' # 0
                PROVE  /\ Queued(d, h)' = 1 /\ TxReq(h) \notin hs'[d]
                       /\ Head(actq'[d]) \in R
    BY DEF ReqFirst
  <1>1. /\ st[d] \in State /\ actq'[d] = NextActq(d, in) /\ actq[d] \in Seq(Message)
        /\ None \notin R /\ Queued(d, h) \in Nat
    BY MessageFacts, ItemFacts, OpenType DEF EdgeOf, EdgeEffect, TypeOK, CtrlTypeOK
  <1>2. TxReq(h) \in hs'[d] => x \in R \/ TxReq(h) \in hs[d]
    BY FlagsAfter
  <1>3. /\ Queued(d, h)' = Queued(d, h) - One(x, R) + Pushes(d, in, R)
        /\ Pushes(d, in, R) \in {0, 1}
        /\ Pushes(d, in, R) = 1 => Request(d, in) \in R
    BY OpenOwn
  <1>4. CASE Request(d, in) \in R
    <2>1. TxReq(h) \notin hs[d] /\ Offered(d) \notin R
      BY <1>1, <1>4, ReqNew
    <2>2. x \notin R
      BY <1>1, <2>1 DEF Sent
    <2>. QED
      BY <1>2, <1>4, <2>1, <2>2
  <1>5. CASE Request(d, in) \notin R
    <2>1. Pushes(d, in, R) = 0 /\ Queued(d, h)' = Queued(d, h) - One(x, R)
      BY <1>1, <1>3, <1>5, OneFacts
    <2>2. One(x, R) = 0 \/ One(x, R) = 1
      BY OneFacts
    <2>3. Queued(d, h) # 0
      BY <1>1, <2>1, <2>2, SentQueued, OneFacts
    <2>4. Queued(d, h) = 1 /\ TxReq(h) \notin hs[d] /\ Head(actq[d]) \in R
      BY <2>3 DEF ReqFirst
    <2>5. x \notin R /\ Queued(d, h)' = 1
      BY <2>1, <2>2, <2>4, OneFacts
    <2>6. actq[d] # <<>>
      BY <2>3, CountEmpty DEF Queued
    <2>7. x = None
      BY <2>4, <2>5, <2>6 DEF Sent, Offered
    <2>8. Head(actq'[d]) = Head(actq[d])
      BY <1>1, <2>6, <2>7, HeadStays
    <2>. QED
      BY <1>2, <2>4, <2>5, <2>8
  <1>. QED
    BY <1>4, <1>5

\* When a die without an error asks, nothing but an answer is ahead of its Req.
LEMMA AloneReq ==
    ASSUME TypeOK, TypeOK', NEW d \in Die, NEW m \in Message \cup {None},
           NEW pack \in BOOLEAN, NEW in \in Input, EdgeOf(d, m, pack, in),
           AsksOnce(d), AnswersFit(d), NEW h \in Handshake, Request(d, in) \in ReqOf(h)
    PROVE  /\ Half(d) = h /\ ~Asked(d, h) /\ Open(d, h) = 0 /\ Latched(d, h) = 0
           /\ Queued(d, h)' = 1 /\ Head(actq'[d]) \in ReqOf(h)
           /\ Sent(d, in) \notin ReqOf(h) /\ ActFifoReady(d)
           /\ Count(actq'[d], Acks) = One(Answer(d, in), Acks)
  <1>. DEFINE o == Other(h)
  <1>1. /\ st[d] \in State /\ o \in Handshake /\ o # h /\ Other(o) = h
        /\ actq[d] \in Seq(Message) /\ misc[d] \in Seq(Message)
    BY HandshakeFacts DEF TypeOK, CtrlTypeOK
  <1>2. Half(d) = h /\ ~Asked(d, h)
    BY <1>1, ReqNew DEF AsksOnce
  <1>3. Open(d, h) + Latched(d, h) = 0 /\ Open(d, o) + Latched(d, o) = 0
    BY <1>1, <1>2 DEF AsksOnce
  <1>4. /\ Open(d, h) \in Nat /\ Latched(d, h) \in {0, 1}
        /\ Queued(d, h) \in Nat /\ Count(misc[d], ReqOf(h)) \in Nat
        /\ Count(wire[d], ReqOf(h)) \in Nat
        /\ Queued(d, h) + Count(misc[d], ReqOf(h)) + Count(wire[d], ReqOf(h)) <= Open(d, h)
    BY OpenType, CountMessages
  <1>5. /\ Open(d, o) \in Nat /\ Latched(d, o) \in {0, 1}
        /\ Queued(d, o) \in Nat /\ Count(misc[d], ReqOf(o)) \in Nat
        /\ Count(wire[d], ReqOf(o)) \in Nat
        /\ Queued(d, o) + Count(misc[d], ReqOf(o)) + Count(wire[d], ReqOf(o)) <= Open(d, o)
    BY <1>1, OpenType, CountMessages
  <1>6. Open(d, h) = 0 /\ Latched(d, h) = 0 /\ Count(misc[d], ReqOf(h)) = 0
    BY <1>3, <1>4
  <1>7. Queued(d, o) = 0 /\ Count(misc[d], ReqOf(o)) = 0
    BY <1>3, <1>5
  <1>8. /\ Len(misc[d]) = Count(misc[d], Acks) /\ Count(misc[d], Acks) \in Nat
        /\ Count(actq[d], Acks) \in Nat
    <2>1. /\ Len(misc[d]) = Count(misc[d], ReqOf(h)) + Count(misc[d], ReqOf(o))
                              + Count(misc[d], Acks)
          /\ Count(misc[d], Acks) \in Nat
      BY <1>1, SplitCount
    <2>2. Count(actq[d], Acks) \in Nat
      BY CountMessages
    <2>3. Len(misc[d]) = Count(misc[d], Acks)
      BY <1>6, <1>7, <2>1
    <2>. QED
      BY <2>1, <2>2, <2>3
  <1>9. /\ Count(misc[d], Acks) + Count(actq[d], Acks) <= 2
        /\ Count(actq[d], Acks) <= 1
    BY DEF AnswersFit, Owes
  <1>10. Count(actq[d], Acks) = 1 => Len(misc[d]) <= 1
    BY <1>8, <1>9
  <1>11. /\ Queued(d, h)' = 1 /\ Head(actq'[d]) \in ReqOf(h)
         /\ Sent(d, in) \notin ReqOf(h) /\ ActFifoReady(d)
         /\ Count(actq'[d], Acks) = One(Answer(d, in), Acks)
    <2>1. ReqFirst(d, h) /\ Count(actq[d], ReqOf(o)) = 0
      BY <1>7 DEF AsksOnce, Queued
    <2>. QED
      BY <1>9, <1>10, <2>1, ReqPushed
  <1>. QED
    BY <1>2, <1>6, <1>11

LEMMA OwnAsksOnce ==
    ASSUME TypeOK, TypeOK', NEW d \in Die, NEW m \in Message \cup {None},
           NEW pack \in BOOLEAN, NEW in \in Input, EdgeOf(d, m, pack, in),
           ~faulted'[d], AsksOnce(d), AnswersFit(d)
    PROVE  AsksOnce(d)'
  <1>1. ASSUME NEW h \in Handshake
        PROVE  /\ Open(d, h)' + Latched(d, h)' <= 1
               /\ ReqFirst(d, h)'
               /\ Half(d)' # h => TxReq(h) \notin hs'[d]
               /\ Half(d)' # h \/ ~Asked(d, h)' => Open(d, h)' + Latched(d, h)' = 0
    <2>. DEFINE R == ReqOf(h)
                x == Sent(d, in)
                k == One(m, {AckOf(h)})
                p == Pushes(d, in, R)
    <2>1. /\ Open(d, h) + Latched(d, h) <= 1 /\ ReqFirst(d, h)
          /\ Half(d) # h => TxReq(h) \notin hs[d]
          /\ Half(d) # h \/ ~Asked(d, h) => Open(d, h) + Latched(d, h) = 0
      BY DEF AsksOnce
    <2>2. /\ Open(d, h)' <= Open(d, h) - k + p /\ Open(d, h) >= k
          /\ Open(d, h)' \in Nat /\ k \in {0, 1} /\ p \in {0, 1}
          /\ p = 1 => Request(d, in) \in R
          /\ Queued(d, h)' = Queued(d, h) - One(x, R) + p
          /\ Queued(d, h)' \in Nat
      BY OpenOwn
    <2>3. /\ Open(d, h) \in Nat /\ Latched(d, h) \in {0, 1} /\ Queued(d, h) \in Nat
          /\ Latched(d, h) = 1 <=> TxAck(h) \in hs[d]
          /\ Queued(d, h) <= Open(d, h)
      <3>1. /\ Open(d, h) \in Nat /\ Latched(d, h) \in {0, 1} /\ Queued(d, h) \in Nat
            /\ Latched(d, h) = 1 <=> TxAck(h) \in hs[d]
            /\ Count(misc[d], R) \in Nat /\ Count(wire[d], R) \in Nat
            /\ Queued(d, h) + Count(misc[d], R) + Count(wire[d], R) <= Open(d, h)
        BY OpenType, CountMessages
      <3>. QED
        BY <3>1
    <2>4. Latched(d, h)' \in {0, 1} /\ (Latched(d, h)' = 1 <=> TxAck(h) \in hs'[d])
      BY DEF Latched
    <2>5. Request(d, in) \in R =>
             /\ Half(d) = h /\ ~Asked(d, h) /\ Open(d, h) = 0 /\ Latched(d, h) = 0
             /\ Queued(d, h)' = 1 /\ Head(actq'[d]) \in R /\ x \notin R
      BY AloneReq
    <2>6. /\ TxReq(h) \in hs'[d] => x \in R \/ (TxReq(h) \in hs[d] /\ ~Ends(d, h))
          /\ TxAck(h) \in hs'[d] => m = AckOf(h) \/ (TxAck(h) \in hs[d] /\ ~Ends(d, h))
          /\ ~FsmAbort(d, in) =>
                (x \in R \/ (TxReq(h) \in hs[d] /\ ~Ends(d, h)) => TxReq(h) \in hs'[d])
          /\ FsmAbort(d, in) => hs'[d] = {} /\ st'[d] = "DISABLED"
      BY FlagsAfter
    <2>7. ~FsmAbort(d, in) \/ Falls(d, in)
      BY NoErrorEdge
    <2>8. /\ Half(d) \in Handshake
          /\ ~FsmAbort(d, in) /\ Half(d) = h =>
                /\ Ends(d, h) => Half(d)' = Other(h)
                /\ ~Ends(d, h) => Half(d)' = h
          /\ FsmAbort(d, in) => Half(d)' = "activate"
          /\ Ends(d, h) => Half(d) = h
      BY HalfAfter
    <2>9. Ends(d, h) => TxReq(h) \in hs[d] /\ TxAck(h) \in hs[d] /\ Asked(d, h)
      BY DEF Ends, Full, Asked
    <2>10. x \in R => Queued(d, h) # 0 /\ TxReq(h) \notin hs[d] /\ Asked(d, h)
      BY <2>1, SentQueued DEF ReqFirst
    <2>11. k = 1 <=> m = AckOf(h)
      BY DEF One
    <2>12. ReqFirst(d, h)'
      BY <2>1, <2>5, ReqFirstAfter
    <2>13. /\ x \in R => One(x, R) = 1
           /\ x \notin R => One(x, R) = 0
           /\ Asked(d, h) <=> TxReq(h) \in hs[d] \/ Queued(d, h) # 0
           /\ Asked(d, h)' <=> TxReq(h) \in hs'[d] \/ Queued(d, h)' # 0
      BY DEF One, Asked
    <2>14. Falls(d, in) =>
             /\ FsmAbort(d, in) /\ Request(d, in) = None
             /\ Half(d) = "activate" /\ (h = "activate" => x \notin R /\ TxReq(h) \notin hs[d])
      BY DEF Falls, Half, Idle, ReqOf, TxReq, ActReq
    <2>15. None \notin R
      BY MessageFacts, ItemFacts
    <2>. HIDE DEF R, x, k, p
    <2>16. Open(d, h)' + Latched(d, h)' <= 1
      <3>1. CASE p = 1
        BY <2>2, <2>3, <2>4, <2>5, <2>6, <2>11, <3>1
      <3>2. CASE p = 0
        <4>1. CASE k = 1
          BY <2>1, <2>2, <2>3, <2>4, <3>2, <4>1
        <4>2. CASE k = 0
          <5>1. Latched(d, h)' = 1 => Latched(d, h) = 1
            BY <2>3, <2>4, <2>6, <2>11, <4>2
          <5>. QED
            BY <2>1, <2>2, <2>3, <2>4, <3>2, <4>2, <5>1
        <4>. QED
          BY <2>2, <4>1, <4>2
      <3>. QED
        BY <2>2, <3>1, <3>2
    <2>17. Half(d)' # h => TxReq(h) \notin hs'[d]
      <3>. SUFFICES ASSUME TxReq(h) \in hs'[d] PROVE Half(d)' = h
        OBVIOUS
      <3>1. ~FsmAbort(d, in)
        BY <2>6
      <3>2. CASE x \in R
        <4>1. Open(d, h) + Latched(d, h) # 0
          BY <2>3, <2>10, <3>2
        <4>2. Half(d) = h /\ ~Ends(d, h)
          BY <2>1, <2>9, <2>10, <3>2, <4>1
        <4>. QED
          BY <2>8, <3>1, <4>2
      <3>3. CASE TxReq(h) \in hs[d] /\ ~Ends(d, h)
        BY <2>1, <2>8, <3>1, <3>3
      <3>. QED
        BY <2>6, <3>2, <3>3
    <2>18. Half(d)' # h \/ ~Asked(d, h)' => Open(d, h)' + Latched(d, h)' = 0
      <3>. SUFFICES ASSUME Half(d)' # h \/ ~Asked(d, h)'
                    PROVE  Open(d, h)' + Latched(d, h)' = 0
        OBVIOUS
      <3>1. p = 0
        <4>. SUFFICES ASSUME p = 1 PROVE FALSE
          BY <2>2
        <4>1. /\ Request(d, in) \in R /\ Half(d) = h /\ ~Asked(d, h)
              /\ Queued(d, h)' = 1
          BY <2>2, <2>5
        <4>2. ~FsmAbort(d, in) /\ ~Ends(d, h)
          BY <2>7, <2>9, <2>14, <2>15, <4>1
        <4>3. Asked(d, h)' /\ Half(d)' = h
          BY <2>8, <2>13, <4>1, <4>2
        <4>. QED
          BY <4>3
      <3>2. Open(d, h) = 0 /\ (Latched(d, h)' = 1 => Latched(d, h) = 1 /\ ~Ends(d, h))
            => Open(d, h)' + Latched(d, h)' = 0 \/ Latched(d, h)' = 1
        BY <2>2, <2>3, <2>4, <3>1
      <3>3. Open(d, h) = 0 => k = 0
        BY <2>2, <2>3
      <3>4. k = 0 => (Latched(d, h)' = 1 => Latched(d, h) = 1 /\ ~Ends(d, h))
        BY <2>3, <2>4, <2>6, <2>11
      <3>5. CASE Half(d) # h \/ ~Asked(d, h)
        <4>1. Open(d, h) = 0 /\ Latched(d, h) = 0
          BY <2>1, <2>3, <3>5
        <4>. QED
          BY <2>4, <3>2, <3>3, <3>4, <4>1
      <3>6. CASE Half(d) = h /\ Asked(d, h) /\ Ends(d, h)
        <4>1. Latched(d, h) = 1
          BY <2>3, <2>9, <3>6
        <4>2. Open(d, h) = 0
          BY <2>1, <2>3, <4>1
        <4>. QED
          BY <2>4, <3>2, <3>3, <3>4, <3>6, <4>2
      <3>7. CASE Half(d) = h /\ Asked(d, h) /\ ~Ends(d, h)
        <4>1. CASE FsmAbort(d, in)
          <5>1. Falls(d, in) /\ h = "activate" /\ x \notin R /\ TxReq(h) \notin hs[d]
            BY <2>7, <2>14, <3>7, <4>1
          <5>2. Queued(d, h)' = Queued(d, h) /\ Queued(d, h) # 0
            BY <2>2, <2>3, <2>13, <3>1, <3>7, <5>1
          <5>. QED
            BY <2>8, <2>13, <4>1, <5>1, <5>2
        <4>2. CASE ~FsmAbort(d, in)
          <5>1. Half(d)' = h
            BY <2>8, <3>7, <4>2
          <5>2. CASE x \in R \/ TxReq(h) \in hs[d]
            BY <2>6, <2>13, <3>7, <4>2, <5>1, <5>2
          <5>3. CASE x \notin R /\ TxReq(h) \notin hs[d]
            <6>1. Queued(d, h)' = Queued(d, h) /\ Queued(d, h) # 0
              BY <2>2, <2>3, <2>13, <3>1, <3>7, <5>3
            <6>. QED
              BY <2>13, <5>1, <6>1
          <5>. QED
            BY <5>2, <5>3
        <4>. QED
          BY <4>1, <4>2
      <3>. QED
        BY <3>5, <3>6, <3>7
    <2>. QED
      BY <2>12, <2>16, <2>17, <2>18
  <1>. QED
    BY <1>1 DEF AsksOnce

\* A die without an error has one Req at most before its peer.
LEMMA OneReq ==
    ASSUME TypeOK, NEW d \in Die, AsksOnce(d), NEW h \in Handshake
    PROVE  /\ Queued(d, h) + Queued(d, Other(h))
                + Count(misc[d], ReqOf(h)) + Count(misc[d], ReqOf(Other(h))) <= 1
           /\ Queued(d, h) \in Nat /\ Queued(d, Other(h)) \in Nat
           /\ Count(misc[d], ReqOf(h)) \in Nat /\ Count(misc[d], ReqOf(Other(h))) \in Nat
           /\ Count(misc[d], Acks) \in Nat /\ Count(actq[d], Acks) \in Nat
           /\ Len(misc[d]) = Count(misc[d], ReqOf(h)) + Count(misc[d], ReqOf(Other(h)))
                               + Count(misc[d], Acks)
           /\ Len(actq[d]) = Queued(d, h) + Queued(d, Other(h)) + Count(actq[d], Acks)
           /\ Open(d, h) + Open(d, Other(h)) <= 1
  <1>. DEFINE o == Other(h)
  <1>1. /\ st[d] \in State /\ o \in Handshake /\ o # h /\ Half(d) \in Handshake
        /\ misc[d] \in Seq(Message) /\ actq[d] \in Seq(Message)
        /\ Handshake = {h, o}
    <2>1. st[d] \in State /\ misc[d] \in Seq(Message) /\ actq[d] \in Seq(Message)
      BY DEF TypeOK, CtrlTypeOK
    <2>. QED
      BY <2>1, HandshakeFacts, HalfFacts DEF Handshake, Other
  <1>2. /\ Open(d, h) + Latched(d, h) <= 1 /\ Open(d, o) + Latched(d, o) <= 1
        /\ Half(d) # h => Open(d, h) + Latched(d, h) = 0
        /\ Half(d) # o => Open(d, o) + Latched(d, o) = 0
    BY <1>1 DEF AsksOnce
  <1>3. /\ Open(d, h) \in Nat /\ Latched(d, h) \in {0, 1} /\ Queued(d, h) \in Nat
        /\ Count(misc[d], ReqOf(h)) \in Nat /\ Count(wire[d], ReqOf(h)) \in Nat
        /\ Queued(d, h) + Count(misc[d], ReqOf(h)) + Count(wire[d], ReqOf(h)) <= Open(d, h)
    BY OpenType, CountMessages
  <1>4. /\ Open(d, o) \in Nat /\ Latched(d, o) \in {0, 1} /\ Queued(d, o) \in Nat
        /\ Count(misc[d], ReqOf(o)) \in Nat /\ Count(wire[d], ReqOf(o)) \in Nat
        /\ Queued(d, o) + Count(misc[d], ReqOf(o)) + Count(wire[d], ReqOf(o)) <= Open(d, o)
    BY <1>1, OpenType, CountMessages
  <1>5. Open(d, h) + Open(d, o) <= 1
    <2>1. CASE Half(d) # h
      BY <1>2, <1>3, <1>4, <2>1
    <2>2. CASE Half(d) # o
      BY <1>2, <1>3, <1>4, <2>2
    <2>. QED
      BY <1>1, <2>1, <2>2
  <1>6. /\ Len(misc[d]) = Count(misc[d], ReqOf(h)) + Count(misc[d], ReqOf(o))
                               + Count(misc[d], Acks)
        /\ Len(actq[d]) = Count(actq[d], ReqOf(h)) + Count(actq[d], ReqOf(o))
                               + Count(actq[d], Acks)
        /\ Count(misc[d], Acks) \in Nat /\ Count(actq[d], Acks) \in Nat
    BY <1>1, SplitCount
  <1>7. Queued(d, h) + Queued(d, o) + Count(misc[d], ReqOf(h)) + Count(misc[d], ReqOf(o))
           <= Open(d, h) + Open(d, o)
    BY <1>3, <1>4
  <1>8. Queued(d, h) + Queued(d, o) + Count(misc[d], ReqOf(h)) + Count(misc[d], ReqOf(o))
           <= 1
    BY <1>3, <1>4, <1>5, <1>7
  <1>. QED
    BY <1>3, <1>4, <1>5, <1>6, <1>8 DEF Queued

\* The head of the FIFO leaves when the misc FIFO has room.
LEMMA HeadLeaves ==
    ASSUME TypeOK, NEW d \in Die, NEW m, NEW pack, NEW in, EdgeOf(d, m, pack, in),
           Len(misc[d]) <= 1, actq[d] # <<>>
    PROVE  Sent(d, in) = Head(actq[d]) /\ Head(actq[d]) \in Message
  <1>1. in.ready = (Len(misc[d]) < MiscDepth) /\ Len(misc[d]) \in Nat
    BY LenProperties DEF EdgeOf, EdgeEffect, TypeOK
  <1>2. in.ready
    <2>1. Len(misc[d]) < MiscDepth
      BY <1>1 DEF MiscDepth
    <2>. QED
      BY <1>1, <2>1
  <1>3. Head(actq[d]) \in Message
    BY TailType DEF TypeOK, CtrlTypeOK
  <1>. QED
    BY <1>2, <1>3 DEF Sent, Offered

\* A FIFO without a Req has an Ack at its head.
LEMMA AckFirst ==
    ASSUME TypeOK, NEW d \in Die, actq[d] # <<>>, \A h \in Handshake : Queued(d, h) = 0
    PROVE  Head(actq[d]) \in Acks
  <1>1. actq[d] \in Seq(Message) /\ Head(actq[d]) \in Message
    BY TailType DEF TypeOK, CtrlTypeOK
  <1>2. ASSUME NEW h \in Handshake PROVE Head(actq[d]) \notin ReqOf(h)
    <2>1. ~Holds(actq[d], ReqOf(h))
      BY <1>1, CountZero DEF Queued
    <2>. QED
      BY <1>1, <2>1, TailHolds
  <1>3. Head(actq[d]) \notin ReqOf("activate") /\ Head(actq[d]) \notin ReqOf("deactivate")
    BY <1>2 DEF Handshake
  <1>. QED
    BY <1>1, <1>3 DEF ReqOf, Acks, Message, DeactReq

LEMMA OwnAnswersFit ==
    ASSUME TypeOK, TypeOK', NEW d \in Die, NEW m \in Message \cup {None},
           NEW pack \in BOOLEAN, NEW in \in Input, EdgeOf(d, m, pack, in),
           AsksOnce(d), AnswersFit(d),
           \A g \in Handshake : m \in ReqOf(g) => Owes(d, Acks) <= 1,
           m \in DeactReq => Owes(d, {"DeactivateAck"}) = 0
    PROVE  AnswersFit(d)'
  <1>. DEFINE x == Sent(d, in)
              q == Count(actq[d], Acks)
              w == Count(misc[d], Acks)
              p == Pushes(d, in, Acks)
              k == One(x, Acks)
              D == {"DeactivateAck"}
              pd == Pushes(d, in, D)
              kd == One(x, D)
  <1>1. /\ Acks \in SUBSET Message /\ D \in SUBSET Message /\ D = {AckOf("deactivate")}
        /\ "deactivate" \in Handshake /\ "activate" \in Handshake
        /\ DeactReq = ReqOf("deactivate")
        /\ in.msg = m /\ (m # None => gap'[d] > 0 /\ gap[d] = 0)
        /\ actq'[d] = NextActq(d, in)
    BY DEF EdgeOf, EdgeEffect, Acks, Message, Handshake, ReqOf, AckOf
  <1>2. /\ Count(actq'[d], Acks) = q - k + p /\ Count(misc'[d], Acks) <= w + k
    BY <1>1, EdgeCounts
  <1>3. Count(actq'[d], D) = Count(actq[d], D) - kd + pd
        /\ Count(misc'[d], D) <= Count(misc[d], D) + kd
    BY <1>1, EdgeCounts
  <1>4. /\ q \in Nat /\ w \in Nat /\ Count(actq[d], D) \in Nat /\ Count(misc[d], D) \in Nat
    BY CountMessages
  <1>5. /\ Count(actq'[d], Acks) \in Nat /\ Count(misc'[d], Acks) \in Nat
        /\ Count(actq'[d], D) \in Nat /\ Count(misc'[d], D) \in Nat
    <2>1. actq'[d] \in Seq(Message) /\ misc'[d] \in Seq(Message)
      BY DEF TypeOK, CtrlTypeOK
    <2>. QED
      BY <2>1, CountType
  <1>6. k \in {0, 1} /\ kd \in {0, 1} /\ (k = 1 <=> x \in Acks)
    BY OneFacts
  <1>7. /\ p \in {0, 1} /\ (p = 1 => \E g \in Handshake : m \in ReqOf(g))
        /\ pd \in {0, 1} /\ (pd = 1 => m \in DeactReq)
    <2>1. p = IF ActFifoReady(d) THEN One(Answer(d, in), Acks) ELSE 0
      BY <1>1, PushFacts
    <2>2. /\ pd \in {0, 1} /\ pd <= One(in.msg, ReqOf("deactivate"))
          /\ Answer(d, in) # None => \E g \in Handshake : in.msg \in ReqOf(g)
      BY <1>1, PushFacts
    <2>3. None \notin Acks
      BY DEF Acks, None
    <2>. QED
      BY <1>1, <2>1, <2>2, <2>3, OneFacts
  <1>8. /\ q + w <= 2 /\ Count(misc[d], D) + Count(actq[d], D) <= 1 /\ q <= 1
        /\ q # 0 /\ (\E h \in Handshake : Queued(d, h) # 0) => gap[d] > 0
        /\ p = 1 => q + w <= 1
        /\ pd = 1 => Count(misc[d], D) + Count(actq[d], D) = 0
    <2>1. /\ Owes(d, Acks) <= 2 /\ Owes(d, D) <= 1 /\ q <= 1
          /\ q # 0 /\ (\E h \in Handshake : Queued(d, h) # 0) => gap[d] > 0
      BY DEF AnswersFit
    <2>2. Owes(d, Acks) = w + q /\ Owes(d, D) = Count(misc[d], D) + Count(actq[d], D)
      BY DEF Owes
    <2>3. (p = 1 => Owes(d, Acks) <= 1) /\ (pd = 1 => Owes(d, D) = 0)
      BY <1>7
    <2>. HIDE DEF q, w, p, pd, D
    <2>. QED
      BY <1>4, <2>1, <2>2, <2>3
  <1>. HIDE DEF q, w, p, k, pd, kd, D, x
  <1>9. p = 1 => q - k = 0
    <2>. SUFFICES ASSUME p = 1, q # 0 PROVE k = q
      <3>1. q = 0 => k = 0
        <4>. SUFFICES ASSUME q = 0, x \in Acks PROVE FALSE
          BY <1>6
        <4>1. actq[d] \in Seq(Message) /\ actq[d] # <<>> /\ x = Head(actq[d])
          BY DEF x, Sent, Offered, Acks, None, TypeOK, CtrlTypeOK
        <4>2. Holds(actq[d], Acks)
          BY <4>1, TailHolds
        <4>. QED
          BY <4>1, <4>2, CountZero DEF q
      <3>. QED
        BY <1>4, <1>6, <3>1
    <2>1. gap[d] = 0
      BY <1>1, <1>7, MessageFacts, ItemFacts
    <2>2. q = 1 /\ w = 0 /\ \A h \in Handshake : Queued(d, h) = 0
      BY <1>4, <1>8, <2>1
    <2>3. /\ Len(misc[d]) <= 1 /\ Len(actq[d]) # 0
      <3>1. /\ Queued(d, "activate") + Queued(d, Other("activate"))
                + Count(misc[d], ReqOf("activate")) + Count(misc[d], ReqOf(Other("activate"))) <= 1
            /\ Queued(d, "activate") \in Nat /\ Queued(d, Other("activate")) \in Nat
            /\ Count(misc[d], ReqOf("activate")) \in Nat
            /\ Count(misc[d], ReqOf(Other("activate"))) \in Nat
            /\ Len(misc[d]) = Count(misc[d], ReqOf("activate"))
                                + Count(misc[d], ReqOf(Other("activate"))) + w
            /\ Len(actq[d]) = Queued(d, "activate") + Queued(d, Other("activate")) + q
        BY <1>1, OneReq DEF w, q
      <3>. QED
        BY <2>2, <3>1
    <2>4. x = Head(actq[d]) /\ actq[d] # <<>>
      BY <2>3, HeadLeaves DEF x
    <2>5. x \in Acks
      BY <2>2, <2>4, AckFirst
    <2>. QED
      BY <1>6, <2>2, <2>5
  <1>10. Count(actq'[d], Acks) <= 1
    BY <1>2, <1>4, <1>6, <1>7, <1>8, <1>9
  <1>11. Owes(d, Acks)' <= 2
    <2>1. Count(misc'[d], Acks) + Count(actq'[d], Acks) <= w + q + p
      BY <1>2, <1>4, <1>5, <1>6, <1>7
    <2>2. Owes(d, Acks)' = Count(misc'[d], Acks) + Count(actq'[d], Acks)
      BY DEF Owes
    <2>. QED
      BY <1>4, <1>5, <1>7, <1>8, <2>1, <2>2
  <1>12. Owes(d, D)' <= 1
    <2>1. Count(misc'[d], D) + Count(actq'[d], D)
             <= Count(misc[d], D) + Count(actq[d], D) + pd
      BY <1>3, <1>4, <1>5, <1>6, <1>7
    <2>2. Owes(d, D)' = Count(misc'[d], D) + Count(actq'[d], D)
      BY DEF Owes, D
    <2>. QED
      BY <1>4, <1>5, <1>7, <1>8, <2>1, <2>2
  <1>13. ASSUME NEW h \in Handshake, Count(actq'[d], Acks) # 0, Queued(d, h)' # 0
         PROVE  gap'[d] > 0
    <2>. SUFFICES ASSUME m = None PROVE FALSE
      BY <1>1
    <2>1. p = 0
      BY <1>7, MessageFacts, ItemFacts
    <2>2. q = 1 /\ k = 0
      BY <1>2, <1>4, <1>5, <1>6, <1>8, <1>13, <2>1
    <2>3. Request(d, in) \notin ReqOf(h)
      <3>. SUFFICES ASSUME Request(d, in) \in ReqOf(h) PROVE FALSE
        OBVIOUS
      <3>1. Count(actq'[d], Acks) = One(Answer(d, in), Acks)
        BY AloneReq
      <3>2. Answer(d, in) = None /\ None \notin Acks
        BY <1>1 DEF Answer, None, DeactReq, Acks
      <3>. QED
        BY <1>13, <3>1, <3>2 DEF One
    <2>4. /\ Queued(d, h)' = Queued(d, h) - One(x, ReqOf(h)) + Pushes(d, in, ReqOf(h))
          /\ Pushes(d, in, ReqOf(h)) \in {0, 1}
          /\ Pushes(d, in, ReqOf(h)) = 1 => Request(d, in) \in ReqOf(h)
          /\ Queued(d, h)' \in Nat
      BY OpenOwn DEF x
    <2>5. One(x, ReqOf(h)) \in {0, 1} /\ (One(x, ReqOf(h)) = 1 <=> x \in ReqOf(h))
      BY OneFacts
    <2>6. /\ Queued(d, h) + Queued(d, Other(h))
                + Count(misc[d], ReqOf(h)) + Count(misc[d], ReqOf(Other(h))) <= 1
          /\ Queued(d, h) \in Nat /\ Queued(d, Other(h)) \in Nat
          /\ Count(misc[d], ReqOf(h)) \in Nat /\ Count(misc[d], ReqOf(Other(h))) \in Nat
          /\ Len(misc[d]) = Count(misc[d], ReqOf(h)) + Count(misc[d], ReqOf(Other(h))) + w
          /\ Len(actq[d]) = Queued(d, h) + Queued(d, Other(h)) + q
      BY OneReq DEF w, q
    <2>7. Queued(d, h) = 1
      <3>1. Pushes(d, in, ReqOf(h)) = 0
        BY <2>3, <2>4
      <3>. QED
        BY <1>13, <2>4, <2>5, <2>6, <3>1
    <2>8. Len(misc[d]) <= 1 /\ Len(actq[d]) # 0
      <3>1. w <= 1
        BY <1>4, <1>8, <2>2
      <3>2. Len(misc[d]) = w
        BY <1>4, <2>6, <2>7
      <3>3. Len(actq[d]) = 1 + Queued(d, Other(h)) + 1
        BY <2>2, <2>6, <2>7
      <3>. QED
        BY <2>6, <3>1, <3>2, <3>3
    <2>9. x = Head(actq[d])
      BY <2>8, HeadLeaves DEF x
    <2>10. x \in ReqOf(h)
      BY <2>7, <2>9 DEF AsksOnce, ReqFirst
    <2>11. Queued(d, h)' = 0
      <3>1. One(x, ReqOf(h)) = 1
        BY <2>10 DEF One
      <3>2. Pushes(d, in, ReqOf(h)) = 0
        BY <2>3, <2>4
      <3>. QED
        BY <2>4, <2>7, <3>1, <3>2
    <2>. QED
      BY <1>13, <2>11
  <1>14. /\ Owes(d, Acks)' <= 2 /\ Owes(d, {"DeactivateAck"})' <= 1
         /\ Count(actq'[d], Acks) <= 1
         /\ Count(actq'[d], Acks) # 0 /\ (\E h \in Handshake : Queued(d, h)' # 0)
              => gap'[d] > 0
    BY <1>10, <1>11, <1>12, <1>13 DEF D
  <1>. QED
    BY <1>14 DEF AnswersFit

\* Whatever of S is in s is followed by something of T.
AllFollowed(s, S, T) == \A i \in DOMAIN s : s[i] \in S => Followed(s, i, T)

LEMMA AppendAllFollowed ==
    ASSUME NEW U, NEW s \in Seq(U), NEW x \in U, NEW S, NEW T, x \notin S,
           x \in T \/ AllFollowed(s, S, T)
    PROVE  AllFollowed(Append(s, x), S, T)
  <1>1. /\ Append(s, x) \in Seq(U) /\ Len(Append(s, x)) = Len(s) + 1
        /\ Append(s, x)[Len(s) + 1] = x
        /\ \A i \in 1..Len(s) : Append(s, x)[i] = s[i]
    BY AppendProperties
  <1>2. /\ DOMAIN s = 1..Len(s) /\ Len(s) \in Nat
        /\ DOMAIN Append(s, x) = 1..(Len(s) + 1)
    BY <1>1, LenProperties
  <1>3. ASSUME NEW i \in DOMAIN Append(s, x), Append(s, x)[i] \in S
        PROVE  Followed(Append(s, x), i, T)
    <2>1. i \in 1..Len(s) /\ s[i] \in S
      BY <1>1, <1>2, <1>3
    <2>2. x \in T \/ Followed(s, i, T)
      BY <1>2, <2>1 DEF AllFollowed
    <2>. QED
      BY <2>1, <2>2, AppendFollowed
  <1>. QED
    BY <1>3 DEF AllFollowed

LEMMA TailAllFollowed ==
    ASSUME NEW U, NEW s \in Seq(U), s # <<>>, NEW S, NEW T, AllFollowed(s, S, T)
    PROVE  AllFollowed(Tail(s), S, T)
  <1>1. /\ Tail(s) \in Seq(U) /\ Len(Tail(s)) = Len(s) - 1
        /\ \A i \in 1..Len(Tail(s)) : Tail(s)[i] = s[i + 1]
    BY HeadTailProperties
  <1>2. /\ DOMAIN s = 1..Len(s) /\ Len(s) \in Nat
        /\ DOMAIN Tail(s) = 1..Len(Tail(s)) /\ Len(Tail(s)) \in Nat
    BY <1>1, LenProperties
  <1>3. ASSUME NEW i \in DOMAIN Tail(s), Tail(s)[i] \in S
        PROVE  Followed(Tail(s), i, T)
    <2>1. i \in 1..Len(Tail(s)) /\ i + 1 \in DOMAIN s /\ s[i + 1] \in S
      BY <1>1, <1>2, <1>3
    <2>2. Followed(s, i + 1, T)
      BY <2>1 DEF AllFollowed
    <2>. QED
      BY <2>1, <2>2, TailFollowed
  <1>. QED
    BY <1>3 DEF AllFollowed

\* What leaves was there.
LEMMA SentOne ==
    ASSUME TypeOK, NEW d \in Die, NEW in \in Input, NEW S, None \notin S
    PROVE  One(Sent(d, in), S) <= Count(actq[d], S)
  <1>1. actq[d] \in Seq(Message) /\ Count(actq[d], S) \in Nat
    BY CountMessages DEF TypeOK, CtrlTypeOK
  <1>2. CASE Sent(d, in) \in S
    <2>1. actq[d] # <<>> /\ Sent(d, in) = Head(actq[d])
      BY <1>2 DEF Sent, Offered
    <2>2. Holds(actq[d], S)
      BY <1>1, <1>2, <2>1, TailHolds
    <2>3. Count(actq[d], S) # 0
      BY <1>1, <2>2, CountZero
    <2>4. One(Sent(d, in), S) = 1
      BY <1>2 DEF One
    <2>. QED
      BY <1>1, <2>3, <2>4
  <1>3. CASE Sent(d, in) \notin S
    BY <1>1, <1>3 DEF One
  <1>. QED
    BY <1>2, <1>3

\* A die without an error answers an ActivateReq only outside a session.
LEMMA NoLateAnswer ==
    ASSUME TypeOK, NEW d \in Die, NEW m, NEW pack, NEW in \in Input,
           EdgeOf(d, m, pack, in), ~faulted'[d], Session(d)
    PROVE  m # "ActivateReq" /\ Pushes(d, in, {"ActivateAck"}) = 0
  <1>1. in.msg = m /\ ~LinkError(d, in)
    BY NoErrorEdge DEF EdgeOf, EdgeEffect
  <1>2. m # "ActivateReq"
    BY <1>1 DEF LinkError, InvalidActmsg
  <1>3. /\ Pushes(d, in, {AckOf("activate")}) <= One(in.msg, ReqOf("activate"))
        /\ Pushes(d, in, {AckOf("activate")}) \in {0, 1}
    BY PushFacts DEF Handshake
  <1>4. One(in.msg, ReqOf("activate")) = 0 /\ AckOf("activate") = "ActivateAck"
    BY <1>1, <1>2 DEF One, ReqOf, AckOf
  <1>5. Pushes(d, in, {"ActivateAck"}) = 0
    BY <1>3, <1>4
  <1>. QED
    BY <1>2, <1>5

\* The Acks that d owes after an edge.
LEMMA OwesAfter ==
    ASSUME TypeOK, TypeOK', NEW d \in Die, NEW m \in Message \cup {None},
           NEW pack \in BOOLEAN, NEW in \in Input, EdgeOf(d, m, pack, in),
           NEW h \in Handshake, NEW a, a = {AckOf(h)}
    PROVE  /\ Owes(d, a)' <= Owes(d, a) + Pushes(d, in, a)
           /\ Owes(d, a)' \in Nat /\ Owes(d, a) \in Nat
           /\ Owes(d, a)
                = Count(misc[d], a) + Count(actq[d], a)
           /\ Count(misc[d], a) \in Nat /\ Count(actq[d], a) \in Nat
           /\ Count(actq'[d], a) = Count(actq[d], a)
                 - One(Sent(d, in), a) + Pushes(d, in, a)
           /\ Count(actq'[d], a) \in Nat
           /\ Pushes(d, in, a) \in {0, 1}
           /\ Pushes(d, in, a) = 1 => m \in ReqOf(h)
           /\ One(Sent(d, in), a) <= Count(actq[d], a)
           /\ One(Sent(d, in), a) \in {0, 1}
  <1>. DEFINE x == Sent(d, in)
  <1>1. a \in SUBSET Message /\ None \notin a /\ in.msg = m
    BY MessageFacts, ItemFacts DEF EdgeOf, EdgeEffect
  <1>2. /\ Count(actq'[d], a) = Count(actq[d], a) - One(x, a) + Pushes(d, in, a)
        /\ Count(misc'[d], a) <= Count(misc[d], a) + One(x, a)
    BY <1>1, EdgeCounts
  <1>3. Count(actq[d], a) \in Nat /\ Count(misc[d], a) \in Nat
    BY CountMessages
  <1>4. Count(actq'[d], a) \in Nat /\ Count(misc'[d], a) \in Nat
    <2>1. actq'[d] \in Seq(Message) /\ misc'[d] \in Seq(Message)
      BY DEF TypeOK, CtrlTypeOK
    <2>. QED
      BY <2>1, CountType
  <1>5. /\ Pushes(d, in, a) \in {0, 1} /\ Pushes(d, in, a) <= One(m, ReqOf(h))
        /\ One(m, ReqOf(h)) \in {0, 1} /\ (One(m, ReqOf(h)) = 1 <=> m \in ReqOf(h))
        /\ One(x, a) \in {0, 1}
    BY <1>1, PushFacts, OneFacts
  <1>6. One(x, a) <= Count(actq[d], a)
    BY <1>1, SentOne
  <1>7. /\ Owes(d, a) = Count(misc[d], a) + Count(actq[d], a)
        /\ Owes(d, a)' = Count(misc'[d], a) + Count(actq'[d], a)
    BY DEF Owes
  <1>. HIDE DEF x
  <1>8. Owes(d, a)' <= Owes(d, a) + Pushes(d, in, a)
    BY <1>2, <1>3, <1>4, <1>5, <1>7
  <1>9. Pushes(d, in, a) = 1 => m \in ReqOf(h)
    BY <1>5
  <1>. QED
    BY <1>2, <1>3, <1>4, <1>5, <1>6, <1>7, <1>8, <1>9 DEF x

LEMMA OwnAcksLeave ==
    ASSUME TypeOK, TypeOK', NEW d \in Die, NEW m \in Message \cup {None},
           NEW pack \in BOOLEAN, NEW in \in Input, EdgeOf(d, m, pack, in),
           ~faulted'[d], AsksOnce(d), AnswersFit(d), AcksLeaveFirst(d)
    PROVE  AcksLeaveFirst(d)'
  <1>. DEFINE A == {"ActivateAck"}
              x == Sent(d, in)
              p == Pushes(d, in, A)
  <1>0. "activate" \in Handshake /\ "deactivate" \in Handshake
    BY DEF Handshake
  <1>1. /\ "activate" \in Handshake /\ "deactivate" \in Handshake
        /\ A = {AckOf("activate")} /\ {"DeactivateAck"} = {AckOf("deactivate")}
        /\ ReqOf("activate") = {"ActivateReq"} /\ ReqOf("deactivate") = DeactReq
        /\ TxReq("deactivate") = "tx_deactivate_req"
        /\ RxReq("activate") = "rx_activate_req"
        /\ Other("activate") = "deactivate" /\ Other("deactivate") = "activate"
    BY DEF Handshake, AckOf, ReqOf, TxReq, RxReq, Other
  <1>2. /\ st[d] \in State /\ st'[d] \in State /\ in.msg = m
        /\ misc[d] \in Seq(Message) /\ actq[d] \in Seq(Message)
    BY DEF EdgeOf, EdgeEffect, TypeOK, CtrlTypeOK
  <1>3. /\ Half(d) = "activate" <=> Idle(d)
        /\ Half(d) = "deactivate" <=> Session(d)
        /\ Half(d)' = "activate" <=> Idle(d)'
        /\ Half(d)' = "deactivate" <=> Session(d)'
        /\ Idle(d) <=> ~Session(d)
        /\ Idle(d)' <=> ~Session(d)'
    BY <1>2 DEF Half, Idle, Session, State
  <1>4. ~FsmAbort(d, in) \/ Falls(d, in)
    BY NoErrorEdge
  <1>5. /\ Owes(d, A)' <= Owes(d, A) + p
        /\ Owes(d, A)' \in Nat /\ Owes(d, A) \in Nat
        /\ Owes(d, A) = Count(misc[d], A) + Count(actq[d], A)
        /\ Count(misc[d], A) \in Nat /\ Count(actq[d], A) \in Nat
        /\ Count(actq'[d], A) = Count(actq[d], A) - One(x, A) + p
        /\ Count(actq'[d], A) \in Nat
        /\ p \in {0, 1} /\ (p = 1 => m = "ActivateReq")
        /\ One(x, A) <= Count(actq[d], A) /\ One(x, A) \in {0, 1}
    <2>1. /\ Owes(d, A)' <= Owes(d, A) + Pushes(d, in, A)
          /\ Owes(d, A)' \in Nat /\ Owes(d, A) \in Nat
          /\ Owes(d, A) = Count(misc[d], A) + Count(actq[d], A)
          /\ Count(misc[d], A) \in Nat /\ Count(actq[d], A) \in Nat
          /\ Count(actq'[d], A) = Count(actq[d], A) - One(Sent(d, in), A) + Pushes(d, in, A)
          /\ Count(actq'[d], A) \in Nat /\ Pushes(d, in, A) \in {0, 1}
          /\ One(Sent(d, in), A) <= Count(actq[d], A) /\ One(Sent(d, in), A) \in {0, 1}
          /\ Pushes(d, in, A) = 1 => m \in ReqOf("activate")
      <3>. HIDE DEF A
      <3>. QED
        BY <1>1, OwesAfter
    <2>. QED
      BY <1>1, <2>1
  <1>6. Session(d) => m # "ActivateReq" /\ p = 0
    BY NoLateAnswer
  <1>7. /\ Idle(d) /\ Owes(d, A) # 0 => "rx_activate_req" \in hs[d]
        /\ Session(d) /\ Asked(d, "deactivate") => Count(actq[d], A) = 0
        /\ Session(d) /\ "tx_deactivate_req" \in hs[d] =>
              AllFollowed(misc[d], A, DeactReq)
    BY DEF AcksLeaveFirst, AllFollowed
  <1>8. ASSUME NEW h \in Handshake
        PROVE  /\ ~FsmAbort(d, in) /\ Half(d) = h =>
                    /\ Ends(d, h) => Half(d)' = Other(h)
                    /\ ~Ends(d, h) => Half(d)' = h
               /\ FsmAbort(d, in) => Half(d)' = "activate"
               /\ Ends(d, h) => Half(d) = h
    BY HalfAfter
  <1>9. Ends(d, "deactivate") =>
           "tx_deactivate_req" \in hs[d] /\ Asked(d, "deactivate")
           /\ Latched(d, "deactivate") = 1
    BY <1>1 DEF Ends, Full, Asked, Latched
  <1>. HIDE DEF A, x, p
  <1>10. Idle(d)' /\ Owes(d, A)' # 0 => "rx_activate_req" \in hs'[d]
    <2>. SUFFICES ASSUME Idle(d)', Owes(d, A)' # 0 PROVE "rx_activate_req" \in hs'[d]
      OBVIOUS
    <2>1. CASE Falls(d, in)
      <3>1. Idle(d) /\ "rx_activate_req" \notin hs[d] /\ m = None
        BY <1>2, <2>1 DEF Falls, Idle, ActReq
      <3>2. p = 0
        BY <1>5, <3>1 DEF None
      <3>. QED
        BY <1>5, <1>7, <3>1, <3>2
    <2>2. CASE ~FsmAbort(d, in) /\ Idle(d)
      <3>1. ~Ends(d, "activate")
        BY <1>1, <1>3, <1>8, <2>2
      <3>2. m = "ActivateReq" \/ "rx_activate_req" \in hs[d] => "rx_activate_req" \in hs'[d]
        <4>0. PICK h \in Handshake : h = "activate"
          BY <1>0
        <4>1. (\/ m \in ReqOf(h) /\ (h = "activate" => Idle(d))
               \/ RxReq(h) \in hs[d] /\ ~Ends(d, h))
                 => RxReq(h) \in hs'[d]
          BY <2>2, FlagsAfter
        <4>. QED
          BY <1>1, <2>2, <3>1, <4>0, <4>1
      <3>. QED
        BY <1>5, <1>7, <2>2, <3>2
    <2>3. CASE ~FsmAbort(d, in) /\ Session(d)
      <3>1. Ends(d, "deactivate")
        BY <1>1, <1>3, <1>8, <2>3
      <3>2. Open(d, "deactivate") + Latched(d, "deactivate") <= 1
        BY <1>1 DEF AsksOnce
      <3>3. /\ Open(d, "deactivate") \in Nat /\ Count(misc[d], DeactReq) \in Nat
            /\ Queued(d, "deactivate") \in Nat /\ Count(wire[d], DeactReq) \in Nat
            /\ Queued(d, "deactivate") + Count(misc[d], DeactReq)
                 + Count(wire[d], DeactReq) <= Open(d, "deactivate")
        BY <1>1, OpenType, CountMessages
      <3>4. Count(misc[d], DeactReq) = 0
        BY <1>9, <3>1, <3>2, <3>3
      <3>5. ~Holds(misc[d], DeactReq)
        BY <1>2, <3>4, CountZero
      <3>6. ~Holds(misc[d], A)
        <4>. SUFFICES ASSUME Holds(misc[d], A) PROVE FALSE
          OBVIOUS
        <4>1. PICK i \in DOMAIN misc[d] : misc[d][i] \in A
          BY DEF Holds
        <4>2. Followed(misc[d], i, DeactReq)
          BY <1>7, <1>9, <2>3, <3>1, <4>1 DEF AllFollowed
        <4>. QED
          BY <3>5, <4>2, FollowedHolds
      <3>7. Count(misc[d], A) = 0
        BY <1>2, <3>6, CountZero
      <3>8. Count(actq[d], A) = 0
        BY <1>7, <1>9, <2>3, <3>1
      <3>. QED
        BY <1>5, <1>6, <2>3, <3>7, <3>8
    <2>. QED
      BY <1>3, <1>4, <2>1, <2>2, <2>3
  <1>11. Session(d)' /\ Asked(d, "deactivate")' => Count(actq'[d], A) = 0
    <2>. SUFFICES ASSUME Session(d)', Asked(d, "deactivate")'
                  PROVE  Count(actq'[d], A) = 0
      OBVIOUS
    <2>1. ~FsmAbort(d, in)
      BY <1>1, <1>3, <1>8
    <2>2. CASE Request(d, in) \in DeactReq
      <3>1. /\ Count(actq'[d], Acks) = One(Answer(d, in), Acks) /\ ActFifoReady(d)
            /\ Half(d) = "deactivate"
        BY <1>1, <2>2, AloneReq
      <3>2. p = 0
        BY <1>3, <1>6, <3>1
      <3>3. /\ Count(actq'[d], Acks) = Count(actq'[d], A) + Count(actq'[d], {"DeactivateAck"})
            /\ Count(actq'[d], {"DeactivateAck"}) \in Nat
        <4>1. actq'[d] \in Seq(Message)
          BY DEF TypeOK, CtrlTypeOK
        <4>2. /\ Count(actq'[d], Acks) = Count(actq'[d], {AckOf("activate")})
                                     + Count(actq'[d], {AckOf(Other("activate"))})
              /\ Count(actq'[d], {AckOf(Other("activate"))}) \in Nat
          BY <1>1, <4>1, SplitCount
        <4>. QED
          BY <1>1, <4>2
      <3>4. CASE Answer(d, in) \notin Acks
        <4>1. One(Answer(d, in), Acks) = 0
          BY <3>4 DEF One
        <4>2. Count(actq'[d], Acks) = 0 /\ Count(actq'[d], A) \in Nat
          BY <1>5, <3>1, <4>1
        <4>. QED
          BY <3>3, <4>2
      <3>5. CASE Answer(d, in) \in Acks
        <4>1. Answer(d, in) = "DeactivateAck"
          BY <1>2, <1>3, <1>6, <3>1, <3>5 DEF Answer, Acks, None
        <4>2. /\ Pushes(d, in, {"DeactivateAck"}) \in {0, 1}
              /\ Count(actq'[d], {"DeactivateAck"}) = Count(actq[d], {"DeactivateAck"})
                   - One(x, {"DeactivateAck"}) + Pushes(d, in, {"DeactivateAck"})
              /\ One(x, {"DeactivateAck"}) <= Count(actq[d], {"DeactivateAck"})
              /\ One(x, {"DeactivateAck"}) \in {0, 1}
              /\ Count(actq[d], {"DeactivateAck"}) \in Nat
          <5>. DEFINE a == {"DeactivateAck"}
          <5>1. a = {AckOf("deactivate")}
            BY <1>1
          <5>. HIDE DEF a
          <5>2. /\ Pushes(d, in, a) \in {0, 1}
                /\ Count(actq'[d], a) = Count(actq[d], a)
                     - One(Sent(d, in), a) + Pushes(d, in, a)
                /\ One(Sent(d, in), a) <= Count(actq[d], a)
                /\ One(Sent(d, in), a) \in {0, 1}
                /\ Count(actq[d], a) \in Nat
            BY <1>0, <5>1, OwesAfter
          <5>. QED
            BY <5>2 DEF a, x
        <4>3. Pushes(d, in, {"DeactivateAck"}) # 0
          <5>1. One(Answer(d, in), {"DeactivateAck"}) = 1
            BY <4>1 DEF One
          <5>2. One(Request(d, in), {"DeactivateAck"}) \in {0, 1}
            BY OneFacts
          <5>3. Pushes(d, in, {"DeactivateAck"})
                  = One(Request(d, in), {"DeactivateAck"}) + One(Answer(d, in), {"DeactivateAck"})
            BY <3>1 DEF Pushes
          <5>. QED
            BY <5>1, <5>2, <5>3
        <4>4. Count(actq'[d], Acks) = 1
          BY <3>1, <3>5 DEF One
        <4>. QED
          BY <1>5, <3>3, <4>2, <4>3, <4>4
      <3>. QED
        BY <3>4, <3>5
    <2>3. CASE Request(d, in) \notin DeactReq
      <3>1. Asked(d, "deactivate")
        <4>1. CASE TxReq("deactivate") \in hs'[d]
          <5>1. Sent(d, in) \in ReqOf("deactivate") \/ TxReq("deactivate") \in hs[d]
            BY <1>1, <4>1, FlagsAfter
          <5>. QED
            BY <1>1, <5>1, SentQueued DEF Asked
        <4>2. CASE Queued(d, "deactivate")' # 0
          <5>. DEFINE R == ReqOf("deactivate")
          <5>0. /\ Queued(d, "deactivate")' = Queued(d, "deactivate")
                      - One(Sent(d, in), R) + Pushes(d, in, R)
                /\ Queued(d, "deactivate")' \in Nat
                /\ Pushes(d, in, R) \in {0, 1}
                /\ Pushes(d, in, R) = 1 => Request(d, in) \in R
            BY <1>0, OpenOwn
          <5>. HIDE DEF R
          <5>1. /\ Queued(d, "deactivate")' = Queued(d, "deactivate")
                      - One(Sent(d, in), DeactReq) + Pushes(d, in, DeactReq)
                /\ Queued(d, "deactivate")' \in Nat
                /\ Pushes(d, in, DeactReq) \in {0, 1}
                /\ Pushes(d, in, DeactReq) = 1 => Request(d, in) \in DeactReq
            BY <1>1, <5>0 DEF R
          <5>2. One(Sent(d, in), DeactReq) \in {0, 1} /\ Queued(d, "deactivate") \in Nat
            BY <1>1, OneFacts, OpenType
          <5>3. Queued(d, "deactivate") # 0
            BY <2>3, <4>2, <5>1, <5>2
          <5>. QED
            BY <5>3 DEF Asked
        <4>. QED
          BY <4>1, <4>2 DEF Asked
      <3>2. Session(d)
        <4>. SUFFICES ASSUME Idle(d) PROVE FALSE
          BY <1>3
        <4>1. Half(d) # "deactivate"
          BY <1>3
        <4>2. /\ TxReq("deactivate") \notin hs[d]
              /\ Open(d, "deactivate") + Latched(d, "deactivate") = 0
          BY <1>1, <4>1 DEF AsksOnce
        <4>3. /\ Open(d, "deactivate") \in Nat /\ Latched(d, "deactivate") \in {0, 1}
              /\ Queued(d, "deactivate") \in Nat
              /\ Count(misc[d], DeactReq) \in Nat /\ Count(wire[d], DeactReq) \in Nat
              /\ Queued(d, "deactivate") + Count(misc[d], DeactReq)
                   + Count(wire[d], DeactReq) <= Open(d, "deactivate")
          BY <1>1, OpenType, CountMessages
        <4>4. Queued(d, "deactivate") = 0
          BY <4>2, <4>3
        <4>. QED
          BY <3>1, <4>2, <4>4 DEF Asked
      <3>. QED
        BY <1>5, <1>6, <1>7, <3>1, <3>2
    <2>. QED
      BY <2>2, <2>3
  <1>12. Session(d)' /\ "tx_deactivate_req" \in hs'[d] =>
            AllFollowed(misc'[d], A, DeactReq)
    <2>. SUFFICES ASSUME Session(d)', "tx_deactivate_req" \in hs'[d]
                  PROVE  AllFollowed(misc'[d], A, DeactReq)
      OBVIOUS
    <2>1. Sent(d, in) \in DeactReq \/ "tx_deactivate_req" \in hs[d]
      BY <1>1, FlagsAfter
    <2>2. Asked(d, "deactivate")
      BY <1>1, <2>1, SentQueued DEF Asked
    <2>3. Session(d)
      <3>. SUFFICES ASSUME Idle(d) PROVE FALSE
        BY <1>3
      <3>1. Half(d) # "deactivate"
        BY <1>3
      <3>2. /\ TxReq("deactivate") \notin hs[d]
            /\ Open(d, "deactivate") + Latched(d, "deactivate") = 0
        BY <1>1, <3>1 DEF AsksOnce
      <3>3. /\ Open(d, "deactivate") \in Nat /\ Latched(d, "deactivate") \in {0, 1}
            /\ Queued(d, "deactivate") \in Nat
            /\ Count(misc[d], DeactReq) \in Nat /\ Count(wire[d], DeactReq) \in Nat
            /\ Queued(d, "deactivate") + Count(misc[d], DeactReq)
                 + Count(wire[d], DeactReq) <= Open(d, "deactivate")
        BY <1>1, OpenType, CountMessages
      <3>4. Queued(d, "deactivate") = 0
        BY <3>2, <3>3
      <3>. QED
        BY <1>1, <2>2, <3>2, <3>4 DEF Asked
    <2>4. x \notin A
      <3>1. One(x, A) = 0
        BY <1>5, <1>7, <2>2, <2>3
      <3>. QED
        BY <3>1 DEF One
    <2>. DEFINE q == IF pack THEN Tail(misc[d]) ELSE misc[d]
    <2>5. /\ misc'[d] = q \o Slot(x) /\ x \in Message \cup {None}
          /\ pack => misc[d] # <<>>
      BY DEF EdgeOf, EdgeEffect, x
    <2>6. q \in Seq(Message)
      BY <1>2, <2>5, TailType
    <2>7. "tx_deactivate_req" \in hs[d] => AllFollowed(q, A, DeactReq)
      BY <1>2, <1>7, <2>3, <2>5, TailAllFollowed
    <2>. HIDE DEF q
    <2>8. CASE x = None
      <3>1. misc'[d] = q
        BY <2>5, <2>6, <2>8, ConcatEmptySeq DEF Slot
      <3>2. "tx_deactivate_req" \in hs[d]
        BY <2>1, <2>8, ItemFacts, MessageFacts, <1>1 DEF x
      <3>. QED
        BY <2>7, <3>1, <3>2
    <2>9. CASE x # None
      <3>1. misc'[d] = Append(q, x) /\ x \in Message
        BY <2>5, <2>6, <2>9, AppendIsConcat DEF Slot
      <3>2. x \in DeactReq \/ AllFollowed(q, A, DeactReq)
        BY <2>1, <2>7 DEF x
      <3>3. AllFollowed(Append(q, x), A, DeactReq)
        BY <2>4, <2>6, <3>1, <3>2, AppendAllFollowed
      <3>. QED
        BY <3>1, <3>3
    <2>. QED
      BY <2>8, <2>9
  <1>. QED
    BY <1>10, <1>11, <1>12 DEF AcksLeaveFirst, AllFollowed, A

-----------------------------------------------------------------------------
(* The start bit, and a link not seen up.                                  *)

LEMMA QueuedAfter ==
    ASSUME TypeOK, TypeOK', NEW d \in Die, NEW m \in Message \cup {None},
           NEW pack \in BOOLEAN, NEW in \in Input, EdgeOf(d, m, pack, in),
           NEW h \in Handshake, NEW R, R = ReqOf(h)
    PROVE  /\ Queued(d, h)' = Queued(d, h) - One(Sent(d, in), R) + Pushes(d, in, R)
           /\ Queued(d, h)' \in Nat /\ Queued(d, h) \in Nat
           /\ Pushes(d, in, R) \in {0, 1}
           /\ Pushes(d, in, R) = 1 => Request(d, in) \in R
           /\ One(Sent(d, in), R) \in {0, 1}
           /\ One(Sent(d, in), R) = 1 <=> Sent(d, in) \in R
  <1>1. /\ Queued(d, h)' = Queued(d, h) - One(Sent(d, in), ReqOf(h))
                              + Pushes(d, in, ReqOf(h))
        /\ Queued(d, h)' \in Nat
        /\ Pushes(d, in, ReqOf(h)) \in {0, 1}
        /\ Pushes(d, in, ReqOf(h)) = 1 => Request(d, in) \in ReqOf(h)
    BY OpenOwn
  <1>2. /\ One(Sent(d, in), R) \in {0, 1}
        /\ One(Sent(d, in), R) = 1 <=> Sent(d, in) \in R
    BY OneFacts
  <1>3. Queued(d, h) \in Nat
    BY OpenType
  <1>. QED
    BY <1>1, <1>2, <1>3

LEMMA AskedAfter ==
    ASSUME TypeOK, TypeOK', NEW d \in Die, NEW m \in Message \cup {None},
           NEW pack \in BOOLEAN, NEW in \in Input, EdgeOf(d, m, pack, in),
           NEW h \in Handshake, Asked(d, h)'
    PROVE  Asked(d, h) \/ Request(d, in) \in ReqOf(h)
  <1>1. CASE TxReq(h) \in hs'[d]
    <2>1. Sent(d, in) \in ReqOf(h) \/ TxReq(h) \in hs[d]
      BY <1>1, FlagsAfter
    <2>. QED
      BY <2>1, SentQueued DEF Asked
  <1>2. CASE Queued(d, h)' # 0
    <2>. SUFFICES ASSUME Request(d, in) \notin ReqOf(h) PROVE Queued(d, h) # 0
      BY DEF Asked
    <2>1. /\ Queued(d, h)' = Queued(d, h) - One(Sent(d, in), ReqOf(h))
                                + Pushes(d, in, ReqOf(h))
          /\ Queued(d, h)' \in Nat
          /\ Pushes(d, in, ReqOf(h)) \in {0, 1}
          /\ Pushes(d, in, ReqOf(h)) = 1 => Request(d, in) \in ReqOf(h)
      BY OpenOwn
    <2>2. One(Sent(d, in), ReqOf(h)) \in {0, 1} /\ Queued(d, h) \in Nat
      BY OneFacts, OpenType
    <2>. QED
      BY <1>2, <2>1, <2>2
  <1>. QED
    BY <1>1, <1>2 DEF Asked

LEMMA StartAfter ==
    ASSUME TypeOK, TypeOK', NEW d \in Die, NEW m \in Message \cup {None},
           NEW pack \in BOOLEAN, NEW in \in Input, EdgeOf(d, m, pack, in),
           StartKept(d), Session(d) => ~Asked(d, "activate")
    PROVE  StartKept(d)'
  <1>. SUFFICES ASSUME Asked(d, "activate")' PROVE "ACTIVATE_START" \in sfr'[d]
    BY DEF StartKept
  <1>1. Asked(d, "activate") \/ Request(d, in) = "ActivateReq"
    <2>1. "activate" \in Handshake /\ ReqOf("activate") = {"ActivateReq"}
      BY DEF Handshake, ReqOf
    <2>. QED
      BY <2>1, AskedAfter
  <1>2. st[d] \in State /\ in.field = sfr[d] /\ sfr'[d] = sfr[d] \ AutoClear(d)
    BY DEF EdgeOf, TypeOK, CtrlTypeOK
  <1>3. Idle(d) /\ "ACTIVATE_START" \in sfr[d]
    <2>1. CASE Asked(d, "activate")
      <3>1. Idle(d)
        BY <1>2, <2>1 DEF Idle, Session, State
      <3>. QED
        BY <2>1, <3>1 DEF StartKept
    <2>2. CASE Request(d, in) = "ActivateReq"
      BY <1>2, <2>2 DEF Request, ActivateLevel, ActivateEn, None
    <2>. QED
      BY <1>1, <2>1, <2>2
  <1>4. "ACTIVATE_START" \notin AutoClear(d)
    BY <1>3 DEF AutoClear, Idle, Bit
  <1>. QED
    BY <1>2, <1>3, <1>4

\* What holds of a die in error as well.
Steady(d) ==
    /\ st[d] = "DEACTIVATE" => "ACTIVATE_START" \notin sfr[d]
    /\ "ucie_init_done" \notin reg[d] => Idle(d) /\ "rx_activate_req" \notin hs[d]

LEMMA LinkSeen ==
    ASSUME NEW d \in Die, NEW m, NEW pack, NEW in, EdgeOf(d, m, pack, in),
           "ucie_init_done" \notin reg'[d]
    PROVE  /\ ~in.link /\ m = None /\ in.msg = None
           /\ "ucie_init_done" \in reg[d] => FsmAbort(d, in)
           /\ Request(d, in) # "ActivateReq"
  <1>1. reg'[d] = NextReg(d, in) /\ in.link = link[d] /\ in.msg = m
        /\ (m # None => link[d])
    BY DEF EdgeOf, EdgeEffect
  <1>2. ~in.link
    BY <1>1 DEF NextReg, Bit
  <1>3. Request(d, in) # "ActivateReq"
    BY <1>2 DEF Request, ActivateLevel, None
  <1>. QED
    BY <1>1, <1>2, <1>3 DEF FsmAbort, LinkFell

LEMMA SteadyOwn ==
    ASSUME TypeOK, TypeOK', NEW d \in Die, NEW m \in Message \cup {None},
           NEW pack \in BOOLEAN, NEW in \in Input, EdgeOf(d, m, pack, in), Steady(d)
    PROVE  Steady(d)'
  <1>1. /\ st[d] \in State /\ st'[d] = NextState(d, in) /\ hs'[d] = NextFlags(d, in)
        /\ sfr'[d] = sfr[d] \ AutoClear(d)
    BY DEF EdgeOf, EdgeEffect, TypeOK, CtrlTypeOK
  <1>2. ASSUME st'[d] = "DEACTIVATE" PROVE "ACTIVATE_START" \notin sfr'[d]
    <2>1. st[d] \in {"ENABLED", "DEACTIVATE"}
      BY <1>1, <1>2 DEF NextState, State
    <2>. QED
      BY <1>1, <2>1 DEF Steady, AutoClear, Bit
  <1>3. ASSUME "ucie_init_done" \notin reg'[d]
        PROVE  Idle(d)' /\ "rx_activate_req" \notin hs'[d]
    <2>1. in.msg = None /\ ("ucie_init_done" \in reg[d] => FsmAbort(d, in))
      BY <1>3, LinkSeen
    <2>2. CASE FsmAbort(d, in)
      BY <1>1, <2>2 DEF NextState, NextFlags, Idle
    <2>3. CASE ~FsmAbort(d, in)
      <3>1. Idle(d) /\ "rx_activate_req" \notin hs[d]
        BY <2>1, <2>3 DEF Steady
      <3>2. NextState(d, in) \in {"DISABLED", "ACTIVATE"}
        BY <2>3, <3>1 DEF NextState, Idle, ActFlag
      <3>3. "rx_activate_req" \notin NextFlags(d, in)
        BY <2>1, <2>3, <3>1 DEF NextFlags, SetFlags, Bit, None
      <3>. QED
        BY <1>1, <3>2, <3>3 DEF Idle
    <2>. QED
      BY <2>2, <2>3
  <1>. QED
    BY <1>2, <1>3 DEF Steady

LEMMA OwnUnstarted ==
    ASSUME TypeOK, TypeOK', NEW d \in Die, NEW m \in Message \cup {None},
           NEW pack \in BOOLEAN, NEW in \in Input, EdgeOf(d, m, pack, in),
           ~faulted'[d], AsksOnce(d), AnswersFit(d), AcksLeaveFirst(d), Unstarted(d)
    PROVE  Unstarted(d)'
  <1>. SUFFICES ASSUME "ucie_init_done" \notin reg'[d]
                PROVE  /\ st'[d] = "DISABLED" /\ hs'[d] \cap ActReq = {}
                       /\ Queued(d, "activate")' = 0
    BY DEF Unstarted
  <1>0. "activate" \in Handshake
    BY DEF Handshake
  <1>1. /\ ~in.link /\ in.msg = None /\ Request(d, in) # "ActivateReq"
        /\ "ucie_init_done" \in reg[d] => FsmAbort(d, in)
    BY LinkSeen
  <1>2. /\ ~LinkError(d, in) /\ (~FsmAbort(d, in) \/ Falls(d, in))
    BY NoErrorEdge
  <1>3. /\ st'[d] = NextState(d, in) /\ hs'[d] = NextFlags(d, in)
        /\ ActReq = {"tx_activate_req", "rx_activate_req"}
        /\ ReqOf("activate") = {"ActivateReq"}
        /\ in.ready = (Len(misc[d]) < MiscDepth)
    BY DEF EdgeOf, EdgeEffect, ActReq, ReqOf
  <1>. DEFINE R == ReqOf("activate")
              x == Sent(d, in)
  <1>4. /\ Queued(d, "activate")' = Queued(d, "activate") - One(x, R) + Pushes(d, in, R)
        /\ Queued(d, "activate")' \in Nat
        /\ Pushes(d, in, R) \in {0, 1}
        /\ Pushes(d, in, R) = 1 => Request(d, in) \in R
    <2>1. PICK r : r = R
      OBVIOUS
    <2>2. /\ Queued(d, "activate")' = Queued(d, "activate") - One(Sent(d, in), r)
                + Pushes(d, in, r)
          /\ Queued(d, "activate")' \in Nat
          /\ Pushes(d, in, r) \in {0, 1}
          /\ Pushes(d, in, r) = 1 => Request(d, in) \in r
      BY <1>0, <2>1, QueuedAfter
    <2>. QED
      BY <2>1, <2>2
  <1>5. One(x, R) \in {0, 1} /\ Queued(d, "activate") \in Nat
    BY <1>0, OneFacts, OpenType
  <1>6. Pushes(d, in, R) = 0
    BY <1>1, <1>3, <1>4
  <1>. HIDE DEF R, x
  <1>7. CASE FsmAbort(d, in)
    <2>1. st'[d] = "DISABLED" /\ hs'[d] = {}
      BY <1>3, <1>7 DEF NextState, NextFlags
    <2>2. x # "ActivateReq" /\ hs[d] \cap ActReq = {} /\ st[d] = "DISABLED"
      BY <1>2, <1>7 DEF Falls, x
    <2>3. Queued(d, "activate") = 0
      <3>. SUFFICES ASSUME Queued(d, "activate") # 0 PROVE FALSE
        OBVIOUS
      <3>1. Queued(d, "activate") = 1 /\ Head(actq[d]) = "ActivateReq" /\ actq[d] # <<>>
        BY <1>0, <1>3, CountEmpty DEF AsksOnce, ReqFirst, Queued
      <3>2. ~(Len(misc[d]) <= 1)
        BY <2>2, <3>1, HeadLeaves DEF x
      <3>3. /\ Queued(d, "activate") + Queued(d, Other("activate"))
                + Count(misc[d], ReqOf("activate")) + Count(misc[d], ReqOf(Other("activate"))) <= 1
            /\ Queued(d, Other("activate")) \in Nat
            /\ Count(misc[d], ReqOf("activate")) \in Nat
            /\ Count(misc[d], ReqOf(Other("activate"))) \in Nat
            /\ Count(misc[d], Acks) \in Nat
            /\ Len(misc[d]) = Count(misc[d], ReqOf("activate"))
                                + Count(misc[d], ReqOf(Other("activate"))) + Count(misc[d], Acks)
        BY <1>0, OneReq
      <3>4. Count(misc[d], Acks) # 0 /\ Count(misc[d], Acks) # 1
        <4>1. Len(misc[d]) = Count(misc[d], Acks)
          BY <3>1, <3>3
        <4>. QED
          BY <3>2, <3>3, <4>1
      <3>5. /\ Count(misc[d], Acks) = Count(misc[d], {AckOf("activate")})
                                        + Count(misc[d], {AckOf(Other("activate"))})
            /\ Count(misc[d], {AckOf("activate")}) \in Nat
            /\ Count(misc[d], {AckOf(Other("activate"))}) \in Nat
        <4>1. misc[d] \in Seq(Message)
          BY DEF TypeOK
        <4>. QED
          BY <1>0, <4>1, SplitCount
      <3>6. /\ {AckOf("activate")} = {"ActivateAck"}
            /\ {AckOf(Other("activate"))} = {"DeactivateAck"}
        BY DEF AckOf, Other
      <3>7. Count(misc[d], {"DeactivateAck"}) + Count(actq[d], {"DeactivateAck"}) <= 1
        BY DEF AnswersFit, Owes
      <3>8. Count(misc[d], {"ActivateAck"}) # 0
        <4>1. Count(actq[d], {"DeactivateAck"}) \in Nat
          BY CountMessages
        <4>2. Count(misc[d], {"DeactivateAck"}) \in Nat
          BY CountMessages
        <4>3. Count(misc[d], {"DeactivateAck"}) <= 1
          BY <3>7, <4>1, <4>2
        <4>4. /\ Count(misc[d], Acks) = Count(misc[d], {"ActivateAck"})
                                          + Count(misc[d], {"DeactivateAck"})
              /\ Count(misc[d], {"ActivateAck"}) \in Nat
          BY <3>5, <3>6
        <4>. QED
          BY <3>4, <4>2, <4>3, <4>4
      <3>9. Owes(d, {"ActivateAck"}) # 0
        <4>1. /\ Count(misc[d], {"ActivateAck"}) \in Nat
              /\ Count(actq[d], {"ActivateAck"}) \in Nat
          BY CountMessages
        <4>. QED
          BY <3>8, <4>1 DEF Owes
      <3>10. "rx_activate_req" \in hs[d]
        BY <2>2, <3>9 DEF AcksLeaveFirst, Idle
      <3>. QED
        BY <1>3, <2>2, <3>10
    <2>4. Queued(d, "activate")' = 0
      BY <1>4, <1>5, <1>6, <2>3
    <2>. QED
      BY <2>1, <2>4
  <1>8. CASE ~FsmAbort(d, in)
    <2>1. st[d] = "DISABLED" /\ hs[d] \cap ActReq = {} /\ Queued(d, "activate") = 0
      BY <1>1, <1>8 DEF Unstarted
    <2>2. x # "ActivateReq"
      BY <1>0, <1>3, <2>1, SentQueued DEF x
    <2>3. st'[d] = "DISABLED"
      BY <1>3, <1>8, <2>1 DEF NextState
    <2>4. hs'[d] \cap ActReq = {}
      BY <1>1, <1>3, <1>8, <2>1, <2>2 DEF NextFlags, SetFlags, Bit, None, x
    <2>5. Queued(d, "activate")' = 0
      BY <1>4, <1>5, <1>6, <2>1
    <2>. QED
      BY <2>3, <2>4, <2>5
  <1>. QED
    BY <1>7, <1>8

LEMMA OwnAlone ==
    ASSUME TypeOK, TypeOK', NEW d \in Die, NEW m \in Message \cup {None},
           NEW pack \in BOOLEAN, NEW in \in Input, EdgeOf(d, m, pack, in),
           ~faulted'[d], Alone(d),
           \A g \in Handshake : m \in ReqOf(g) => Owes(d, Acks) <= 1,
           m \in DeactReq => Owes(d, {"DeactivateAck"}) = 0
    PROVE  Alone(d)'
  <1>1. AsksOnce(d)' /\ AcksLeaveFirst(d)'
    BY OwnAsksOnce, OwnAcksLeave DEF Alone
  <1>2. AnswersFit(d)'
    BY OwnAnswersFit DEF Alone
  <1>3. StartKept(d)'
    <2>1. Session(d) => ~Asked(d, "activate")
      <3>. SUFFICES ASSUME Session(d), Asked(d, "activate") PROVE FALSE
        OBVIOUS
      <3>0. "activate" \in Handshake
        BY DEF Handshake
      <3>1. Half(d) # "activate"
        BY DEF Half, Idle, Session
      <3>2. TxReq("activate") \notin hs[d] /\ Open(d, "activate") + Latched(d, "activate") = 0
        BY <3>0, <3>1 DEF Alone, AsksOnce
      <3>3. /\ Open(d, "activate") \in Nat /\ Latched(d, "activate") \in {0, 1}
            /\ Queued(d, "activate") \in Nat
            /\ Count(misc[d], ReqOf("activate")) \in Nat
            /\ Count(wire[d], ReqOf("activate")) \in Nat
            /\ Queued(d, "activate") + Count(misc[d], ReqOf("activate"))
                  + Count(wire[d], ReqOf("activate")) <= Open(d, "activate")
        BY <3>0, OpenType, CountMessages
      <3>4. Queued(d, "activate") = 0
        BY <3>2, <3>3
      <3>. QED
        BY <3>2, <3>4 DEF Asked
    <2>. QED
      BY <2>1, StartAfter DEF Alone
  <1>4. Unstarted(d)'
    BY OwnUnstarted DEF Alone
  <1>. QED
    BY <1>1, <1>2, <1>3, <1>4 DEF Alone

-----------------------------------------------------------------------------
(* What an edge of a die leaves of its peer.                               *)

\* The registers of d and its FIFOs.
Same(d) ==
    /\ st'[d] = st[d] /\ hs'[d] = hs[d] /\ reg'[d] = reg[d]
    /\ actq'[d] = actq[d] /\ misc'[d] = misc[d] /\ gap'[d] = gap[d]
    /\ sfr'[d] = sfr[d] /\ faulted'[d] = faulted[d]

LEMMA PeerSame ==
    ASSUME NEW d \in Die, NEW m, NEW pack, NEW in, EdgeOf(d, m, pack, in)
    PROVE  Same(Peer(d)) /\ link' = link
  <1>1. Peer(d) \in Die \ {d}
    BY PeerFacts
  <1>. QED
    BY <1>1 DEF EdgeOf, EdgeEffect, Same

\* Whatever opens no Req of a die and leaves it as it is.
LEMMA AloneStays ==
    ASSUME TypeOK, TypeOK', NEW d \in Die, Same(d),
           \A h \in Handshake : Open(d, h)' \in Nat /\ Open(d, h)' <= Open(d, h),
           Alone(d)
    PROVE  Alone(d)'
  <1>1. ASSUME NEW h \in Handshake
        PROVE  /\ Open(d, h)' + Latched(d, h)' <= 1
               /\ ReqFirst(d, h)'
               /\ Half(d)' # h => TxReq(h) \notin hs'[d]
               /\ Half(d)' # h \/ ~Asked(d, h)' => Open(d, h)' + Latched(d, h)' = 0
    <2>1. /\ Open(d, h) + Latched(d, h) <= 1 /\ ReqFirst(d, h)
          /\ Half(d) # h => TxReq(h) \notin hs[d]
          /\ Half(d) # h \/ ~Asked(d, h) => Open(d, h) + Latched(d, h) = 0
      BY DEF Alone, AsksOnce
    <2>2. /\ Latched(d, h)' = Latched(d, h) /\ Half(d)' = Half(d)
          /\ Queued(d, h)' = Queued(d, h) /\ Asked(d, h)' = Asked(d, h)
      BY DEF Same, Latched, Half, Idle, Queued, Asked
    <2>3. ReqFirst(d, h)'
      BY <2>1, <2>2 DEF ReqFirst, Same
    <2>4. /\ Open(d, h)' \in Nat /\ Open(d, h)' <= Open(d, h)
          /\ Open(d, h) \in Nat /\ Latched(d, h) \in {0, 1}
      BY OpenType
    <2>5. Open(d, h)' + Latched(d, h)' <= 1
      BY <2>1, <2>2, <2>4
    <2>6. Half(d)' # h \/ ~Asked(d, h)' => Open(d, h)' + Latched(d, h)' = 0
      BY <2>1, <2>2, <2>4
    <2>7. Half(d)' # h => TxReq(h) \notin hs'[d]
      BY <2>1, <2>2 DEF Same
    <2>. QED
      BY <2>3, <2>5, <2>6, <2>7
  <1>2. AsksOnce(d)'
    BY <1>1 DEF AsksOnce
  <1>3. AnswersFit(d)'
    BY DEF Alone, AnswersFit, Owes, Queued, Same
  <1>4. AcksLeaveFirst(d)'
    BY DEF Alone, AcksLeaveFirst, Owes, Queued, Asked, Idle, Session, Same
  <1>5. StartKept(d)' /\ Unstarted(d)'
    BY DEF Alone, StartKept, Unstarted, Queued, Asked, Idle, Same
  <1>. QED
    BY <1>2, <1>3, <1>4, <1>5 DEF Alone

LEMMA AlonePeer ==
    ASSUME TypeOK, TypeOK', NEW d \in Die, NEW m \in Message \cup {None},
           NEW pack \in BOOLEAN, NEW in \in Input, EdgeOf(d, m, pack, in),
           Alone(Peer(d))
    PROVE  Alone(Peer(d))'
  <1>1. Peer(d) \in Die /\ Same(Peer(d))
    BY PeerFacts, PeerSame
  <1>2. \A h \in Handshake :
           Open(Peer(d), h)' \in Nat /\ Open(Peer(d), h)' <= Open(Peer(d), h)
    BY OpenPeer
  <1>. QED
    BY <1>1, <1>2, AloneStays

-----------------------------------------------------------------------------
(* A die without an error, and its peer in error.                          *)

LEMMA Names ==
    /\ "activate" \in Handshake /\ "deactivate" \in Handshake
    /\ ReqOf("activate") = {"ActivateReq"} /\ ReqOf("deactivate") = DeactReq
    /\ AckOf("activate") = "ActivateAck" /\ AckOf("deactivate") = "DeactivateAck"
    /\ TxReq("activate") = "tx_activate_req" /\ TxReq("deactivate") = "tx_deactivate_req"
    /\ RxReq("activate") = "rx_activate_req" /\ RxReq("deactivate") = "rx_deactivate_req"
    /\ TxAck("activate") = "tx_activate_ack" /\ TxAck("deactivate") = "tx_deactivate_ack"
    /\ Other("activate") = "deactivate" /\ Other("deactivate") = "activate"
    /\ Second("activate") = "ACTIVATE" /\ Second("deactivate") = "DEACTIVATE"
    /\ First("activate") = "DISABLED" /\ First("deactivate") = "ENABLED"
  BY DEF Handshake, ReqOf, AckOf, TxReq, RxReq, TxAck, Other, First, Second

LEMMA HalfNames ==
    ASSUME NEW d \in Die, st[d] \in State
    PROVE  /\ Half(d) = "activate" <=> Idle(d)
           /\ Half(d) = "deactivate" <=> Session(d)
           /\ Half(d) # "deactivate" <=> Idle(d)
           /\ Half(d) # "activate" <=> Session(d)
           /\ Idle(d) <=> ~Session(d)
  BY DEF Half, Idle, Session, State

\* Nothing on its way, nothing of a kind on its way.
LEMMA OnWayZero ==
    ASSUME TypeOK, NEW d \in Die, NEW S \in SUBSET Message
    PROVE  /\ OnWay(d, S) \in Nat
           /\ OnWay(d, S) = 0 <=> /\ ~Holds(wire[d], S) /\ ~Holds(misc[d], S)
                                  /\ ~Holds(actq[d], S)
           /\ OnWay(d, Message) = 0 => OnWay(d, S) = 0
           /\ OnWay(d, Message) \in Nat
  <1>1. /\ wire[d] \in Seq(Message \cup Kind) /\ misc[d] \in Seq(Message)
        /\ actq[d] \in Seq(Message)
    BY DEF TypeOK, CtrlTypeOK
  <1>2. ASSUME NEW T
        PROVE  OnWay(d, T) = 0 <=> /\ ~Holds(wire[d], T) /\ ~Holds(misc[d], T)
                                   /\ ~Holds(actq[d], T)
    <2>1. /\ Count(wire[d], T) \in Nat /\ Count(misc[d], T) \in Nat
          /\ Count(actq[d], T) \in Nat
          /\ OnWay(d, T) = Count(wire[d], T) + Count(misc[d], T) + Count(actq[d], T)
      BY CountMessages
    <2>2. /\ Count(wire[d], T) = 0 <=> ~Holds(wire[d], T)
          /\ Count(misc[d], T) = 0 <=> ~Holds(misc[d], T)
          /\ Count(actq[d], T) = 0 <=> ~Holds(actq[d], T)
      BY <1>1, CountZero
    <2>3. OnWay(d, T) = 0 <=> /\ Count(wire[d], T) = 0 /\ Count(misc[d], T) = 0
                              /\ Count(actq[d], T) = 0
      BY <2>1
    <2>. QED
      BY <2>2, <2>3
  <1>3. \A s : Holds(s, S) => Holds(s, Message)
    BY DEF Holds
  <1>4. OnWay(d, S) \in Nat /\ OnWay(d, Message) \in Nat
    BY CountMessages
  <1>. QED
    BY <1>2, <1>3, <1>4

\* What is decoded was on its way.
LEMMA DecodedCounts ==
    ASSUME TypeOK, TypeOK', NEW d \in Die, NEW m \in Message \cup {None},
           NEW pack \in BOOLEAN, NEW in \in Input, EdgeOf(d, m, pack, in),
           NEW S \in SUBSET Message, m \in S
    PROVE  OnWay(Peer(d), S) # 0
  <1>1. Count(wire[Peer(d)], S) >= One(m, S) /\ Peer(d) \in Die
    BY EdgeCounts, PeerFacts
  <1>2. /\ Count(wire[Peer(d)], S) \in Nat /\ Count(misc[Peer(d)], S) \in Nat
        /\ Count(actq[Peer(d)], S) \in Nat
        /\ OnWay(Peer(d), S) = Count(wire[Peer(d)], S) + Count(misc[Peer(d)], S)
                                 + Count(actq[Peer(d)], S)
    BY <1>1, CountMessages
  <1>3. One(m, S) = 1
    BY DEF One
  <1>. QED
    BY <1>1, <1>2, <1>3

LEMMA CountsAfter ==
    ASSUME TypeOK', NEW d \in Die, NEW S
    PROVE  OnWay(d, S)' \in Nat
  <1>1. /\ wire'[d] \in Seq(Message \cup Kind) /\ misc'[d] \in Seq(Message)
        /\ actq'[d] \in Seq(Message)
    BY DEF TypeOK, CtrlTypeOK
  <1>2. /\ Count(wire'[d], S) \in Nat /\ Count(misc'[d], S) \in Nat
        /\ Count(actq'[d], S) \in Nat
    BY <1>1, CountType
  <1>. QED
    BY <1>2 DEF OnWay

\* What is pushed comes from a Req or an Ack.
LEMMA PushesNothing ==
    ASSUME NEW d \in Die, NEW in, NEW S, None \notin S,
           Request(d, in) \notin S, Answer(d, in) \notin S
    PROVE  Pushes(d, in, S) = 0
  BY DEF Pushes, One

\* A die whose link is up leaves the FSM with an error only.
LEMMA NoAbortUp ==
    ASSUME NEW d \in Die, NEW m, NEW pack, NEW in, EdgeOf(d, m, pack, in),
           ~faulted'[d], link[d]
    PROVE  ~FsmAbort(d, in)
  <1>1. in.link = link[d]
    BY DEF EdgeOf, EdgeEffect
  <1>2. ~FsmAbort(d, in) \/ Falls(d, in)
    BY NoErrorEdge
  <1>. QED
    BY <1>1, <1>2 DEF Falls

LEMMA WaitsAfter ==
    ASSUME TypeOK, TypeOK', NEW d \in Die, NEW m \in Message \cup {None},
           NEW pack \in BOOLEAN, NEW in \in Input, EdgeOf(d, m, pack, in),
           ~faulted'[d], ~FsmAbort(d, in), m \notin DeactReq, Waits(d),
           "rx_deactivate_req" \in hs'[d]
    PROVE  Waits(d)'
  <1>1. st[d] = "DEACTIVATE" /\ "tx_deactivate_req" \in hs[d] /\ OnWay(d, Message) = 0
    BY DEF Waits
  <1>2. ~Ends(d, "deactivate")
    <2>1. \/ m \in ReqOf("deactivate") /\ ("deactivate" = "activate" => Idle(d))
          \/ RxReq("deactivate") \in hs[d] /\ ~Ends(d, "deactivate")
      BY Names, FlagsAfter
    <2>. QED
      BY <2>1, Names
  <1>3. Half(d) = "deactivate" /\ st[d] = Second("deactivate")
    BY <1>1, Names DEF Half, Idle
  <1>4. st'[d] = "DEACTIVATE"
    <2>1. st'[d] = Second("deactivate")
      BY <1>2, <1>3, Names, HalfAfter
    <2>. QED
      BY <2>1, Names
  <1>5. "tx_deactivate_req" \in hs'[d]
    <2>1. PICK h \in Handshake : h = "deactivate"
      BY Names
    <2>2. TxReq(h) \in hs[d] /\ ~Ends(d, h)
      BY <1>1, <1>2, <2>1, Names
    <2>3. TxReq(h) \in hs'[d]
      BY <2>2, FlagsAfter
    <2>. QED
      BY <2>1, <2>3, Names
  <1>6. Request(d, in) = None
    BY <1>1 DEF Request, ActivateLevel, DeactivateLevel, ForceLevel, ActivateEn,
                DeactivateEn, Idle
  <1>7. Answer(d, in) = None
    <2>1. in.msg = m /\ Session(d)
      BY <1>1 DEF EdgeOf, EdgeEffect, Session
    <2>2. m # "ActivateReq"
      BY <2>1, NoLateAnswer
    <2>. QED
      BY <2>1, <2>2 DEF Answer
  <1>8. Pushes(d, in, Message) = 0
    BY <1>6, <1>7, ItemFacts, PushesNothing
  <1>9. OnWay(d, Message)' <= OnWay(d, Message) + Pushes(d, in, Message)
    BY EdgeCounts
  <1>10. OnWay(d, Message)' \in Nat
    BY CountsAfter
  <1>11. OnWay(d, Message)' = 0
    BY <1>1, <1>8, <1>9, <1>10
  <1>. QED
    BY <1>4, <1>5, <1>11 DEF Waits

LEMMA StuckOwn ==
    ASSUME TypeOK, TypeOK', NEW d \in Die, NEW m \in Message \cup {None},
           NEW pack \in BOOLEAN, NEW in \in Input, EdgeOf(d, m, pack, in),
           ~faulted'[d], link[d], Stuck(d)
    PROVE  Stuck(d)'
  <1>. DEFINE e == Peer(d)
  <1>1. /\ Session(d) /\ Idle(e) /\ "rx_deactivate_req" \notin hs[d]
        /\ OnWay(e, DeactReq) = 0 /\ "rx_activate_req" \notin hs[e]
    BY DEF Stuck
  <1>2. /\ e \in Die /\ Same(e) /\ DeactReq \in SUBSET Message
        /\ st[d] \in State /\ st'[d] = NextState(d, in)
    <2>1. e \in Die /\ Same(e)
      BY PeerFacts, PeerSame
    <2>2. st[d] \in State /\ st'[d] = NextState(d, in)
      BY DEF EdgeOf, EdgeEffect, TypeOK, CtrlTypeOK
    <2>3. DeactReq \in SUBSET Message
      BY DEF Message
    <2>. QED
      BY <2>1, <2>2, <2>3
  <1>3. m \notin DeactReq
    BY <1>1, <1>2, DecodedCounts
  <1>4. ~FsmAbort(d, in)
    BY NoAbortUp
  <1>5. Session(d)'
    BY <1>1, <1>2, <1>4 DEF NextState, Session, DeactHs
  <1>6. "rx_deactivate_req" \notin hs'[d]
    <2>1. RxReq("deactivate") \in hs'[d] =>
            m \in ReqOf("deactivate") \/ RxReq("deactivate") \in hs[d]
      BY Names, FlagsAfter
    <2>. QED
      BY <1>1, <1>3, <2>1, Names
  <1>7. OnWay(e, DeactReq)' = 0
    <2>1. OnWay(e, DeactReq)' = OnWay(e, DeactReq) - One(m, DeactReq)
      BY <1>2, EdgeCounts
    <2>2. One(m, DeactReq) = 0
      BY <1>3 DEF One
    <2>. QED
      BY <1>1, <2>1, <2>2
  <1>8. Idle(e)' /\ "rx_activate_req" \notin hs'[e]
    BY <1>1, <1>2 DEF Same, Idle
  <1>. QED
    BY <1>5, <1>6, <1>7, <1>8 DEF Stuck

LEMMA AsksTwiceOwn ==
    ASSUME TypeOK, TypeOK', NEW d \in Die, NEW m \in Message \cup {None},
           NEW pack \in BOOLEAN, NEW in \in Input, EdgeOf(d, m, pack, in),
           ~faulted'[d], link[d], AsksTwice(d)
    PROVE  AsksTwice(d)'
  <1>. DEFINE e == Peer(d)
              A == Open(e, "activate")
              D == Open(e, "deactivate")
  <1>1. e \in Die /\ Same(e) /\ link' = link
    BY PeerFacts, PeerSame
  <1>2. /\ A' \in Nat /\ A' <= A /\ D' \in Nat /\ D' <= D
        /\ Queued(e, "activate")' = Queued(e, "activate")
        /\ Queued(e, "deactivate")' = Queued(e, "deactivate")
    BY Names, OpenPeer
  <1>3. /\ A \in Nat /\ D \in Nat /\ Latched(e, "activate") \in {0, 1}
        /\ Latched(e, "activate")' = Latched(e, "activate")
    <2>1. A \in Nat /\ D \in Nat /\ Latched(e, "activate") \in {0, 1}
      BY <1>1, Names, OpenType
    <2>. QED
      BY <1>1, <2>1 DEF Latched, Same
  <1>4. /\ MayAsk(e)' = MayAsk(e) /\ Session(e)' = Session(e)
        /\ \A h : /\ ReqFirst(e, h)' = ReqFirst(e, h)
                  /\ Asked(e, h)' = Asked(e, h)
        /\ StartKept(e)' = StartKept(e)
    BY <1>1 DEF MayAsk, Session, Idle, ReqFirst, Asked, Queued, StartKept, Same
  <1>5. /\ D <= 1 /\ A + D <= 2
        /\ MayAsk(e) =>
              /\ ReqFirst(e, "activate")
              /\ A + Latched(e, "activate") <= IF Asked(e, "activate") THEN 2 ELSE 1
              /\ D = 0
              /\ "rx_deactivate_req" \in hs[d] => Waits(d)
        /\ Session(e) =>
              /\ ReqFirst(e, "deactivate") /\ ~Asked(e, "activate") /\ A <= 1
              /\ ~Asked(e, "deactivate") => D = 0
        /\ StartKept(e)
    BY DEF AsksTwice
  <1>. HIDE DEF A, D
  <1>6. MayAsk(e) /\ "rx_deactivate_req" \in hs'[d] => Waits(d)'
    <2>. SUFFICES ASSUME MayAsk(e), "rx_deactivate_req" \in hs'[d] PROVE Waits(d)'
      OBVIOUS
    <2>1. m \notin DeactReq
      <3>. SUFFICES ASSUME m \in DeactReq PROVE FALSE
        OBVIOUS
      <3>1. OnWay(e, DeactReq) # 0
        <4>1. DeactReq \in SUBSET Message
          BY DEF Message
        <4>. QED
          BY <4>1, DecodedCounts
      <3>2. OnWay(e, DeactReq) <= D /\ OnWay(e, DeactReq) \in Nat
        <4>1. OnWay(e, ReqOf("deactivate")) <= Open(e, "deactivate")
          BY <1>1, Names, OpenType
        <4>2. OnWay(e, DeactReq) \in Nat
          BY <1>1, CountMessages
        <4>. QED
          BY <4>1, <4>2, Names DEF D
      <3>. QED
        BY <1>5, <3>1, <3>2
    <2>2. RxReq("deactivate") \in hs'[d] =>
            m \in ReqOf("deactivate") \/ RxReq("deactivate") \in hs[d]
      BY Names, FlagsAfter
    <2>3. "rx_deactivate_req" \in hs[d]
      BY <2>1, <2>2, Names
    <2>4. ~FsmAbort(d, in)
      BY NoAbortUp
    <2>. QED
      BY <1>5, <2>1, <2>3, <2>4, WaitsAfter
  <1>7. D' <= 1 /\ A' + D' <= 2
    <2>1. D <= 1 /\ A + D <= 2
      BY <1>5
    <2>2. PICK a \in Nat, b \in Nat : a = A' /\ b = D'
      BY <1>2
    <2>3. a <= A /\ b <= D
      BY <1>2, <2>2
    <2>4. b <= 1 /\ a + b <= 2
      BY <1>3, <2>1, <2>3
    <2>. QED
      BY <2>2, <2>4
  <1>8. A' + Latched(e, "activate")' <= A + Latched(e, "activate")
    BY <1>2, <1>3
  <1>9. MayAsk(e)' =>
          /\ ReqFirst(e, "activate")'
          /\ A' + Latched(e, "activate")' <= IF Asked(e, "activate")' THEN 2 ELSE 1
          /\ D' = 0
          /\ "rx_deactivate_req" \in hs'[d] => Waits(d)'
    <2>. SUFFICES ASSUME MayAsk(e)
                  PROVE  /\ ReqFirst(e, "activate")'
                         /\ A' + Latched(e, "activate")'
                              <= IF Asked(e, "activate")' THEN 2 ELSE 1
                         /\ D' = 0
                         /\ "rx_deactivate_req" \in hs'[d] => Waits(d)'
      BY <1>4
    <2>1. A' + Latched(e, "activate")' <= IF Asked(e, "activate") THEN 2 ELSE 1
      BY <1>2, <1>3, <1>5, <1>8
    <2>2. D' = 0
      BY <1>2, <1>5
    <2>. QED
      BY <1>4, <1>5, <1>6, <2>1, <2>2
  <1>10. Session(e)' =>
          /\ ReqFirst(e, "deactivate")' /\ ~Asked(e, "activate")' /\ A' <= 1
          /\ ~Asked(e, "deactivate")' => D' = 0
    BY <1>2, <1>3, <1>4, <1>5
  <1>. QED
    BY <1>4, <1>5, <1>7, <1>9, <1>10 DEF AsksTwice, A, D

-----------------------------------------------------------------------------
(* An edge of a die in error.                                              *)

LEMMA AskedStays ==
    ASSUME TypeOK, TypeOK', NEW d \in Die, NEW m \in Message \cup {None},
           NEW pack \in BOOLEAN, NEW in \in Input, EdgeOf(d, m, pack, in),
           NEW h \in Handshake, ~FsmAbort(d, in), ~Ends(d, h), Asked(d, h)
    PROVE  Asked(d, h)'
  <1>1. CASE Sent(d, in) \in ReqOf(h) \/ TxReq(h) \in hs[d]
    <2>1. TxReq(h) \in hs'[d]
      BY <1>1, FlagsAfter
    <2>. QED
      BY <2>1 DEF Asked
  <1>2. CASE Sent(d, in) \notin ReqOf(h) /\ TxReq(h) \notin hs[d]
    <2>1. PICK R : R = ReqOf(h)
      OBVIOUS
    <2>2. /\ Queued(d, h)' = Queued(d, h) - One(Sent(d, in), R) + Pushes(d, in, R)
          /\ Queued(d, h) \in Nat /\ Pushes(d, in, R) \in {0, 1}
          /\ One(Sent(d, in), R) \in {0, 1}
          /\ One(Sent(d, in), R) = 1 <=> Sent(d, in) \in R
      BY <2>1, QueuedAfter
    <2>3. Queued(d, h) # 0 /\ One(Sent(d, in), R) = 0
      BY <1>2, <2>1, <2>2 DEF Asked
    <2>4. Queued(d, h)' # 0
      BY <2>2, <2>3
    <2>. QED
      BY <2>4 DEF Asked
  <1>. QED
    BY <1>1, <1>2

\* The answers of d are to Reqs that its peer has open.
LEMMA OwesOpen ==
    ASSUME TypeOK, NEW d \in Die, LinkUp
    PROVE  /\ Owes(d, Acks) = Owes(d, {"ActivateAck"}) + Owes(d, {"DeactivateAck"})
           /\ Owes(d, Acks) \in Nat
           /\ Owes(d, {"ActivateAck"}) \in Nat /\ Owes(d, {"DeactivateAck"}) \in Nat
           /\ OnWay(Peer(d), {"ActivateReq"}) \in Nat /\ OnWay(Peer(d), DeactReq) \in Nat
           /\ Owes(d, {"ActivateAck"}) + OnWay(Peer(d), {"ActivateReq"})
                 <= Open(Peer(d), "activate")
           /\ Owes(d, {"DeactivateAck"}) + OnWay(Peer(d), DeactReq)
                 <= Open(Peer(d), "deactivate")
  <1>1. Peer(d) \in Die /\ Peer(Peer(d)) = d
    BY PeerFacts
  <1>2. ASSUME NEW h \in Handshake
        PROVE  /\ Owes(d, {AckOf(h)}) \in Nat /\ OnWay(Peer(d), ReqOf(h)) \in Nat
               /\ Owes(d, {AckOf(h)}) + OnWay(Peer(d), ReqOf(h)) <= Open(Peer(d), h)
    <2>1. Open(Peer(d), h) = OnWay(Peer(d), ReqOf(h)) + OnWay(d, {AckOf(h)})
      BY <1>1, OpenType
    <2>2. /\ Count(wire[d], {AckOf(h)}) \in Nat /\ Count(misc[d], {AckOf(h)}) \in Nat
          /\ Count(actq[d], {AckOf(h)}) \in Nat
          /\ OnWay(d, {AckOf(h)}) = Count(wire[d], {AckOf(h)}) + Count(misc[d], {AckOf(h)})
                                      + Count(actq[d], {AckOf(h)})
      BY CountMessages
    <2>3. OnWay(Peer(d), ReqOf(h)) \in Nat
      BY <1>1, CountMessages
    <2>4. Owes(d, {AckOf(h)}) = Count(misc[d], {AckOf(h)}) + Count(actq[d], {AckOf(h)})
      BY DEF Owes
    <2>. QED
      BY <2>1, <2>2, <2>3, <2>4
  <1>3. /\ Owes(d, {AckOf("activate")}) \in Nat
        /\ OnWay(Peer(d), ReqOf("activate")) \in Nat
        /\ Owes(d, {AckOf("activate")}) + OnWay(Peer(d), ReqOf("activate"))
              <= Open(Peer(d), "activate")
    BY <1>2, Names
  <1>4. /\ Owes(d, {AckOf("deactivate")}) \in Nat
        /\ OnWay(Peer(d), ReqOf("deactivate")) \in Nat
        /\ Owes(d, {AckOf("deactivate")}) + OnWay(Peer(d), ReqOf("deactivate"))
              <= Open(Peer(d), "deactivate")
    BY <1>2, Names
  <1>5. ASSUME NEW s \in Seq(Message)
        PROVE  /\ Count(s, Acks) = Count(s, {"ActivateAck"}) + Count(s, {"DeactivateAck"})
               /\ Count(s, {"ActivateAck"}) \in Nat /\ Count(s, {"DeactivateAck"}) \in Nat
    <2>1. {"ActivateAck"} \cup {"DeactivateAck"} = Acks
          /\ {"ActivateAck"} \cap {"DeactivateAck"} = {}
      BY DEF Acks
    <2>2. Count(s, {"ActivateAck"} \cup {"DeactivateAck"})
            = Count(s, {"ActivateAck"}) + Count(s, {"DeactivateAck"})
      BY <2>1, CountUnion
    <2>. QED
      BY <2>1, <2>2, CountType
  <1>6. Owes(d, Acks) = Owes(d, {"ActivateAck"}) + Owes(d, {"DeactivateAck"})
        /\ Owes(d, Acks) \in Nat
    <2>1. misc[d] \in Seq(Message) /\ actq[d] \in Seq(Message)
      BY DEF TypeOK, CtrlTypeOK
    <2>2. /\ Count(misc[d], Acks)
                = Count(misc[d], {"ActivateAck"}) + Count(misc[d], {"DeactivateAck"})
          /\ Count(misc[d], {"ActivateAck"}) \in Nat
          /\ Count(misc[d], {"DeactivateAck"}) \in Nat
      BY <1>5, <2>1
    <2>3. /\ Count(actq[d], Acks)
                = Count(actq[d], {"ActivateAck"}) + Count(actq[d], {"DeactivateAck"})
          /\ Count(actq[d], {"ActivateAck"}) \in Nat
          /\ Count(actq[d], {"DeactivateAck"}) \in Nat
      BY <1>5, <2>1
    <2>4. \A S : Owes(d, S) = Count(misc[d], S) + Count(actq[d], S)
      BY DEF Owes
    <2>5. /\ Owes(d, Acks) = Count(misc[d], Acks) + Count(actq[d], Acks)
          /\ Owes(d, {"ActivateAck"})
                = Count(misc[d], {"ActivateAck"}) + Count(actq[d], {"ActivateAck"})
          /\ Owes(d, {"DeactivateAck"})
                = Count(misc[d], {"DeactivateAck"}) + Count(actq[d], {"DeactivateAck"})
      BY <2>4
    <2>. QED
      BY <2>2, <2>3, <2>5
  <1>. QED
    BY <1>3, <1>4, <1>6, Names

LEMMA StuckPeer ==
    ASSUME TypeOK, TypeOK', NEW d \in Die, NEW m \in Message \cup {None},
           NEW pack \in BOOLEAN, NEW in \in Input, EdgeOf(d, m, pack, in),
           Alone(Peer(d)), Stuck(Peer(d))
    PROVE  Stuck(Peer(d))'
  <1>. DEFINE c == Peer(d)
  <1>1. c \in Die /\ Peer(c) = d /\ Same(c)
    BY PeerFacts, PeerSame
  <1>2. /\ Session(c) /\ Idle(d) /\ "rx_deactivate_req" \notin hs[c]
        /\ OnWay(d, DeactReq) = 0 /\ "rx_activate_req" \notin hs[d]
    BY <1>1 DEF Stuck
  <1>3. /\ st[d] \in State /\ st'[d] = NextState(d, in) /\ st[c] \in State
        /\ DeactReq \in SUBSET Message
    <2>1. DeactReq \in SUBSET Message
      BY DEF Message
    <2>2. st[d] \in State /\ st'[d] = NextState(d, in) /\ st[c] \in State
      BY <1>1 DEF EdgeOf, EdgeEffect, TypeOK, CtrlTypeOK
    <2>. QED
      BY <2>1, <2>2
  <1>4. m # "ActivateReq"
    <2>. SUFFICES ASSUME m = "ActivateReq" PROVE FALSE
      OBVIOUS
    <2>1. OnWay(c, {"ActivateReq"}) # 0
      <3>1. {"ActivateReq"} \in SUBSET Message
        BY DEF Message
      <3>. QED
        BY <3>1, DecodedCounts
    <2>2. Open(c, "activate") + Latched(c, "activate") = 0
      BY <1>1, <1>2, <1>3, Names, HalfNames DEF Alone, AsksOnce
    <2>3. /\ Open(c, "activate") \in Nat /\ Latched(c, "activate") \in {0, 1}
          /\ OnWay(c, ReqOf("activate")) <= Open(c, "activate")
      BY <1>1, Names, OpenType
    <2>4. OnWay(c, {"ActivateReq"}) \in Nat
      BY <1>1, CountMessages
    <2>. QED
      BY <2>1, <2>2, <2>3, <2>4, Names
  <1>5. Idle(d)' /\ "rx_activate_req" \notin hs'[d]
    <2>1. Idle(d)'
      BY <1>2, <1>3 DEF NextState, Idle, ActFlag
    <2>2. RxReq("activate") \in hs'[d] =>
            m \in ReqOf("activate") \/ RxReq("activate") \in hs[d]
      BY Names, FlagsAfter
    <2>. QED
      BY <1>2, <1>4, <2>1, <2>2, Names
  <1>6. OnWay(d, DeactReq)' = 0
    <2>1. Request(d, in) \notin DeactReq
      BY <1>2 DEF Request, DeactivateLevel, ForceLevel, DeactivateEn, Idle, Session,
                  DeactReq, None
    <2>2. Answer(d, in) \notin DeactReq /\ None \notin DeactReq
      BY DEF Answer, DeactReq, None
    <2>3. Pushes(d, in, DeactReq) = 0
      BY <2>1, <2>2, PushesNothing
    <2>4. OnWay(d, DeactReq)' <= OnWay(d, DeactReq) + Pushes(d, in, DeactReq)
      BY <1>3, EdgeCounts
    <2>5. OnWay(d, DeactReq)' \in Nat
      BY CountsAfter
    <2>. QED
      BY <1>2, <2>3, <2>4, <2>5
  <1>7. Session(c)' /\ "rx_deactivate_req" \notin hs'[c]
    BY <1>1, <1>2 DEF Same, Session
  <1>. QED
    BY <1>1, <1>5, <1>6, <1>7 DEF Stuck

\* What a die in error may push.
LEMMA PeerReq ==
    ASSUME TypeOK, TypeOK', NEW d \in Die, NEW m \in Message \cup {None},
           NEW pack \in BOOLEAN, NEW in \in Input, EdgeOf(d, m, pack, in),
           link[Peer(d)], AsksOnce(Peer(d)),
           NEW h \in Handshake, Request(d, in) \in ReqOf(h), ReqFirst(d, h),
           Open(d, h) <= 1, Open(d, Other(h)) <= 1,
           ~Asked(d, "deactivate") => Open(d, "deactivate") = 0,
           h = "activate" => Open(d, "deactivate") = 0,
           h = "deactivate" => ~Asked(d, "activate")
    PROVE  /\ Half(d) = h /\ ~Asked(d, h)
           /\ Queued(d, h)' = 1 /\ Head(actq'[d]) \in ReqOf(h)
  <1>. DEFINE o == Other(h)
              c == Peer(d)
  <1>1. /\ st[d] \in State /\ o \in Handshake /\ Other(o) = h /\ c \in Die /\ Peer(c) = d
        /\ misc[d] \in Seq(Message) /\ actq[d] \in Seq(Message) /\ LinkUp
        /\ {h, o} = {"activate", "deactivate"}
    <2>1. {h, o} = {"activate", "deactivate"}
      BY DEF Handshake, Other
    <2>. QED
      BY <2>1, HandshakeFacts, PeerFacts DEF TypeOK, CtrlTypeOK, LinkUp
  <1>2. Half(d) = h /\ ~Asked(d, h) /\ Queued(d, h) = 0
    BY <1>1, ReqNew
  <1>3. /\ Queued(d, h) \in Nat /\ Count(misc[d], ReqOf(h)) \in Nat
        /\ Count(wire[d], ReqOf(h)) \in Nat
        /\ Queued(d, h) + Count(misc[d], ReqOf(h)) + Count(wire[d], ReqOf(h)) <= Open(d, h)
        /\ Open(d, h) \in Nat
    BY OpenType, CountMessages
  <1>4. /\ Queued(d, o) \in Nat /\ Count(misc[d], ReqOf(o)) \in Nat
        /\ Count(wire[d], ReqOf(o)) \in Nat
        /\ Queued(d, o) + Count(misc[d], ReqOf(o)) + Count(wire[d], ReqOf(o)) <= Open(d, o)
        /\ Open(d, o) \in Nat
    BY <1>1, OpenType, CountMessages
  <1>5. Queued(d, o) = 0
    <2>1. CASE h = "activate"
      <3>1. o = "deactivate" /\ Open(d, o) = 0
        BY <2>1, Names
      <3>. QED
        BY <1>4, <3>1
    <2>2. CASE h = "deactivate"
      <3>1. o = "activate" /\ ~Asked(d, o)
        BY <2>2, Names
      <3>. QED
        BY <3>1 DEF Asked
    <2>. QED
      BY <2>1, <2>2 DEF Handshake
  <1>6. Count(misc[d], ReqOf(h)) + Count(misc[d], ReqOf(o)) <= 1
    <2>1. CASE h = "activate"
      <3>1. o = "deactivate" /\ Open(d, o) = 0
        BY <2>1, Names
      <3>2. Count(misc[d], ReqOf(o)) = 0
        BY <1>4, <3>1
      <3>3. Count(misc[d], ReqOf(h)) <= 1
        BY <1>3
      <3>. QED
        BY <1>3, <3>2, <3>3
    <2>2. CASE h = "deactivate"
      <3>1. Open(d, h) = 0
        BY <1>2, <2>2
      <3>2. Count(misc[d], ReqOf(h)) = 0
        BY <1>3, <3>1
      <3>3. Count(misc[d], ReqOf(o)) <= 1
        BY <1>4
      <3>. QED
        BY <1>4, <3>2, <3>3
    <2>. QED
      BY <2>1, <2>2 DEF Handshake
  <1>7. /\ Count(actq[d], Acks) + Count(misc[d], Acks) <= 1
        /\ Count(actq[d], Acks) \in Nat /\ Count(misc[d], Acks) \in Nat
    <2>1. /\ Owes(d, Acks) = Owes(d, {"ActivateAck"}) + Owes(d, {"DeactivateAck"})
          /\ Owes(d, {"ActivateAck"}) \in Nat /\ Owes(d, {"DeactivateAck"}) \in Nat
          /\ OnWay(c, {"ActivateReq"}) \in Nat /\ OnWay(c, DeactReq) \in Nat
          /\ Owes(d, {"ActivateAck"}) + OnWay(c, {"ActivateReq"}) <= Open(c, "activate")
          /\ Owes(d, {"DeactivateAck"}) + OnWay(c, DeactReq) <= Open(c, "deactivate")
      BY <1>1, OwesOpen
    <2>2. Open(c, "activate") + Open(c, Other("activate")) <= 1
      BY <1>1, Names, OneReq
    <2>3. Open(c, "activate") \in Nat /\ Open(c, "deactivate") \in Nat
      BY <1>1, Names, OpenType
    <2>4. Owes(d, Acks) <= 1
      BY <2>1, <2>2, <2>3, Names
    <2>5. Count(actq[d], Acks) \in Nat /\ Count(misc[d], Acks) \in Nat
      BY CountMessages
    <2>. QED
      BY <2>4, <2>5 DEF Owes
  <1>8. Count(actq[d], Acks) <= 1 /\ (Count(actq[d], Acks) = 1 => Len(misc[d]) <= 1)
    <2>1. Len(misc[d]) = Count(misc[d], ReqOf(h)) + Count(misc[d], ReqOf(o))
                           + Count(misc[d], Acks)
      BY <1>1, SplitCount
    <2>2. Count(actq[d], Acks) <= 1
      BY <1>7
    <2>3. Count(actq[d], Acks) = 1 => Count(misc[d], Acks) = 0
      BY <1>7
    <2>4. Count(actq[d], Acks) = 1 => Len(misc[d]) <= 1
      BY <1>3, <1>4, <1>6, <2>1, <2>3
    <2>. QED
      BY <2>2, <2>4
  <1>9. Queued(d, h)' = 1 /\ Head(actq'[d]) \in ReqOf(h)
    <2>1. Count(actq[d], ReqOf(o)) = 0
      BY <1>5 DEF Queued
    <2>. QED
      BY <1>8, <2>1, ReqPushed
  <1>. QED
    BY <1>2, <1>9

LEMMA AsksTwicePeer ==
    ASSUME TypeOK, TypeOK', NEW d \in Die, NEW m \in Message \cup {None},
           NEW pack \in BOOLEAN, NEW in \in Input, EdgeOf(d, m, pack, in),
           faulted[d], link[Peer(d)], Alone(Peer(d)), AsksTwice(Peer(d)), Steady(d)
    PROVE  Stuck(Peer(d))' \/ AsksTwice(Peer(d))'
  <1>. DEFINE c == Peer(d)
              A == Open(d, "activate")
              D == Open(d, "deactivate")
              L == Latched(d, "activate")
              R == ReqOf("activate")
              T == ReqOf("deactivate")
              pA == Pushes(d, in, R)
              pD == Pushes(d, in, T)
              x == Sent(d, in)
  <1>1. /\ c \in Die /\ Peer(c) = d /\ Same(c) /\ link' = link
        /\ st[d] \in State /\ st'[d] \in State /\ st[c] \in State
    BY PeerFacts, PeerSame DEF TypeOK, CtrlTypeOK
  <1>2. /\ st'[d] = NextState(d, in) /\ hs'[d] = NextFlags(d, in)
        /\ in.msg = m /\ in.link = link[d] /\ in.expired = {} /\ in.field = sfr[d]
        /\ sfr'[d] = sfr[d] \ AutoClear(d)
    BY DEF EdgeOf, EdgeEffect
  <1>3. /\ D <= 1 /\ A + D <= 2
        /\ MayAsk(d) =>
              /\ ReqFirst(d, "activate")
              /\ A + L <= IF Asked(d, "activate") THEN 2 ELSE 1
              /\ D = 0
              /\ "rx_deactivate_req" \in hs[c] => Waits(c)
        /\ Session(d) =>
              /\ ReqFirst(d, "deactivate") /\ ~Asked(d, "activate") /\ A <= 1
              /\ ~Asked(d, "deactivate") => D = 0
        /\ StartKept(d)
    BY <1>1 DEF AsksTwice
  <1>4. /\ A \in Nat /\ D \in Nat /\ L \in {0, 1}
        /\ L = 1 <=> "tx_activate_ack" \in hs[d]
    <2>1. TxAck("activate") = "tx_activate_ack"
      BY Names
    <2>. QED
      BY <2>1, Names, OpenType DEF Latched
  <1>5. /\ A' <= A - One(m, {AckOf("activate")}) + pA
        /\ A' \in Nat /\ pA \in {0, 1} /\ One(m, {AckOf("activate")}) \in {0, 1}
        /\ A >= One(m, {AckOf("activate")})
        /\ pA = 1 => Request(d, in) \in R
    BY Names, OpenOwn
  <1>6. /\ D' <= D - One(m, {AckOf("deactivate")}) + pD
        /\ D' \in Nat /\ pD \in {0, 1} /\ One(m, {AckOf("deactivate")}) \in {0, 1}
        /\ D >= One(m, {AckOf("deactivate")})
        /\ pD = 1 => Request(d, in) \in T
    BY Names, OpenOwn
  <1>7. L' \in {0, 1} /\ (L' = 1 <=> "tx_activate_ack" \in hs'[d])
    BY Names DEF Latched
  <1>8. L' <= L + One(m, {AckOf("activate")})
    <2>1. TxAck("activate") \in hs'[d] => m = AckOf("activate") \/ TxAck("activate") \in hs[d]
      BY Names, FlagsAfter
    <2>2. L' = 1 => L = 1 \/ One(m, {AckOf("activate")}) = 1
      BY <1>4, <1>7, <2>1, Names DEF One
    <2>. QED
      BY <1>4, <1>5, <1>7, <2>2
  <1>9. StartKept(d)'
    BY <1>3, StartAfter
  <1>10. Request(d, in) \in R => MayAsk(d)
    <2>. SUFFICES ASSUME Request(d, in) \in R PROVE MayAsk(d)
      OBVIOUS
    <2>1. Request(d, in) = "ActivateReq"
      BY Names
    <2>2. Request(d, in) = "ActivateReq" => ActivateLevel(d, in)
      BY ItemFacts DEF Request, None
    <2>. QED
      BY <1>2, <2>1, <2>2 DEF ActivateLevel, ActivateEn, MayAsk
  <1>11. Request(d, in) \in T => Session(d)
    BY Names, ItemFacts
       DEF Request, DeactivateLevel, ForceLevel, DeactivateEn, DeactReq, None
  <1>12. Idle(d) <=> ~Session(d)
    BY <1>1, HalfNames
  <1>13. R \cap T = {} /\ None \notin R /\ None \notin T
    BY Names, ItemFacts DEF DeactReq, None
  <1>14. ASSUME Request(d, in) \in R
         PROVE  /\ ~Asked(d, "activate") /\ ReqFirst(d, "activate")
                /\ Queued(d, "activate")' = 1 /\ Head(actq'[d]) \in R
    <2>1. ReqFirst(d, "activate") /\ D = 0 /\ ~Asked(d, "activate")
      BY <1>1, <1>3, <1>10, <1>14, Names, ReqNew
    <2>2. A <= 1
      BY <1>3, <1>4, <1>10, <1>14, <2>1
    <2>3. Open(d, Other("activate")) <= 1
      BY <2>1, Names
    <2>4. Queued(d, "activate")' = 1 /\ Head(actq'[d]) \in R
      BY <1>14, <2>1, <2>2, <2>3, Names, PeerReq DEF Alone
    <2>. QED
      BY <2>1, <2>4
  <1>15. ASSUME Request(d, in) \in T
         PROVE  /\ ~Asked(d, "deactivate") /\ D = 0 /\ A <= 1
                /\ Queued(d, "deactivate")' = 1 /\ Head(actq'[d]) \in T
    <2>1. /\ ReqFirst(d, "deactivate") /\ ~Asked(d, "deactivate") /\ D = 0 /\ A <= 1
          /\ ~Asked(d, "activate")
      BY <1>1, <1>3, <1>11, <1>15, Names, ReqNew
    <2>2. Open(d, Other("deactivate")) <= 1 /\ D <= 1
      BY <2>1, Names
    <2>3. Queued(d, "deactivate")' = 1 /\ Head(actq'[d]) \in T
      BY <1>15, <2>1, <2>2, Names, PeerReq DEF Alone
    <2>. QED
      BY <2>1, <2>3
  <1>16. ReqFirst(d, "activate") => ReqFirst(d, "activate")'
    BY <1>14, Names, ReqFirstAfter
  <1>17. ReqFirst(d, "deactivate") => ReqFirst(d, "deactivate")'
    BY <1>15, Names, ReqFirstAfter
  <1>. HIDE DEF A, D, L, R, T, pA, pD, x
  \* The Reqs that are open.
  <1>18. D' <= 1 /\ A' + D' <= 2
    <2>1. PICK a \in Nat, b \in Nat : a = A' /\ b = D'
      BY <1>5, <1>6
    <2>2. a <= A + pA /\ b <= D + pD
      BY <1>4, <1>5, <1>6, <2>1
    <2>3. CASE pA = 1
      <3>1. Request(d, in) \in R /\ Request(d, in) \notin T
        BY <1>5, <1>13, <2>3
      <3>2. pD = 0
        BY <1>6, <3>1
      <3>3. A + L <= 1 /\ D = 0
        BY <1>3, <1>10, <1>14, <3>1
      <3>4. A <= 1
        BY <1>4, <3>3
      <3>5. b = 0 /\ a <= 2
        BY <1>4, <2>2, <2>3, <3>2, <3>3, <3>4
      <3>6. b <= 1 /\ a + b <= 2
        BY <3>5
      <3>. QED
        BY <2>1, <3>6
    <2>4. CASE pD = 1
      <3>1. Request(d, in) \in T /\ Request(d, in) \notin R
        BY <1>6, <1>13, <2>4
      <3>2. pA = 0
        BY <1>5, <3>1
      <3>3. D = 0 /\ A <= 1
        BY <1>15, <3>1
      <3>4. b <= 1 /\ a <= 1
        BY <1>4, <2>2, <2>4, <3>2, <3>3
      <3>5. b <= 1 /\ a + b <= 2
        BY <3>4
      <3>. QED
        BY <2>1, <3>5
    <2>5. CASE pA = 0 /\ pD = 0
      <3>1. a <= A /\ b <= D
        BY <1>4, <2>2, <2>5
      <3>2. D <= 1 /\ A + D <= 2
        BY <1>3
      <3>3. b <= 1 /\ a + b <= 2
        BY <1>4, <3>1, <3>2
      <3>. QED
        BY <2>1, <3>3
    <2>. QED
      BY <1>5, <1>6, <2>3, <2>4, <2>5
  \* An error at a die that may ask leaves its peer in the session.
  <1>19. ASSUME MayAsk(d), LinkError(d, in) PROVE Stuck(c)'
    <2>1. Idle(d) /\ D = 0 /\ ("rx_deactivate_req" \in hs[c] => Waits(c))
      BY <1>3, <1>19 DEF MayAsk
    <2>2. m \in DeactReq
      <3>1. m \in DeactReq \cup {"DeactivateAck"}
        BY <1>2, <1>12, <1>19, <2>1 DEF LinkError, InvalidActmsg
      <3>2. m # "DeactivateAck"
        <4>. SUFFICES ASSUME m = "DeactivateAck" PROVE FALSE
          OBVIOUS
        <4>1. One(m, {AckOf("deactivate")}) = 1
          BY Names DEF One
        <4>. QED
          BY <1>6, <2>1, <4>1
      <3>. QED
        BY <3>1, <3>2
    <2>3. OnWay(c, DeactReq) # 0 /\ DeactReq \in SUBSET Message
      <3>1. DeactReq \in SUBSET Message
        BY DEF Message
      <3>. QED
        BY <2>2, <3>1, DecodedCounts
    <2>4. Session(c)
      <3>. SUFFICES ASSUME Half(c) # "deactivate" PROVE FALSE
        BY <1>1, HalfNames
      <3>1. Open(c, "deactivate") + Latched(c, "deactivate") = 0
        BY Names DEF Alone, AsksOnce
      <3>2. /\ Open(c, "deactivate") \in Nat /\ Latched(c, "deactivate") \in {0, 1}
            /\ OnWay(c, ReqOf("deactivate")) <= Open(c, "deactivate")
        BY <1>1, Names, OpenType
      <3>3. OnWay(c, DeactReq) \in Nat
        BY <1>1, CountMessages
      <3>. QED
        BY <2>3, <3>1, <3>2, <3>3, Names
    <2>5. "rx_deactivate_req" \notin hs[c]
      <3>. SUFFICES ASSUME Waits(c) PROVE FALSE
        BY <2>1
      <3>1. OnWay(c, Message) = 0
        BY DEF Waits
      <3>. QED
        BY <1>1, <2>3, <3>1, OnWayZero
    <2>6. Idle(d)' /\ hs'[d] = {}
      BY <1>2, <1>19 DEF FsmAbort, NextState, NextFlags, Idle
    <2>7. OnWay(d, DeactReq)' = 0
      <3>1. OnWay(d, DeactReq)' <= OnWay(d, DeactReq) + Pushes(d, in, DeactReq)
        BY <2>3, EdgeCounts
      <3>2. pD = 0
        BY <1>6, <1>11, <1>12, <2>1
      <3>3. Pushes(d, in, DeactReq) = 0
        BY <3>2, Names DEF pD, T
      <3>4. OnWay(d, DeactReq) \in Nat
        BY CountMessages
      <3>5. OnWay(d, ReqOf("deactivate")) <= Open(d, "deactivate")
        BY Names, OpenType
      <3>6. OnWay(d, DeactReq) = 0
        BY <2>1, <3>4, <3>5, Names DEF D
      <3>7. OnWay(d, DeactReq)' \in Nat
        BY CountsAfter
      <3>. QED
        BY <3>1, <3>3, <3>6, <3>7
    <2>8. Session(c)' /\ "rx_deactivate_req" \notin hs'[c]
      BY <1>1, <2>4, <2>5 DEF Same, Session
    <2>. QED
      BY <1>1, <2>6, <2>7, <2>8 DEF Stuck
  \* It may ask on.
  <1>20. ASSUME MayAsk(d)', ~(MayAsk(d) /\ LinkError(d, in))
         PROVE  /\ ReqFirst(d, "activate")'
                /\ A' + L' <= IF Asked(d, "activate")' THEN 2 ELSE 1
                /\ D' = 0
                /\ "rx_deactivate_req" \in hs'[c] => Waits(c)'
    <2>1. /\ Idle(d)' /\ link[d] /\ "ACTIVATE_START" \in sfr[d]
          /\ "ACTIVATE_START" \notin AutoClear(d)
      BY <1>1, <1>2, <1>20 DEF MayAsk
    <2>2. Idle(d)
      BY <1>1, <2>1 DEF Steady, AutoClear, Bit, Idle, State
    <2>3. MayAsk(d)
      BY <2>1, <2>2 DEF MayAsk
    <2>4. /\ ReqFirst(d, "activate")
          /\ A + L <= IF Asked(d, "activate") THEN 2 ELSE 1
          /\ D = 0
          /\ "rx_deactivate_req" \in hs[c] => Waits(c)
      BY <1>3, <2>3
    <2>5. ~FsmAbort(d, in)
      BY <1>2, <1>20, <2>1, <2>3 DEF FsmAbort, LinkFell
    <2>6. ~Ends(d, "activate")
      <3>. SUFFICES ASSUME Ends(d, "activate") PROVE FALSE
        OBVIOUS
      <3>1. Half(d)' = Other("activate")
        BY <2>5, Names, HalfAfter
      <3>. QED
        BY <2>1, <3>1, Names DEF Half
    <2>7. Asked(d, "activate") => Asked(d, "activate")'
      BY <2>5, <2>6, Names, AskedStays
    <2>8. pA = 1 => Asked(d, "activate")' /\ ~Asked(d, "activate")
      <3>1. pA = 1 => Queued(d, "activate")' = 1 /\ ~Asked(d, "activate")
        BY <1>5, <1>14
      <3>. QED
        BY <3>1 DEF Asked
    <2>9. A' + L' <= IF Asked(d, "activate")' THEN 2 ELSE 1
      <3>1. PICK a \in Nat, l \in Nat : a = A' /\ l = L'
        BY <1>5, <1>7
      <3>2. a + l <= A + L + pA
        <4>1. PICK o \in Nat : o = One(m, {AckOf("activate")})
          BY <1>5
        <4>2. a <= A - o + pA /\ l <= L + o
          BY <1>5, <1>8, <3>1, <4>1
        <4>3. L \in Nat /\ pA \in Nat
          BY <1>4, <1>5
        <4>. QED
          BY <1>4, <4>2, <4>3
      <3>5. a \in Nat /\ l \in Nat /\ A \in Nat /\ L \in Nat
        BY <1>4, <3>1
      <3>3. CASE Asked(d, "activate")
        <4>1. pA = 0 /\ A + L <= 2
          BY <1>5, <2>4, <2>8, <3>3
        <4>2. a + l <= 2
          BY <3>5, <3>2, <4>1
        <4>3. A' + L' <= 2
          BY <3>1, <4>2
        <4>. QED
          BY <2>7, <3>3, <4>3
      <3>4. CASE ~Asked(d, "activate")
        <4>1. A + L <= 1
          BY <2>4, <3>4
        <4>2. CASE pA = 1
          <5>1. a + l <= 2
            BY <3>5, <3>2, <4>1, <4>2
          <5>2. A' + L' <= 2
            BY <3>1, <5>1
          <5>. QED
            BY <2>8, <4>2, <5>2
        <4>3. CASE pA = 0
          <5>1. a + l <= 1
            BY <3>5, <3>2, <4>1, <4>3
          <5>2. A' + L' <= 1
            BY <3>1, <5>1
          <5>4. a + l <= 2
            BY <3>5, <5>1
          <5>3. A' + L' <= 2
            BY <3>1, <5>4
          <5>. QED
            BY <5>2, <5>3
        <4>. QED
          BY <1>5, <4>2, <4>3
      <3>. QED
        BY <3>3, <3>4
    <2>10. D' = 0
      <3>1. pD = 0
        BY <1>6, <1>11, <1>12, <2>2
      <3>. QED
        BY <1>6, <2>4, <3>1
    <2>11. "rx_deactivate_req" \in hs'[c] => Waits(c)'
      <3>. SUFFICES ASSUME "rx_deactivate_req" \in hs'[c] PROVE Waits(c)'
        OBVIOUS
      <3>1. Waits(c)
        BY <1>1, <2>4 DEF Same
      <3>2. OnWay(c, Message)' = OnWay(c, Message) - One(m, Message)
        BY EdgeCounts
      <3>3. OnWay(c, Message)' \in Nat /\ One(m, Message) \in {0, 1}
        BY <1>1, CountsAfter, OneFacts
      <3>4. OnWay(c, Message)' = 0
        BY <3>1, <3>2, <3>3 DEF Waits
      <3>. QED
        BY <1>1, <3>1, <3>4 DEF Waits, Same
    <2>. QED
      BY <1>16, <2>4, <2>9, <2>10, <2>11
  <1>21. ASSUME Session(d)'
         PROVE  /\ ReqFirst(d, "deactivate")' /\ ~Asked(d, "activate")' /\ A' <= 1
                /\ ~Asked(d, "deactivate")' => D' = 0
    <2>1. ~FsmAbort(d, in)
      BY <1>2, <1>21 DEF NextState, Session
    <2>2. CASE Idle(d)
      <3>1. Ends(d, "activate")
        <4>1. st'[d] = "ENABLED" \/ st'[d] = "DEACTIVATE"
          BY <1>21 DEF Session
        <4>. QED
          BY <1>2, <2>1, <2>2, <4>1, Names
             DEF NextState, Idle, Ends, Full, ActFlag, TxReq, TxAck, RxReq, RxAck
      <3>2. /\ st[d] = "ACTIVATE" /\ "tx_activate_req" \in hs[d]
            /\ "tx_activate_ack" \in hs[d] /\ "rx_activate_req" \in hs[d]
        BY <3>1, Names DEF Ends, Full
      <3>3. Asked(d, "activate") /\ L = 1
        BY <1>4, <3>2, Names DEF Asked
      <3>4. MayAsk(d)
        <4>1. "ACTIVATE_START" \in sfr[d]
          BY <1>3, <2>2, <3>3 DEF StartKept
        <4>2. link[d]
          BY <1>2, <2>1, <3>2 DEF Steady, FsmAbort, LinkFell
        <4>. QED
          BY <2>2, <4>1, <4>2 DEF MayAsk
      <3>5. ReqFirst(d, "activate") /\ A + L <= 2 /\ D = 0
        BY <1>3, <3>3, <3>4
      <3>6. A <= 1
        BY <1>4, <3>3, <3>5
      <3>7. Request(d, in) \notin R /\ Request(d, in) \notin T
        BY <1>11, <1>12, <1>14, <2>2, <3>3
      <3>8. pA = 0 /\ pD = 0
        BY <1>5, <1>6, <3>7
      <3>9. A' <= 1 /\ D' = 0
        <4>1. PICK a \in Nat : a = A'
          BY <1>5
        <4>2. a <= A
          BY <1>4, <1>5, <3>8, <4>1
        <4>3. D' = 0
          BY <1>6, <3>5, <3>8
        <4>. QED
          BY <1>4, <3>6, <4>1, <4>2, <4>3
      <3>10. ~Asked(d, "activate")'
        <4>1. TxReq("activate") \notin hs'[d]
          <5>. SUFFICES ASSUME TxReq("activate") \in hs'[d] PROVE FALSE
            OBVIOUS
          <5>1. Sent(d, in) \in ReqOf("activate")
            BY <3>1, Names, FlagsAfter
          <5>2. Queued(d, "activate") # 0
            BY <5>1, Names, SentQueued
          <5>. QED
            BY <3>2, <3>5, <5>2, Names DEF ReqFirst
        <4>2. Queued(d, "activate")' = 0
          <5>1. Queued(d, "activate") = 0
            BY <3>2, <3>5, Names DEF ReqFirst
          <5>2. PICK r : r = ReqOf("activate")
            OBVIOUS
          <5>3. /\ Queued(d, "activate")' = Queued(d, "activate") - One(Sent(d, in), r)
                      + Pushes(d, in, r)
                /\ Queued(d, "activate")' \in Nat
                /\ One(Sent(d, in), r) \in {0, 1}
            BY <5>2, Names, QueuedAfter
          <5>4. Pushes(d, in, r) = 0
            BY <3>8, <5>2 DEF pA, R
          <5>. QED
            BY <5>1, <5>3, <5>4
        <4>. QED
          BY <4>1, <4>2 DEF Asked
      <3>11. ReqFirst(d, "deactivate")'
        <4>1. /\ Queued(d, "deactivate") \in Nat
              /\ Count(misc[d], ReqOf("deactivate")) \in Nat
              /\ Count(wire[d], ReqOf("deactivate")) \in Nat
              /\ Queued(d, "deactivate") + Count(misc[d], ReqOf("deactivate"))
                   + Count(wire[d], ReqOf("deactivate")) <= Open(d, "deactivate")
          BY Names, OpenType, CountMessages
        <4>2. Queued(d, "deactivate") = 0
          BY <3>5, <4>1 DEF D
        <4>. QED
          BY <1>17, <4>2 DEF ReqFirst
      <3>. QED
        BY <3>9, <3>10, <3>11
    <2>3. CASE Session(d)
      <3>1. /\ ReqFirst(d, "deactivate") /\ ~Asked(d, "activate") /\ A <= 1
            /\ ~Asked(d, "deactivate") => D = 0
        BY <1>3, <2>3
      <3>2. Request(d, in) \notin R
        BY <1>10, <1>12, <2>3 DEF MayAsk
      <3>3. pA = 0
        BY <1>5, <3>2
      <3>4. A' <= 1
        <4>1. PICK a \in Nat : a = A'
          BY <1>5
        <4>2. a <= A
          BY <1>4, <1>5, <3>3, <4>1
        <4>. QED
          BY <1>4, <3>1, <4>1, <4>2
      <3>5. ~Asked(d, "activate")'
        BY <3>1, <3>2, Names, AskedAfter DEF R
      <3>6. ~Ends(d, "deactivate")
        <4>. SUFFICES ASSUME Ends(d, "deactivate") PROVE FALSE
          OBVIOUS
        <4>1. Half(d)' = Other("deactivate")
          BY <2>1, Names, HalfAfter
        <4>. QED
          BY <1>21, <4>1, Names DEF Half, Idle, Session
      <3>7. ~Asked(d, "deactivate")' => D' = 0
        <4>. SUFFICES ASSUME ~Asked(d, "deactivate")' PROVE D' = 0
          OBVIOUS
        <4>1. ~Asked(d, "deactivate")
          BY <2>1, <3>6, Names, AskedStays
        <4>2. D = 0
          BY <3>1, <4>1
        <4>3. pD = 0
          <5>. SUFFICES ASSUME pD = 1 PROVE FALSE
            BY <1>6
          <5>1. Queued(d, "deactivate")' = 1
            BY <1>6, <1>15
          <5>. QED
            BY <5>1 DEF Asked
        <4>. QED
          BY <1>6, <4>2, <4>3
      <3>. QED
        BY <1>17, <3>1, <3>4, <3>5, <3>7
    <2>. QED
      BY <1>12, <2>2, <2>3
  <1>22. CASE MayAsk(d) /\ LinkError(d, in)
    BY <1>19, <1>22
  <1>23. CASE ~(MayAsk(d) /\ LinkError(d, in))
    <2>1. AsksTwice(c)'
      BY <1>1, <1>9, <1>18, <1>20, <1>21, <1>23 DEF AsksTwice, A, D, L
    <2>. QED
      BY <2>1
  <1>. QED
    BY <1>22, <1>23

-----------------------------------------------------------------------------
(* An edge keeps it all.                                                   *)

\* A die that has an error now asked once before, and may ask again.
LEMMA PairEntry ==
    ASSUME TypeOK, TypeOK', HandshakeInv, NEW d \in Die, NEW m \in Message \cup {None},
           NEW pack \in BOOLEAN, NEW in \in Input, EdgeOf(d, m, pack, in),
           ~faulted[d], faulted'[d], ~faulted[Peer(d)], link[Peer(d)],
           Alone(d), Alone(Peer(d)), Steady(d)
    PROVE  AsksTwice(Peer(d))'
  <1>. DEFINE c == Peer(d)
              A == Open(d, "activate")
              D == Open(d, "deactivate")
              R == ReqOf("activate")
              T == ReqOf("deactivate")
              pA == Pushes(d, in, R)
              pD == Pushes(d, in, T)
  <1>1. /\ c \in Die /\ Peer(c) = d /\ Same(c) /\ link' = link
        /\ st[d] \in State /\ st'[d] \in State /\ st[c] \in State
        /\ \A a \in Die : a = d \/ a = c
    BY PeerFacts, PeerSame DEF TypeOK, CtrlTypeOK
  <1>2. FsmAbort(d, in)
    <2>1. LinkError(d, in) \/ IntFdiLinkDown(d, in)
      BY DEF EdgeOf, EdgeEffect
    <2>. QED
      BY <2>1 DEF FsmAbort, IntFdiLinkDown
  <1>3. st'[d] = "DISABLED" /\ hs'[d] = {} /\ Idle(d)' /\ ~Session(d)'
    BY <1>2, Names, FlagsAfter DEF Idle, Session
  <1>4. /\ sfr'[d] = sfr[d] \ AutoClear(d)
        /\ in.msg = m /\ in.link = link[d]
    BY DEF EdgeOf, EdgeEffect
  <1>5. A + D <= 1 /\ A \in Nat /\ D \in Nat
    BY Names, OneReq, OpenType DEF Alone
  <1>6. /\ A' <= A - One(m, {AckOf("activate")}) + pA
        /\ A' \in Nat /\ pA \in {0, 1} /\ One(m, {AckOf("activate")}) \in {0, 1}
        /\ pA = 1 => Request(d, in) \in R
    BY Names, OpenOwn
  <1>7. /\ D' <= D - One(m, {AckOf("deactivate")}) + pD
        /\ D' \in Nat /\ pD \in {0, 1} /\ One(m, {AckOf("deactivate")}) \in {0, 1}
        /\ pD = 1 => Request(d, in) \in T
    BY Names, OpenOwn
  <1>8. ASSUME Request(d, in) \in R
        PROVE  /\ A = 0 /\ Half(d) = "activate"
               /\ Queued(d, "activate")' = 1 /\ Head(actq'[d]) \in R
    BY <1>8, Names, AloneReq DEF Alone
  <1>9. ASSUME Request(d, in) \in T PROVE D = 0 /\ Half(d) = "deactivate"
    BY <1>9, Names, AloneReq DEF Alone
  <1>10. R \cap T = {}
    BY Names DEF DeactReq
  <1>11. ReqFirst(d, "activate")'
    <2>1. ReqFirst(d, "activate")
      BY Names DEF Alone, AsksOnce
    <2>. QED
      BY <1>8, <2>1, Names, ReqFirstAfter
  <1>12. StartKept(d)'
    <2>1. Session(d) => ~Asked(d, "activate")
      <3>. SUFFICES ASSUME Session(d) PROVE ~Asked(d, "activate")
        OBVIOUS
      <3>1. Half(d) # "activate"
        BY <1>1, HalfNames
      <3>2. /\ TxReq("activate") \notin hs[d]
            /\ Open(d, "activate") + Latched(d, "activate") = 0
        BY <3>1, Names DEF Alone, AsksOnce
      <3>3. Queued(d, "activate") = 0
        <4>1. /\ Queued(d, "activate") \in Nat
              /\ Count(misc[d], ReqOf("activate")) \in Nat
              /\ Count(wire[d], ReqOf("activate")) \in Nat
              /\ Queued(d, "activate") + Count(misc[d], ReqOf("activate"))
                   + Count(wire[d], ReqOf("activate")) <= Open(d, "activate")
              /\ Latched(d, "activate") \in {0, 1}
          BY Names, OpenType, CountMessages
        <4>. QED
          BY <1>5, <3>2, <4>1
      <3>. QED
        BY <3>2, <3>3 DEF Asked
    <2>. QED
      BY <2>1, StartAfter DEF Alone
  <1>. HIDE DEF A, D, R, T, pA, pD
  <1>13. A' <= 1
    <2>1. PICK a \in Nat : a = A'
      BY <1>6
    <2>2. a <= A + pA
      BY <1>5, <1>6, <2>1
    <2>3. A <= 1
      BY <1>5
    <2>4. A + pA <= 1
      BY <1>5, <1>6, <1>8, <2>3
    <2>5. a <= 1
      BY <1>5, <1>6, <2>2, <2>4
    <2>. QED
      BY <2>1, <2>5
  <1>14. D' <= 1
    <2>1. PICK b \in Nat : b = D'
      BY <1>7
    <2>2. b <= D + pD
      BY <1>5, <1>7, <2>1
    <2>3. D <= 1
      BY <1>5
    <2>4. D + pD <= 1
      BY <1>5, <1>7, <1>9, <2>3
    <2>5. b <= 1
      BY <1>5, <1>7, <2>2, <2>4
    <2>. QED
      BY <2>1, <2>5
  <1>15. A' + D' <= 2
    <2>1. PICK a \in Nat, b \in Nat : a = A' /\ b = D'
      BY <1>6, <1>7
    <2>2. a <= 1 /\ b <= 1
      BY <1>13, <1>14, <2>1
    <2>3. a + b <= 2
      BY <2>2
    <2>. QED
      BY <2>1, <2>3
  <1>16. ASSUME MayAsk(d)'
         PROVE  /\ A' + Latched(d, "activate")'
                      <= IF Asked(d, "activate")' THEN 2 ELSE 1
                /\ D' = 0
                /\ "rx_deactivate_req" \in hs'[c] => Waits(c)'
    <2>1. Idle(d) /\ link[d]
      <3>1. "ACTIVATE_START" \in sfr[d] /\ "ACTIVATE_START" \notin AutoClear(d) /\ link[d]
        BY <1>1, <1>4, <1>16 DEF MayAsk
      <3>. QED
        BY <1>1, <3>1 DEF Steady, AutoClear, Bit, Idle, State
    <2>2. A' + Latched(d, "activate")' <= IF Asked(d, "activate")' THEN 2 ELSE 1
      <3>1. Latched(d, "activate")' = 0
        BY <1>3 DEF Latched
      <3>2. PICK a \in Nat : a = A'
        BY <1>6
      <3>3. a <= 1
        BY <1>13, <3>2
      <3>4. a + 0 <= 1 /\ a + 0 <= 2
        BY <3>3
      <3>. QED
        BY <3>1, <3>2, <3>4
    <2>3. D' = 0
      <3>1. Half(d) = "activate"
        BY <1>1, <2>1, HalfNames
      <3>2. Open(d, "deactivate") + Latched(d, "deactivate") = 0
        BY <3>1, Names DEF Alone, AsksOnce
      <3>3. Latched(d, "deactivate") \in {0, 1} /\ Open(d, "deactivate") \in Nat
        BY Names, OpenType
      <3>4. Open(d, "deactivate") = 0
        BY <3>2, <3>3
      <3>5. D = 0
        BY <3>4 DEF D
      <3>6. pD = 0
        BY <1>7, <1>9, <3>1
      <3>. QED
        BY <1>7, <3>5, <3>6
    <2>4. ASSUME "rx_deactivate_req" \in hs'[c] PROVE Waits(c)'
      <3>1. "rx_deactivate_req" \in hs[c]
        BY <1>1, <2>4 DEF Same
      <3>2. Healthy
        BY <1>1 DEF Healthy
      <3>3. PICK v \in [Die -> Seq(Item)], h \in Handshake : Agrees(v) /\ InStep(v, h)
        BY <3>2 DEF HandshakeInv, Coherent
      <3>4. v[c] = wire[c]
        BY <1>1, <2>1, <3>3 DEF Agrees
      <3>5. Half(d) = "activate"
        BY <1>1, <2>1, HalfNames
      <3>6. "rx_deactivate_req" \notin FlagOf("activate")
        BY DEF FlagOf, ActFlag
      <3>7. "tx_deactivate_req" \notin FlagOf("activate")
        BY DEF FlagOf, ActFlag
      <3>8. CASE h = "activate"
        <4>1. Here(v, c, "activate") \/ Behind(v, c, "deactivate")
          BY <1>1, <3>3, <3>8, Names DEF InStep
        <4>2. ~Here(v, c, "activate")
          BY <3>1, <3>6 DEF Here
        <4>3. /\ st[c] = "DEACTIVATE" /\ "tx_deactivate_req" \in hs[c]
              /\ actq[c] = <<>> /\ ~Holds(Line(v, c), Message)
          BY <4>1, <4>2, Names DEF Behind
        <4>4. ~Holds(wire[c], Message) /\ ~Holds(misc[c], Message)
          <5>1. wire[c] \in Seq(Item) /\ misc[c] \in Seq(Item)
            BY <1>1, <3>4, LineType DEF TypeOK
          <5>2. Line(v, c) = wire[c] \o misc[c]
            BY <3>4 DEF Line
          <5>. QED
            BY <4>3, <5>1, <5>2, ConcatHolds
        <4>5. ~Holds(actq[c], Message)
          BY <4>3, EmptyHolds
        <4>6. OnWay(c, Message) = 0
          BY <1>1, <4>4, <4>5, OnWayZero
        <4>7. OnWay(c, Message)' = 0
          <5>1. OnWay(c, Message)' = OnWay(c, Message) - One(m, Message)
            BY EdgeCounts
          <5>2. OnWay(c, Message)' \in Nat /\ One(m, Message) \in {0, 1}
            BY <1>1, CountsAfter, OneFacts
          <5>. QED
            BY <4>6, <5>1, <5>2
        <4>. QED
          BY <1>1, <4>3, <4>7 DEF Waits, Same
      <3>9. CASE h = "deactivate"
        <4>1. "tx_deactivate_req" \in hs[d]
          <5>1. Exchange(v, d, "deactivate")
            BY <3>3, <3>9 DEF InStep
          <5>. QED
            BY <3>1, <5>1, Names DEF Exchange
        <4>2. Here(v, d, "deactivate") \/ Behind(v, d, "activate")
          BY <3>3, <3>9, Names DEF InStep
        <4>3. ~Here(v, d, "deactivate")
          BY <3>5 DEF Here
        <4>4. hs[d] \subseteq FlagOf("activate")
          BY <4>2, <4>3 DEF Behind
        <4>. QED
          BY <3>7, <4>1, <4>4
      <3>. QED
        BY <3>8, <3>9 DEF Handshake
    <2>. QED
      BY <2>2, <2>3, <2>4
  <1>. QED
    BY <1>1, <1>3, <1>11, <1>12, <1>14, <1>15, <1>16 DEF AsksTwice, A, D

\* d has room for one more answer when m arrives.
LEMMA Room ==
    ASSUME TypeOK, TypeOK', NEW d \in Die, NEW m \in Message \cup {None},
           NEW pack \in BOOLEAN, NEW in \in Input, EdgeOf(d, m, pack, in),
           ~faulted'[d],
           ~faulted[Peer(d)] => Alone(Peer(d)),
           faulted[Peer(d)] /\ link[d] => Stuck(d) \/ AsksTwice(d)
    PROVE  /\ \A g \in Handshake : m \in ReqOf(g) => Owes(d, Acks) <= 1
           /\ m \in DeactReq => Owes(d, {"DeactivateAck"}) = 0
  <1>. DEFINE c == Peer(d)
              A == Open(c, "activate")
              D == Open(c, "deactivate")
              oA == Owes(d, {"ActivateAck"})
              oD == Owes(d, {"DeactivateAck"})
              wA == OnWay(c, {"ActivateReq"})
              wD == OnWay(c, DeactReq)
  <1>1. c \in Die /\ Peer(c) = d
    BY PeerFacts
  <1>2. SUFFICES ASSUME m = "ActivateReq" \/ m \in DeactReq
                 PROVE  /\ Owes(d, Acks) <= 1
                        /\ m \in DeactReq => oD = 0
    BY Names DEF Handshake
  <1>3. m # None /\ link[d] /\ in.msg = m
    BY <1>2 DEF None, DeactReq, EdgeOf, EdgeEffect
  <1>4. LinkUp
    BY <1>3 DEF LinkUp
  <1>5. /\ Owes(d, Acks) = oA + oD /\ oA \in Nat /\ oD \in Nat
        /\ wA \in Nat /\ wD \in Nat
        /\ oA + wA <= A /\ oD + wD <= D
    BY <1>4, OwesOpen
  <1>6. m = "ActivateReq" => wA # 0
    <2>1. {"ActivateReq"} \in SUBSET Message
      BY DEF Message
    <2>. QED
      BY <2>1, DecodedCounts
  <1>7. m \in DeactReq => wD # 0
    <2>1. DeactReq \in SUBSET Message
      BY DEF Message
    <2>. QED
      BY <2>1, DecodedCounts
  <1>8. A \in Nat /\ D \in Nat
    BY <1>1, Names, OpenType
  <1>9. "ActivateReq" \notin DeactReq
    BY DEF DeactReq
  <1>10. CASE ~faulted[c]
    <2>1. AsksOnce(c)
      BY <1>10 DEF Alone
    <2>2. A + D <= 1
      BY <1>1, <2>1, Names, OneReq
    <2>. HIDE DEF A, D, oA, oD, wA, wD
    <2>3. oA + oD <= 1 /\ (m \in DeactReq => oD = 0)
      <3>1. CASE m = "ActivateReq"
        BY <1>5, <1>6, <1>8, <1>9, <2>2, <3>1
      <3>2. CASE m \in DeactReq
        BY <1>5, <1>7, <1>8, <2>2, <3>2
      <3>. QED
        BY <1>2, <3>1, <3>2
    <2>. QED
      BY <1>5, <2>3
  <1>11. CASE faulted[c] /\ AsksTwice(d)
    <2>1. D <= 1 /\ A + D <= 2
      BY <1>11 DEF AsksTwice
    <2>. HIDE DEF A, D, oA, oD, wA, wD
    <2>2. oA + oD <= 1 /\ (m \in DeactReq => oD = 0)
      <3>1. CASE m = "ActivateReq"
        BY <1>5, <1>6, <1>8, <1>9, <2>1, <3>1
      <3>2. CASE m \in DeactReq
        BY <1>5, <1>7, <1>8, <2>1, <3>2
      <3>. QED
        BY <1>2, <3>1, <3>2
    <2>. QED
      BY <1>5, <2>2
  <1>12. CASE faulted[c] /\ Stuck(d)
    <2>1. m \notin DeactReq
      BY <1>7, <1>12 DEF Stuck
    <2>2. m # "ActivateReq"
      <3>. SUFFICES ASSUME m = "ActivateReq" PROVE FALSE
        OBVIOUS
      <3>1. LinkError(d, in)
        BY <1>3, <1>12 DEF Stuck, LinkError, InvalidActmsg
      <3>. QED
        BY <3>1, NoErrorEdge
    <2>. QED
      BY <1>2, <2>1, <2>2
  <1>. QED
    BY <1>3, <1>10, <1>11, <1>12

LEMMA EdgeAnswers ==
    ASSUME TypeOK, TypeOK', HandshakeInv, AnswersInv, NEW d \in Die,
           NEW m \in Message \cup {None}, NEW pack \in BOOLEAN, NEW in \in Input,
           EdgeOf(d, m, pack, in)
    PROVE  AnswersInv'
  <1>. DEFINE c == Peer(d)
  <1>1. /\ c \in Die /\ Peer(c) = d /\ Same(c) /\ link' = link
        /\ \A a \in Die : a = d \/ a = c
    BY PeerFacts, PeerSame
  <1>2. /\ Steady(d) /\ Steady(c)
        /\ ~faulted[d] => Alone(d)
        /\ ~faulted[c] => Alone(c)
    BY <1>1 DEF AnswersInv, Steady
  <1>3. /\ ~faulted[d] /\ faulted[c] /\ link[d] => Stuck(d) \/ AsksTwice(d)
        /\ ~faulted[c] /\ faulted[d] /\ link[c] => Stuck(c) \/ AsksTwice(c)
    BY <1>1 DEF AnswersInv
  <1>4. ~faulted'[d] => ~faulted[d]
    BY NoErrorEdge
  <1>5. faulted'[c] = faulted[c]
    BY <1>1 DEF Same
  <1>6. Steady(d)' /\ Steady(c)'
    <2>1. Steady(d)'
      BY <1>2, SteadyOwn
    <2>2. Steady(c)'
      BY <1>1, <1>2 DEF Steady, Same, Idle
    <2>. QED
      BY <2>1, <2>2
  <1>7. ASSUME ~faulted'[d] PROVE Alone(d)'
    <2>1. /\ \A g \in Handshake : m \in ReqOf(g) => Owes(d, Acks) <= 1
          /\ m \in DeactReq => Owes(d, {"DeactivateAck"}) = 0
      BY <1>2, <1>3, <1>4, <1>7, Room
    <2>. QED
      BY <1>2, <1>4, <1>7, <2>1, OwnAlone
  <1>8. ASSUME ~faulted'[c] PROVE Alone(c)'
    BY <1>2, <1>5, <1>8, AlonePeer
  <1>9. ASSUME ~faulted'[d], faulted'[c], link'[d] PROVE Stuck(d)' \/ AsksTwice(d)'
    <2>1. Stuck(d) \/ AsksTwice(d)
      BY <1>1, <1>3, <1>4, <1>5, <1>9
    <2>. QED
      BY <1>1, <1>9, <2>1, StuckOwn, AsksTwiceOwn
  <1>10. ASSUME ~faulted'[c], faulted'[d], link'[c] PROVE Stuck(c)' \/ AsksTwice(c)'
    <2>1. Alone(c) /\ link[c] /\ ~faulted[c]
      BY <1>1, <1>2, <1>5, <1>10
    <2>2. CASE faulted[d]
      <3>1. Stuck(c) \/ AsksTwice(c)
        BY <1>3, <2>1, <2>2
      <3>2. Stuck(c) => Stuck(c)'
        BY <2>1, StuckPeer
      <3>3. AsksTwice(c) => Stuck(c)' \/ AsksTwice(c)'
        BY <1>2, <2>1, <2>2, AsksTwicePeer
      <3>. QED
        BY <3>1, <3>2, <3>3
    <2>3. CASE ~faulted[d]
      BY <1>2, <1>10, <2>1, <2>3, PairEntry
    <2>. QED
      BY <2>2, <2>3
  <1>11. ASSUME NEW a \in Die
         PROVE  /\ Steady(a)' /\ (~faulted'[a] => Alone(a)')
                /\ ~faulted'[a] /\ faulted'[Peer(a)] /\ link'[a]
                      => Stuck(a)' \/ AsksTwice(a)'
    BY <1>1, <1>6, <1>7, <1>8, <1>9, <1>10
  <1>. QED
    BY <1>11 DEF AnswersInv, Steady

-----------------------------------------------------------------------------
(* The other steps.                                                        *)

\* A step that moves no activation message except to lose it, and leaves the
\* start bits a die still needs.
Keeps ==
    /\ UNCHANGED <<st, hs, reg, actq, misc, gap, faulted>>
    /\ \A a \in Die : link'[a] => link[a]
    /\ \A a \in Die :
          /\ "ACTIVATE_START" \in sfr'[a] =>
                "ACTIVATE_START" \in sfr[a] \/ (Idle(a) /\ ~faulted[a])
          /\ Idle(a) /\ "ACTIVATE_START" \in sfr[a] => "ACTIVATE_START" \in sfr'[a]
    /\ \A a \in Die : \A S \in SUBSET Message : Count(wire'[a], S) <= Count(wire[a], S)

LEMMA KeepsCounts ==
    ASSUME TypeOK, TypeOK', Keeps, NEW d \in Die
    PROVE  /\ \A S \in SUBSET Message :
                 /\ OnWay(d, S)' \in Nat /\ OnWay(d, S) \in Nat
                 /\ OnWay(d, S)' <= OnWay(d, S)
           /\ \A h \in Handshake :
                 Open(d, h)' \in Nat /\ Open(d, h) \in Nat /\ Open(d, h)' <= Open(d, h)
  <1>. DEFINE e == Peer(d)
  <1>1. e \in Die
    BY PeerFacts
  <1>2. ASSUME NEW a \in Die, NEW S \in SUBSET Message
        PROVE  /\ OnWay(a, S)' \in Nat /\ OnWay(a, S) \in Nat
               /\ OnWay(a, S)' <= OnWay(a, S)
    <2>1. /\ Count(wire[a], S) \in Nat /\ Count(misc[a], S) \in Nat
          /\ Count(actq[a], S) \in Nat /\ OnWay(a, S) \in Nat
          /\ OnWay(a, S) = Count(wire[a], S) + Count(misc[a], S) + Count(actq[a], S)
      BY CountMessages
    <2>2. OnWay(a, S)' = Count(wire'[a], S) + Count(misc[a], S) + Count(actq[a], S)
      BY DEF OnWay, Keeps
    <2>3. Count(wire'[a], S) \in Nat /\ Count(wire'[a], S) <= Count(wire[a], S)
      <3>1. wire'[a] \in Seq(Message \cup Kind)
        BY DEF TypeOK
      <3>. QED
        BY <3>1, CountType DEF Keeps
    <2>. QED
      BY <2>1, <2>2, <2>3
  <1>3. ASSUME NEW h \in Handshake
        PROVE  Open(d, h)' \in Nat /\ Open(d, h) \in Nat /\ Open(d, h)' <= Open(d, h)
    <2>1. PICK R \in SUBSET Message, K \in SUBSET Message : R = ReqOf(h) /\ K = {AckOf(h)}
      BY MessageFacts
    <2>2. /\ OnWay(d, R)' \in Nat /\ OnWay(d, R) \in Nat /\ OnWay(d, R)' <= OnWay(d, R)
          /\ OnWay(e, K)' \in Nat /\ OnWay(e, K) \in Nat /\ OnWay(e, K)' <= OnWay(e, K)
      BY <1>1, <1>2
    <2>3. LinkUp' => LinkUp
      BY DEF LinkUp, Keeps
    <2>4. /\ Open(d, h) = OnWay(d, R) + (IF LinkUp THEN OnWay(e, K) ELSE 0)
          /\ Open(d, h)' = OnWay(d, R)' + (IF LinkUp' THEN OnWay(e, K)' ELSE 0)
      BY <2>1 DEF Open
    <2>. QED
      BY <2>2, <2>3, <2>4
  <1>. QED
    BY <1>2, <1>3

LEMMA KeepsAlone ==
    ASSUME TypeOK, TypeOK', Keeps, NEW d \in Die, Alone(d)
    PROVE  Alone(d)'
  <1>1. /\ st'[d] = st[d] /\ hs'[d] = hs[d] /\ reg'[d] = reg[d]
        /\ actq'[d] = actq[d] /\ misc'[d] = misc[d] /\ gap'[d] = gap[d]
    BY DEF Keeps
  <1>2. AsksOnce(d)'
    <2>1. ASSUME NEW h \in Handshake
          PROVE  /\ Open(d, h)' + Latched(d, h)' <= 1
                 /\ ReqFirst(d, h)'
                 /\ Half(d)' # h => TxReq(h) \notin hs'[d]
                 /\ Half(d)' # h \/ ~Asked(d, h)' => Open(d, h)' + Latched(d, h)' = 0
      <3>1. /\ Open(d, h) + Latched(d, h) <= 1 /\ ReqFirst(d, h)
            /\ Half(d) # h => TxReq(h) \notin hs[d]
            /\ Half(d) # h \/ ~Asked(d, h) => Open(d, h) + Latched(d, h) = 0
        BY DEF Alone, AsksOnce
      <3>2. /\ Latched(d, h)' = Latched(d, h) /\ Half(d)' = Half(d)
            /\ Queued(d, h)' = Queued(d, h) /\ Asked(d, h)' = Asked(d, h)
        BY <1>1 DEF Latched, Half, Idle, Queued, Asked
      <3>3. ReqFirst(d, h)'
        BY <1>1, <3>1, <3>2 DEF ReqFirst
      <3>4. /\ Open(d, h)' \in Nat /\ Open(d, h)' <= Open(d, h)
            /\ Open(d, h) \in Nat /\ Latched(d, h) \in {0, 1}
        BY OpenType, KeepsCounts
      <3>5. Open(d, h)' + Latched(d, h)' <= 1
        BY <3>1, <3>2, <3>4
      <3>6. Half(d)' # h \/ ~Asked(d, h)' => Open(d, h)' + Latched(d, h)' = 0
        BY <3>1, <3>2, <3>4
      <3>7. Half(d)' # h => TxReq(h) \notin hs'[d]
        BY <1>1, <3>1, <3>2
      <3>. QED
        BY <3>3, <3>5, <3>6, <3>7
    <2>. QED
      BY <2>1 DEF AsksOnce
  <1>3. AnswersFit(d)'
    BY <1>1 DEF Alone, AnswersFit, Owes, Queued
  <1>4. AcksLeaveFirst(d)'
    BY <1>1 DEF Alone, AcksLeaveFirst, Owes, Queued, Asked, Idle, Session
  <1>5. StartKept(d)'
    <2>1. Idle(d)' = Idle(d) /\ Asked(d, "activate")' = Asked(d, "activate")
      BY <1>1 DEF Idle, Asked, Queued
    <2>. QED
      BY <2>1 DEF Alone, StartKept, Keeps
  <1>6. Unstarted(d)'
    BY <1>1 DEF Alone, Unstarted, Queued
  <1>. QED
    BY <1>2, <1>3, <1>4, <1>5, <1>6 DEF Alone

LEMMA KeepsPair ==
    ASSUME TypeOK, TypeOK', Keeps, NEW d \in Die, faulted[Peer(d)],
           Stuck(d) \/ AsksTwice(d)
    PROVE  Stuck(d)' \/ AsksTwice(d)'
  <1>. DEFINE e == Peer(d)
              A == Open(e, "activate")
              D == Open(e, "deactivate")
              L == Latched(e, "activate")
  <1>1. /\ e \in Die
        /\ st'[d] = st[d] /\ hs'[d] = hs[d]
        /\ st'[e] = st[e] /\ hs'[e] = hs[e] /\ actq'[e] = actq[e]
    BY PeerFacts DEF Keeps
  <1>2. /\ A' \in Nat /\ A \in Nat /\ A' <= A
        /\ D' \in Nat /\ D \in Nat /\ D' <= D
    BY <1>1, Names, KeepsCounts
  <1>3. /\ L' = L /\ L \in {0, 1}
        /\ Idle(e)' = Idle(e) /\ Session(e)' = Session(e) /\ Session(d)' = Session(d)
        /\ \A h \in Handshake : /\ Queued(e, h)' = Queued(e, h)
                                /\ Asked(e, h)' = Asked(e, h)
                                /\ ReqFirst(e, h)' = ReqFirst(e, h)
    BY <1>1 DEF Latched, Idle, Session, Queued, Asked, ReqFirst
  <1>4. ASSUME NEW a \in Die, NEW S \in SUBSET Message, OnWay(a, S) = 0
        PROVE  OnWay(a, S)' = 0
    <2>1. OnWay(a, S)' \in Nat /\ OnWay(a, S)' <= OnWay(a, S)
      BY KeepsCounts
    <2>. QED
      BY <1>4, <2>1
  <1>5. CASE Stuck(d)
    <2>1. DeactReq \in SUBSET Message
      BY DEF Message
    <2>2. OnWay(e, DeactReq)' = 0
      BY <1>1, <1>4, <1>5, <2>1 DEF Stuck
    <2>. QED
      BY <1>1, <1>3, <1>5, <2>2 DEF Stuck
  <1>6. CASE AsksTwice(d)
    <2>1. /\ D <= 1 /\ A + D <= 2
          /\ MayAsk(e) =>
                /\ ReqFirst(e, "activate")
                /\ A + L <= IF Asked(e, "activate") THEN 2 ELSE 1
                /\ D = 0
                /\ "rx_deactivate_req" \in hs[d] => Waits(d)
          /\ Session(e) =>
                /\ ReqFirst(e, "deactivate") /\ ~Asked(e, "activate") /\ A <= 1
                /\ ~Asked(e, "deactivate") => D = 0
          /\ StartKept(e)
      BY <1>6 DEF AsksTwice
    <2>2. MayAsk(e)' => MayAsk(e)
      BY <1>1, <1>3 DEF MayAsk, Keeps
    <2>3. Waits(d) => Waits(d)'
      <3>1. OnWay(d, Message) = 0 => OnWay(d, Message)' = 0
        BY <1>4
      <3>. QED
        BY <1>1, <3>1 DEF Waits
    <2>4. StartKept(e)'
      BY <1>1, <1>3, <2>1, Names DEF StartKept, Keeps
    <2>. HIDE DEF A, D, L
    <2>5. D' <= 1 /\ A' + D' <= 2
      <3>1. PICK a \in Nat, b \in Nat : a = A' /\ b = D'
        BY <1>2
      <3>2. a <= A /\ b <= D
        BY <1>2, <3>1
      <3>3. b <= 1 /\ a + b <= 2
        BY <1>2, <2>1, <3>2
      <3>. QED
        BY <3>1, <3>3
    <2>6. A <= 1 => A' <= 1
      BY <1>2
    <2>7. D = 0 => D' = 0
      BY <1>2
    <2>8. MayAsk(e) => A' + L' <= IF Asked(e, "activate")' THEN 2 ELSE 1
      <3>. SUFFICES ASSUME MayAsk(e)
                    PROVE  A' + L' <= IF Asked(e, "activate")' THEN 2 ELSE 1
        OBVIOUS
      <3>1. Asked(e, "activate")' = Asked(e, "activate")
        BY <1>3, Names
      <3>2. PICK k \in Nat : k = IF Asked(e, "activate") THEN 2 ELSE 1
        OBVIOUS
      <3>3. A + L <= k
        BY <2>1, <3>2
      <3>4. A' + L' <= k
        <4>1. PICK a \in Nat : a = A'
          BY <1>2
        <4>2. a <= A /\ L \in Nat
          BY <1>2, <1>3, <4>1
        <4>3. a + L <= k
          BY <1>2, <3>3, <4>2
        <4>. QED
          BY <1>3, <4>1, <4>3
      <3>. QED
        BY <3>1, <3>2, <3>4
    <2>9. MayAsk(e)' =>
             /\ ReqFirst(e, "activate")'
             /\ A' + L' <= IF Asked(e, "activate")' THEN 2 ELSE 1
             /\ D' = 0
             /\ "rx_deactivate_req" \in hs'[d] => Waits(d)'
      BY <1>1, <1>3, <2>1, <2>2, <2>3, <2>7, <2>8, Names
    <2>10. Session(e)' =>
             /\ ReqFirst(e, "deactivate")' /\ ~Asked(e, "activate")' /\ A' <= 1
             /\ ~Asked(e, "deactivate")' => D' = 0
      BY <1>3, <2>1, <2>6, <2>7, Names
    <2>11. AsksTwice(d)'
      BY <2>4, <2>5, <2>9, <2>10 DEF AsksTwice, A, D, L
    <2>. QED
      BY <2>11
  <1>. QED
    BY <1>5, <1>6

LEMMA KeepsAnswers ==
    ASSUME TypeOK, TypeOK', AnswersInv, Keeps
    PROVE  AnswersInv'
  <1>1. ASSUME NEW d \in Die
        PROVE  /\ st'[d] = "DEACTIVATE" => "ACTIVATE_START" \notin sfr'[d]
               /\ "ucie_init_done" \notin reg'[d] => Idle(d)' /\ "rx_activate_req" \notin hs'[d]
    <2>1. st[d] = "DEACTIVATE" => "ACTIVATE_START" \notin sfr[d] /\ ~Idle(d)
      BY DEF AnswersInv, Idle
    <2>2. st'[d] = "DEACTIVATE" => "ACTIVATE_START" \notin sfr'[d]
      BY <2>1 DEF Keeps
    <2>3. "ucie_init_done" \notin reg'[d] => Idle(d)' /\ "rx_activate_req" \notin hs'[d]
      BY DEF Keeps, AnswersInv, Idle
    <2>. QED
      BY <2>2, <2>3
  <1>2. ASSUME NEW d \in Die, ~faulted'[d] PROVE Alone(d)'
    <2>1. Alone(d)
      BY <1>2 DEF Keeps, AnswersInv
    <2>. QED
      BY <2>1, KeepsAlone
  <1>3. ASSUME NEW d \in Die, ~faulted'[d], faulted'[Peer(d)], link'[d]
        PROVE  Stuck(d)' \/ AsksTwice(d)'
    <2>1. ~faulted[d] /\ faulted[Peer(d)] /\ link[d]
      BY <1>3 DEF Keeps
    <2>2. Stuck(d) \/ AsksTwice(d)
      BY <2>1 DEF AnswersInv
    <2>. QED
      BY <2>1, <2>2, KeepsPair
  <1>. QED
    BY <1>1, <1>2, <1>3 DEF AnswersInv

-----------------------------------------------------------------------------
(* A reset, and the start of a link.                                       *)

\* Nothing of a session at d, and no answer for it on its way.
Fresh(d) ==
    /\ st[d] = "DISABLED" /\ hs[d] = {}
    /\ actq[d] = <<>> /\ misc[d] = <<>> /\ wire[d] = <<>>
    /\ LinkUp => /\ actq[Peer(d)] = <<>> /\ misc[Peer(d)] = <<>>
                 /\ wire[Peer(d)] = <<>>

LEMMA FreshAlone == \A d \in Die : Fresh(d) => Alone(d)
  <1>. SUFFICES ASSUME NEW d \in Die, Fresh(d) PROVE Alone(d)
    OBVIOUS
  <1>1. \A S : /\ Count(actq[d], S) = 0 /\ Count(misc[d], S) = 0
               /\ Count(wire[d], S) = 0
               /\ OnWay(d, S) = 0 /\ Owes(d, S) = 0
    BY CountEmpty DEF Fresh, OnWay, Owes
  <1>2. LinkUp => \A S : OnWay(Peer(d), S) = 0
    BY CountEmpty DEF Fresh, OnWay
  <1>3. ASSUME NEW h \in Handshake
        PROVE  /\ Open(d, h) = 0 /\ Latched(d, h) = 0 /\ Queued(d, h) = 0
               /\ ~Asked(d, h) /\ TxReq(h) \notin hs[d]
    BY <1>1, <1>2 DEF Open, Latched, Queued, Asked, Fresh
  <1>4. AsksOnce(d)
    BY <1>3 DEF AsksOnce, ReqFirst
  <1>5. AnswersFit(d)
    BY <1>1 DEF AnswersFit
  <1>6. AcksLeaveFirst(d)
    BY <1>1 DEF AcksLeaveFirst, Fresh, Session
  <1>7. StartKept(d)
    BY <1>3, Names DEF StartKept
  <1>8. Unstarted(d)
    BY <1>3, Names DEF Unstarted, Fresh
  <1>. QED
    BY <1>4, <1>5, <1>6, <1>7, <1>8 DEF Alone

LEMMA FreshAloneNext == \A d \in Die : Fresh(d)' => Alone(d)'
  <1>1. (\A d \in Die : Fresh(d) => Alone(d))'
    BY FreshAlone, PTL
  <1>. QED
    BY <1>1

LEMMA ResetAnswers ==
    ASSUME TypeOK, TypeOK', HandshakeInv, AnswersInv, NEW d \in Die, SwReset(d)
    PROVE  AnswersInv'
  <1>. DEFINE c == Peer(d)
  <1>1. /\ c \in Die /\ c # d /\ Peer(c) = d
        /\ \A a \in Die : a = d \/ a = c
    BY PeerFacts
  <1>2. /\ st'[d] = "DISABLED" /\ hs'[d] = {} /\ actq'[d] = <<>>
        /\ misc'[d] = <<>> /\ wire'[d] = <<>> /\ sfr'[d] = {}
    BY DEF SwReset, CtrlReset, TypeOK, CtrlTypeOK
  <1>3. Same(c) /\ wire'[c] = wire[c]
    BY <1>1 DEF SwReset, CtrlReset, Same, TypeOK, CtrlTypeOK
  <1>4. ~LinkUp /\ ~LinkUp' /\ \A a \in Die : ~link'[a]
    BY DEF SwReset, LinkUp
  <1>5. Alone(d)'
    <2>1. Fresh(d)'
      BY <1>2, <1>4 DEF Fresh
    <2>. QED
      BY <2>1, FreshAloneNext
  <1>6. ASSUME ~faulted'[c] PROVE Alone(c)'
    <2>1. Alone(c)
      BY <1>1, <1>3, <1>6 DEF AnswersInv, Same
    <2>2. ASSUME NEW h \in Handshake
          PROVE  Open(c, h)' \in Nat /\ Open(c, h)' <= Open(c, h)
      <3>1. Open(c, h)' = Open(c, h)
        BY <1>3, <1>4 DEF Open, OnWay, Same
      <3>2. Open(c, h) \in Nat
        BY <1>1, OpenType
      <3>. QED
        BY <3>1, <3>2
    <2>. QED
      BY <1>1, <1>3, <2>1, <2>2, AloneStays
  <1>7. /\ st'[c] = "DEACTIVATE" => "ACTIVATE_START" \notin sfr'[c]
        /\ "ucie_init_done" \notin reg'[c] => Idle(c)' /\ "rx_activate_req" \notin hs'[c]
    BY <1>1, <1>3 DEF AnswersInv, Same, Idle
  <1>8. /\ st'[d] = "DEACTIVATE" => "ACTIVATE_START" \notin sfr'[d]
        /\ "ucie_init_done" \notin reg'[d] => Idle(d)' /\ "rx_activate_req" \notin hs'[d]
    BY <1>2 DEF Idle
  <1>9. ASSUME NEW a \in Die
        PROVE  /\ st'[a] = "DEACTIVATE" => "ACTIVATE_START" \notin sfr'[a]
               /\ "ucie_init_done" \notin reg'[a] =>
                     Idle(a)' /\ "rx_activate_req" \notin hs'[a]
               /\ ~faulted'[a] => Alone(a)'
    BY <1>1, <1>5, <1>6, <1>7, <1>8
  <1>. QED
    BY <1>4, <1>9 DEF AnswersInv

LEMMA RestartAnswers ==
    ASSUME TypeOK, LinkRestart
    PROVE  AnswersInv'
  <1>1. \A d \in Die : /\ st'[d] = "DISABLED" /\ hs'[d] = {} /\ actq'[d] = <<>>
                       /\ misc'[d] = <<>> /\ wire'[d] = <<>> /\ ~faulted'[d]
    BY DEF LinkRestart, Clean, ctrlVars
  <1>2. \A d \in Die : Fresh(d)'
    BY <1>1, PeerFacts DEF Fresh
  <1>3. \A d \in Die : Alone(d)'
    BY <1>2, FreshAloneNext
  <1>4. \A d \in Die :
           /\ st'[d] = "DEACTIVATE" => "ACTIVATE_START" \notin sfr'[d]
           /\ "ucie_init_done" \notin reg'[d] => Idle(d)' /\ "rx_activate_req" \notin hs'[d]
    BY <1>1 DEF Idle
  <1>. QED
    BY <1>1, <1>3, <1>4, PeerFacts DEF AnswersInv

LEMMA InitAnswers == Init => AnswersInv
  <1>. SUFFICES ASSUME Init PROVE AnswersInv
    OBVIOUS
  <1>1. \A d \in Die : /\ st[d] = "DISABLED" /\ hs[d] = {} /\ actq[d] = <<>>
                       /\ misc[d] = <<>> /\ wire[d] = <<>> /\ ~faulted[d]
    BY DEF Init, CtrlInit
  <1>2. \A d \in Die : Fresh(d)
    BY <1>1, PeerFacts DEF Fresh
  <1>3. \A d \in Die : Alone(d)
    BY <1>2, FreshAlone
  <1>4. \A d \in Die :
           /\ st[d] = "DEACTIVATE" => "ACTIVATE_START" \notin sfr[d]
           /\ "ucie_init_done" \notin reg[d] => Idle(d) /\ "rx_activate_req" \notin hs[d]
    BY <1>1 DEF Idle
  <1>. QED
    BY <1>1, <1>3, <1>4, PeerFacts DEF AnswersInv

LEMMA DataKeeps ==
    ASSUME TypeOK, NEW d \in Die, SendData(d) \/ RecvData(d) \/ DrainData(d)
    PROVE  Keeps
  <1>1. /\ UNCHANGED <<st, hs, reg, actq, misc, gap, faulted>>
        /\ sfr' = sfr /\ link' = link
    BY DEF SendData, RecvData, DrainData, ctrlVars
  <1>2. ASSUME NEW a \in Die, NEW S \in SUBSET Message
        PROVE  Count(wire'[a], S) <= Count(wire[a], S)
    <2>1. /\ wire[a] \in Seq(Message \cup Kind) /\ Count(wire[a], S) \in Nat
          /\ wire \in [Die -> Seq(Message \cup Kind)]
      BY CountType DEF TypeOK
    <2>2. CASE wire'[a] = wire[a]
      BY <2>1, <2>2
    <2>3. ASSUME NEW kind \in Kind, wire'[a] = Append(wire[a], kind)
          PROVE  Count(wire'[a], S) <= Count(wire[a], S)
      <3>1. One(kind, S) = 0
        BY ItemFacts DEF One
      <3>2. Count(wire'[a], S) = Count(wire[a], S) + One(kind, S)
        BY <2>1, <2>3, CountAppend
      <3>. QED
        BY <2>1, <3>1, <3>2
    <2>4. ASSUME wire[a] # <<>>, wire'[a] = Tail(wire[a])
          PROVE  Count(wire'[a], S) <= Count(wire[a], S)
      <3>1. /\ Count(wire[a], S) = One(Head(wire[a]), S) + Count(wire'[a], S)
            /\ One(Head(wire[a]), S) \in Nat
        BY <2>1, <2>4, CountTail, OneFacts
      <3>2. Tail(wire[a]) \in Seq(Message \cup Kind)
        BY <2>1, <2>4
      <3>3. Count(wire'[a], S) \in Nat
        BY <2>4, <3>2, CountType
      <3>. QED
        BY <3>1, <3>3
    <2>5. CASE SendData(d)
      <3>1. PICK kind \in Kind :
               wire' = wire \/ wire' = [wire EXCEPT ![d] = Append(@, kind)]
        BY <2>5 DEF SendData, CreditedEn, Bit, Kind
      <3>. QED
        BY <2>1, <2>2, <2>3, <3>1
    <2>6. CASE RecvData(d)
      <3>1. wire[Peer(d)] # <<>> /\ wire' = [wire EXCEPT ![Peer(d)] = Tail(@)]
        BY <2>6 DEF RecvData
      <3>. QED
        BY <2>1, <2>2, <2>4, <3>1
    <2>7. CASE DrainData(d)
      BY <2>2, <2>7 DEF DrainData
    <2>. QED
      BY <2>5, <2>6, <2>7
  <1>. QED
    BY <1>1, <1>2 DEF Keeps

LEMMA SameWire ==
    ASSUME TypeOK, wire' = wire
    PROVE  \A a \in Die : \A S \in SUBSET Message : Count(wire'[a], S) <= Count(wire[a], S)
  <1>1. ASSUME NEW a \in Die, NEW S \in SUBSET Message PROVE Count(wire[a], S) \in Nat
    BY CountType DEF TypeOK
  <1>. QED
    BY <1>1

LEMMA WriteKeeps ==
    ASSUME TypeOK, NEW d \in Die,
           \/ WriteActivateStart(d) \/ WriteDeactivateStart(d) \/ WriteDeactivateForce(d)
    PROVE  Keeps
  <1>1. /\ UNCHANGED <<st, hs, reg, actq, misc, gap, faulted>>
        /\ wire' = wire /\ link' = link
        /\ \A a \in Die \ {d} : sfr'[a] = sfr[a]
    BY DEF WriteActivateStart, WriteDeactivateStart, WriteDeactivateForce, WriteInit,
           ctrlVars, TypeOK
  <1>2. /\ "ACTIVATE_START" \in sfr'[d] =>
              "ACTIVATE_START" \in sfr[d] \/ (Idle(d) /\ ~faulted[d])
        /\ Idle(d) /\ "ACTIVATE_START" \in sfr[d] => "ACTIVATE_START" \in sfr'[d]
    <2>1. sfr \in [Die -> SUBSET Field] /\ st[d] \in State
      BY DEF TypeOK, CtrlTypeOK
    <2>2. CASE WriteActivateStart(d)
      BY <2>1, <2>2 DEF WriteActivateStart, WriteInit
    <2>3. CASE WriteDeactivateStart(d)
      <3>1. ~Idle(d)
        BY <2>3 DEF WriteDeactivateStart, Session, Idle
      <3>2. sfr'[d] = (sfr[d] \cap {"DEACTIVATE_FORCE"}) \cup {"DEACTIVATE_START"}
        BY <2>1, <2>3 DEF WriteDeactivateStart, WriteInit
      <3>. QED
        BY <3>1, <3>2
    <2>4. CASE WriteDeactivateForce(d)
      <3>1. sfr'[d] = sfr[d] \cup {"DEACTIVATE_FORCE"}
        BY <2>1, <2>4 DEF WriteDeactivateForce
      <3>. QED
        BY <3>1
    <2>. QED
      BY <2>2, <2>3, <2>4
  <1>3. ASSUME NEW a \in Die
        PROVE  /\ "ACTIVATE_START" \in sfr'[a] =>
                     "ACTIVATE_START" \in sfr[a] \/ (Idle(a) /\ ~faulted[a])
               /\ Idle(a) /\ "ACTIVATE_START" \in sfr[a] => "ACTIVATE_START" \in sfr'[a]
    BY <1>1, <1>2
  <1>. QED
    BY <1>1, <1>3, SameWire DEF Keeps

LEMMA LinkKeeps ==
    ASSUME TypeOK, (\E d \in Die : LinkFall(d)) \/ LinkDisable
    PROVE  Keeps
  <1>1. /\ UNCHANGED <<st, hs, reg, actq, misc, gap, faulted, sfr>>
        /\ \A a \in Die : link'[a] => link[a]
    BY DEF LinkFall, LinkDisable, ctrlVars, TypeOK
  <1>2. ASSUME NEW a \in Die, NEW S \in SUBSET Message
        PROVE  Count(wire'[a], S) <= Count(wire[a], S)
    <2>1. wire'[a] = wire[a] \/ wire'[a] = <<>>
      BY DEF LinkFall, LinkDisable, TypeOK
    <2>2. Count(wire[a], S) \in Nat
      BY CountType DEF TypeOK
    <2>3. Count(<<>>, S) = 0
      BY CountEmpty
    <2>. QED
      BY <2>1, <2>2, <2>3
  <1>. QED
    BY <1>1, <1>2 DEF Keeps

LEMMA NextAnswers ==
    ASSUME TypeOK, TypeOK', HandshakeInv, AnswersInv, [Next]_vars
    PROVE  AnswersInv'
  <1>1. ASSUME NEW d \in Die, Clock(d) \/ Pack(d) \/ Decode(d) PROVE AnswersInv'
    BY <1>1, EdgeIsEdgeOf, EdgeAnswers
  <1>2. ASSUME NEW d \in Die, SendData(d) \/ RecvData(d) \/ DrainData(d)
        PROVE  AnswersInv'
    BY <1>2, DataKeeps, KeepsAnswers
  <1>3. ASSUME NEW d \in Die,
               WriteActivateStart(d) \/ WriteDeactivateStart(d) \/ WriteDeactivateForce(d)
        PROVE  AnswersInv'
    BY <1>3, WriteKeeps, KeepsAnswers
  <1>4. CASE (\E d \in Die : LinkFall(d)) \/ LinkDisable
    BY <1>4, LinkKeeps, KeepsAnswers
  <1>5. ASSUME NEW d \in Die, SwReset(d) PROVE AnswersInv'
    BY <1>5, ResetAnswers
  <1>6. CASE LinkRestart
    BY <1>6, RestartAnswers
  <1>7. CASE UNCHANGED vars
    <2>1. Keeps
      BY <1>7, SameWire DEF Keeps, vars, ctrlVars, linkVars
    <2>. QED
      BY <2>1, KeepsAnswers
  <1>. QED
    BY <1>1, <1>2, <1>3, <1>4, <1>5, <1>6, <1>7 DEF Next

\* A die asks once and owes two answers at most, an error of its peer
\* included: the invariant behind the next two theorems.
THEOREM AnswersCorrect == Spec => []AnswersInv
  <1>. DEFINE I == TypeOK /\ HandshakeInv /\ AnswersInv
  <1>1. Init => I
    BY InitType, InitHandshake, InitAnswers
  <1>2. I /\ [Next]_vars => I'
    BY NextType, NextHandshake, NextAnswers
  <1>3. I => AnswersInv
    OBVIOUS
  <1>. QED
    BY <1>1, <1>2, <1>3, PTL DEF Spec

-----------------------------------------------------------------------------
(* What follows from it.                                                   *)

\* The activation FIFO of a die without an error holds two messages at most.
LEMMA RoomForTwo ==
    ASSUME TypeOK, NEW d \in Die, Alone(d)
    PROVE  ActFifoReady(d)
  <1>1. /\ Queued(d, "activate") + Queued(d, "deactivate")
             + Count(misc[d], ReqOf("activate")) + Count(misc[d], ReqOf("deactivate")) <= 1
        /\ Queued(d, "activate") \in Nat /\ Queued(d, "deactivate") \in Nat
        /\ Count(misc[d], ReqOf("activate")) \in Nat
        /\ Count(misc[d], ReqOf("deactivate")) \in Nat
        /\ Count(actq[d], Acks) \in Nat
        /\ Len(actq[d]) = Queued(d, "activate") + Queued(d, "deactivate")
                            + Count(actq[d], Acks)
    BY Names, OneReq DEF Alone
  <1>2. Count(actq[d], Acks) <= 1
    BY DEF Alone, AnswersFit
  <1>. QED
    BY <1>1, <1>2 DEF ActFifoReady, ActFifoDepth

\* The activation FIFO refuses both writes unless it has room for two, and
\* nobody looks at its O_SREADY.  A die without an error always has the room,
\* whatever its peer does.
THEOREM SoundDieHasRoom == Spec => [](\A d \in Die : ~faulted[d] => ~ActFifoDrops(d))
  <1>1. TypeOK /\ AnswersInv => \A d \in Die : ~faulted[d] => ~ActFifoDrops(d)
    BY RoomForTwo DEF AnswersInv, ActFifoDrops
  <1>. QED
    BY <1>1, TypeCorrect, AnswersCorrect, PTL

\* So no request and no Ack is dropped while no die is in error.
THEOREM NeverDrops == Spec => []ActFifoNeverDrops
  <1>1. (\A d \in Die : ~faulted[d] => ~ActFifoDrops(d)) => ActFifoNeverDrops
    BY DEF ActFifoNeverDrops
  <1>. QED
    BY <1>1, SoundDieHasRoom, PTL

\* A die that has seen its link fall and is not in error is DISABLED, even if
\* handshake messages were left in its FIFOs.
THEOREM DeadLinkStaysDown == Spec => []NoSessionOnDeadLink
  <1>1. AnswersInv => NoSessionOnDeadLink
    BY DEF AnswersInv, Alone, Unstarted, NoSessionOnDeadLink
  <1>. QED
    BY <1>1, AnswersCorrect, PTL
===============================================================================

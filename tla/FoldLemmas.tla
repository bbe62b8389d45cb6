----------------------------- MODULE FoldLemmas ------------------------------
(***************************************************************************)
(* Induction over a finite set without a theorem about all predicates, and *)
(* that the recursive function behind a fold exists: what a proof about a  *)
(* FoldFunction, a FoldSet, a MapThenSumSet or a FlattenSeq starts from.   *)
(***************************************************************************)
EXTENDS SequencesExt, FiniteSetTheorems, SequenceTheorems, WellFoundedInduction, TLAPS

\* A nonempty family of subsets of a finite set has a member of which no smaller
\* subset is in the family: what an induction on finite sets comes down to.
LEMMA SmallestSubset ==
  ASSUME NEW S, IsFiniteSet(S), NEW B, B \subseteq SUBSET S, B # {}
  PROVE  \E U \in B : \A W \in SUBSET U : W # U => W \notin B
<1>1. B \subseteq FiniteSubsetsOf(S)
  BY FS_Subset DEF FiniteSubsetsOf
<1>2. PICK U \in B : \A W \in B : ~(<<W, U>> \in StrictSubsetOrdering(S))
  BY <1>1, FS_StrictSubsetOrderingWellFounded, WFMin
<1>3. ASSUME NEW W \in SUBSET U, W # U, W \in B PROVE FALSE
  <2>1. W \in SUBSET S /\ U \in SUBSET S BY <1>3
  <2>2. <<W, U>> \in StrictSubsetOrdering(S) BY <1>3, <2>1 DEF StrictSubsetOrdering
  <2> QED BY <1>2, <1>3, <2>2
<1> QED BY <1>2, <1>3

\* g folds the subsets of A: base for none, else H of the element that ch
\* chooses and of what the others fold to.
Folds(g, A, base, ch, H) ==
  \A T \in SUBSET A : g[T] = IF T = {} THEN base ELSE H[<<ch[T], g[T \ {ch[T]}]>>]

\* Two functions that fold the same way agree wherever both are folds.
LEMMA FoldUnique ==
  ASSUME NEW S, IsFiniteSet(S), NEW base, NEW ch, NEW H, NEW g, NEW h, NEW A, NEW B,
         A \subseteq S, B \subseteq S, \A T \in SUBSET S : T # {} => ch[T] \in T,
         Folds(g, A, base, ch, H), Folds(h, B, base, ch, H)
  PROVE  \A T \in SUBSET (A \cap B) : g[T] = h[T]
<1> DEFINE D == {T \in SUBSET (A \cap B) : g[T] # h[T]}
<1>1. SUFFICES ASSUME D # {} PROVE FALSE
  OBVIOUS
<1>2. D \subseteq SUBSET S OBVIOUS
<1>3. PICK U \in D : \A W \in SUBSET U : W # U => W \notin D
  <2> HIDE DEF D
  <2> QED BY <1>1, <1>2, SmallestSubset
<1>4. U \in SUBSET A /\ U \in SUBSET B /\ U \in SUBSET S OBVIOUS
<1>5. CASE U = {}
  <2>1. g[U] = base /\ h[U] = base BY <1>4, <1>5 DEF Folds
  <2> QED BY <2>1
<1>6. CASE U # {}
  <2>1. ch[U] \in U BY <1>4, <1>6
  <2> DEFINE W == U \ {ch[U]}
  <2>2. W \in SUBSET U /\ W # U BY <2>1
  <2>3. g[W] = h[W] BY <1>3, <2>2
  <2>4. g[U] = H[<<ch[U], g[W]>>] /\ h[U] = H[<<ch[U], h[W]>>] BY <1>4, <1>6 DEF Folds
  <2> QED BY <2>3, <2>4
<1> QED BY <1>5, <1>6

\* Over a finite set there is a function that folds, with values where the step
\* keeps them: the recursive function that a fold of the community modules is
\* defined by.
LEMMA FoldExists ==
  ASSUME NEW S, IsFiniteSet(S), NEW V, NEW base \in V, NEW ch, NEW H,
         \A T \in SUBSET S : T # {} => ch[T] \in T,
         \A x \in S, v \in V : H[<<x, v>>] \in V
  PROVE  \E g \in [SUBSET S -> V] : Folds(g, S, base, ch, H)
<1> DEFINE Of(A) == {g \in [SUBSET A -> V] : Folds(g, A, base, ch, H)}
           D == {A \in SUBSET S : Of(A) = {}}
<1>1. SUFFICES ASSUME D # {} PROVE FALSE
  <2>1. Of(S) # {} BY <1>1
  <2> QED BY <2>1
<1>2. PICK U \in D : \A W \in SUBSET U : W # U => W \notin D
  <2>1. D \subseteq SUBSET S OBVIOUS
  <2> HIDE DEF D
  <2> QED BY <1>1, <2>1, SmallestSubset
<1> DEFINE fold == [W \in SUBSET U |-> CHOOSE g : g \in Of(W)]
           less(T) == T \ {ch[T]}
           value(T) == IF T = {} THEN base ELSE H[<<ch[T], fold[less(T)][less(T)]>>]
           new == [T \in SUBSET U |-> value(T)]
<1>3. U \in SUBSET S /\ Of(U) = {} OBVIOUS
<1>4. ASSUME NEW W \in SUBSET U, W # U PROVE fold[W] \in Of(W)
  <2>1. W \in SUBSET S /\ W \notin D BY <1>2, <1>3, <1>4
  <2>2. Of(W) # {} BY <2>1
  <2> HIDE DEF Of
  <2> QED BY <2>2, <1>4
<1>5. ASSUME NEW T \in SUBSET U, T # {}
      PROVE less(T) \in SUBSET U /\ less(T) # U /\ less(T) \in SUBSET T /\ ch[T] \in T /\ less(T) # T
  BY <1>3, <1>5
<1>6. ASSUME NEW T \in SUBSET U PROVE value(T) \in V
  <2>1. CASE T = {} BY <2>1
  <2>2. CASE T # {}
    <3>1. fold[less(T)] \in Of(less(T)) BY <1>4, <1>5, <2>2
    <3>2. fold[less(T)][less(T)] \in V BY <3>1
    <3>3. ch[T] \in S BY <1>3, <1>5, <2>2
    <3> HIDE DEF fold, less
    <3> QED BY <2>2, <3>2, <3>3
  <2> QED BY <2>1, <2>2
<1>7. new \in [SUBSET U -> V]
  <2> HIDE DEF value
  <2> QED BY <1>6
<1>8. ASSUME NEW T \in SUBSET U, T # {} PROVE new[less(T)] = fold[less(T)][less(T)]
  <2> DEFINE W == less(T)
  <2>1. W \in SUBSET U /\ W # U BY <1>5, <1>8
  <2>2. fold[W] \in Of(W) BY <1>4, <2>1
  <2>3. Folds(fold[W], W, base, ch, H) /\ W \in SUBSET W BY <2>2
  <2>4. new[W] = value(W) BY <2>1
  <2>5. CASE W = {}
    <3>1. fold[W][W] = base
      <4> HIDE DEF fold, W
      <4> QED BY <2>3, <2>5 DEF Folds
    <3>2. value(W) = base BY <2>5
    <3> HIDE DEF value, new, fold, W
    <3> QED BY <2>4, <3>1, <3>2 DEF W
  <2>6. CASE W # {}
    <3>1. less(W) \in SUBSET U /\ less(W) # U /\ less(W) \in SUBSET W BY <1>5, <2>1, <2>6
    <3>2. fold[less(W)] \in Of(less(W)) BY <1>4, <3>1
    <3>3. Folds(fold[less(W)], less(W), base, ch, H) BY <3>2
    <3>4. W \subseteq S /\ less(W) \subseteq S /\ less(W) \in SUBSET (W \cap less(W)) BY <2>1, <3>1, <1>3
    <3>5. fold[W][less(W)] = fold[less(W)][less(W)]
      <4> HIDE DEF fold, less, W
      <4> QED BY <2>3, <3>3, <3>4, FoldUnique
    <3>6. fold[W][W] = H[<<ch[W], fold[W][less(W)]>>]
      <4> HIDE DEF fold, W
      <4> QED BY <2>3, <2>6 DEF Folds
    <3>7. value(W) = H[<<ch[W], fold[less(W)][less(W)]>>] BY <2>6
    <3> HIDE DEF value, new, fold, W
    <3> QED BY <2>4, <3>5, <3>6, <3>7 DEF W
  <2> QED BY <2>5, <2>6
<1>9. Folds(new, U, base, ch, H)
  <2>1. ASSUME NEW T \in SUBSET U PROVE new[T] = IF T = {} THEN base ELSE H[<<ch[T], new[T \ {ch[T]}]>>]
    <3>1. new[T] = value(T) OBVIOUS
    <3>2. CASE T = {} BY <3>1, <3>2
    <3>3. CASE T # {}
      <4>1. new[less(T)] = fold[less(T)][less(T)] BY <1>8, <3>3
      <4>2. value(T) = H[<<ch[T], fold[less(T)][less(T)]>>] BY <3>3
      <4>3. new[T] = H[<<ch[T], new[less(T)]>>] 
        <5> HIDE DEF new, value, fold, less
        <5> QED BY <3>1, <4>1, <4>2
      <4> HIDE DEF new, value, fold
      <4> QED BY <3>3, <4>3
    <3> QED BY <3>2, <3>3
  <2> HIDE DEF new
  <2> QED BY <2>1 DEF Folds
<1> QED
  <2>1. new \in Of(U)
    <3> HIDE DEF new
    <3> QED BY <1>7, <1>9
  <2> QED BY <1>3, <2>1

\* The sum of the values of a function, as the models write it.
SumOf(m) == FoldFunction(+, 0, m)

\* A sum of finitely many naturals is natural, and 0 only if all of them are.
LEMMA SumIs ==
  ASSUME NEW m, IsFiniteSet(DOMAIN m), \A k \in DOMAIN m : m[k] \in Nat
  PROVE  SumOf(m) \in Nat /\ (SumOf(m) > 0 <=> \E k \in DOMAIN m : m[k] > 0)
<1> DEFINE D == DOMAIN m
           ch == [T \in SUBSET D |-> CHOOSE x \in T : TRUE]
           H == [p \in D \X Nat |-> m[p[1]] + p[2]]
           Sum(g) == [s \in SUBSET D |-> IF s = {} THEN 0
                        ELSE m[CHOOSE x \in s : TRUE] + g[s \ {CHOOSE x \in s : TRUE}]]
<1>1. ASSUME NEW T \in SUBSET D, T # {} PROVE ch[T] \in T /\ ch[T] = CHOOSE x \in T : TRUE
  BY <1>1
<1>2. ASSUME NEW x \in D, NEW v \in Nat PROVE H[<<x, v>>] = m[x] + v /\ H[<<x, v>>] \in Nat
  OBVIOUS
<1>3. PICK g \in [SUBSET D -> Nat] : Folds(g, D, 0, ch, H)
  <2> HIDE DEF ch, H
  <2> QED BY <1>1, <1>2, FoldExists
<1>4. g = Sum(g)
  <2>1. ASSUME NEW T \in SUBSET D
        PROVE g[T] = IF T = {} THEN 0 ELSE m[CHOOSE x \in T : TRUE] + g[T \ {CHOOSE x \in T : TRUE}]
    <3>1. g[T] = IF T = {} THEN 0 ELSE H[<<ch[T], g[T \ {ch[T]}]>>]
      <4> HIDE DEF ch, H
      <4> QED BY <1>3 DEF Folds
    <3>2. CASE T # {}
      <4>1. g[T \ {ch[T]}] \in Nat /\ ch[T] \in D BY <1>1, <3>2, <1>3
      <4> HIDE DEF ch, H
      <4> QED BY <1>1, <1>2, <3>1, <3>2, <4>1
    <3> QED BY <3>1, <3>2
  <2> QED BY <2>1, <1>3
<1>5. \E h : h = Sum(h) /\ SumOf(m) = h[D]
  BY <1>4 DEF SumOf, FoldFunction, FoldFunctionOnSet, MapThenFoldSet
<1>6. PICK h : h = Sum(h) /\ SumOf(m) = h[D]
  BY <1>5
<1> DEFINE Ok(T) == h[T] \in Nat /\ (h[T] > 0 <=> \E k \in T : m[k] > 0)
           B == {T \in SUBSET D : ~Ok(T)}
<1>7. SUFFICES ASSUME B # {} PROVE FALSE
  <2>1. Ok(D) BY <1>7
  <2> QED BY <1>6, <2>1
<1>8. PICK U \in B : \A W \in SUBSET U : W # U => W \notin B
  <2>1. B \subseteq SUBSET D OBVIOUS
  <2> HIDE DEF B
  <2> QED BY <1>7, <2>1, SmallestSubset
<1>9. U \in SUBSET D /\ h[U] = IF U = {} THEN 0 ELSE m[CHOOSE x \in U : TRUE] + h[U \ {CHOOSE x \in U : TRUE}]
  <2>1. U \in SUBSET D OBVIOUS
  <2> HIDE DEF B
  <2> QED BY <1>6, <2>1
<1>10. CASE U = {}
  <2>1. h[U] = 0 BY <1>9, <1>10
  <2>2. Ok(U) BY <1>10, <2>1
  <2> QED BY <2>2
<1>11. CASE U # {}
  <2> DEFINE c == CHOOSE x \in U : TRUE
             W == U \ {c}
  <2>1. c \in U /\ c \in D BY <1>9, <1>11
  <2>2. W \in SUBSET U /\ W # U /\ W \in SUBSET D BY <1>9, <2>1
  <2>3. Ok(W) BY <1>8, <2>2
  <2>4. h[U] = m[c] + h[W] BY <1>9, <1>11
  <2>5. U = W \cup {c} BY <2>1
  <2> HIDE DEF c, W, B
  <2>6. h[U] \in Nat /\ (h[U] > 0 <=> m[c] > 0 \/ h[W] > 0) BY <2>1, <2>3, <2>4
  <2>7. Ok(U) BY <2>3, <2>5, <2>6
  <2>8. ~Ok(U) BY DEF B
  <2> QED BY <2>7, <2>8
<1> QED BY <1>10, <1>11

-----------------------------------------------------------------------------
(* Sequences joined.                                                       *)

\* The least of some numbers is one of them.
LEMMA LeastOf ==
  ASSUME NEW S, S \subseteq Nat, S # {}
  PROVE  \E n \in S : \A m \in S : n <= m
<1>1. PICK n \in S : \A m \in S : ~(<<m, n>> \in OpToRel(<, Nat))
  <2>1. IsWellFoundedOn(OpToRel(<, Nat), Nat) BY NatLessThanWellFounded
  <2> QED BY <2>1, WFMin
<1>2. ASSUME NEW y \in S PROVE n <= y
  <2>1. y < n => <<y, n>> \in OpToRel(<, Nat) BY DEF OpToRel
  <2>2. ~(y < n) BY <1>1, <2>1
  <2> QED BY <2>2
<1> QED BY <1>2

\* Two sequences, one behind the other: what is in either, and twice only if it
\* was twice in one of them or in both.
LEMMA JoinIs ==
  ASSUME NEW V, NEW s \in Seq(V), NEW t \in Seq(V)
  PROVE  /\ s \o t \in Seq(V)
         /\ ToSet(s \o t) = ToSet(s) \cup ToSet(t)
         /\ IsInjective(s) /\ IsInjective(t) /\ ToSet(s) \cap ToSet(t) = {} => IsInjective(s \o t)
<1>1. /\ s \o t \in Seq(V) /\ Len(s \o t) = Len(s) + Len(t)
      /\ \A i \in 1..Len(s) + Len(t) : (s \o t)[i] = IF i <= Len(s) THEN s[i] ELSE t[i - Len(s)]
  BY ConcatProperties
<1>2. PICK u : u = s \o t OBVIOUS
<1>3. /\ DOMAIN u = 1..Len(s) + Len(t) /\ DOMAIN s = 1..Len(s) /\ DOMAIN t = 1..Len(t)
      /\ Len(s) \in Nat /\ Len(t) \in Nat
  BY <1>1, <1>2
<1>4. \A i \in 1..Len(s) : i \in DOMAIN u /\ u[i] = s[i] BY <1>1, <1>2, <1>3
<1>5. \A i \in 1..Len(t) : Len(s) + i \in DOMAIN u /\ u[Len(s) + i] = t[i]
  <2>1. ASSUME NEW i \in 1..Len(t) PROVE Len(s) + i \in DOMAIN u /\ u[Len(s) + i] = t[i]
    <3>1. Len(s) + i \in 1..Len(s) + Len(t) /\ ~(Len(s) + i <= Len(s)) /\ Len(s) + i - Len(s) = i
      BY <1>3
    <3> QED BY <1>1, <1>2, <1>3, <3>1
  <2> QED BY <2>1
<1>6. \A i \in DOMAIN u : \/ i \in 1..Len(s) /\ u[i] = s[i]
                          \/ i - Len(s) \in 1..Len(t) /\ u[i] = t[i - Len(s)]
  BY <1>1, <1>2, <1>3
<1>7. ToSet(u) = ToSet(s) \cup ToSet(t)
  <2>1. ASSUME NEW x \in ToSet(u) PROVE x \in ToSet(s) \cup ToSet(t)
    BY <1>3, <1>6 DEF ToSet
  <2>2. ToSet(s) \subseteq ToSet(u) BY <1>3, <1>4 DEF ToSet
  <2>3. ToSet(t) \subseteq ToSet(u) BY <1>3, <1>5 DEF ToSet
  <2> QED BY <2>1, <2>2, <2>3
<1>8. ASSUME IsInjective(s), IsInjective(t), ToSet(s) \cap ToSet(t) = {} PROVE IsInjective(u)
  <2>1. SUFFICES ASSUME NEW i \in DOMAIN u, NEW j \in DOMAIN u, u[i] = u[j] PROVE i = j
    BY DEF IsInjective
  <2>2. i \in Int /\ j \in Int BY <1>3
  <2>3. CASE i \in 1..Len(s) /\ u[i] = s[i] /\ j \in 1..Len(s) /\ u[j] = s[j]
    BY <1>3, <1>8, <2>1, <2>3 DEF IsInjective
  <2>4. CASE /\ i - Len(s) \in 1..Len(t) /\ u[i] = t[i - Len(s)]
             /\ j - Len(s) \in 1..Len(t) /\ u[j] = t[j - Len(s)]
    <3>1. i - Len(s) = j - Len(s) BY <1>3, <1>8, <2>1, <2>4 DEF IsInjective
    <3> QED BY <1>3, <2>2, <3>1
  <2>5. ASSUME NEW k \in 1..Len(s), NEW m \in 1..Len(t) PROVE s[k] # t[m]
    <3>1. s[k] \in ToSet(s) /\ t[m] \in ToSet(t) BY <1>3 DEF ToSet
    <3> QED BY <1>8, <3>1
  <2> QED BY <1>6, <2>1, <2>3, <2>4, <2>5
<1> QED BY <1>1, <1>2, <1>7, <1>8

\* FlattenSeq joins all of them.
LEMMA FlattenIs ==
  ASSUME NEW V, NEW n \in Nat, NEW ss \in [1..n -> Seq(V)]
  PROVE  /\ FlattenSeq(ss) \in Seq(V)
         /\ \A x : x \in ToSet(FlattenSeq(ss)) <=> \E k \in 1..n : x \in ToSet(ss[k])
         /\ (/\ \A k \in 1..n : IsInjective(ss[k])
             /\ \A k, l \in 1..n : k # l => ToSet(ss[k]) \cap ToSet(ss[l]) = {})
            => IsInjective(FlattenSeq(ss))
<1>0. Len(ss) = n /\ ss \in Seq(Seq(V)) OBVIOUS
<1>1. CASE n = 0
  <2>1. FlattenSeq(ss) = ss /\ ss = <<>> BY <1>0, <1>1 DEF FlattenSeq
  <2>2. ToSet(<<>>) = {} /\ IsInjective(<<>>) BY DEF ToSet, IsInjective
  <2> QED BY <1>1, <2>1, <2>2
<1>2. CASE n # 0
  <2> DEFINE Of(m) == {f \in [1..m -> Seq(V)] : f = [i \in 1..m |-> IF i = 1 THEN ss[i] ELSE f[i - 1] \o ss[i]]}
             B == {m \in 1..n : Of(m) = {}}
  <2>1. \A m \in 1..n : Of(m) # {}
    <3>1. SUFFICES ASSUME B # {} PROVE FALSE OBVIOUS
    <3>2. B \subseteq Nat
      <4> HIDE DEF Of
      <4> QED OBVIOUS
    <3>3. PICK m \in B : \A l \in B : m <= l
      <4> HIDE DEF B
      <4> QED BY <3>1, <3>2, LeastOf
    <3>4. m \in 1..n /\ Of(m) = {} OBVIOUS
    <3>5. CASE m = 1
      <4> DEFINE f == [i \in 1..1 |-> ss[i]]
      <4>1. f \in [1..1 -> Seq(V)] BY <1>2
      <4>2. f = [i \in 1..1 |-> IF i = 1 THEN ss[i] ELSE f[i - 1] \o ss[i]] OBVIOUS
      <4>3. f \in Of(1)
        <5> HIDE DEF f
        <5> QED BY <4>1, <4>2
      <4> QED BY <3>4, <3>5, <4>3
    <3>6. CASE m # 1
      <4>1. m - 1 \in 1..n /\ m - 1 < m BY <3>4, <3>6
      <4>2. m - 1 \notin B
        <5> HIDE DEF B
        <5> QED BY <3>3, <3>4, <4>1
      <4>3. PICK g : g \in Of(m - 1) BY <4>1, <4>2
      <4> DEFINE f == [i \in 1..m |-> IF i <= m - 1 THEN g[i] ELSE g[m - 1] \o ss[m]]
      <4>4. g \in [1..m - 1 -> Seq(V)] /\ g[m - 1] \in Seq(V) BY <4>1, <4>3
      <4>5. f \in [1..m -> Seq(V)] BY <3>4, <4>1, <4>4
      <4>6. ASSUME NEW i \in 1..m PROVE f[i] = IF i = 1 THEN ss[i] ELSE f[i - 1] \o ss[i]
        <5>1. CASE i = m
          <6>1. i - 1 \in 1..m /\ f[i - 1] = g[m - 1] /\ f[i] = g[m - 1] \o ss[m] /\ i # 1
            BY <3>4, <3>6, <4>1, <5>1
          <6> HIDE DEF f
          <6> QED BY <5>1, <6>1
        <5>2. CASE i # m
          <6>1. i \in 1..m - 1 /\ f[i] = g[i] BY <3>4, <5>2
          <6>2. g[i] = IF i = 1 THEN ss[i] ELSE g[i - 1] \o ss[i] BY <4>3, <6>1
          <6>3. i # 1 => i - 1 \in 1..m /\ f[i - 1] = g[i - 1] BY <3>4, <6>1
          <6> HIDE DEF f
          <6> QED BY <6>1, <6>2, <6>3
        <5> QED BY <5>1, <5>2
      <4>7. f \in Of(m)
        <5> HIDE DEF f
        <5> QED BY <4>5, <4>6
      <4> QED BY <3>4, <4>7
    <3> QED BY <3>5, <3>6
  <2>2. PICK h : h \in Of(n)
    <3> HIDE DEF Of
    <3> QED BY <1>2, <2>1
  <2>3. \E f : f = [i \in 1..n |-> IF i = 1 THEN ss[i] ELSE f[i - 1] \o ss[i]] /\ FlattenSeq(ss) = f[n]
    <3>1. h = [i \in 1..n |-> IF i = 1 THEN ss[i] ELSE h[i - 1] \o ss[i]] BY <2>2
    <3>2. n # 0 /\ Len(ss) = n BY <1>0, <1>2
    <3> HIDE DEF Of, B
    <3> QED BY <3>1, <3>2 DEF FlattenSeq
  <2>4. PICK f : f = [i \in 1..n |-> IF i = 1 THEN ss[i] ELSE f[i - 1] \o ss[i]] /\ FlattenSeq(ss) = f[n]
    BY <2>3
  <2> DEFINE Apart == /\ \A k \in 1..n : IsInjective(ss[k])
                      /\ \A k, l \in 1..n : k # l => ToSet(ss[k]) \cap ToSet(ss[l]) = {}
             Ok(m) == /\ f[m] \in Seq(V) /\ ToSet(f[m]) = UNION {ToSet(ss[k]) : k \in 1..m}
                      /\ Apart => IsInjective(f[m])
             Bad == {m \in 1..n : ~Ok(m)}
  <2> HIDE DEF Of, B
  <2>5. \A m \in 1..n : Ok(m)
    <3>1. SUFFICES ASSUME Bad # {} PROVE FALSE OBVIOUS
    <3>2. Bad \subseteq Nat OBVIOUS
    <3>3. PICK m \in Bad : \A l \in Bad : m <= l
      <4> HIDE DEF Bad
      <4> QED BY <3>1, <3>2, LeastOf
    <3>4. m \in 1..n /\ ~Ok(m) OBVIOUS
    <3>5. \A i \in 1..n : f[i] = IF i = 1 THEN ss[i] ELSE f[i - 1] \o ss[i] BY <2>4
    <3>6. CASE m = 1
      <4>1. f[1] = ss[1] /\ 1 \in 1..n BY <3>4, <3>5, <3>6
      <4>2. UNION {ToSet(ss[k]) : k \in 1..1} = ToSet(ss[1]) OBVIOUS
      <4>3. Ok(1) BY <4>1, <4>2
      <4> QED BY <3>4, <3>6, <4>3
    <3>7. CASE m # 1
      <4>1. m - 1 \in 1..n /\ m - 1 < m BY <3>4, <3>7
      <4>2. Ok(m - 1)
        <5>1. m - 1 \notin Bad
          <6> HIDE DEF Bad
          <6> QED BY <3>3, <3>4, <4>1
        <5> HIDE DEF Ok
        <5> QED BY <4>1, <5>1
      <4>3. f[m] = f[m - 1] \o ss[m] /\ ss[m] \in Seq(V) BY <3>4, <3>5, <3>7
      <4>4. UNION {ToSet(ss[k]) : k \in 1..m} = (UNION {ToSet(ss[k]) : k \in 1..m - 1}) \cup ToSet(ss[m])
        <5>1. 1..m = (1..m - 1) \cup {m} BY <3>4
        <5> QED BY <5>1
      <4>5. PICK a, b : a = f[m - 1] /\ b = ss[m] OBVIOUS
      <4>6. a \in Seq(V) /\ b \in Seq(V) /\ f[m] = a \o b BY <4>2, <4>3, <4>5
      <4>7. /\ a \o b \in Seq(V) /\ ToSet(a \o b) = ToSet(a) \cup ToSet(b)
            /\ IsInjective(a) /\ IsInjective(b) /\ ToSet(a) \cap ToSet(b) = {} => IsInjective(a \o b)
        BY <4>6, JoinIs
      <4>8. ToSet(a) = UNION {ToSet(ss[k]) : k \in 1..m - 1} /\ (Apart => IsInjective(a))
        BY <4>2, <4>5
      <4>9. ASSUME Apart PROVE IsInjective(b) /\ ToSet(a) \cap ToSet(b) = {}
        <5>1. ASSUME NEW k \in 1..m - 1 PROVE ToSet(ss[k]) \cap ToSet(ss[m]) = {}
          <6>1. k \in 1..n /\ m \in 1..n /\ k # m BY <3>4, <5>1
          <6> QED BY <4>9, <6>1
        <5>2. IsInjective(ss[m]) BY <3>4, <4>9
        <5> QED BY <4>5, <4>8, <5>1, <5>2
      <4> HIDE DEF Apart
      <4>10. Ok(m) BY <4>4, <4>5, <4>6, <4>7, <4>8, <4>9
      <4> QED BY <3>4, <4>10
    <3> QED BY <3>6, <3>7
  <2>6. n \in 1..n BY <1>2
  <2>7. Ok(n) BY <2>5, <2>6
  <2>8. ASSUME NEW x PROVE x \in ToSet(FlattenSeq(ss)) <=> \E k \in 1..n : x \in ToSet(ss[k])
    <3>1. ToSet(FlattenSeq(ss)) = UNION {ToSet(ss[k]) : k \in 1..n} BY <2>4, <2>7
    <3> QED BY <3>1
  <2> QED BY <2>4, <2>7, <2>8
<1> QED BY <1>1, <1>2

\* One sequence, flattened, is that sequence.
LEMMA FlattenOne ==
  ASSUME NEW s
  PROVE  FlattenSeq([i \in {1} |-> s]) = s
<1>1. PICK ss, n : ss = [i \in {1} |-> s] /\ n = 1 OBVIOUS
<1>2. Len(ss) = n /\ n # 0 /\ ss[1] = s
  <2>1. ss = [i \in 1..1 |-> s] BY <1>1
  <2> QED BY <1>1, <2>1
<1> DEFINE g == [i \in 1..n |-> s]
<1>3. g = [i \in 1..n |-> IF i = 1 THEN ss[i] ELSE g[i - 1] \o ss[i]] BY <1>1, <1>2
<1>4. \E f : f = [i \in 1..n |-> IF i = 1 THEN ss[i] ELSE f[i - 1] \o ss[i]] /\ FlattenSeq(ss) = f[n]
  <2> HIDE DEF g
  <2> QED BY <1>2, <1>3 DEF FlattenSeq
<1>5. PICK f : f = [i \in 1..n |-> IF i = 1 THEN ss[i] ELSE f[i - 1] \o ss[i]] /\ FlattenSeq(ss) = f[n]
  BY <1>4
<1>6. f[1] = ss[1] BY <1>1, <1>5
<1> QED BY <1>1, <1>2, <1>5, <1>6
=============================================================================

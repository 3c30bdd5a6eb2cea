---------------------------- MODULE Stream_proofs ----------------------------
(***************************************************************************)
(* Proofs about the stream of a turn.                                      *)
(*                                                                         *)
(* A message is what is left of the accumulator without its holes, the     *)
(* calls are picked from the message, and the chat is what its items and   *)
(* blocks show one after the other: all of it joined by FlattenSeq.  The   *)
(* first part of the module therefore says what FlattenSeq does, by        *)
(* induction on the sequence; the second what this makes of the operators  *)
(* of Stream; the third has the invariant.                                 *)
(***************************************************************************)
EXTENDS Stream, SequenceTheorems, WellFoundedInduction, TLAPS

-----------------------------------------------------------------------------
(***************************************************************************)
(* Induction, with a set where the library's theorems have an operator.    *)
(***************************************************************************)
LEMMA LeastOfNaturals ==
  ASSUME NEW T \in SUBSET Nat, T # {}
  PROVE  \E n \in T : \A m \in T : n <= m
<1>1. IsWellFoundedOn(OpToRel(<, Nat), Nat)
  BY NatLessThanWellFounded
<1>2. PICK n \in T : \A m \in T : ~ (<<m, n>> \in OpToRel(<, Nat))
  BY <1>1, WFMin, Zenon
<1>3. ASSUME NEW m \in T PROVE ~ (m < n)
  <2>1. m \in Nat /\ n \in Nat
    OBVIOUS
  <2>2. m < n => <<m, n>> \in OpToRel(<, Nat)
    BY <2>1, Zenon DEF OpToRel
  <2> QED BY <1>2, <2>2, Zenon
<1>4. \A m \in T : n <= m
  <2> HIDE <1>1, <1>2
  <2> SUFFICES ASSUME NEW m \in T PROVE n <= m
    OBVIOUS
  <2>1. ~ (m < n)
    BY <1>3
  <2>2. m \in Nat /\ n \in Nat
    OBVIOUS
  <2> QED BY <2>1, <2>2
<1> QED BY <1>4

LEMMA InductionOnNaturals ==
  ASSUME NEW T, 0 \in T, \A n \in Nat : n \in T => n + 1 \in T
  PROVE  Nat \subseteq T
<1>1. SUFFICES ASSUME Nat \ T # {} PROVE FALSE
  OBVIOUS
<1>2. PICK n \in Nat \ T : \A m \in Nat \ T : n <= m
  <2>1. Nat \ T \in SUBSET Nat
    OBVIOUS
  <2> QED BY <1>1, <2>1, LeastOfNaturals, Zenon
<1>3. n # 0 /\ n - 1 \in Nat
  BY <1>2
<1>4. n - 1 \in T
  BY <1>2, <1>3
<1> QED BY <1>2, <1>3, <1>4

LEMMA InductionOnSequences ==
  ASSUME NEW S, NEW T, <<>> \in T,
         \A s \in Seq(S), x \in S : s \in T => Append(s, x) \in T
  PROVE  Seq(S) \subseteq T
<1> DEFINE N == {n \in Nat : \A s \in Seq(S) : Len(s) = n => s \in T}
<1>1. 0 \in N
  BY EmptySeq
<1>2. ASSUME NEW n \in Nat, n \in N PROVE n + 1 \in N
  <2> SUFFICES ASSUME NEW s \in Seq(S), Len(s) = n + 1 PROVE s \in T
    OBVIOUS
  <2>1. PICK r \in Seq(S), x \in S : s = Append(r, x)
    BY SequenceEmptyOrAppend, <1>2
  <2>2. Len(r) = n
    BY <2>1, AppendProperties, <1>2
  <2> QED BY <1>2, <2>1, <2>2
<1>3. Nat \subseteq N
  <2> HIDE DEF N
  <2> QED BY <1>1, <1>2, InductionOnNaturals, Zenon
<1> QED BY <1>3

(* f joins the sequences of s from the first on, as FlattenSeq does. *)
Joins(f, s) ==
  f = [i \in 1 .. Len(s) |-> IF i = 1 THEN s[i] ELSE f[i - 1] \o s[i]]

LEMMA JoinsOnce ==
  ASSUME NEW S, NEW s \in Seq(Seq(S)), NEW f, NEW g, Joins(f, s), Joins(g, s)
  PROVE  f = g
<1> DEFINE T == {i \in 1 .. Len(s) : f[i] # g[i]}
<1>1. SUFFICES T = {}
  <2>1. ASSUME NEW h, Joins(h, s) PROVE h = [i \in 1 .. Len(s) |-> h[i]]
    <3>1. DOMAIN h = 1 .. Len(s) /\ h = [i \in DOMAIN h |-> h[i]]
      BY <2>1, Zenon DEF Joins
    <3> QED BY <3>1
  <2>2. f = [i \in 1 .. Len(s) |-> f[i]] /\ g = [i \in 1 .. Len(s) |-> g[i]]
    BY <2>1
  <2>3. T = {} => \A i \in 1 .. Len(s) : f[i] = g[i]
    OBVIOUS
  <2>4. ASSUME \A i \in 1 .. Len(s) : f[i] = g[i]
        PROVE  [i \in 1 .. Len(s) |-> f[i]] = [i \in 1 .. Len(s) |-> g[i]]
    BY <2>4, Zenon
  <2> QED BY <2>2, <2>3, <2>4, Zenon
<1>2. SUFFICES ASSUME T # {} PROVE FALSE
  OBVIOUS
<1>3. T \in SUBSET Nat
  OBVIOUS
<1>4. PICK i \in T : \A j \in T : i <= j
  <2> HIDE DEF T
  <2> QED BY <1>2, <1>3, LeastOfNaturals, Zenon
<1>5. CASE i = 1
  <2>1. f[1] = s[1] /\ g[1] = s[1]
    BY <1>4, <1>5 DEF Joins
  <2> QED BY <1>4, <1>5, <2>1
<1>6. CASE i # 1
  <2>1. i - 1 \in 1 .. Len(s) /\ i - 1 \notin T
    BY <1>4, <1>6
  <2>2. f[i] = f[i - 1] \o s[i] /\ g[i] = g[i - 1] \o s[i]
    BY <1>4, <1>6 DEF Joins
  <2> QED BY <1>4, <2>1, <2>2
<1> QED BY <1>5, <1>6

Extended(f, s, x) ==
  [i \in 1 .. Len(s) + 1 |->
     IF i <= Len(s) THEN f[i] ELSE IF i = 1 THEN x ELSE f[Len(s)] \o x]

LEMMA JoinsMore ==
  ASSUME NEW S, NEW s \in Seq(Seq(S)), NEW x \in Seq(S), NEW f, Joins(f, s)
  PROVE  Joins(Extended(f, s, x), Append(s, x))
<1> DEFINE t == Append(s, x)
           g == Extended(f, s, x)
<1>1. /\ t \in Seq(Seq(S)) /\ Len(t) = Len(s) + 1
      /\ \A i \in 1 .. Len(s) : t[i] = s[i]
      /\ t[Len(s) + 1] = x
      /\ Len(s) \in Nat
  BY AppendProperties
<1>2. ASSUME NEW i \in 1 .. Len(t)
      PROVE  g[i] = IF i = 1 THEN t[i] ELSE g[i - 1] \o t[i]
  <2>1. i <= Len(s) => f[i] = IF i = 1 THEN s[i] ELSE f[i - 1] \o s[i]
    <3>1. i <= Len(s) => i \in 1 .. Len(s)
      BY <1>1
    <3>2. ASSUME NEW j \in 1 .. Len(s)
          PROVE  f[j] = IF j = 1 THEN s[j] ELSE f[j - 1] \o s[j]
      BY Zenon DEF Joins
    <3> QED BY <3>1, <3>2
  <2> HIDE DEF t
  <2> QED BY <1>1, <2>1 DEF Extended
<1>3. g = [i \in 1 .. Len(t) |-> g[i]]
  <2> HIDE DEF t
  <2> QED BY <1>1 DEF Extended
<1> QED
  <2> HIDE DEF g, t
  <2>1. [i \in 1 .. Len(t) |-> g[i]]
          = [i \in 1 .. Len(t) |-> IF i = 1 THEN t[i] ELSE g[i - 1] \o t[i]]
    BY <1>2
  <2>2. Joins(g, t)
    BY <1>3, <2>1, Zenon DEF Joins
  <2> QED BY <2>2 DEF g, t

LEMMA SomeJoins ==
  ASSUME NEW S, NEW s \in Seq(Seq(S))
  PROVE  \E f \in [1 .. Len(s) -> Seq(S)] : Joins(f, s)
<1> DEFINE T == {t \in Seq(Seq(S)) : \E f \in [1 .. Len(t) -> Seq(S)] : Joins(f, t)}
<1>1. <<>> \in T
  <2>1. Joins(<<>>, <<>>) /\ <<>> \in [1 .. 0 -> Seq(S)]
    BY DEF Joins
  <2> QED BY <2>1, EmptySeq
<1>2. ASSUME NEW t \in Seq(Seq(S)), NEW x \in Seq(S), t \in T
      PROVE  Append(t, x) \in T
  <2>1. PICK f \in [1 .. Len(t) -> Seq(S)] : Joins(f, t)
    BY <1>2
  <2>2. Extended(f, t, x) \in [1 .. Len(t) + 1 -> Seq(S)]
    BY <2>1, ConcatProperties, LenProperties DEF Extended
  <2>3. Append(t, x) \in Seq(Seq(S)) /\ Len(Append(t, x)) = Len(t) + 1
    BY AppendProperties
  <2>4. Joins(Extended(f, t, x), Append(t, x))
    BY <2>1, JoinsMore
  <2> QED BY <2>2, <2>3, <2>4
<1>3. Seq(Seq(S)) \subseteq T
  <2> HIDE DEF T
  <2> QED BY <1>1, <1>2, InductionOnSequences, Zenon
<1> QED BY <1>3

LEMMA FlattenIsJoined ==
  ASSUME NEW S, NEW s \in Seq(Seq(S)), s # <<>>, NEW f, Joins(f, s)
  PROVE  FlattenSeq(s) = f[Len(s)]
<1>1. Len(s) # 0
  BY EmptySeq
<1>2. FlattenSeq(s) = (CHOOSE g : Joins(g, s))[Len(s)]
  BY <1>1 DEF FlattenSeq, Joins
<1>3. Joins(CHOOSE g : Joins(g, s), s)
  BY Zenon
<1>4. (CHOOSE g : Joins(g, s)) = f
  BY <1>3, JoinsOnce, Zenon
<1> QED BY <1>2, <1>4, Zenon

LEMMA FlattenEmpty == FlattenSeq(<<>>) = <<>>
  BY DEF FlattenSeq

LEMMA FlattenType ==
  ASSUME NEW S, NEW s \in Seq(Seq(S))
  PROVE  FlattenSeq(s) \in Seq(S)
<1>1. CASE s = <<>>
  BY <1>1, FlattenEmpty, EmptySeq
<1>2. CASE s # <<>>
  <2>1. PICK f \in [1 .. Len(s) -> Seq(S)] : Joins(f, s)
    BY SomeJoins
  <2>2. Len(s) \in 1 .. Len(s)
    <3>1. Len(s) \in Nat \ {0}
      BY <1>2, EmptySeq, Zenon
    <3> QED BY <3>1
  <2>3. FlattenSeq(s) = f[Len(s)]
    BY <1>2, <2>1, FlattenIsJoined, Zenon
  <2> QED BY <2>1, <2>2, <2>3
<1> QED BY <1>1, <1>2

LEMMA FlattenAppend ==
  ASSUME NEW S, NEW s \in Seq(Seq(S)), NEW x \in Seq(S)
  PROVE  FlattenSeq(Append(s, x)) = FlattenSeq(s) \o x
<1>1. PICK f \in [1 .. Len(s) -> Seq(S)] : Joins(f, s)
  BY SomeJoins
<1>2. /\ Append(s, x) \in Seq(Seq(S)) /\ Append(s, x) # <<>>
      /\ Len(Append(s, x)) = Len(s) + 1 /\ Len(s) \in Nat
  BY AppendProperties
<1>3. FlattenSeq(Append(s, x)) = Extended(f, s, x)[Len(s) + 1]
  BY <1>1, <1>2, JoinsMore, FlattenIsJoined, Zenon
<1>4. Extended(f, s, x)[Len(s) + 1] = IF Len(s) = 0 THEN x ELSE f[Len(s)] \o x
  BY <1>2 DEF Extended
<1>5. CASE s = <<>>
  BY <1>3, <1>4, <1>5, FlattenEmpty, ConcatEmptySeq, EmptySeq
<1>6. CASE s # <<>>
  BY <1>1, <1>3, <1>4, <1>6, FlattenIsJoined, EmptySeq
<1> QED BY <1>5, <1>6

(* The pieces F gives for the elements of s, one after the other. *)
Mapped(F, s) == [k \in DOMAIN s |-> F[s[k]]]
Maps(F, S, U) == F \in [S -> U]
Gathered(F, s) == FlattenSeq(Mapped(F, s))

LEMMA MappedAppend ==
  ASSUME NEW S, NEW U, NEW F, Maps(F, S, U), NEW s \in Seq(S), NEW x \in S
  PROVE  /\ Mapped(F, s) \in Seq(U)
         /\ Mapped(F, Append(s, x)) = Append(Mapped(F, s), F[x])
<1> DEFINE t == Append(s, x)
<1>1. /\ t \in Seq(S) /\ Len(t) = Len(s) + 1 /\ Len(s) \in Nat
      /\ \A i \in 1 .. Len(s) : t[i] = s[i]
      /\ t[Len(s) + 1] = x
      /\ DOMAIN s = 1 .. Len(s) /\ DOMAIN t = 1 .. Len(t)
  BY AppendProperties, LenProperties
<1> HIDE DEF t
<1>2. Mapped(F, s) \in [1 .. Len(s) -> U] /\ Mapped(F, t) \in [1 .. Len(t) -> U]
  BY <1>1, LenProperties, ElementOfSeq DEF Mapped, Maps
<1>3. Mapped(F, s) \in Seq(U) /\ Len(Mapped(F, s)) = Len(s)
  BY <1>1, <1>2
<1>4. Mapped(F, t) \in Seq(U) /\ Len(Mapped(F, t)) = Len(t)
  BY <1>1, <1>2
<1>5. F[x] \in U
  BY DEF Maps
<1>6. /\ Append(Mapped(F, s), F[x]) \in Seq(U)
      /\ Len(Append(Mapped(F, s), F[x])) = Len(s) + 1
      /\ \A i \in 1 .. Len(s) : Append(Mapped(F, s), F[x])[i] = Mapped(F, s)[i]
      /\ Append(Mapped(F, s), F[x])[Len(s) + 1] = F[x]
  BY <1>3, <1>5, AppendProperties
<1>7. ASSUME NEW i \in 1 .. Len(t)
      PROVE  Mapped(F, t)[i] = Append(Mapped(F, s), F[x])[i]
  <2>0. Mapped(F, t)[i] = F[t[i]] /\ (i <= Len(s) => Mapped(F, s)[i] = F[s[i]])
    BY <1>1 DEF Mapped
  <2>1. CASE i <= Len(s)
    BY <1>1, <1>6, <2>0, <2>1
  <2>2. CASE i = Len(s) + 1
    BY <1>1, <1>6, <2>0, <2>2
  <2>3. i <= Len(s) \/ i = Len(s) + 1
    BY <1>1
  <2> QED BY <2>1, <2>2, <2>3, Zenon
<1>8. Mapped(F, t) = Append(Mapped(F, s), F[x])
  <2> HIDE DEF Mapped
  <2> QED BY <1>1, <1>4, <1>6, <1>7, SeqEqual
<1> QED BY <1>3, <1>8 DEF t

LEMMA GatheredLaws ==
  ASSUME NEW S, NEW U, NEW F, Maps(F, S, Seq(U))
  PROVE  /\ Gathered(F, <<>>) = <<>>
         /\ \A s \in Seq(S) : Gathered(F, s) \in Seq(U)
         /\ \A s \in Seq(S), x \in S :
              Gathered(F, Append(s, x)) = Gathered(F, s) \o F[x]
<1>1. Mapped(F, <<>>) = <<>>
  BY DEF Mapped
<1>2. Gathered(F, <<>>) = <<>>
  BY <1>1, FlattenEmpty DEF Gathered
<1>3. ASSUME NEW s \in Seq(S) PROVE Gathered(F, s) \in Seq(U)
  <2>1. CASE s = <<>>
    BY <1>2, <2>1, EmptySeq
  <2>2. CASE s # <<>>
    <3>1. s[1] \in S
      BY <2>2, EmptySeq, ElementOfSeq
    <3>2. Mapped(F, s) \in Seq(Seq(U))
      BY <3>1, MappedAppend, Zenon
    <3> QED BY <3>2, FlattenType DEF Gathered
  <2> QED BY <2>1, <2>2
<1>4. ASSUME NEW s \in Seq(S), NEW x \in S
      PROVE  Gathered(F, Append(s, x)) = Gathered(F, s) \o F[x]
  <2>1. Mapped(F, s) \in Seq(Seq(U)) /\ Mapped(F, Append(s, x)) = Append(Mapped(F, s), F[x])
    BY MappedAppend
  <2>2. F[x] \in Seq(U)
    BY DEF Maps
  <2> QED BY <2>1, <2>2, FlattenAppend, Zenon DEF Gathered
<1> QED BY <1>2, <1>3, <1>4

LEMMA GatheredEqual ==
  ASSUME NEW S, NEW s \in Seq(S), NEW F, NEW G, \A i \in 1 .. Len(s) : F[s[i]] = G[s[i]]
  PROVE  Gathered(F, s) = Gathered(G, s)
<1>1. Mapped(F, s) = Mapped(G, s)
  BY LenProperties DEF Mapped
<1> QED BY <1>1, Zenon DEF Gathered

LEMMA GatheredSingles ==
  ASSUME NEW S, NEW F, Maps(F, S, Seq(S)), \A x \in S : F[x] = <<x>>, NEW s \in Seq(S)
  PROVE  Gathered(F, s) = s
<1> DEFINE T == {t \in Seq(S) : Gathered(F, t) = t}
<1>0. /\ Gathered(F, <<>>) = <<>>
      /\ \A t \in Seq(S), x \in S : Gathered(F, Append(t, x)) = Gathered(F, t) \o F[x]
  <2> HIDE DEF T
  <2> QED BY GatheredLaws
<1>1. <<>> \in T
  BY <1>0, EmptySeq
<1>2. ASSUME NEW t \in Seq(S), NEW x \in S, t \in T PROVE Append(t, x) \in T
  <2>1. Gathered(F, Append(t, x)) = t \o <<x>>
    BY <1>0, <1>2
  <2> QED BY <2>1, AppendIsConcat, AppendProperties
<1>3. Seq(S) \subseteq T
  <2> HIDE DEF T
  <2> QED BY <1>1, <1>2, InductionOnSequences, Zenon
<1> QED BY <1>3

(* f says where in s the elements of p were picked, in the same order. *)
PickedBy(f, p, s) ==
  /\ f \in [1 .. Len(p) -> 1 .. Len(s)]
  /\ \A k \in 1 .. Len(p) : p[k] = s[f[k]]
  /\ \A k, l \in 1 .. Len(p) : k < l => f[k] < f[l]

LEMMA GatheredPicks ==
  ASSUME NEW S, NEW C \in SUBSET S, NEW F, Maps(F, S, Seq(C)),
         \A x \in S : F[x] = IF x \in C THEN <<x>> ELSE <<>>,
         NEW s \in Seq(S)
  PROVE  /\ Gathered(F, s) \in Seq(C)
         /\ \E f : PickedBy(f, Gathered(F, s), s)
<1> DEFINE T == {t \in Seq(S) : \E f : PickedBy(f, Gathered(F, t), t)}
<1>1. /\ Gathered(F, <<>>) = <<>>
      /\ \A t \in Seq(S) : Gathered(F, t) \in Seq(C)
      /\ \A t \in Seq(S), x \in S : Gathered(F, Append(t, x)) = Gathered(F, t) \o F[x]
  <2> HIDE DEF T
  <2> QED BY GatheredLaws
<1>2. <<>> \in T
  <2>1. PickedBy(<<>>, <<>>, <<>>)
    BY DEF PickedBy
  <2> QED BY <1>1, <2>1, EmptySeq
<1>3. ASSUME NEW t \in Seq(S), NEW x \in S, t \in T PROVE Append(t, x) \in T
  <2> DEFINE p == Gathered(F, t)
             u == Append(t, x)
  <2>1. PICK f : PickedBy(f, p, t)
    BY <1>3
  <2>2. /\ u \in Seq(S) /\ Len(u) = Len(t) + 1 /\ Len(t) \in Nat
        /\ \A i \in 1 .. Len(t) : u[i] = t[i]
        /\ u[Len(t) + 1] = x
    BY AppendProperties
  <2>3. p \in Seq(C) /\ Len(p) \in Nat
    BY <1>1
  <2>4. CASE x \notin C
    <3>1. Gathered(F, u) = p
      <4>1. Gathered(F, u) = p \o <<>>
        BY <1>1, <2>4, Zenon
      <4> HIDE DEF p, u
      <4> QED BY <2>3, <4>1, ConcatEmptySeq
    <3>2. PickedBy(f, p, u)
      <4> HIDE DEF p, u
      <4>1. /\ f \in [1 .. Len(p) -> 1 .. Len(t)]
            /\ \A k \in 1 .. Len(p) : p[k] = t[f[k]]
            /\ \A k, l \in 1 .. Len(p) : k < l => f[k] < f[l]
        BY <2>1 DEF PickedBy
      <4>2. f \in [1 .. Len(p) -> 1 .. Len(u)]
        BY <2>2, <4>1
      <4>3. \A k \in 1 .. Len(p) : p[k] = u[f[k]]
        BY <2>2, <4>1
      <4> QED BY <4>1, <4>2, <4>3, Zenon DEF PickedBy
    <3> HIDE DEF p
    <3> QED BY <2>2, <3>1, <3>2
  <2>5. CASE x \in C
    <3> DEFINE q == Append(p, x)
               g == [k \in 1 .. Len(p) + 1 |-> IF k <= Len(p) THEN f[k] ELSE Len(t) + 1]
    <3>1. Gathered(F, u) = q
      <4>1. Gathered(F, u) = p \o <<x>>
        BY <1>1, <2>5
      <4> HIDE DEF p, u
      <4> QED BY <2>3, <2>5, <4>1, AppendIsConcat
    <3>2. /\ Len(q) = Len(p) + 1
          /\ \A k \in 1 .. Len(p) : q[k] = p[k]
          /\ q[Len(p) + 1] = x
      <4> HIDE DEF p
      <4> QED BY <2>3, <2>5, AppendProperties
    <3>3. PickedBy(g, q, u)
      <4> HIDE DEF p, q, u
      <4>1. /\ f \in [1 .. Len(p) -> 1 .. Len(t)]
            /\ \A k \in 1 .. Len(p) : p[k] = t[f[k]]
            /\ \A k, l \in 1 .. Len(p) : k < l => f[k] < f[l]
        BY <2>1 DEF PickedBy
      <4>2. g \in [1 .. Len(q) -> 1 .. Len(u)]
        BY <2>2, <2>3, <3>2, <4>1
      <4>5. /\ \A k \in 1 .. Len(p) : k \in 1 .. Len(q) /\ g[k] = f[k] /\ f[k] \in 1 .. Len(t)
            /\ g[Len(p) + 1] = Len(t) + 1
            /\ \A k \in 1 .. Len(q) : k \in 1 .. Len(p) \/ k = Len(p) + 1
        <5>1. \A k \in 1 .. Len(p) : k \in 1 .. Len(q) /\ f[k] \in 1 .. Len(t)
          BY <2>3, <3>2, <4>1
        <5>2. \A k \in 1 .. Len(q) : k \in 1 .. Len(p) \/ k = Len(p) + 1
          BY <2>3, <3>2
        <5>3. \A k \in 1 .. Len(p) : g[k] = f[k]
          BY <2>3
        <5>4. g[Len(p) + 1] = Len(t) + 1
          BY <2>3
        <5> QED BY <5>1, <5>2, <5>3, <5>4
      <4> HIDE DEF g
      <4>3. ASSUME NEW k \in 1 .. Len(q) PROVE q[k] = u[g[k]]
        <5>1. CASE k \in 1 .. Len(p)
          <6>1. q[k] = p[k] /\ p[k] = t[f[k]] /\ g[k] = f[k] /\ f[k] \in 1 .. Len(t)
            BY <3>2, <4>1, <4>5, <5>1
          <6>2. t[f[k]] = u[f[k]]
            BY <2>2, <6>1
          <6> QED BY <6>1, <6>2
        <5>2. CASE k = Len(p) + 1
          BY <2>2, <3>2, <4>5, <5>2
        <5> QED BY <4>5, <5>1, <5>2
      <4>4. ASSUME NEW k \in 1 .. Len(q), NEW l \in 1 .. Len(q), k < l PROVE g[k] < g[l]
        <5>1. k \in 1 .. Len(p)
          BY <2>3, <3>2, <4>4
        <5>2. CASE l \in 1 .. Len(p)
          BY <4>1, <4>5, <4>4, <5>1, <5>2
        <5>3. CASE l = Len(p) + 1
          BY <2>2, <4>5, <5>1, <5>3
        <5> QED BY <4>5, <5>2, <5>3
      <4> QED BY <4>2, <4>3, <4>4, Zenon DEF PickedBy
    <3> HIDE DEF g, q, u
    <3>4. Gathered(F, u) = q /\ u \in Seq(S) /\ PickedBy(g, Gathered(F, u), u)
      BY <2>2, <3>1, <3>3
    <3> QED BY <3>4, Zenon DEF u
  <2> QED BY <2>4, <2>5
<1>4. Seq(S) \subseteq T
  <2> HIDE DEF T
  <2> QED BY <1>2, <1>3, InductionOnSequences, Zenon
<1> QED BY <1>1, <1>4

(* To map what was picked, or to pick what is mapped. *)
LEMMA GatheredImages ==
  ASSUME NEW S, NEW C \in SUBSET S, NEW U, NEW F, NEW G, NEW H,
         Maps(F, S, Seq(C)), Maps(G, S, Seq(U)),
         \A x \in C : H[x] \in U,
         \A x \in S : F[x] = IF x \in C THEN <<x>> ELSE <<>>,
         \A x \in S : G[x] = IF x \in C THEN <<H[x]>> ELSE <<>>,
         NEW s \in Seq(S)
  PROVE  Gathered(G, s) = [k \in 1 .. Len(Gathered(F, s)) |-> H[Gathered(F, s)[k]]]
<1> DEFINE Im(p) == [k \in 1 .. Len(p) |-> H[p[k]]]
           T == {t \in Seq(S) : Gathered(G, t) = Im(Gathered(F, t))}
<1>1. /\ Gathered(F, <<>>) = <<>>
      /\ \A t \in Seq(S) : Gathered(F, t) \in Seq(C)
      /\ \A t \in Seq(S), x \in S : Gathered(F, Append(t, x)) = Gathered(F, t) \o F[x]
  <2> HIDE DEF T, Im
  <2> QED BY GatheredLaws
<1>2. /\ Gathered(G, <<>>) = <<>>
      /\ \A t \in Seq(S) : Gathered(G, t) \in Seq(U)
      /\ \A t \in Seq(S), x \in S : Gathered(G, Append(t, x)) = Gathered(G, t) \o G[x]
  <2> HIDE DEF T, Im
  <2> QED BY GatheredLaws
<1>3. <<>> \in T
  <2>1. Im(<<>>) = <<>> /\ <<>> \in Seq(S)
    BY EmptySeq
  <2> HIDE DEF Im
  <2> QED BY <1>1, <1>2, <2>1
<1>4. ASSUME NEW t \in Seq(S), NEW x \in S, t \in T PROVE Append(t, x) \in T
  <2> DEFINE p == Gathered(F, t)
             u == Append(t, x)
  <2>1. u \in Seq(S)
    BY AppendProperties
  <2>2. p \in Seq(C) /\ Len(p) \in Nat /\ Gathered(G, t) = Im(p) /\ Im(p) \in Seq(U)
    BY <1>1, <1>2, <1>4
  <2>3. CASE x \notin C
    <3>1. Gathered(F, u) = p
      <4>1. Gathered(F, u) = p \o <<>>
        BY <1>1, <2>3, Zenon
      <4> HIDE DEF p, u
      <4> QED BY <2>2, <4>1, ConcatEmptySeq
    <3>2. Gathered(G, u) = Im(p)
      <4>1. Gathered(G, u) = Im(p) \o <<>>
        <5> HIDE DEF Im, p
        <5> QED BY <1>2, <2>2, <2>3, Zenon
      <4> HIDE DEF Im, p, u
      <4> QED BY <2>2, <4>1, ConcatEmptySeq
    <3> HIDE DEF p, u, Im
    <3>3. Gathered(G, u) = Im(Gathered(F, u))
      BY <3>1, <3>2
    <3> QED BY <2>1, <3>3, Zenon DEF u
  <2>4. CASE x \in C
    <3>1. Gathered(F, u) = Append(p, x)
      <4>1. Gathered(F, u) = p \o <<x>>
        BY <1>1, <2>4
      <4> HIDE DEF p, u
      <4> QED BY <2>2, <2>4, <4>1, AppendIsConcat
    <3>2. Gathered(G, u) = Append(Im(p), H[x])
      <4>1. Gathered(G, u) = Im(p) \o <<H[x]>>
        <5> HIDE DEF Im, p
        <5> QED BY <1>2, <2>2, <2>4, Zenon
      <4> HIDE DEF Im, p, u
      <4> QED BY <2>2, <2>4, <4>1, AppendIsConcat
    <3>3. Im(Append(p, x)) = Append(Im(p), H[x])
      <4> HIDE DEF p
      <4>1. /\ Append(p, x) \in Seq(C) /\ Len(Append(p, x)) = Len(p) + 1
            /\ \A k \in 1 .. Len(p) : Append(p, x)[k] = p[k]
            /\ Append(p, x)[Len(p) + 1] = x
        BY <2>2, <2>4, AppendProperties
      <4>2. /\ Append(Im(p), H[x]) \in Seq(U)
            /\ Len(Append(Im(p), H[x])) = Len(Im(p)) + 1
            /\ \A k \in 1 .. Len(Im(p)) : Append(Im(p), H[x])[k] = Im(p)[k]
            /\ Append(Im(p), H[x])[Len(Im(p)) + 1] = H[x]
        <5> HIDE DEF Im
        <5> QED BY <2>2, <2>4, AppendProperties
      <4>3. /\ Len(Im(p)) = Len(p) /\ \A k \in 1 .. Len(p) : Im(p)[k] = H[p[k]]
        BY <2>2
      <4>4. /\ Im(Append(p, x)) \in Seq(U) /\ Len(Im(Append(p, x))) = Len(p) + 1
            /\ \A k \in 1 .. Len(p) + 1 : Im(Append(p, x))[k] = H[Append(p, x)[k]]
        BY <2>2, <4>1
      <4>5. \A k \in 1 .. Len(p) + 1 : Im(Append(p, x))[k] = Append(Im(p), H[x])[k]
        <5> HIDE DEF Im
        <5> QED BY <2>2, <4>1, <4>2, <4>3, <4>4
      <4> HIDE DEF Im
      <4> QED BY <4>2, <4>3, <4>4, <4>5, SeqEqual
    <3> HIDE DEF p, u, Im
    <3>4. Gathered(G, u) = Im(Gathered(F, u))
      BY <3>1, <3>2, <3>3
    <3> QED BY <2>1, <3>4, Zenon DEF u
  <2> QED BY <2>3, <2>4
<1>5. Seq(S) \subseteq T
  <2> HIDE DEF T
  <2> QED BY <1>3, <1>4, InductionOnSequences, Zenon
<1> QED BY <1>5

LEMMA FlattenPadded ==
  ASSUME NEW U, NEW m \in Nat, NEW f, Maps(f, 1 .. m, Seq(U)), NEW n \in Nat, m <= n
  PROVE  FlattenSeq([i \in 1 .. n |-> IF i <= m THEN f[i] ELSE <<>>]) = FlattenSeq(f)
<1> DEFINE Pad(k) == [i \in 1 .. k |-> IF i <= m THEN f[i] ELSE <<>>]
           T == {k \in Nat : FlattenSeq(Pad(m + k)) = FlattenSeq(f)}
<1>0. f \in [1 .. m -> Seq(U)]
  BY DEF Maps
<1>1. ASSUME NEW k \in Nat PROVE Pad(k) \in Seq(Seq(U)) /\ Len(Pad(k)) = k
  <2>1. <<>> \in Seq(U)
    BY EmptySeq
  <2>2. Pad(k) \in [1 .. k -> Seq(U)]
    BY <1>0, <2>1
  <2> QED BY <2>2
<1>2. Pad(m) = f
  BY <1>0
<1>3. 0 \in T
  <2>1. m + 0 = m
    OBVIOUS
  <2> HIDE DEF Pad
  <2> QED BY <1>2, <2>1
<1>4. ASSUME NEW k \in Nat, k \in T PROVE k + 1 \in T
  <2> DEFINE j == m + k
  <2>0. j \in Nat /\ m + (k + 1) = j + 1 /\ m <= j
    OBVIOUS
  <2>1. FlattenSeq(Pad(j)) = FlattenSeq(f)
    BY <1>4
  <2>2. Pad(j + 1) = Append(Pad(j), <<>>)
    <3> HIDE DEF j
    <3>1. <<>> \in Seq(U)
      BY EmptySeq
    <3> DEFINE a == Pad(j)
               b == Pad(j + 1)
    <3>2. a \in Seq(Seq(U)) /\ Len(a) = j /\ b \in Seq(Seq(U)) /\ Len(b) = j + 1
      BY <1>1, <2>0
    <3>3. /\ \A i \in 1 .. j : b[i] = a[i]
          /\ b[j + 1] = <<>>
      BY <2>0
    <3> HIDE DEF a, b, Pad
    <3>4. /\ Append(a, <<>>) \in Seq(Seq(U)) /\ Len(Append(a, <<>>)) = j + 1
          /\ \A i \in 1 .. j : Append(a, <<>>)[i] = a[i]
          /\ Append(a, <<>>)[j + 1] = <<>>
      BY <3>1, <3>2, AppendProperties
    <3>5. \A i \in 1 .. Len(b) : b[i] = Append(a, <<>>)[i]
      BY <2>0, <3>2, <3>3, <3>4
    <3>6. b = Append(a, <<>>)
      BY <3>2, <3>4, <3>5, SeqEqual
    <3> QED BY <3>6 DEF a, b
  <2>3. FlattenSeq(Pad(j + 1)) = FlattenSeq(Pad(j)) \o <<>>
    <3> HIDE DEF Pad, j
    <3> QED BY <1>1, <2>0, <2>2, EmptySeq, FlattenAppend
  <2>4. FlattenSeq(Pad(j)) \in Seq(U)
    <3> HIDE DEF Pad, j
    <3> QED BY <1>1, <2>0, FlattenType
  <2>5. FlattenSeq(Pad(j + 1)) = FlattenSeq(f)
    <3> HIDE DEF Pad, j
    <3> QED BY <2>1, <2>3, <2>4, ConcatEmptySeq
  <2> HIDE DEF Pad, j
  <2>6. FlattenSeq(Pad(m + (k + 1))) = FlattenSeq(f)
    BY <2>0, <2>5
  <2> QED BY <2>6
<1>5. Nat \subseteq T
  <2> HIDE DEF T
  <2> QED BY <1>3, <1>4, InductionOnNaturals, Zenon
<1>6. n - m \in T /\ m + (n - m) = n
  <2> HIDE DEF T
  <2> QED BY <1>5
<1> QED
  <2> HIDE DEF Pad
  <2>1. FlattenSeq(Pad(n)) = FlattenSeq(f)
    BY <1>6
  <2> QED BY <2>1 DEF Pad
-----------------------------------------------------------------------------
(***************************************************************************)
(* The calls of a message.                                                 *)
(***************************************************************************)
CallBlock == {b \in Block : IsCall(b)}
CallPiece == [b \in Block |-> IF IsCall(b) THEN <<b>> ELSE <<>>]

LEMMA CallPieces ==
  /\ Maps(CallPiece, Block, Seq(CallBlock))
  /\ \A b \in Block : CallPiece[b] = IF b \in CallBlock THEN <<b>> ELSE <<>>
<1>1. ASSUME NEW b \in Block
      PROVE  /\ CallPiece[b] \in Seq(CallBlock)
             /\ CallPiece[b] = IF b \in CallBlock THEN <<b>> ELSE <<>>
  <2>1. CallPiece[b] = IF IsCall(b) THEN <<b>> ELSE <<>>
    BY Zenon DEF CallPiece
  <2>2. b \in CallBlock <=> IsCall(b)
    BY Zenon DEF CallBlock
  <2> QED BY <2>1, <2>2
<1>2. CallPiece \in [Block -> Seq(CallBlock)]
  <2> HIDE DEF Block
  <2> QED BY <1>1 DEF CallPiece
<1> QED BY <1>1, <1>2 DEF Maps

LEMMA CallsInIsGathered ==
  ASSUME NEW c \in Seq(Block)
  PROVE  CallsIn(c) = Gathered(CallPiece, c)
<1>1. \A k \in DOMAIN c : c[k] \in Block
  BY LenProperties, ElementOfSeq
<1>2. Mapped(CallPiece, c) = [k \in DOMAIN c |-> IF IsCall(c[k]) THEN <<c[k]>> ELSE <<>>]
  BY <1>1 DEF Mapped, CallPiece
<1> QED BY <1>2, Zenon DEF CallsIn, Gathered

(* The calls are blocks of the message, each once and in its order.        *)
LEMMA CallsArePicked ==
  ASSUME NEW c \in Seq(Block)
  PROVE  /\ CallsIn(c) \in Seq(CallBlock)
         /\ CallsIn(c) \in Seq(Block)
         /\ \E f : PickedBy(f, CallsIn(c), c)
<1>1. CallBlock \in SUBSET Block
  BY DEF CallBlock
<1>2. CallsIn(c) \in Seq(CallBlock) /\ \E f : PickedBy(f, CallsIn(c), c)
  BY <1>1, CallPieces, GatheredPicks, CallsInIsGathered
<1>3. CallsIn(c) \in Seq(Block)
  BY <1>1, <1>2, SeqMonotonic
<1> QED BY <1>2, <1>3

LEMMA PickedIdsDiffer ==
  ASSUME NEW p, NEW s, NEW f, PickedBy(f, p, s), Len(p) \in Nat, Len(s) \in Nat,
         \A i, j \in 1 .. Len(s) : s[i].id = s[j].id => i = j
  PROVE  \A k, l \in 1 .. Len(p) : p[k].id = p[l].id => k = l
<1> SUFFICES ASSUME NEW k \in 1 .. Len(p), NEW l \in 1 .. Len(p), p[k].id = p[l].id
             PROVE  k = l
  OBVIOUS
<1>1. f[k] \in 1 .. Len(s) /\ f[l] \in 1 .. Len(s) /\ p[k] = s[f[k]] /\ p[l] = s[f[l]]
  BY DEF PickedBy
<1>2. f[k] = f[l]
  BY <1>1
<1>3. ~ (k < l) /\ ~ (l < k)
  BY <1>1, <1>2 DEF PickedBy
<1> QED BY <1>3

-----------------------------------------------------------------------------
(***************************************************************************)
(* The message the accumulator makes.                                      *)
(***************************************************************************)
Slot == Block \cup {Hole}
SlotPiece == [b \in Slot |-> IF b = Hole THEN <<>> ELSE <<b>>]

LEMMA NoBlockIsAHole ==
  ASSUME NEW b \in Block PROVE b # Hole
  BY DEF Block, Hole

LEMMA SlotPieces ==
  /\ Maps(SlotPiece, Slot, Seq(Block))
  /\ \A b \in Slot : SlotPiece[b] = IF b \in Block THEN <<b>> ELSE <<>>
<1>1. ASSUME NEW b \in Slot
      PROVE  /\ SlotPiece[b] \in Seq(Block)
             /\ SlotPiece[b] = IF b \in Block THEN <<b>> ELSE <<>>
  <2>1. SlotPiece[b] = IF b = Hole THEN <<>> ELSE <<b>>
    BY DEF SlotPiece
  <2>2. b \in Block <=> b # Hole
    BY NoBlockIsAHole DEF Slot
  <2> QED BY <2>1, <2>2
<1>2. SlotPiece \in [Slot -> Seq(Block)]
  BY <1>1 DEF SlotPiece
<1> QED BY <1>1, <1>2 DEF Maps

LEMMA ContentIsGathered ==
  ASSUME blocks \in Seq(Slot)
  PROVE  Content = Gathered(SlotPiece, blocks)
<1>1. \A k \in DOMAIN blocks : blocks[k] \in Slot
  BY LenProperties, ElementOfSeq
<1>2. Mapped(SlotPiece, blocks)
        = [i \in DOMAIN blocks |-> IF blocks[i] = Hole THEN <<>> ELSE <<blocks[i]>>]
  BY <1>1 DEF Mapped, SlotPiece
<1> QED BY <1>2, Zenon DEF Content, Gathered

LEMMA ContentIsPicked ==
  ASSUME blocks \in Seq(Slot)
  PROVE  /\ Content \in Seq(Block)
         /\ \E f : PickedBy(f, Content, blocks)
<1>1. Block \in SUBSET Slot
  BY DEF Slot
<1> QED BY <1>1, SlotPieces, GatheredPicks, ContentIsGathered

LEMMA ContentWithoutHoles ==
  ASSUME blocks \in Seq(Block)
  PROVE  Content = blocks
<1> DEFINE F == [b \in Block |-> <<b>>]
<1>1. blocks \in Seq(Slot)
  BY SeqMonotonic DEF Slot
<1>2. Maps(F, Block, Seq(Block)) /\ \A b \in Block : F[b] = <<b>>
  BY DEF Maps
<1>3. \A i \in 1 .. Len(blocks) : SlotPiece[blocks[i]] = F[blocks[i]]
  BY SlotPieces, ElementOfSeq DEF Slot
<1> HIDE DEF F
<1>4. Gathered(SlotPiece, blocks) = Gathered(F, blocks)
  BY <1>3, GatheredEqual
<1>5. Gathered(F, blocks) = blocks
  BY <1>2, GatheredSingles
<1> QED BY <1>1, <1>4, <1>5, ContentIsGathered

(* What was said is what is left when the holes are taken out: the blocks  *)
(* the server never got to lie beyond the end of the accumulator.          *)
LEMMA ContentIsSaid ==
  ASSUME blocks \in Seq(Slot), MaxBlocks \in Nat, Len(blocks) <= MaxBlocks,
         Sent \subseteq DOMAIN blocks, spoken \in [Sent -> Block],
         \A i \in DOMAIN blocks : blocks[i] = IF i \in Sent THEN spoken[i] ELSE Hole
  PROVE  Content = Said
<1> DEFINE m == Len(blocks)
           f == [i \in 1 .. m |-> IF blocks[i] = Hole THEN <<>> ELSE <<blocks[i]>>]
<1>1. m \in Nat /\ DOMAIN blocks = 1 .. m /\ \A i \in 1 .. m : blocks[i] \in Slot
  BY LenProperties, ElementOfSeq
<1>2. f \in [1 .. m -> Seq(Block)]
  BY <1>1 DEF Slot
<1>3. Content = FlattenSeq(f)
  BY <1>1, Zenon DEF Content
<1>4. ASSUME NEW i \in 1 .. MaxBlocks
      PROVE  (IF i \in Sent THEN <<spoken[i]>> ELSE <<>>) = (IF i <= m THEN f[i] ELSE <<>>)
  <2>1. CASE i \in Sent
    <3>1. i \in 1 .. m /\ blocks[i] = spoken[i] /\ spoken[i] \in Block
      BY <1>1, <2>1
    <3>2. f[i] = <<spoken[i]>>
      BY <3>1, NoBlockIsAHole
    <3> HIDE DEF f, m
    <3> QED BY <1>1, <2>1, <3>1, <3>2
  <2>2. CASE i \notin Sent
    <3>1. i \in 1 .. m => f[i] = <<>>
      BY <1>1, <2>2
    <3>2. i <= m => i \in 1 .. m
      BY <1>1
    <3> HIDE DEF f, m
    <3> QED BY <2>2, <3>1, <3>2
  <2> QED BY <2>1, <2>2
<1> HIDE DEF f
<1>5. [i \in 1 .. MaxBlocks |-> IF i \in Sent THEN <<spoken[i]>> ELSE <<>>]
        = [i \in 1 .. MaxBlocks |-> IF i <= m THEN f[i] ELSE <<>>]
  BY <1>4
<1>6. FlattenSeq([i \in 1 .. MaxBlocks |-> IF i <= m THEN f[i] ELSE <<>>]) = FlattenSeq(f)
  <2> HIDE DEF m
  <2>1. m <= MaxBlocks
    BY DEF m
  <2>2. Maps(f, 1 .. m, Seq(Block))
    BY <1>2 DEF Maps
  <2> QED BY <1>1, <2>1, <2>2, FlattenPadded
<1> QED BY <1>3, <1>5, <1>6, Zenon DEF Said

-----------------------------------------------------------------------------
(***************************************************************************)
(* What is shown: of a message while it comes in, and when it is reopened. *)
(***************************************************************************)
Seen == Part \cup Result

(* A text loses nothing but a first part, the one its block came with.     *)
LEMMA HeardType ==
  ASSUME NEW b \in Block
  PROVE  Heard(b) \in Seq(Part)
<1>1. b.parts \in Seq(Part)
  BY DEF Block
<1>2. b.parts # <<>> => Tail(b.parts) \in Seq(Part)
  BY <1>1, HeadTailProperties
<1> QED BY <1>1, <1>2 DEF Heard

(* And what comes after it is heard behind what was heard.                 *)
LEMMA HeardGrows ==
  ASSUME NEW b \in Block, NEW grown, NEW part \in Part, part.n # 0,
         grown.parts = Append(b.parts, part)
  PROVE  Heard(grown) = Append(Heard(b), part)
<1>1. b.parts \in Seq(Part)
  BY DEF Block
<1>2. /\ Head(grown.parts) = IF b.parts = <<>> THEN part ELSE Head(b.parts)
      /\ Tail(grown.parts) = IF b.parts = <<>> THEN <<>> ELSE Append(Tail(b.parts), part)
      /\ grown.parts # <<>>
  BY <1>1, HeadTailAppend, AppendProperties
<1> QED BY <1>2 DEF Heard

TextIn(block) == IF block.kind = "text" THEN Heard(block) ELSE <<>>
Texts(content) == FlattenSeq([k \in DOMAIN content |-> TextIn(content[k])])
TextPiece == [b \in Block |-> TextIn(b)]

LEMMA TextPieces == Maps(TextPiece, Block, Seq(Seen)) /\ Maps(TextPiece, Block, Seq(Part))
<1>1. ASSUME NEW b \in Block PROVE TextPiece[b] \in Seq(Part)
  BY EmptySeq, HeardType DEF TextPiece, TextIn
<1>2. Part \subseteq Seen
  BY DEF Seen
<1>3. \A b \in Block : TextPiece[b] \in Seq(Seen)
  BY <1>1, <1>2, SeqMonotonic
<1> QED BY <1>1, <1>3 DEF Maps, TextPiece

LEMMA TextsIsGathered ==
  ASSUME NEW c \in Seq(Block)
  PROVE  Texts(c) = Gathered(TextPiece, c)
<1>1. \A k \in DOMAIN c : c[k] \in Block
  BY LenProperties, ElementOfSeq
<1>2. Mapped(TextPiece, c) = [k \in DOMAIN c |-> TextIn(c[k])]
  BY <1>1 DEF Mapped, TextPiece
<1> QED BY <1>2, Zenon DEF Texts, Gathered

LEMMA TextsLaws ==
  /\ Texts(<<>>) = <<>>
  /\ \A c \in Seq(Block) : Texts(c) \in Seq(Part) /\ Texts(c) \in Seq(Seen)
  /\ \A c \in Seq(Block), b \in Block : Texts(Append(c, b)) = Texts(c) \o TextIn(b)
<1>1. /\ Gathered(TextPiece, <<>>) = <<>>
      /\ \A c \in Seq(Block) : Gathered(TextPiece, c) \in Seq(Part)
      /\ \A c \in Seq(Block), b \in Block :
           Gathered(TextPiece, Append(c, b)) = Gathered(TextPiece, c) \o TextPiece[b]
  BY TextPieces, GatheredLaws
<1>2. \A c \in Seq(Block) : Gathered(TextPiece, c) \in Seq(Seen)
  BY TextPieces, GatheredLaws
<1>3. <<>> \in Seq(Block)
  BY EmptySeq
<1>4. ASSUME NEW c \in Seq(Block), NEW b \in Block
      PROVE  Texts(Append(c, b)) = Texts(c) \o TextIn(b)
  <2>1. Append(c, b) \in Seq(Block)
    BY AppendProperties
  <2>2. TextPiece[b] = TextIn(b)
    BY DEF TextPiece
  <2> QED BY <1>1, <2>1, <2>2, TextsIsGathered
<1> QED BY <1>1, <1>2, <1>3, <1>4, TextsIsGathered

(* A sequence whose last element is replaced.                              *)
LEMMA LastReplaced ==
  ASSUME NEW S, NEW s \in Seq(S), s # <<>>, NEW y \in S
  PROVE  /\ Front(s) \in Seq(S) /\ Last(s) \in S
         /\ s = Append(Front(s), Last(s))
         /\ [s EXCEPT ![Len(s)] = y] = Append(Front(s), y)
<1>1. Len(s) \in Nat \ {0} /\ Len(s) \in 1 .. Len(s)
  <2>1. Len(s) \in Nat \ {0}
    BY EmptySeq, Zenon
  <2> QED BY <2>1
<1>2. \A i \in 1 .. Len(s) - 1 : s[i] \in S
  BY <1>1, ElementOfSeq
<1>3. /\ Front(s) \in Seq(S) /\ Len(Front(s)) = Len(s) - 1
      /\ \A i \in 1 .. Len(s) - 1 : Front(s)[i] = s[i]
  <2> DEFINE n == Len(s) - 1
             r == SubSeq(s, 1, n)
  <2>1. n \in Nat /\ 1 \in Int /\ n \in Int
    BY <1>1
  <2>2. \A i \in 1 .. n : s[i] \in S
    BY <1>2
  <2> HIDE DEF n
  <2>3. /\ r \in Seq(S)
        /\ Len(r) = IF 1 <= n THEN n - 1 + 1 ELSE 0
        /\ \A i \in 1 .. n - 1 + 1 : r[i] = s[1 + i - 1]
    BY <2>1, <2>2, SubSeqProperties
  <2> HIDE DEF r
  <2>4. Len(r) = n /\ \A i \in 1 .. n : r[i] = s[i]
    BY <2>1, <2>3
  <2>5. Front(s) = r
    BY DEF Front, r, n
  <2> QED BY <2>3, <2>4, <2>5 DEF n
<1>4. Last(s) \in S /\ Last(s) = s[Len(s)]
  BY <1>1, ElementOfSeq DEF Last
<1>5. ASSUME NEW z \in S
      PROVE  /\ Append(Front(s), z) \in Seq(S)
             /\ Len(Append(Front(s), z)) = Len(s)
             /\ \A i \in 1 .. Len(s) - 1 : Append(Front(s), z)[i] = s[i]
             /\ Append(Front(s), z)[Len(s)] = z
  BY <1>1, <1>3, AppendProperties
<1>6. s = Append(Front(s), Last(s))
  <2>1. \A i \in 1 .. Len(s) : s[i] = Append(Front(s), Last(s))[i]
    BY <1>1, <1>4, <1>5
  <2> QED BY <1>4, <1>5, <2>1, SeqEqual
<1>7. [s EXCEPT ![Len(s)] = y] = Append(Front(s), y)
  <2> DEFINE t == [s EXCEPT ![Len(s)] = y]
  <2>1. /\ t \in Seq(S) /\ Len(t) = Len(s)
        /\ \A j \in 1 .. Len(s) : t[j] = IF j = Len(s) THEN y ELSE s[j]
    BY <1>1, ExceptSeq
  <2> HIDE DEF t
  <2>2. \A i \in 1 .. Len(s) : t[i] = Append(Front(s), y)[i]
    BY <1>1, <1>5, <2>1
  <2>3. t = Append(Front(s), y)
    BY <1>5, <2>1, <2>2, SeqEqual
  <2> QED BY <2>3 DEF t
<1> QED BY <1>3, <1>4, <1>6, <1>7

LEMMA FrontOfAppend ==
  ASSUME NEW S, NEW s \in Seq(S), NEW x \in S
  PROVE  /\ Front(Append(s, x)) = s /\ Last(Append(s, x)) = x
         /\ Append(s, x) # <<>>
<1> DEFINE t == Append(s, x)
<1>1. t \in Seq(S) /\ t # <<>> /\ Len(t) = Len(s) + 1 /\ Len(s) \in Nat /\ t[Len(s) + 1] = x
  BY AppendProperties
<1> HIDE DEF t
<1>2. Front(t) \in Seq(S) /\ Last(t) \in S /\ t = Append(Front(t), Last(t))
  BY <1>1, LastReplaced
<1>3. Append(s, x) = Append(Front(t), Last(t))
  BY <1>2 DEF t
<1>4. Front(t) = s /\ Last(t) = x
  BY <1>2, <1>3, AppendInjective
<1> QED BY <1>1, <1>4 DEF t

(* A chat is what its turns show, each with the results known from others. *)
ReopenPiece(turns) == [b \in Block |-> Reopens(b, turns)]
AnswerPiece(turns) ==
  [b \in Block |-> IF IsCall(b) THEN <<ResultOf(b.id, turns)>> ELSE <<>>]
AnswersTo(content, turns) == Gathered(AnswerPiece(turns), content)

LEMMA ResultsAreResults ==
  ASSUME NEW turns \in Seq(Turn)
  PROVE  ResultsIn(turns) \subseteq Result
<1> SUFFICES ASSUME NEW t \in DOMAIN turns, turns[t].role = "user", NEW r \in Range(turns[t].content)
             PROVE  r \in Result
  BY DEF ResultsIn, Range
<1>1. turns[t] \in Turn
  BY LenProperties, ElementOfSeq
<1>2. turns[t].content \in Seq(Result)
  BY <1>1 DEF Turn
<1>3. PICK k \in DOMAIN turns[t].content : r = turns[t].content[k]
  BY DEF Range
<1> QED BY <1>2, <1>3, LenProperties, ElementOfSeq

LEMMA ResultOfType ==
  ASSUME NEW turns \in Seq(Turn), NEW id \in Id
  PROVE  ResultOf(id, turns) \in Result
<1> DEFINE given == {r \in ResultsIn(turns) : r.id = id}
<1>1. ResultOf(id, turns)
        = IF given = {} THEN [id |-> id, state |-> "failed"] ELSE CHOOSE r \in given : TRUE
  BY Zenon DEF ResultOf
<1>2. given \subseteq Result
  BY ResultsAreResults
<1>3. [id |-> id, state |-> "failed"] \in Result
  BY DEF Result
<1>4. given # {} => (CHOOSE r \in given : TRUE) \in given
  <2> HIDE DEF given
  <2> QED OBVIOUS
<1> HIDE DEF given
<1> QED BY <1>1, <1>2, <1>3, <1>4

LEMMA SameResult ==
  ASSUME NEW turns, NEW others, NEW id,
         \A r : r.id = id => (r \in ResultsIn(turns) <=> r \in ResultsIn(others))
  PROVE  ResultOf(id, turns) = ResultOf(id, others)
<1> DEFINE given(ts) == {r \in ResultsIn(ts) : r.id = id}
<1>1. given(turns) = given(others)
  OBVIOUS
<1>2. \A ts : ResultOf(id, ts) = IF given(ts) = {} THEN [id |-> id, state |-> "failed"]
                                 ELSE CHOOSE r \in given(ts) : TRUE
  BY Zenon DEF ResultOf
<1> HIDE DEF given
<1> QED BY <1>1, <1>2

LEMMA ReopenPieces ==
  ASSUME NEW turns \in Seq(Turn)
  PROVE  /\ Maps(ReopenPiece(turns), Block, Seq(Seen))
         /\ Maps(AnswerPiece(turns), Block, Seq(Seen))
         /\ \A b \in Block :
              /\ ReopenPiece(turns)[b] = Reopens(b, turns)
              /\ AnswerPiece(turns)[b] = IF IsCall(b) THEN <<ResultOf(b.id, turns)>> ELSE <<>>
<1>1. ASSUME NEW b \in Block
      PROVE  /\ ReopenPiece(turns)[b] = Reopens(b, turns)
             /\ AnswerPiece(turns)[b] = IF IsCall(b) THEN <<ResultOf(b.id, turns)>> ELSE <<>>
  BY Zenon DEF ReopenPiece, AnswerPiece
<1>2. ASSUME NEW b \in Block
      PROVE  /\ Reopens(b, turns) \in Seq(Seen)
             /\ AnswerPiece(turns)[b] \in Seq(Seen)
  <2>1. Heard(b) \in Seq(Part) /\ b.id \in Id
    BY HeardType DEF Block
  <2>2. Heard(b) \in Seq(Seen)
    BY <2>1, SeqMonotonic DEF Seen
  <2>3. ResultOf(b.id, turns) \in Seen
    BY <2>1, ResultOfType DEF Seen
  <2>4. <<>> \in Seq(Seen) /\ <<ResultOf(b.id, turns)>> \in Seq(Seen)
    BY <2>3, EmptySeq
  <2> HIDE DEF Seen
  <2>5. Reopens(b, turns) \in Seq(Seen)
    BY <2>2, <2>4 DEF Reopens
  <2> QED BY <1>1, <2>4, <2>5
<1>3. ReopenPiece(turns) \in [Block -> Seq(Seen)] /\ AnswerPiece(turns) \in [Block -> Seq(Seen)]
  <2>1. ReopenPiece(turns) \in [Block -> Seq(Seen)]
    BY <1>1, <1>2 DEF ReopenPiece
  <2>2. AnswerPiece(turns) \in [Block -> Seq(Seen)]
    BY <1>1, <1>2 DEF AnswerPiece
  <2> QED BY <2>1, <2>2
<1> QED BY <1>1, <1>3 DEF Maps

LEMMA ReopensMessageIsGathered ==
  ASSUME NEW c \in Seq(Block), NEW turns
  PROVE  ReopensMessage(c, turns) = Gathered(ReopenPiece(turns), c)
<1>1. \A k \in DOMAIN c : c[k] \in Block
  BY LenProperties, ElementOfSeq
<1>2. \A k \in DOMAIN c : ReopenPiece(turns)[c[k]] = Reopens(c[k], turns)
  BY <1>1, Zenon DEF ReopenPiece
<1>3. Mapped(ReopenPiece(turns), c) = [k \in DOMAIN c |-> Reopens(c[k], turns)]
  BY <1>2, Zenon DEF Mapped
<1> QED BY <1>3, Zenon DEF ReopensMessage, Gathered

LEMMA ReopensMessageType ==
  ASSUME NEW c \in Seq(Block), NEW turns \in Seq(Turn)
  PROVE  ReopensMessage(c, turns) \in Seq(Seen)
BY ReopensMessageIsGathered, ReopenPieces, GatheredLaws

CallsLast(content) ==
  \A i, j \in DOMAIN content : i < j /\ IsCall(content[i]) => content[j].kind # "text"

LEMMA AnswersAreImages ==
  ASSUME NEW c \in Seq(Block), NEW turns \in Seq(Turn)
  PROVE  AnswersTo(c, turns)
           = [k \in 1 .. Len(CallsIn(c)) |-> ResultOf(CallsIn(c)[k].id, turns)]
<1> DEFINE H == [b \in Block |-> ResultOf(b.id, turns)]
           G == AnswerPiece(turns)
<1>1. \A b \in Block : H[b] = ResultOf(b.id, turns) /\ b.id \in Id
  BY DEF Block
<1>2. CallBlock \in SUBSET Block
  BY DEF CallBlock
<1>3. \A b \in Block : H[b] \in Seen
  <2> HIDE DEF H
  <2> QED BY <1>1, ResultOfType DEF Seen
<1>4. Maps(G, Block, Seq(Seen)) /\ \A b \in Block : G[b] = IF b \in CallBlock THEN <<H[b]>> ELSE <<>>
  <2>1. \A b \in Block : b \in CallBlock <=> IsCall(b)
    BY DEF CallBlock
  <2> HIDE DEF H
  <2> QED BY <1>1, <2>1, ReopenPieces
<1> HIDE DEF H, G
<1>5. Gathered(G, c) = [k \in 1 .. Len(Gathered(CallPiece, c)) |-> H[Gathered(CallPiece, c)[k]]]
  BY <1>2, <1>3, <1>4, CallPieces, GatheredImages
<1>6. \A k \in 1 .. Len(CallsIn(c)) : CallsIn(c)[k] \in Block
  BY CallsArePicked, ElementOfSeq
<1>7. Gathered(G, c) = [k \in 1 .. Len(CallsIn(c)) |-> H[CallsIn(c)[k]]]
  BY <1>5, CallsInIsGathered
<1> QED BY <1>1, <1>6, <1>7 DEF AnswersTo, G

(* A message whose calls come last reopens as its text, then its calls.    *)
LEMMA TextThenAnswers ==
  ASSUME NEW turns \in Seq(Turn), NEW c \in Seq(Block), CallsLast(c)
  PROVE  ReopensMessage(c, turns) = Texts(c) \o AnswersTo(c, turns)
<1> DEFINE RM(s) == ReopensMessage(s, turns)
           A(s) == AnswersTo(s, turns)
           T == {s \in Seq(Block) : CallsLast(s) => RM(s) = Texts(s) \o A(s)}
<1>1. /\ RM(<<>>) = <<>> /\ A(<<>>) = <<>>
      /\ \A s \in Seq(Block) : RM(s) \in Seq(Seen) /\ A(s) \in Seq(Seen)
      /\ \A s \in Seq(Block), b \in Block :
           /\ RM(Append(s, b)) = RM(s) \o ReopenPiece(turns)[b]
           /\ A(Append(s, b)) = A(s) \o AnswerPiece(turns)[b]
  <2>1. /\ Gathered(ReopenPiece(turns), <<>>) = <<>>
        /\ \A s \in Seq(Block) : Gathered(ReopenPiece(turns), s) \in Seq(Seen)
        /\ \A s \in Seq(Block), b \in Block :
             Gathered(ReopenPiece(turns), Append(s, b))
               = Gathered(ReopenPiece(turns), s) \o ReopenPiece(turns)[b]
    BY ReopenPieces, GatheredLaws
  <2>2. /\ Gathered(AnswerPiece(turns), <<>>) = <<>>
        /\ \A s \in Seq(Block) : Gathered(AnswerPiece(turns), s) \in Seq(Seen)
        /\ \A s \in Seq(Block), b \in Block :
             Gathered(AnswerPiece(turns), Append(s, b))
               = Gathered(AnswerPiece(turns), s) \o AnswerPiece(turns)[b]
    BY ReopenPieces, GatheredLaws
  <2>3. <<>> \in Seq(Block) /\ \A s \in Seq(Block), b \in Block : Append(s, b) \in Seq(Block)
    BY EmptySeq, AppendProperties
  <2>4. \A s \in Seq(Block) : RM(s) = Gathered(ReopenPiece(turns), s)
    BY ReopensMessageIsGathered
  <2> HIDE DEF T, RM
  <2> QED BY <2>1, <2>2, <2>3, <2>4 DEF AnswersTo
<1>2. <<>> \in T
  <2>1. <<>> \in Seq(Block) /\ Texts(<<>>) \o <<>> = <<>>
    BY TextsLaws, EmptySeq, ConcatEmptySeq
  <2> HIDE DEF RM, A
  <2> QED BY <1>1, <2>1, TextsLaws
<1>3. ASSUME NEW s \in Seq(Block), NEW b \in Block, s \in T PROVE Append(s, b) \in T
  <2> DEFINE u == Append(s, b)
  <2>1. /\ u \in Seq(Block) /\ Len(u) = Len(s) + 1 /\ Len(s) \in Nat
        /\ \A i \in 1 .. Len(s) : u[i] = s[i]
        /\ u[Len(s) + 1] = b
        /\ DOMAIN s = 1 .. Len(s) /\ DOMAIN u = 1 .. Len(u)
    BY AppendProperties, LenProperties
  <2> SUFFICES ASSUME CallsLast(u) PROVE RM(u) = Texts(u) \o A(u)
    BY <2>1
  <2> HIDE DEF u, RM, A
  <2>2. CallsLast(s) /\ ((\E i \in 1 .. Len(s) : IsCall(s[i])) => b.kind # "text")
    <3>1. ASSUME NEW i \in 1 .. Len(s), NEW j \in 1 .. Len(s), i < j, IsCall(s[i])
          PROVE  s[j].kind # "text"
      <4>1. i \in DOMAIN u /\ j \in DOMAIN u /\ u[i] = s[i] /\ u[j] = s[j]
        BY <2>1
      <4> QED BY <3>1, <4>1, Zenon DEF CallsLast
    <3>2. ASSUME NEW i \in 1 .. Len(s), IsCall(s[i]) PROVE b.kind # "text"
      <4>1. i \in DOMAIN u /\ Len(s) + 1 \in DOMAIN u /\ i < Len(s) + 1 /\ u[i] = s[i]
        BY <2>1
      <4>2. u[Len(s) + 1].kind # "text"
        BY <3>2, <4>1 DEF CallsLast
      <4> QED BY <2>1, <4>2
    <3> QED BY <2>1, <3>1, <3>2 DEF CallsLast
  <2>3. RM(s) = Texts(s) \o A(s)
    BY <1>3, <2>2 DEF RM, A
  <2>4. /\ RM(u) = (Texts(s) \o A(s)) \o ReopenPiece(turns)[b]
        /\ A(u) = A(s) \o AnswerPiece(turns)[b]
        /\ Texts(u) = Texts(s) \o TextIn(b)
        /\ Texts(s) \in Seq(Seen) /\ A(s) \in Seq(Seen)
    BY <1>1, <2>3, TextsLaws DEF u
  <2>5. ReopenPiece(turns)[b] = Reopens(b, turns) /\ Reopens(b, turns) \in Seq(Seen)
    BY ReopenPieces DEF Maps
  <2>6. CASE b.kind = "text"
    <3>1. A(s) = <<>>
      <4>1. CallsIn(s) = <<>>
        <5>1. PICK f : PickedBy(f, CallsIn(s), s)
          BY CallsArePicked
        <5>2. CallsIn(s) \in Seq(CallBlock)
          BY CallsArePicked
        <5>3. ASSUME CallsIn(s) # <<>> PROVE FALSE
          <6>1. Len(CallsIn(s)) \in Nat \ {0}
            BY <5>2, <5>3, EmptySeq, Zenon
          <6>2. 1 \in 1 .. Len(CallsIn(s))
            BY <6>1
          <6>3. CallsIn(s)[1] \in CallBlock
            BY <5>2, <6>2, ElementOfSeq
          <6>4. CallsIn(s)[1] = s[f[1]] /\ f[1] \in 1 .. Len(s)
            BY <5>1, <6>2 DEF PickedBy
          <6> QED BY <2>2, <2>6, <6>3, <6>4 DEF CallBlock
        <5> QED BY <5>3
      <4> QED BY <4>1, AnswersAreImages DEF A
    <3>2. Reopens(b, turns) = Heard(b) /\ TextIn(b) = Heard(b) /\ AnswerPiece(turns)[b] = <<>>
      BY <2>6, ReopenPieces DEF Reopens, TextIn, IsCall
    <3> QED BY <2>4, <2>5, <3>1, <3>2, ConcatEmptySeq, ConcatProperties
  <2>7. CASE b.kind # "text"
    <3>1. TextIn(b) = <<>> /\ Reopens(b, turns) = AnswerPiece(turns)[b]
      BY <2>7, ReopenPieces DEF TextIn, Reopens, IsCall
    <3>2. (Texts(s) \o A(s)) \o Reopens(b, turns) = Texts(s) \o (A(s) \o Reopens(b, turns))
      <4>1. Texts(s) \in Seq(Seen) /\ A(s) \in Seq(Seen) /\ Reopens(b, turns) \in Seq(Seen)
        BY <2>4, <2>5
      <4> DEFINE x == Texts(s)
                 y == A(s)
                 z == Reopens(b, turns)
      <4>2. x \in Seq(Seen) /\ y \in Seq(Seen) /\ z \in Seq(Seen)
        BY <4>1
      <4> HIDE DEF x, y, z
      <4>3. (x \o y) \o z = x \o (y \o z)
        BY <4>2, ConcatAssociative
      <4> QED BY <4>3 DEF x, y, z
    <3>3. Texts(u) = Texts(s)
      BY <2>4, <3>1, ConcatEmptySeq
    <3> QED BY <2>4, <2>5, <3>1, <3>2, <3>3
  <2> QED BY <2>6, <2>7
<1>4. Seq(Block) \subseteq T
  <2> HIDE DEF T
  <2> QED BY <1>2, <1>3, InductionOnSequences, Zenon
<1> QED BY <1>4

TurnPiece(from) ==
  [t \in Turn |-> IF t.role = "user" THEN <<>> ELSE ReopensMessage(t.content, from)]
Message(content) == [role |-> "assistant", content |-> content]
Replies(given)   == [role |-> "user", content |-> given]

LEMMA TurnShape ==
  /\ \A t \in Turn : \/ t.role = "assistant" /\ t.content \in Seq(Block)
                     \/ t.role = "user" /\ t.content \in Seq(Result)
  /\ \A c \in Seq(Block) : Message(c) \in Turn
  /\ \A r \in Seq(Result) : Replies(r) \in Turn
BY DEF Turn, Message, Replies

LEMMA TurnPieces ==
  ASSUME NEW from \in Seq(Turn)
  PROVE  /\ Maps(TurnPiece(from), Turn, Seq(Seen))
         /\ \A t \in Turn : TurnPiece(from)[t]
              = IF t.role = "user" THEN <<>> ELSE ReopensMessage(t.content, from)
<1>1. ASSUME NEW t \in Turn
      PROVE  TurnPiece(from)[t] = IF t.role = "user" THEN <<>> ELSE ReopensMessage(t.content, from)
  BY Zenon DEF TurnPiece
<1>2. ASSUME NEW t \in Turn PROVE TurnPiece(from)[t] \in Seq(Seen)
  BY <1>1, TurnShape, ReopensMessageType, EmptySeq
<1>3. TurnPiece(from) \in [Turn -> Seq(Seen)]
  BY <1>2 DEF TurnPiece
<1> QED BY <1>1, <1>3 DEF Maps

LEMMA ReopensAllIsGathered ==
  ASSUME NEW turns \in Seq(Turn)
  PROVE  ReopensAll(turns) = Gathered(TurnPiece(turns), turns)
<1>1. \A k \in DOMAIN turns : turns[k] \in Turn
  BY LenProperties, ElementOfSeq
<1>2. \A k \in DOMAIN turns : TurnPiece(turns)[turns[k]]
        = IF turns[k].role = "user" THEN <<>> ELSE ReopensMessage(turns[k].content, turns)
  BY <1>1, Zenon DEF TurnPiece
<1>3. Mapped(TurnPiece(turns), turns)
        = [k \in DOMAIN turns |->
             IF turns[k].role = "user" THEN <<>> ELSE ReopensMessage(turns[k].content, turns)]
  BY <1>2, Zenon DEF Mapped
<1> QED BY <1>3, Zenon DEF ReopensAll, Gathered

LEMMA ReopensAllType ==
  ASSUME NEW turns \in Seq(Turn)
  PROVE  ReopensAll(turns) \in Seq(Seen)
BY ReopensAllIsGathered, TurnPieces, GatheredLaws

(* Results of other calls change nothing of how turns reopen.              *)
LEMMA SameChat ==
  ASSUME NEW turns \in Seq(Turn), NEW others \in Seq(Turn),
         \A t \in DOMAIN turns : turns[t].role = "assistant" =>
           \A k \in DOMAIN turns[t].content :
             \A r : r.id = turns[t].content[k].id =>
                      (r \in ResultsIn(turns) <=> r \in ResultsIn(others))
  PROVE  Gathered(TurnPiece(others), turns) = ReopensAll(turns)
<1>1. ASSUME NEW t \in 1 .. Len(turns)
      PROVE  TurnPiece(others)[turns[t]] = TurnPiece(turns)[turns[t]]
  <2>1. turns[t] \in Turn /\ t \in DOMAIN turns
    BY LenProperties, ElementOfSeq
  <2>2. CASE turns[t].role = "user"
    BY <2>1, <2>2, TurnPieces
  <2>3. CASE turns[t].role = "assistant"
    <3> DEFINE c == turns[t].content
    <3>1. c \in Seq(Block) /\ DOMAIN c = 1 .. Len(c)
      BY <2>1, <2>3, TurnShape, LenProperties
    <3>2. ASSUME NEW k \in 1 .. Len(c)
          PROVE  ReopenPiece(turns)[c[k]] = ReopenPiece(others)[c[k]]
      <4>1. c[k] \in Block
        BY <3>1, ElementOfSeq
      <4>2. \A r : r.id = c[k].id => (r \in ResultsIn(turns) <=> r \in ResultsIn(others))
        BY <2>1, <2>3, <3>1
      <4> HIDE DEF c
      <4>3. ResultOf(c[k].id, turns) = ResultOf(c[k].id, others)
        BY <4>2, SameResult, Zenon
      <4>4. Reopens(c[k], turns) = Reopens(c[k], others)
        BY <4>3 DEF Reopens
      <4>5. /\ ReopenPiece(turns)[c[k]] = Reopens(c[k], turns)
            /\ ReopenPiece(others)[c[k]] = Reopens(c[k], others)
        BY <4>1, Zenon DEF ReopenPiece
      <4> QED BY <4>4, <4>5, Zenon
    <3> HIDE DEF c
    <3>3. Gathered(ReopenPiece(turns), c) = Gathered(ReopenPiece(others), c)
      BY <3>1, <3>2, GatheredEqual
    <3>4. ReopensMessage(c, turns) = ReopensMessage(c, others)
      BY <3>1, <3>3, ReopensMessageIsGathered
    <3> QED BY <2>1, <2>3, <3>4, TurnPieces DEF c
  <2> QED BY <2>1, <2>2, <2>3, TurnShape
<1>2. Gathered(TurnPiece(others), turns) = Gathered(TurnPiece(turns), turns)
  BY <1>1, GatheredEqual
<1> QED BY <1>2, ReopensAllIsGathered

LEMMA ResultsOfMore ==
  ASSUME NEW turns \in Seq(Turn), NEW t \in Turn
  PROVE  /\ t.role = "assistant" => ResultsIn(Append(turns, t)) = ResultsIn(turns)
         /\ t.role = "user" => ResultsIn(Append(turns, t)) = ResultsIn(turns) \cup Range(t.content)
<1> DEFINE more == Append(turns, t)
<1>1. /\ Len(more) = Len(turns) + 1 /\ Len(turns) \in Nat
      /\ \A i \in 1 .. Len(turns) : more[i] = turns[i]
      /\ more[Len(turns) + 1] = t
      /\ DOMAIN turns = 1 .. Len(turns) /\ DOMAIN more = 1 .. Len(more)
  BY AppendProperties, LenProperties
<1> HIDE DEF more
<1>2. Range(more) = Range(turns) \cup {t}
  <2>1. ASSUME NEW x \in Range(more) PROVE x \in Range(turns) \cup {t}
    <3>1. PICK i \in DOMAIN more : x = more[i]
      BY DEF Range
    <3>2. i \in 1 .. Len(turns) \/ i = Len(turns) + 1
      BY <1>1
    <3> QED BY <1>1, <3>1, <3>2 DEF Range
  <2>2. ASSUME NEW x \in Range(turns) PROVE x \in Range(more)
    <3>1. PICK i \in DOMAIN turns : x = turns[i]
      BY DEF Range
    <3>2. i \in DOMAIN more /\ more[i] = turns[i]
      BY <1>1
    <3> QED BY <3>1, <3>2 DEF Range
  <2>3. t \in Range(more)
    BY <1>1 DEF Range
  <2> QED BY <2>1, <2>2, <2>3
<1>3. {u \in Range(more) : u.role = "user"}
        = {u \in Range(turns) : u.role = "user"} \cup (IF t.role = "user" THEN {t} ELSE {})
  BY <1>2
<1>4. CASE t.role = "assistant"
  BY <1>3, <1>4, Zenon DEF ResultsIn, more
<1>5. CASE t.role = "user"
  BY <1>3, <1>5 DEF ResultsIn, more
<1> QED BY <1>4, <1>5

(* A message joins the chat: nothing before it changes.                    *)
LEMMA ReopensWithMessage ==
  ASSUME NEW turns \in Seq(Turn), NEW c \in Seq(Block)
  PROVE  ReopensAll(Append(turns, Message(c))) = ReopensAll(turns) \o ReopensMessage(c, turns)
<1> DEFINE t == Message(c)
           more == Append(turns, t)
<1>1. t \in Turn /\ t.role = "assistant" /\ t.content = c
  BY TurnShape DEF Message
<1> HIDE DEF t
<1>2. more \in Seq(Turn) /\ ResultsIn(more) = ResultsIn(turns)
  BY <1>1, AppendProperties, ResultsOfMore
<1> HIDE DEF more
<1>3. Gathered(TurnPiece(more), more) = Gathered(TurnPiece(more), turns) \o TurnPiece(more)[t]
  <2>1. \A s \in Seq(Turn), x \in Turn : Gathered(TurnPiece(more), Append(s, x))
                                           = Gathered(TurnPiece(more), s) \o TurnPiece(more)[x]
    BY <1>2, TurnPieces, GatheredLaws
  <2>2. Gathered(TurnPiece(more), Append(turns, t))
          = Gathered(TurnPiece(more), turns) \o TurnPiece(more)[t]
    BY <1>1, <2>1
  <2> QED BY <2>2, Zenon DEF more
<1>4. Gathered(TurnPiece(more), turns) = ReopensAll(turns)
  BY <1>2, SameChat
<1>5. TurnPiece(more)[t] = ReopensMessage(c, more)
  BY <1>1, <1>2, TurnPieces
<1>6. ReopensMessage(c, more) = ReopensMessage(c, turns)
  <2>1. ASSUME NEW k \in 1 .. Len(c)
        PROVE  ReopenPiece(more)[c[k]] = ReopenPiece(turns)[c[k]]
    <3>1. c[k] \in Block
      BY ElementOfSeq
    <3>2. ResultOf(c[k].id, more) = ResultOf(c[k].id, turns)
      BY <1>2, SameResult, Zenon
    <3>3. Reopens(c[k], more) = Reopens(c[k], turns)
      BY <3>2 DEF Reopens
    <3>4. /\ ReopenPiece(turns)[c[k]] = Reopens(c[k], turns)
          /\ ReopenPiece(more)[c[k]] = Reopens(c[k], more)
      BY <3>1, Zenon DEF ReopenPiece
    <3> QED BY <3>3, <3>4, Zenon
  <2>2. Gathered(ReopenPiece(more), c) = Gathered(ReopenPiece(turns), c)
    BY <2>1, GatheredEqual
  <2> QED BY <2>2, ReopensMessageIsGathered
<1>7. ReopensAll(more) = ReopensAll(turns) \o ReopensMessage(c, turns)
  BY <1>2, <1>3, <1>4, <1>5, <1>6, ReopensAllIsGathered
<1> QED BY <1>7 DEF more, t

IdsBelow(turns, n) ==
  \A t \in DOMAIN turns : \A k \in DOMAIN turns[t].content : turns[t].content[k].id[1] < n

(* The calls of a message are answered, each by the result given for it.   *)
LEMMA ReopensWithReplies ==
  ASSUME NEW turns \in Seq(Turn), NEW c \in Seq(Block), NEW given \in Seq(Result),
         NEW n \in Nat, IdsBelow(turns, n),
         \A i \in 1 .. Len(c) : c[i].id[1] = n,
         \A i, j \in 1 .. Len(c) : c[i].id = c[j].id => i = j,
         Len(given) = Len(CallsIn(c)),
         \A k \in 1 .. Len(given) : given[k].id = CallsIn(c)[k].id,
         CallsLast(c)
  PROVE  ReopensAll(Append(Append(turns, Message(c)), Replies(given)))
           = (ReopensAll(turns) \o Texts(c)) \o given
<1> DEFINE said == Append(turns, Message(c))
           all  == Append(said, Replies(given))
<1>1. /\ Message(c) \in Turn /\ Message(c).role = "assistant" /\ Message(c).content = c
      /\ Replies(given) \in Turn /\ Replies(given).role = "user" /\ Replies(given).content = given
  BY TurnShape DEF Message, Replies
<1>2. said \in Seq(Turn) /\ ResultsIn(said) = ResultsIn(turns)
  BY <1>1, AppendProperties, ResultsOfMore
<1> HIDE DEF said
<1>3. all \in Seq(Turn) /\ ResultsIn(all) = ResultsIn(turns) \cup Range(given)
  BY <1>1, <1>2, AppendProperties, ResultsOfMore
<1> HIDE DEF all
<1>4. Gathered(TurnPiece(all), all) = Gathered(TurnPiece(all), said) \o TurnPiece(all)[Replies(given)]
  <2>1. \A s \in Seq(Turn), x \in Turn : Gathered(TurnPiece(all), Append(s, x))
                                           = Gathered(TurnPiece(all), s) \o TurnPiece(all)[x]
    <3>1. Maps(TurnPiece(all), Turn, Seq(Seen))
      BY <1>3, TurnPieces, Zenon
    <3> QED BY <3>1, GatheredLaws
  <2>2. Gathered(TurnPiece(all), Append(said, Replies(given)))
          = Gathered(TurnPiece(all), said) \o TurnPiece(all)[Replies(given)]
    BY <1>1, <1>2, <2>1
  <2> QED BY <2>2, Zenon DEF all
<1>5. TurnPiece(all)[Replies(given)] = <<>>
  BY <1>1, <1>3, TurnPieces
<1>6. Gathered(TurnPiece(all), said) = Gathered(TurnPiece(all), turns) \o TurnPiece(all)[Message(c)]
  BY <1>1, <1>3, TurnPieces, GatheredLaws DEF said
<1>7. TurnPiece(all)[Message(c)] = ReopensMessage(c, all)
  BY <1>1, <1>3, TurnPieces
<1>8. \A k \in 1 .. Len(given) : given[k] \in Result /\ given[k].id[1] = n
                                   /\ CallsIn(c)[k] \in Block
  <2>1. PICK f : PickedBy(f, CallsIn(c), c)
    BY CallsArePicked
  <2>2. \A k \in 1 .. Len(given) : f[k] \in 1 .. Len(c) /\ CallsIn(c)[k] = c[f[k]]
    BY <2>1 DEF PickedBy
  <2>3. \A k \in 1 .. Len(given) : given[k] \in Result /\ CallsIn(c)[k] \in Block
    BY CallsArePicked, ElementOfSeq
  <2> QED BY <2>2, <2>3
<1>9. Gathered(TurnPiece(all), turns) = ReopensAll(turns)
  <2>1. ASSUME NEW t \in DOMAIN turns, NEW k \in DOMAIN turns[t].content,
               NEW r, r.id = turns[t].content[k].id
        PROVE  r \notin Range(given)
    <3>1. r.id[1] < n
      BY <2>1 DEF IdsBelow
    <3>2. ASSUME r \in Range(given) PROVE FALSE
      <4>1. PICK i \in 1 .. Len(given) : r = given[i]
        BY <3>2, LenProperties DEF Range
      <4> QED BY <1>8, <3>1, <4>1
    <3> QED BY <3>2
  <2> QED BY <1>3, <2>1, SameChat
<1>10. AnswersTo(c, all) = given
  <2>1. \A k, l \in 1 .. Len(CallsIn(c)) : CallsIn(c)[k].id = CallsIn(c)[l].id => k = l
    <3>1. PICK f : PickedBy(f, CallsIn(c), c)
      BY CallsArePicked
    <3>2. Len(CallsIn(c)) \in Nat /\ Len(c) \in Nat
      BY CallsArePicked, LenProperties
    <3> QED BY <3>1, <3>2, PickedIdsDiffer
  <2>2. ASSUME NEW r \in ResultsIn(turns), NEW k \in 1 .. Len(given) PROVE r.id # given[k].id
    <3>1. PICK t \in DOMAIN turns : turns[t].role = "user" /\ r \in Range(turns[t].content)
      BY DEF ResultsIn, Range
    <3>2. PICK j \in DOMAIN turns[t].content : r = turns[t].content[j]
      BY <3>1 DEF Range
    <3>3. r.id[1] < n
      BY <3>1, <3>2 DEF IdsBelow
    <3> QED BY <1>8, <3>3
  <2>3. ASSUME NEW k \in 1 .. Len(given)
        PROVE  ResultOf(CallsIn(c)[k].id, all) = given[k]
    <3> DEFINE id == CallsIn(c)[k].id
               found == {r \in ResultsIn(all) : r.id = id}
    <3>1. given[k] \in found
      <4>1. given[k] \in Range(given)
        BY LenProperties DEF Range
      <4> QED BY <1>3, <4>1
    <3>2. ASSUME NEW r \in found PROVE r = given[k]
      <4>1. r \in ResultsIn(all) /\ r.id = given[k].id
        OBVIOUS
      <4> HIDE DEF found
      <4>2. r \in Range(given)
        BY <1>3, <2>2, <4>1
      <4>3. PICK i \in 1 .. Len(given) : r = given[i]
        BY <4>2, LenProperties DEF Range
      <4>4. CallsIn(c)[i].id = CallsIn(c)[k].id
        BY <4>1, <4>3
      <4> QED BY <2>1, <4>3, <4>4
    <3>3. found = {given[k]}
      <4> HIDE DEF found
      <4> QED BY <3>1, <3>2
    <3>4. ResultOf(id, all)
            = IF found = {} THEN [id |-> id, state |-> "failed"] ELSE CHOOSE r \in found : TRUE
      BY Zenon DEF ResultOf
    <3> HIDE DEF found, id
    <3>5. ResultOf(id, all) = given[k]
      BY <3>3, <3>4
    <3> QED BY <3>5 DEF id
  <2>4. AnswersTo(c, all) = [k \in 1 .. Len(CallsIn(c)) |-> ResultOf(CallsIn(c)[k].id, all)]
    BY <1>3, AnswersAreImages
  <2>5. AnswersTo(c, all) = [k \in 1 .. Len(given) |-> given[k]]
    BY <2>3, <2>4
  <2>6. given = [k \in 1 .. Len(given) |-> given[k]]
    BY LenProperties
  <2> QED BY <2>5, <2>6
<1>11. ReopensMessage(c, all) = Texts(c) \o given
  BY <1>3, <1>10, TextThenAnswers
<1>12. /\ ReopensAll(turns) \in Seq(Seen) /\ Texts(c) \in Seq(Seen)
       /\ given \in Seq(Seen)
  BY ReopensAllType, TextsLaws, SeqMonotonic DEF Seen
<1>13. Gathered(TurnPiece(all), all) = ReopensAll(turns) \o (Texts(c) \o given)
  <2>1. Gathered(TurnPiece(all), all) = (ReopensAll(turns) \o (Texts(c) \o given)) \o <<>>
    BY <1>4, <1>5, <1>6, <1>7, <1>9, <1>11
  <2>2. ReopensAll(turns) \o (Texts(c) \o given) \in Seq(Seen)
    BY <1>12, ConcatProperties
  <2> QED BY <2>1, <2>2, ConcatEmptySeq
<1>14. ReopensAll(turns) \o (Texts(c) \o given) = (ReopensAll(turns) \o Texts(c)) \o given
  <2> DEFINE x == ReopensAll(turns)
             y == Texts(c)
  <2>1. x \in Seq(Seen) /\ y \in Seq(Seen) /\ given \in Seq(Seen)
    BY <1>12
  <2> HIDE DEF x, y
  <2>2. (x \o y) \o given = x \o (y \o given)
    BY <2>1, ConcatAssociative
  <2> QED BY <2>2 DEF x, y
<1>15. ReopensAll(all) = (ReopensAll(turns) \o Texts(c)) \o given
  BY <1>3, <1>13, <1>14, ReopensAllIsGathered
<1> QED BY <1>15 DEF all, said

-----------------------------------------------------------------------------
(***************************************************************************)
(* The log: what it shows, how it grows, and what a retry takes off it.    *)
(***************************************************************************)
LogPiece == [i \in LogItem |-> Visible(i)]

LEMMA LogPieces == Maps(LogPiece, LogItem, Seq(Seen))
<1>1. ASSUME NEW i \in LogItem PROVE Visible(i) \in Seq(Seen)
  <2>1. CASE i.kind = "Assistant"
    <3>1. i.what \in Seq(Part)
      BY <2>1 DEF LogItem
    <3>2. i.what \in Seq(Seen)
      BY <3>1, SeqMonotonic DEF Seen
    <3> QED BY <2>1, <3>2 DEF Visible
  <2>2. CASE i.kind = "Tool"
    <3>1. i.what \in Seen
      BY <2>2 DEF LogItem, Seen
    <3> HIDE DEF Seen
    <3> QED BY <2>2, <3>1 DEF Visible
  <2>3. CASE i.kind \notin {"Assistant", "Tool"}
    BY <2>3, EmptySeq DEF Visible
  <2> QED BY <2>1, <2>2, <2>3
<1>2. LogPiece \in [LogItem -> Seq(Seen)]
  BY <1>1 DEF LogPiece
<1> QED BY <1>2 DEF Maps

LEMMA ShownLaws ==
  /\ Shown(<<>>) = <<>>
  /\ \A s \in Seq(LogItem) : Shown(s) \in Seq(Seen)
  /\ \A s \in Seq(LogItem), x \in LogItem : Shown(Append(s, x)) = Shown(s) \o Visible(x)
<1>1. /\ Gathered(LogPiece, <<>>) = <<>>
      /\ \A s \in Seq(LogItem) : Gathered(LogPiece, s) \in Seq(Seen)
      /\ \A s \in Seq(LogItem), x \in LogItem :
           Gathered(LogPiece, Append(s, x)) = Gathered(LogPiece, s) \o LogPiece[x]
  BY LogPieces, GatheredLaws
<1>2. ASSUME NEW s \in Seq(LogItem) PROVE Shown(s) = Gathered(LogPiece, s)
  <2>1. \A k \in DOMAIN s : s[k] \in LogItem
    BY LenProperties, ElementOfSeq
  <2>2. \A k \in DOMAIN s : LogPiece[s[k]] = Visible(s[k])
    BY <2>1, Zenon DEF LogPiece
  <2>3. Mapped(LogPiece, s) = [i \in DOMAIN s |-> Visible(s[i])]
    BY <2>2, Zenon DEF Mapped
  <2> QED BY <2>3, Zenon DEF Shown, Gathered
<1>3. <<>> \in Seq(LogItem)
  BY EmptySeq
<1>4. ASSUME NEW s \in Seq(LogItem), NEW x \in LogItem
      PROVE  Shown(Append(s, x)) = Shown(s) \o Visible(x)
  <2>1. Append(s, x) \in Seq(LogItem)
    BY AppendProperties
  <2>2. LogPiece[x] = Visible(x)
    BY Zenon DEF LogPiece
  <2> QED BY <1>1, <1>2, <2>1, <2>2
<1> QED BY <1>1, <1>2, <1>3, <1>4

Passing(item) == item.kind \in {"Assistant", "Thinking"}
Keeps(items, n) ==
  /\ n \in 0 .. Len(items)
  /\ n = 0 \/ ~ Passing(items[n])
  /\ \A i \in n + 1 .. Len(items) : Passing(items[i])

LEMMA KeepsOnce ==
  ASSUME NEW items \in Seq(LogItem), NEW m, NEW n, Keeps(items, m), Keeps(items, n)
  PROVE  m = n
<1>1. Len(items) \in Nat
  BY LenProperties
<1>2. m \in 0 .. Len(items) /\ n \in 0 .. Len(items)
  BY DEF Keeps
<1>3. ~ (m < n)
  BY <1>1, <1>2 DEF Keeps
<1>4. ~ (n < m)
  BY <1>1, <1>2 DEF Keeps
<1> QED BY <1>2, <1>3, <1>4

LEMMA RetractKeeps ==
  ASSUME NEW items \in Seq(LogItem), NEW n, Keeps(items, n)
  PROVE  Retract(items) = SubSeq(items, 1, n)
<1> DEFINE P(k) == /\ k = 0 \/ items[k].kind \notin {"Assistant", "Thinking"}
                   /\ \A i \in k + 1 .. Len(items) :
                        ~ (items[i].kind \notin {"Assistant", "Thinking"})
           kept == CHOOSE k \in 0 .. Len(items) : P(k)
<1>1. Retract(items) = SubSeq(items, 1, kept)
  BY Zenon DEF Retract
<1>2. ASSUME NEW k PROVE Keeps(items, k) <=> k \in 0 .. Len(items) /\ P(k)
  BY DEF Keeps, Passing
<1> HIDE DEF P
<1>3. kept \in 0 .. Len(items) /\ P(kept)
  BY <1>2, Zenon
<1> HIDE DEF kept
<1>4. kept = n
  BY <1>2, <1>3, KeepsOnce
<1> QED BY <1>1, <1>4

LEMMA KeepsMore ==
  ASSUME NEW items \in Seq(LogItem), NEW x \in LogItem
  PROVE  /\ Passing(x) => \A n : Keeps(items, n) => Keeps(Append(items, x), n)
         /\ ~ Passing(x) => Keeps(Append(items, x), Len(items) + 1)
<1> DEFINE more == Append(items, x)
<1>1. /\ Len(more) = Len(items) + 1 /\ Len(items) \in Nat
      /\ \A i \in 1 .. Len(items) : more[i] = items[i]
      /\ more[Len(items) + 1] = x
  BY AppendProperties
<1> HIDE DEF more
<1>2. ASSUME Passing(x), NEW n, Keeps(items, n) PROVE Keeps(more, n)
  <2>1. n \in 0 .. Len(more) /\ (n = 0 \/ ~ Passing(more[n]))
    <3>1. n \in 0 .. Len(items) /\ (n = 0 \/ ~ Passing(items[n]))
      BY <1>2 DEF Keeps
    <3>2. n # 0 => more[n] = items[n]
      BY <1>1, <3>1
    <3> QED BY <1>1, <3>1, <3>2
  <2>2. ASSUME NEW i \in n + 1 .. Len(more) PROVE Passing(more[i])
    <3>1. CASE i = Len(items) + 1
      BY <1>1, <1>2, <3>1
    <3>2. CASE i # Len(items) + 1
      <4>1. n \in 0 .. Len(items)
        BY <1>2 DEF Keeps
      <4>2. i \in n + 1 .. Len(items) /\ i \in 1 .. Len(items)
        BY <1>1, <3>2, <4>1
      <4>3. Passing(items[i])
        BY <1>2, <4>2 DEF Keeps
      <4> QED BY <1>1, <4>2, <4>3
    <3> QED BY <3>1, <3>2
  <2> QED BY <2>1, <2>2 DEF Keeps
<1>3. ASSUME ~ Passing(x) PROVE Keeps(more, Len(items) + 1)
  BY <1>1, <1>3 DEF Keeps
<1> QED BY <1>2, <1>3 DEF more

LEMMA SomethingKept ==
  ASSUME NEW items \in Seq(LogItem)
  PROVE  \E n : Keeps(items, n)
<1> DEFINE T == {s \in Seq(LogItem) : \E n : Keeps(s, n)}
<1>1. <<>> \in T
  <2>1. Keeps(<<>>, 0)
    BY DEF Keeps
  <2> QED BY <2>1, EmptySeq
<1>2. ASSUME NEW s \in Seq(LogItem), NEW x \in LogItem, s \in T PROVE Append(s, x) \in T
  <2>1. Append(s, x) \in Seq(LogItem)
    BY AppendProperties
  <2>2. \E n : Keeps(Append(s, x), n)
    BY <1>2, KeepsMore
  <2> QED BY <2>1, <2>2
<1>3. Seq(LogItem) \subseteq T
  <2> HIDE DEF T
  <2> QED BY <1>1, <1>2, InductionOnSequences, Zenon
<1> QED BY <1>3

(* A retry takes off the end all of what an answer shows, and only that.   *)
LEMMA RetractLaws ==
  /\ Retract(<<>>) = <<>>
  /\ \A s \in Seq(LogItem) : Retract(s) \in Seq(LogItem)
  /\ \A s \in Seq(LogItem), x \in LogItem :
       Retract(Append(s, x)) = IF Passing(x) THEN Retract(s) ELSE Append(s, x)
<1>1. Retract(<<>>) = <<>>
  <2>1. Keeps(<<>>, 0) /\ <<>> \in Seq(LogItem)
    BY EmptySeq DEF Keeps
  <2>2. Retract(<<>>) = SubSeq(<<>>, 1, 0)
    BY <2>1, RetractKeeps
  <2> QED BY <2>2, SubSeqEmpty
<1>2. ASSUME NEW s \in Seq(LogItem) PROVE Retract(s) \in Seq(LogItem)
  <2>1. PICK n : Keeps(s, n)
    BY SomethingKept
  <2>2. n \in Int /\ \A i \in 1 .. n : s[i] \in LogItem
    <3>1. n \in 0 .. Len(s) /\ Len(s) \in Nat
      BY <2>1, LenProperties DEF Keeps
    <3> QED BY <3>1, ElementOfSeq
  <2>3. SubSeq(s, 1, n) \in Seq(LogItem)
    BY <2>2, SubSeqProperties
  <2> QED BY <2>1, <2>3, RetractKeeps
<1>3. ASSUME NEW s \in Seq(LogItem), NEW x \in LogItem
      PROVE  Retract(Append(s, x)) = IF Passing(x) THEN Retract(s) ELSE Append(s, x)
  <2> DEFINE more == Append(s, x)
  <2>1. /\ more \in Seq(LogItem) /\ Len(more) = Len(s) + 1 /\ Len(s) \in Nat
        /\ \A i \in 1 .. Len(s) : more[i] = s[i]
    BY AppendProperties
  <2>2. CASE Passing(x)
    <3>1. PICK n : Keeps(s, n)
      BY SomethingKept
    <3>2. Keeps(more, n)
      BY <2>2, <3>1, KeepsMore
    <3>3. n \in 0 .. Len(s)
      BY <3>1 DEF Keeps
    <3> HIDE DEF more
    <3>4. SubSeq(more, 1, n) = SubSeq(s, 1, n)
      <4>1. \A i \in 1 .. n : more[i] = s[i] /\ more[i] \in LogItem /\ s[i] \in LogItem
        BY <2>1, <3>3, ElementOfSeq
      <4>2. n \in Int
        BY <3>3
      <4> DEFINE a == SubSeq(more, 1, n)
                 b == SubSeq(s, 1, n)
      <4>3. /\ a \in Seq(LogItem) /\ Len(a) = IF 1 <= n THEN n - 1 + 1 ELSE 0
            /\ \A i \in 1 .. n - 1 + 1 : a[i] = more[1 + i - 1]
        BY <4>1, <4>2, SubSeqProperties
      <4>4. /\ b \in Seq(LogItem) /\ Len(b) = IF 1 <= n THEN n - 1 + 1 ELSE 0
            /\ \A i \in 1 .. n - 1 + 1 : b[i] = s[1 + i - 1]
        BY <4>1, <4>2, SubSeqProperties
      <4> HIDE DEF a, b
      <4>5. Len(a) = Len(b) /\ \A i \in 1 .. Len(a) : a[i] = b[i]
        BY <3>3, <4>1, <4>3, <4>4
      <4>6. a = b
        BY <4>3, <4>4, <4>5, SeqEqual
      <4> QED BY <4>6 DEF a, b
    <3>5. Retract(more) = Retract(s)
      BY <2>1, <3>1, <3>2, <3>4, RetractKeeps
    <3> QED BY <2>2, <3>5 DEF more
  <2>3. CASE ~ Passing(x)
    <3>1. Keeps(more, Len(more))
      BY <2>1, <2>3, KeepsMore
    <3> HIDE DEF more
    <3>2. Retract(more) = more
      BY <2>1, <3>1, RetractKeeps, SubSeqFull
    <3> QED BY <2>3, <3>2 DEF more
  <2> QED BY <2>2, <2>3
<1> QED BY <1>1, <1>2, <1>3

LEMMA MoreOfIt ==
  ASSUME NEW x, NEW kind, NEW what, NEW part, x = [kind |-> kind, what |-> what]
  PROVE  [x EXCEPT !.what = Append(@, part)] = [kind |-> kind, what |-> Append(what, part)]
OBVIOUS

(* A delta shows a part more and changes nothing of what a retry keeps.    *)
LEMMA GrowLaws ==
  ASSUME NEW items \in Seq(LogItem), NEW kind \in {"Assistant", "Thinking"}, NEW part \in Part
  PROVE  /\ Grow(items, kind, part) \in Seq(LogItem)
         /\ Retract(Grow(items, kind, part)) = Retract(items)
         /\ Shown(Grow(items, kind, part))
              = IF kind = "Assistant" THEN Append(Shown(items), part) ELSE Shown(items)
<1>0. Shown(items) \in Seq(Seen) /\ part \in Seen
  BY ShownLaws DEF Seen
<1>1. CASE items # <<>> /\ Last(items).kind = kind
  <2> DEFINE x == Last(items)
             y == [x EXCEPT !.what = Append(@, part)]
             f == Front(items)
  <2>1. f \in Seq(LogItem) /\ x \in LogItem /\ items = Append(f, x)
    BY <1>1, LastReplaced
  <2>2. x.what \in Seq(Part) /\ x.kind = kind /\ x = [kind |-> kind, what |-> x.what]
    BY <1>1, <2>1 DEF LogItem
  <2>3. Append(x.what, part) \in Seq(Part)
    BY <2>2, AppendProperties
  <2>4. y = [kind |-> kind, what |-> Append(x.what, part)]
    <3> DEFINE w == x.what
    <3>1. x = [kind |-> kind, what |-> w]
      BY <2>2
    <3> HIDE DEF x, w
    <3>2. y = [kind |-> kind, what |-> Append(w, part)]
      <4>1. y = [x EXCEPT !.what = Append(@, part)]
        OBVIOUS
      <4> HIDE DEF y
      <4> QED BY <3>1, <4>1, MoreOfIt
    <3> QED BY <3>2 DEF w
  <2>5. y \in LogItem
    BY <2>3, <2>4 DEF LogItem
  <2>6. Grow(items, kind, part) = Append(f, y)
    <3>1. [items EXCEPT ![Len(items)] = y] = Append(f, y)
      BY <1>1, <2>5, LastReplaced
    <3>2. Grow(items, kind, part) = [items EXCEPT ![Len(items)] = y]
      BY <1>1 DEF Grow, Last
    <3> QED BY <3>1, <3>2
  <2> HIDE DEF x, y, f
  <2>7. Passing(x) /\ Passing(y)
    BY <2>2, <2>4 DEF Passing
  <2>8. Retract(Append(f, y)) = Retract(items)
    BY <2>1, <2>5, <2>7, RetractLaws
  <2>9. CASE kind = "Assistant"
    <3>1. Visible(x) = x.what /\ Visible(y) = Append(x.what, part)
      BY <2>2, <2>4, <2>9 DEF Visible
    <3>2. Shown(items) = Shown(f) \o x.what
      BY <2>1, <3>1, ShownLaws
    <3>3. Shown(Append(f, y)) = Shown(f) \o Append(x.what, part)
      BY <2>1, <2>5, <3>1, ShownLaws
    <3>4. Shown(f) \o Append(x.what, part) = Append(Shown(f) \o x.what, part)
      <4> DEFINE a == Shown(f)
                 b == x.what
      <4>1. a \in Seq(Seen) /\ b \in Seq(Seen) /\ part \in Seen
        <5>1. b \in Seq(Part) /\ Part \subseteq Seen
          BY <2>2 DEF Seen
        <5> QED BY <1>0, <2>1, <5>1, ShownLaws, SeqMonotonic
      <4> HIDE DEF a, b
      <4>2. a \o Append(b, part) = Append(a \o b, part)
        <5>1. Append(b, part) = b \o <<part>> /\ <<part>> \in Seq(Seen)
          BY <4>1, AppendIsConcat
        <5>2. a \o b \in Seq(Seen)
          BY <4>1, ConcatProperties
        <5>3. Append(a \o b, part) = (a \o b) \o <<part>>
          BY <4>1, <5>2, AppendIsConcat
        <5>4. (a \o b) \o <<part>> = a \o (b \o <<part>>)
          <6> DEFINE c == <<part>>
          <6>1. c \in Seq(Seen)
            BY <5>1
          <6> HIDE DEF c
          <6>2. (a \o b) \o c = a \o (b \o c)
            BY <4>1, <6>1, ConcatAssociative
          <6> QED BY <6>2 DEF c
        <5> QED BY <5>1, <5>3, <5>4
      <4> QED BY <4>2 DEF a, b
    <3> QED BY <2>1, <2>5, <2>6, <2>8, <2>9, <3>2, <3>3, <3>4, AppendProperties
  <2>10. CASE kind = "Thinking"
    <3>1. Visible(x) = <<>> /\ Visible(y) = <<>>
      BY <2>2, <2>4, <2>10 DEF Visible
    <3>2. Shown(items) = Shown(Append(f, y))
      BY <2>1, <2>5, <3>1, ShownLaws
    <3> QED BY <2>1, <2>5, <2>6, <2>8, <2>10, <3>2, AppendProperties
  <2> QED BY <2>9, <2>10
<1>2. CASE ~ (items # <<>> /\ Last(items).kind = kind)
  <2> DEFINE x == Item(kind, <<part>>)
  <2>1. x \in LogItem /\ x.kind = kind /\ x.what = <<part>>
    BY DEF Item, LogItem
  <2>2. Grow(items, kind, part) = Append(items, x)
    BY <1>2 DEF Grow
  <2> HIDE DEF x
  <2>3. Retract(Append(items, x)) = Retract(items)
    BY <2>1, RetractLaws DEF Passing
  <2>4. Shown(Append(items, x)) = Shown(items) \o Visible(x)
    BY <2>1, ShownLaws
  <2>5. CASE kind = "Assistant"
    <3>1. Visible(x) = <<part>>
      BY <2>1, <2>5 DEF Visible
    <3>2. Append(Shown(items), part) = Shown(items) \o <<part>>
      BY <1>0, AppendIsConcat
    <3> QED BY <2>1, <2>2, <2>3, <2>4, <2>5, <3>1, <3>2, AppendProperties
  <2>6. CASE kind = "Thinking"
    <3>1. Visible(x) = <<>>
      BY <2>1, <2>6 DEF Visible
    <3> QED BY <1>0, <2>1, <2>2, <2>3, <2>4, <2>6, <3>1, AppendProperties, ConcatEmptySeq
  <2> QED BY <2>5, <2>6
<1> QED BY <1>1, <1>2

-----------------------------------------------------------------------------
(***************************************************************************)
(* The invariant.                                                          *)
(***************************************************************************)
(* The accumulator has what was sent in this attempt, each at its index.   *)
Mirror ==
  pc = "streaming" =>
    /\ Sent \subseteq DOMAIN blocks
    /\ \A i \in DOMAIN blocks : blocks[i] = IF i \in Sent THEN spoken[i] ELSE Hole
    /\ \A i \in Sent : spoken[i].id = <<request, i>>

(* Without mixing there are no holes, and no text after a call.            *)
Orderly == pc = "streaming" /\ ~ mixed => Sent = DOMAIN blocks /\ CallsLast(blocks)

(* Blocks and results bear the number of their request: those before the   *)
(* message at work a smaller one, and so do calls that were run before.    *)
Earlier == IF pc = "calls" THEN Front(transcript) ELSE transcript
Fresh   == IF pc \in {"streaming", "calls"} THEN request ELSE request + 1

Numbered ==
  /\ IdsBelow(Earlier, Fresh)
  /\ \A i \in DOMAIN ran : /\ ran[i].id[1] <= request
                           /\ pc = "streaming" => ran[i].id[1] < request

(* The calls of the last message: the first are answered, the rest wait.   *)
Asked == Last(transcript).content

Pending ==
  pc = "calls" =>
    /\ transcript # <<>> /\ Last(transcript).role = "assistant"
    /\ \A i \in DOMAIN Asked : Asked[i].id[1] = request
    /\ \A i, j \in DOMAIN Asked : Asked[i].id = Asked[j].id => i = j
    /\ CallsIn(Asked) # <<>>
    /\ Len(results) <= Len(CallsIn(Asked))
    /\ \A k \in DOMAIN results : results[k].id = CallsIn(Asked)[k].id
    /\ calls = SubSeq(CallsIn(Asked), Len(results) + 1, Len(CallsIn(Asked)))
    /\ \A i \in DOMAIN ran : ran[i].id[1] = request =>
                               \E k \in DOMAIN results : ran[i].id = results[k].id
    /\ ~ mixed => CallsLast(Asked)

OkIsEnd == outcome = "ok" => pc = "ended"

(* What is on the screen, at each point of the turn: what a retry would    *)
(* leave is the chat so far, the rest is the message that is coming in,    *)
(* or the one whose calls are being answered.                              *)
Watched ==
  ~ mixed =>
    /\ pc \in {"round", "streaming"} => Shown(Retract(log)) = Reopened
    /\ pc = "round" => Retract(log) = log
    /\ pc = "streaming" => OnScreen = Reopened \o Texts(blocks)
    /\ pc = "calls" =>
         /\ OnScreen = (ReopensAll(Front(transcript)) \o Texts(Asked)) \o results
         /\ results # <<>> => Retract(log) = log
    /\ outcome = "ok" => OnScreen = Reopened

IInv ==
  /\ TypeOK
  /\ Mirror /\ Orderly
  /\ Numbered /\ Pending /\ CallsRunOnce
  /\ OkIsEnd /\ Watched

LEMMA InitIInv == Init => IInv
<1> SUFFICES ASSUME Init PROVE IInv
  OBVIOUS
<1> USE StreamAssumption DEF StreamAssumption
<1>1. TypeOK
  <2>1. <<>> \in Seq(Slot) /\ <<>> \in Seq(Block) /\ <<>> \in Seq(Result) /\ <<>> \in Seq(Turn)
        /\ <<>> \in Seq(LogItem) /\ <<>> \in Seq([id : Id, input : Seq(Part)]) /\ Len(<<>>) = 0
    BY EmptySeq
  <2>2. Sent \subseteq 1 .. MaxBlocks /\ spoken \in [Sent -> Block]
    BY DEF Init, Sent
  <2>3. pc \in {"round", "streaming", "calls", "ended"} /\ flag \in BOOLEAN /\ mixed \in BOOLEAN
        /\ outcome \in {"none", "ok", "failed", "cancelled"}
    BY DEF Init
  <2>4. request \in Nat /\ round \in 0 .. MaxToolRounds /\ attempt \in 0 .. MaxStreamRetries
    BY DEF Init
  <2>5. blocks \in Seq(Slot) /\ Len(blocks) <= MaxBlocks
    BY <2>1 DEF Init
  <2>6. calls \in Seq(Block) /\ results \in Seq(Result) /\ transcript \in Seq(Turn)
        /\ log \in Seq(LogItem) /\ ran \in Seq([id : Id, input : Seq(Part)])
    BY <2>1, Zenon DEF Init
  <2> QED BY <2>2, <2>3, <2>4, <2>5, <2>6, Zenon DEF TypeOK, Slot
<1>2. Mirror /\ Orderly /\ Pending /\ OkIsEnd
  BY DEF Init, Mirror, Orderly, Pending, OkIsEnd
<1>3. Numbered /\ CallsRunOnce
  BY DEF Init, Numbered, IdsBelow, Earlier, Fresh, CallsRunOnce
<1>4. Watched
  <2>1. ReopensAll(<<>>) = <<>>
    <3>1. <<>> \in Seq(Turn)
      BY EmptySeq
    <3> QED BY <3>1, ReopensAllIsGathered, TurnPieces, GatheredLaws
  <2> QED BY <2>1, ShownLaws, RetractLaws DEF Init, Watched, Reopened, OnScreen
<1> QED BY <1>1, <1>2, <1>3, <1>4 DEF IInv

-----------------------------------------------------------------------------
(***************************************************************************)
(* The two events that change the accumulator.                             *)
(***************************************************************************)
LEMMA StartShape ==
  ASSUME TypeOK, Mirror, BlockStart
  PROVE  \E index \in 1 .. MaxBlocks, block \in Block :
           /\ index \notin Sent
           /\ block.id = <<request, index>> /\ Heard(block) = <<>>
           /\ blocks' \in Seq(Slot)
           /\ Len(blocks') = (IF index > Len(blocks) THEN index ELSE Len(blocks))
           /\ \A i \in 1 .. Len(blocks') :
                blocks'[i] = IF i = index THEN block
                             ELSE IF i <= Len(blocks) THEN blocks[i] ELSE Hole
           /\ spoken' = [i \in Sent \cup {index} |-> IF i = index THEN block ELSE spoken[i]]
           /\ mixed' = (\/ mixed \/ index # 1 + Len(blocks)
                        \/ block.kind = "text" /\ \E i \in Sent : IsCall(spoken[i]))
<1>0. PICK index \in (1 .. MaxBlocks) \ Sent, kind \in Kinds :
      \E parts \in Openings(kind, <<request, index>>) :
        LET block == [kind |-> kind, id |-> <<request, index>>, parts |-> parts] IN
          /\ Put(index, block)
          /\ Speaks(index, block)
          /\ mixed' = (\/ mixed \/ index # 1 + Len(blocks)
                       \/ kind = "text" /\ \E i \in Sent : IsCall(spoken[i]))
  BY Zenon DEF BlockStart
<1>1. PICK parts \in Openings(kind, <<request, index>>) :
        LET block == [kind |-> kind, id |-> <<request, index>>, parts |-> parts] IN
          /\ Put(index, block)
          /\ Speaks(index, block)
          /\ mixed' = (\/ mixed \/ index # 1 + Len(blocks)
                       \/ kind = "text" /\ \E i \in Sent : IsCall(spoken[i]))
  BY <1>0, Zenon
<1> DEFINE block == [kind |-> kind, id |-> <<request, index>>, parts |-> parts]
           n == IF index > Len(blocks) THEN index ELSE Len(blocks)
<1>2. index \in Nat /\ index \in 1 .. MaxBlocks /\ index \notin Sent
  BY StreamAssumption DEF StreamAssumption
<1>3. block \in Block /\ block.id = <<request, index>> /\ Heard(block) = <<>> /\ block.kind = kind
  <2>1. kind \in {"text", "thinking", "tool", "other"}
    BY StreamAssumption DEF StreamAssumption
  <2>2. request \in Nat
    BY DEF TypeOK
  <2>3. <<request, index>> \in Id
    BY <1>2, <2>2 DEF Id
  <2>4. CASE parts = <<>>
    BY <2>1, <2>3, <2>4, EmptySeq DEF Block, Heard
  <2>5. CASE \E last \in BOOLEAN : parts = <<[block |-> <<request, index>>, n |-> 0, last |-> last]>>
    <3>1. PICK last \in BOOLEAN : parts = <<[block |-> <<request, index>>, n |-> 0, last |-> last]>>
      BY <2>5
    <3> DEFINE part == [block |-> <<request, index>>, n |-> 0, last |-> last]
    <3>2. part \in Part /\ part.n = 0
      BY <2>3 DEF Part
    <3> HIDE DEF part
    <3>3. /\ parts \in Seq(Part) /\ parts # <<>> /\ Head(parts) = part
          /\ Tail(parts) = <<>>
      BY <3>1, <3>2, EmptySeq DEF part
    <3> QED BY <2>1, <2>3, <3>2, <3>3 DEF Block, Heard
  <2> QED BY <2>4, <2>5 DEF Openings
<1>4. /\ Put(index, block) /\ Speaks(index, block)
      /\ mixed' = (\/ mixed \/ index # 1 + Len(blocks)
                   \/ kind = "text" /\ \E i \in Sent : IsCall(spoken[i]))
  BY <1>1
<1> HIDE DEF block
<1>5. /\ blocks \in Seq(Slot) /\ Len(blocks) \in Nat /\ n \in Nat
      /\ \A i \in 1 .. Len(blocks) : blocks[i] \in Slot
  <2>1. blocks \in Seq(Slot)
    BY DEF TypeOK, Slot
  <2> QED BY <1>2, <2>1, LenProperties, ElementOfSeq
<1>6. blocks' = [i \in 1 .. n |-> IF i = index THEN block
                                  ELSE IF i <= Len(blocks) THEN blocks[i] ELSE Hole]
  BY <1>4, Zenon DEF Put
<1> HIDE DEF n
<1>7. blocks' \in Seq(Slot) /\ Len(blocks') = n
  <2>1. \A i \in 1 .. n : (IF i = index THEN block
                           ELSE IF i <= Len(blocks) THEN blocks[i] ELSE Hole) \in Slot
    BY <1>3, <1>5 DEF Slot
  <2>2. blocks' \in [1 .. n -> Slot]
    BY <1>6, <2>1
  <2> QED BY <1>5, <2>2
<1>8. \A i \in 1 .. Len(blocks') :
        blocks'[i] = IF i = index THEN block
                     ELSE IF i <= Len(blocks) THEN blocks[i] ELSE Hole
  BY <1>6, <1>7
<1>9. spoken' = [i \in Sent \cup {index} |-> IF i = index THEN block ELSE spoken[i]]
  BY <1>4, Zenon DEF Speaks
<1> QED BY <1>2, <1>3, <1>4, <1>7, <1>8, <1>9 DEF n

LEMMA MoreOfBlock ==
  ASSUME NEW x, NEW kind, NEW id, NEW parts, NEW part,
         x = [kind |-> kind, id |-> id, parts |-> parts]
  PROVE  [x EXCEPT !.parts = Append(@, part)]
           = [kind |-> kind, id |-> id, parts |-> Append(parts, part)]
OBVIOUS

LEMMA DeltaShape ==
  ASSUME TypeOK, Mirror, BlockDelta
  PROVE  \E index \in Sent, part \in Part, grown \in Block :
           /\ index \in 1 .. Len(blocks) /\ blocks[index] = spoken[index]
           /\ spoken[index] \in Block /\ part.n # 0
           /\ grown.kind = spoken[index].kind /\ grown.id = spoken[index].id
           /\ grown.parts = Append(spoken[index].parts, part)
           /\ blocks' = [blocks EXCEPT ![index] = grown]
           /\ spoken' = [i \in Sent |-> IF i = index THEN grown ELSE spoken[i]]
           /\ log' = (CASE spoken[index].kind = "text" -> Grow(log, "Assistant", part)
                        [] spoken[index].kind = "thinking" /\ ShowThinking
                             -> Grow(log, "Thinking", part)
                        [] OTHER -> log)
           /\ mixed' = (mixed \/ index # Len(blocks))
<1>1. PICK index \in Sent, last \in BOOLEAN :
        LET block == spoken[index]
            part == [block |-> block.id, n |-> Len(block.parts) + 1, last |-> last]
        IN
          /\ block.kind # "other" /\ ~ Closed(block) /\ part.n <= MaxParts
          /\ Speaks(index, [block EXCEPT !.parts = Append(@, part)])
          /\ blocks' = [blocks EXCEPT ![index].parts = Append(@, part)]
          /\ Shows(block, part)
          /\ mixed' = (mixed \/ index # Len(blocks))
  BY Zenon DEF BlockDelta
<1> DEFINE block == spoken[index]
           part  == [block |-> block.id, n |-> Len(block.parts) + 1, last |-> last]
           grown == [block EXCEPT !.parts = Append(@, part)]
<1>2. /\ index \in 1 .. Len(blocks) /\ blocks[index] = block
      /\ block \in Block
  <2>1. pc = "streaming" /\ blocks \in Seq(Slot) /\ spoken \in [Sent -> Block]
    BY DEF BlockDelta, TypeOK, Slot
  <2>2. DOMAIN blocks = 1 .. Len(blocks)
    BY <2>1, LenProperties
  <2> QED BY <2>1, <2>2 DEF Mirror
<1>3. part \in Part /\ part.n # 0
  <2>1. block.id \in Id /\ Len(block.parts) \in Nat
    BY <1>2, LenProperties DEF Block
  <2> QED BY <2>1 DEF Part
<1>4. /\ Speaks(index, grown)
      /\ blocks' = [blocks EXCEPT ![index].parts = Append(@, part)]
      /\ Shows(block, part)
      /\ mixed' = (mixed \/ index # Len(blocks))
  BY <1>1
<1> HIDE DEF part
<1>5. /\ grown \in Block
      /\ grown.kind = block.kind /\ grown.id = block.id
      /\ grown.parts = Append(block.parts, part)
  <2>1. block.parts \in Seq(Part)
    BY <1>2 DEF Block
  <2>2. Append(block.parts, part) \in Seq(Part)
    BY <1>3, <2>1, AppendProperties
  <2> HIDE DEF block
  <2> DEFINE kind == block.kind
             id == block.id
             parts == block.parts
  <2>3. grown = [kind |-> kind, id |-> id, parts |-> Append(parts, part)]
    <3>1. block = [kind |-> kind, id |-> id, parts |-> parts]
      BY <1>2 DEF Block
    <3> HIDE DEF kind, id, parts
    <3> QED BY <3>1, MoreOfBlock
  <2> HIDE DEF grown
  <2> QED BY <1>2, <2>2, <2>3 DEF Block
<1>6. blocks' = [blocks EXCEPT ![index] = grown]
  BY <1>2, <1>4
<1> HIDE DEF grown
<1>7. spoken' = [i \in Sent |-> IF i = index THEN grown ELSE spoken[i]]
  <2>1. Sent \cup {index} = Sent
    OBVIOUS
  <2> QED BY <1>4, <2>1 DEF Speaks
<1>8. log' = (CASE block.kind = "text" -> Grow(log, "Assistant", part)
                [] block.kind = "thinking" /\ ShowThinking -> Grow(log, "Thinking", part)
                [] OTHER -> log)
  BY <1>4 DEF Shows
<1> QED BY <1>2, <1>3, <1>4, <1>5, <1>6, <1>7, <1>8

-----------------------------------------------------------------------------
(***************************************************************************)
(* Every step keeps the types.                                             *)
(***************************************************************************)
LEMMA ItemLaws ==
  /\ \A kind \in {"Error", "Notice"} :
       /\ Item(kind, <<>>) \in LogItem
       /\ ~ Passing(Item(kind, <<>>))
       /\ Visible(Item(kind, <<>>)) = <<>>
  /\ \A r \in Result :
       /\ Item("Tool", r) \in LogItem
       /\ ~ Passing(Item("Tool", r))
       /\ Visible(Item("Tool", r)) = <<r>>
  BY DEF Item, LogItem, Passing, Visible

(* The turn ends, and the log has one line more that says how.             *)
LEMMA EndTypes ==
  ASSUME TypeOK, Fails \/ Cancelled
  PROVE  /\ pc' = "ended" /\ outcome' \in {"failed", "cancelled"}
         /\ log' \in Seq(LogItem)
<1>1. log \in Seq(LogItem)
  BY DEF TypeOK
<1>2. PICK kind \in {"Error", "Notice"} : log' = Append(log, Item(kind, <<>>))
  BY Zenon DEF Fails, Cancelled
<1>3. log' \in Seq(LogItem)
  BY <1>1, <1>2, ItemLaws, AppendProperties
<1> QED BY <1>3 DEF Fails, Cancelled, Returns

LEMMA RequestTypes ==
  ASSUME TypeOK, Request PROVE TypeOK'
<1> USE StreamAssumption DEF StreamAssumption
<1>1. blocks' \in Seq(Slot) /\ Len(blocks') <= MaxBlocks
  <2>1. blocks' = <<>>
    BY DEF Request
  <2> QED BY <2>1, EmptySeq
<1>2. Sent' \subseteq 1 .. MaxBlocks /\ spoken' \in [Sent' -> Block]
  BY DEF Request, Sent
<1>3. round' \in 0 .. MaxToolRounds /\ attempt' \in 0 .. MaxStreamRetries /\ request' \in Nat
  BY DEF Request, TypeOK
<1>4. pc' \in {"round", "streaming", "calls", "ended"}
  BY DEF Request
<1>5. UNCHANGED <<calls, results, transcript, flag, log, mixed, ran, outcome>>
  BY DEF Request
<1> QED BY <1>1, <1>2, <1>3, <1>4, <1>5 DEF TypeOK, Slot

LEMMA EndingTypes ==
  ASSUME TypeOK, Runaway \/ Stopped \/ Gives PROVE TypeOK'
<1>1. /\ UNCHANGED <<worker, transcript, flag, spoken, request, mixed, ran>>
      /\ Fails \/ Cancelled
  BY Zenon DEF Runaway, Stopped, Gives
<1>2. pc' = "ended" /\ outcome' \in {"failed", "cancelled"} /\ log' \in Seq(LogItem)
  BY <1>1, EndTypes
<1>3. Sent' = Sent
  BY <1>1 DEF Sent
<1> QED BY <1>1, <1>2, <1>3 DEF TypeOK, worker

LEMMA StartTypes ==
  ASSUME TypeOK, Mirror, BlockStart PROVE TypeOK'
<1> USE StreamAssumption DEF StreamAssumption
<1>1. PICK index \in 1 .. MaxBlocks, block \in Block :
           /\ blocks' \in Seq(Slot)
           /\ Len(blocks') = (IF index > Len(blocks) THEN index ELSE Len(blocks))
           /\ spoken' = [i \in Sent \cup {index} |-> IF i = index THEN block ELSE spoken[i]]
           /\ mixed' = (\/ mixed \/ index # 1 + Len(blocks)
                        \/ block.kind = "text" /\ \E i \in Sent : IsCall(spoken[i]))
  BY StartShape, Zenon
<1>2. mixed' \in BOOLEAN
  BY <1>1, Zenon
<1>3. Len(blocks') <= MaxBlocks
  BY <1>1 DEF TypeOK
<1>4. Sent' = Sent \cup {index} /\ Sent' \subseteq 1 .. MaxBlocks
  BY <1>1 DEF Sent, TypeOK
<1>5. spoken' \in [Sent' -> Block]
  <2>1. spoken \in [Sent -> Block]
    BY DEF TypeOK
  <2> QED BY <1>1, <1>4, <2>1
<1>6. UNCHANGED <<pc, round, attempt, calls, results, transcript, flag, log, request, ran,
                  outcome>>
  BY Zenon DEF BlockStart
<1> QED BY <1>1, <1>2, <1>3, <1>4, <1>5, <1>6 DEF TypeOK, Slot

LEMMA DeltaTypes ==
  ASSUME TypeOK, Mirror, BlockDelta PROVE TypeOK'
<1>1. PICK index \in Sent, part \in Part, grown \in Block :
           /\ index \in 1 .. Len(blocks)
           /\ blocks' = [blocks EXCEPT ![index] = grown]
           /\ spoken' = [i \in Sent |-> IF i = index THEN grown ELSE spoken[i]]
           /\ log' = (CASE spoken[index].kind = "text" -> Grow(log, "Assistant", part)
                        [] spoken[index].kind = "thinking" /\ ShowThinking
                             -> Grow(log, "Thinking", part)
                        [] OTHER -> log)
           /\ mixed' = (mixed \/ index # Len(blocks))
  BY DeltaShape, Zenon
<1>2. mixed' \in BOOLEAN
  BY <1>1, Zenon
<1>3. blocks' \in Seq(Slot) /\ Len(blocks') = Len(blocks)
  <2>1. blocks \in Seq(Slot) /\ grown \in Slot
    BY DEF TypeOK, Slot
  <2> QED BY <1>1, <2>1, ExceptSeq
<1>4. Sent' = Sent /\ spoken' \in [Sent' -> Block]
  <2>1. spoken \in [Sent -> Block]
    BY DEF TypeOK
  <2>2. Sent' = Sent
    BY <1>1 DEF Sent
  <2> QED BY <1>1, <2>1, <2>2
<1>5. log' \in Seq(LogItem)
  <2>1. log \in Seq(LogItem)
    BY DEF TypeOK
  <2>2. Grow(log, "Assistant", part) \in Seq(LogItem) /\ Grow(log, "Thinking", part) \in Seq(LogItem)
    BY <2>1, GrowLaws
  <2> QED BY <1>1, <2>1, <2>2
<1>6. UNCHANGED <<pc, round, attempt, calls, results, transcript, flag, request, ran, outcome>>
  BY Zenon DEF BlockDelta
<1> QED BY <1>2, <1>3, <1>4, <1>5, <1>6 DEF TypeOK, Slot

LEMMA StopTypes ==
  ASSUME TypeOK, MessageStop
  PROVE  /\ TypeOK'
         /\ Content \in Seq(Block) /\ transcript' = Append(transcript, Message(Content))
<1> USE StreamAssumption DEF StreamAssumption
<1>1. Content \in Seq(Block)
  <2>1. blocks \in Seq(Slot)
    BY DEF TypeOK, Slot
  <2> QED BY <2>1, ContentIsPicked
<1>2. Finish(Content)
  BY Zenon DEF MessageStop
<1>3. transcript' = Append(transcript, Message(Content)) /\ transcript' \in Seq(Turn)
  <2>1. transcript' = Append(transcript, Message(Content))
    BY <1>2 DEF Finish, Message
  <2>2. transcript \in Seq(Turn) /\ Message(Content) \in Turn
    BY <1>1, TurnShape DEF TypeOK
  <2> QED BY <2>1, <2>2, AppendProperties
<1>4. calls' \in Seq(Block) /\ results' \in Seq(Result)
  <2>1. calls' = CallsIn(Content) /\ results' = <<>>
    BY <1>2, Zenon DEF Finish
  <2> QED BY <1>1, <2>1, CallsArePicked, EmptySeq
<1>5. attempt' \in 0 .. MaxStreamRetries /\ pc' \in {"calls", "ended"}
      /\ outcome' \in {"none", "ok", "failed", "cancelled"}
  BY <1>2 DEF Finish, Returns, TypeOK
<1>6. UNCHANGED <<round, blocks, flag, log, spoken, request, mixed, ran>>
  BY <1>2, Zenon DEF Finish
<1>7. Sent' = Sent
  BY <1>6 DEF Sent
<1> HIDE DEF StreamAssumption
<1> QED BY <1>1, <1>3, <1>4, <1>5, <1>6, <1>7 DEF TypeOK

LEMMA BreaksTypes ==
  ASSUME TypeOK, Breaks PROVE TypeOK'
<1> USE StreamAssumption DEF StreamAssumption
<1>1. UNCHANGED <<round, blocks, calls, results, transcript, flag, spoken, request, mixed, ran>>
  BY Zenon DEF Breaks
<1>2. Sent' = Sent
  BY <1>1 DEF Sent
<1>3. /\ attempt' \in 0 .. MaxStreamRetries /\ pc' \in {"round", "ended"}
      /\ outcome' \in {"none", "ok", "failed", "cancelled"}
      /\ log' \in Seq(LogItem)
  <2>1. CASE attempt < MaxStreamRetries
    <3>1. /\ attempt' = attempt + 1 /\ pc' = "round" /\ outcome' = outcome
          /\ log' = Append(Retract(log), Item("Notice", <<>>))
      BY <2>1 DEF Breaks
    <3>2. log' \in Seq(LogItem)
      <4>1. log \in Seq(LogItem)
        BY DEF TypeOK
      <4>2. Retract(log) \in Seq(LogItem) /\ Item("Notice", <<>>) \in LogItem
        BY <4>1, RetractLaws, ItemLaws
      <4> QED BY <3>1, <4>2, AppendProperties
    <3> QED BY <2>1, <3>1, <3>2 DEF TypeOK
  <2>2. CASE ~ (attempt < MaxStreamRetries)
    <3>1. Fails /\ attempt' = attempt
      BY <2>2, Zenon DEF Breaks
    <3>2. pc' = "ended" /\ outcome' \in {"failed", "cancelled"} /\ log' \in Seq(LogItem)
      BY <3>1, EndTypes
    <3> QED BY <3>1, <3>2 DEF TypeOK
  <2> QED BY <2>1, <2>2
<1> QED BY <1>1, <1>2, <1>3 DEF TypeOK

(* A call is answered: by a result of its own, put last.                   *)
LEMMA AnswerShape ==
  ASSUME TypeOK, AnswerCall
  PROVE  \E result \in Result :
           /\ pc = "calls" /\ calls # <<>>
           /\ Head(calls) \in Block /\ Tail(calls) \in Seq(Block)
           /\ result.id = Head(calls).id
           /\ results' = Append(results, result) /\ results' \in Seq(Result)
           /\ calls' = Tail(calls)
           /\ log' = Append(log, Item("Tool", result)) /\ log' \in Seq(LogItem)
           /\ ran' \in Seq([id : Id, input : Seq(Part)])
           /\ \/ ran' = ran
              \/ \E input \in Seq(Part) :
                   /\ ran' = Append(ran, [id |-> Head(calls).id, input |-> input])
                   /\ input \in {<<>>, Head(calls).parts}
<1> DEFINE call == Head(calls)
<1>1. PICK state \in {"succeeded", "failed", "stopped"} :
         /\ ran' = IF flag THEN ran
                   ELSE Append(ran, [id |-> call.id, input |-> Input(call)])
         /\ results' = Append(results, [id |-> call.id, state |-> state])
         /\ log' = Append(log, Item("Tool", [id |-> call.id, state |-> state]))
  BY Zenon DEF AnswerCall
<1>2. pc = "calls" /\ calls # <<>> /\ calls' = Tail(calls)
  BY DEF AnswerCall
<1>3. call \in Block /\ Tail(calls) \in Seq(Block)
  <2>1. calls \in Seq(Block)
    BY DEF TypeOK
  <2> QED BY <1>2, <2>1, HeadTailProperties
<1> HIDE DEF call
<1> DEFINE result == [id |-> call.id, state |-> state]
           input  == Input(call)
<1>4. result \in Result /\ result.id = call.id
  BY <1>3 DEF Result, Block
<1>5. input \in Seq(Part) /\ input \in {<<>>, call.parts}
  BY <1>3, EmptySeq DEF Block, Input
<1> HIDE DEF result, input
<1>6. results' \in Seq(Result) /\ results' = Append(results, result)
  <2>1. results \in Seq(Result)
    BY DEF TypeOK
  <2>2. results' = Append(results, result)
    BY <1>1 DEF result
  <2> QED BY <1>4, <2>1, <2>2, AppendProperties
<1>7. log' \in Seq(LogItem) /\ log' = Append(log, Item("Tool", result))
  <2>1. log \in Seq(LogItem) /\ Item("Tool", result) \in LogItem
    BY <1>4, ItemLaws DEF TypeOK
  <2>2. log' = Append(log, Item("Tool", result))
    BY <1>1 DEF result
  <2> QED BY <2>1, <2>2, AppendProperties
<1>8. /\ ran' \in Seq([id : Id, input : Seq(Part)])
      /\ \/ ran' = ran
         \/ ran' = Append(ran, [id |-> call.id, input |-> input])
  <2> DEFINE Run == [id : Id, input : Seq(Part)]
             run == [id |-> call.id, input |-> input]
  <2>1. ran \in Seq(Run)
    BY DEF TypeOK
  <2>2. run \in Run
    BY <1>3, <1>5 DEF Block
  <2>3. ran' = ran \/ ran' = Append(ran, run)
    BY <1>1 DEF input
  <2> HIDE DEF Run, run
  <2>4. ran' \in Seq(Run)
    BY <2>1, <2>2, <2>3, AppendProperties
  <2> QED BY <2>3, <2>4 DEF Run, run
<1> QED BY <1>2, <1>3, <1>4, <1>5, <1>6, <1>7, <1>8 DEF call

LEMMA AnswerTypes ==
  ASSUME TypeOK, AnswerCall PROVE TypeOK'
<1>1. /\ calls' \in Seq(Block) /\ results' \in Seq(Result) /\ log' \in Seq(LogItem)
      /\ ran' \in Seq([id : Id, input : Seq(Part)])
  BY AnswerShape, Zenon
<1>2. UNCHANGED <<pc, round, attempt, blocks, transcript, flag, spoken, request, mixed, outcome>>
  BY Zenon DEF AnswerCall
<1>3. Sent' = Sent
  BY <1>2 DEF Sent
<1> QED BY <1>1, <1>2, <1>3 DEF TypeOK

LEMMA AnsweredTypes ==
  ASSUME TypeOK, CallsAnswered
  PROVE  TypeOK' /\ transcript' = Append(transcript, Replies(results))
<1>1. transcript' = Append(transcript, Replies(results)) /\ transcript' \in Seq(Turn)
  <2>1. transcript' = Append(transcript, Replies(results))
    BY DEF CallsAnswered, Replies
  <2>2. transcript \in Seq(Turn) /\ Replies(results) \in Turn
    BY TurnShape DEF TypeOK
  <2> QED BY <2>1, <2>2, AppendProperties
<1>2. /\ pc' \in {"round", "ended"} /\ outcome' \in {"none", "ok", "failed", "cancelled"}
      /\ log' \in Seq(LogItem)
  <2>1. CASE Cancelled
    BY <2>1, EndTypes
  <2>2. CASE pc' = "round" /\ UNCHANGED <<log, outcome>>
    BY <2>2 DEF TypeOK
  <2> QED BY <2>1, <2>2 DEF CallsAnswered
<1>3. UNCHANGED <<worker, flag, spoken, request, mixed, ran>>
  BY Zenon DEF CallsAnswered
<1>4. Sent' = Sent
  BY <1>3 DEF Sent
<1> QED BY <1>1, <1>2, <1>3, <1>4 DEF TypeOK, worker

LEMMA NextTypes ==
  ASSUME TypeOK, Mirror, [Next]_vars PROVE TypeOK'
<1>1. CASE Request  BY <1>1, RequestTypes
<1>2. CASE Runaway \/ Stopped \/ Gives  BY <1>2, EndingTypes
<1>3. CASE BlockStart  BY <1>3, StartTypes
<1>4. CASE BlockDelta  BY <1>4, DeltaTypes
<1>5. CASE MessageStop  BY <1>5, StopTypes
<1>6. CASE Breaks  BY <1>6, BreaksTypes
<1>7. CASE AnswerCall  BY <1>7, AnswerTypes
<1>8. CASE CallsAnswered  BY <1>8, AnsweredTypes
<1>9. CASE PressStop
  <2>1. /\ UNCHANGED <<pc, worker, transcript, log, spoken, request, mixed, ran, outcome>>
        /\ flag' = TRUE
    BY <1>9 DEF PressStop
  <2>2. Sent' = Sent
    BY <2>1 DEF Sent
  <2> QED BY <2>1, <2>2 DEF TypeOK, worker
<1>10. CASE UNCHANGED vars
  <2>1. Sent' = Sent
    BY <1>10 DEF Sent, vars
  <2> QED BY <1>10, <2>1 DEF TypeOK, vars, worker
<1> QED BY <1>1, <1>2, <1>3, <1>4, <1>5, <1>6, <1>7, <1>8, <1>9, <1>10, Zenon DEF Next

-----------------------------------------------------------------------------
(***************************************************************************)
(* The accumulator mirrors what was sent, and no step but a request and    *)
(* the events of blocks has to do with that.                               *)
(***************************************************************************)
LEMMA StreamingGoesOn ==
  ASSUME [Next]_vars, pc' = "streaming"
  PROVE  \/ Request
         \/ BlockStart
         \/ BlockDelta
         \/ /\ pc = "streaming"
            /\ UNCHANGED <<blocks, transcript, log, spoken, request, mixed, ran, outcome>>
<1>1. ~ Runaway /\ ~ Stopped /\ ~ Gives
  BY DEF Runaway, Stopped, Gives, Fails, Cancelled, Returns
<1>2. ~ MessageStop
  BY DEF MessageStop, Finish, Returns
<1>3. ~ Breaks
  BY DEF Breaks, Fails, Returns
<1>4. ~ AnswerCall /\ ~ CallsAnswered
  BY DEF AnswerCall, CallsAnswered, Cancelled, Returns
<1>5. CASE PressStop \/ UNCHANGED vars
  BY <1>5 DEF PressStop, vars, worker
<1> QED BY <1>1, <1>2, <1>3, <1>4, <1>5, Zenon DEF Next

LEMMA StartMirrors ==
  ASSUME TypeOK, Mirror, Orderly, BlockStart PROVE Mirror' /\ Orderly'
<1>1. PICK index \in 1 .. MaxBlocks, block \in Block :
           /\ index \notin Sent
           /\ block.id = <<request, index>> /\ Heard(block) = <<>>
           /\ blocks' \in Seq(Slot)
           /\ Len(blocks') = (IF index > Len(blocks) THEN index ELSE Len(blocks))
           /\ \A i \in 1 .. Len(blocks') :
                blocks'[i] = IF i = index THEN block
                             ELSE IF i <= Len(blocks) THEN blocks[i] ELSE Hole
           /\ spoken' = [i \in Sent \cup {index} |-> IF i = index THEN block ELSE spoken[i]]
           /\ mixed' = (\/ mixed \/ index # 1 + Len(blocks)
                        \/ block.kind = "text" /\ \E i \in Sent : IsCall(spoken[i]))
  BY StartShape, Zenon
<1>2. /\ pc = "streaming" /\ request' = request /\ blocks \in Seq(Slot) /\ index \in Nat
      /\ Len(blocks) \in Nat
  <2>1. blocks \in Seq(Slot)
    BY DEF TypeOK, Slot
  <2> QED BY <2>1, LenProperties, StreamAssumption DEF StreamAssumption, BlockStart
<1>3. DOMAIN blocks = 1 .. Len(blocks) /\ DOMAIN blocks' = 1 .. Len(blocks')
  BY <1>1, <1>2, LenProperties
<1>4. /\ Sent \subseteq DOMAIN blocks
      /\ \A i \in DOMAIN blocks : blocks[i] = IF i \in Sent THEN spoken[i] ELSE Hole
      /\ \A i \in Sent : spoken[i].id = <<request, i>>
  BY <1>2, Zenon DEF Mirror
<1>5. Sent' = Sent \cup {index}
  BY <1>1 DEF Sent
<1>6. Mirror'
  <2>1. Sent' \subseteq DOMAIN blocks'
    BY <1>1, <1>2, <1>3, <1>4, <1>5
  <2>2. ASSUME NEW i \in DOMAIN blocks'
        PROVE  blocks'[i] = IF i \in Sent' THEN spoken'[i] ELSE Hole
    BY <1>1, <1>2, <1>3, <1>4, <1>5
  <2>3. ASSUME NEW i \in Sent' PROVE spoken'[i].id = <<request, i>>
    BY <1>1, <1>4, <1>5
  <2> QED BY <1>2, <2>1, <2>2, <2>3 DEF Mirror
<1>7. Orderly'
  <2> SUFFICES ASSUME ~ mixed' PROVE Sent' = DOMAIN blocks' /\ CallsLast(blocks')
    BY Zenon DEF Orderly
  <2>1. /\ ~ mixed /\ index = 1 + Len(blocks)
        /\ block.kind = "text" => \A i \in Sent : ~ IsCall(spoken[i])
    BY <1>1, Zenon
  <2>2. Sent = DOMAIN blocks /\ CallsLast(blocks)
    BY <1>2, <2>1, Zenon DEF Orderly
  <2>3. Sent' = DOMAIN blocks' /\ Len(blocks') = index
    BY <1>1, <1>2, <1>3, <1>5, <2>1, <2>2
  <2>4. ASSUME NEW i \in DOMAIN blocks', NEW j \in DOMAIN blocks', i < j, IsCall(blocks'[i])
        PROVE  blocks'[j].kind # "text"
    <3>1. i \in DOMAIN blocks /\ blocks'[i] = blocks[i] /\ blocks[i] = spoken[i] /\ i \in Sent
      BY <1>1, <1>2, <1>3, <1>4, <2>1, <2>2, <2>3, <2>4
    <3>2. CASE j = index
      <4>1. blocks'[j] = block
        BY <1>1, <1>3, <3>2
      <4> QED BY <2>1, <2>4, <3>1, <4>1
    <3>3. CASE j # index
      <4>1. j \in DOMAIN blocks /\ blocks'[j] = blocks[j]
        BY <1>1, <1>2, <1>3, <2>1, <2>3, <3>3
      <4> QED BY <2>2, <2>4, <3>1, <4>1 DEF CallsLast
    <3> QED BY <3>2, <3>3
  <2> QED BY <2>3, <2>4 DEF CallsLast
<1> QED BY <1>6, <1>7

LEMMA DeltaMirrors ==
  ASSUME TypeOK, Mirror, Orderly, BlockDelta PROVE Mirror' /\ Orderly'
<1>1. PICK index \in Sent, part \in Part, grown \in Block :
           /\ index \in 1 .. Len(blocks) /\ blocks[index] = spoken[index]
           /\ grown.kind = spoken[index].kind /\ grown.id = spoken[index].id
           /\ blocks' = [blocks EXCEPT ![index] = grown]
           /\ spoken' = [i \in Sent |-> IF i = index THEN grown ELSE spoken[i]]
           /\ mixed' = (mixed \/ index # Len(blocks))
  BY DeltaShape, Zenon
<1>2. pc = "streaming" /\ request' = request /\ blocks \in Seq(Slot) /\ grown \in Slot
  BY DEF TypeOK, Slot, BlockDelta
<1>3. DOMAIN blocks = 1 .. Len(blocks)
  BY <1>2, LenProperties
<1>4. /\ Sent \subseteq DOMAIN blocks
      /\ \A i \in DOMAIN blocks : blocks[i] = IF i \in Sent THEN spoken[i] ELSE Hole
      /\ \A i \in Sent : spoken[i].id = <<request, i>>
  BY <1>2, Zenon DEF Mirror
<1>5. Sent' = Sent
  BY <1>1 DEF Sent
<1>6. /\ DOMAIN blocks' = DOMAIN blocks
      /\ \A i \in DOMAIN blocks : blocks'[i] = IF i = index THEN grown ELSE blocks[i]
  BY <1>1
<1>7. Mirror'
  <2>1. Sent' \subseteq DOMAIN blocks'
    BY <1>4, <1>5, <1>6
  <2>2. ASSUME NEW i \in DOMAIN blocks'
        PROVE  blocks'[i] = IF i \in Sent' THEN spoken'[i] ELSE Hole
    BY <1>1, <1>4, <1>5, <1>6
  <2>3. ASSUME NEW i \in Sent' PROVE spoken'[i].id = <<request, i>>
    BY <1>1, <1>4, <1>5
  <2> QED BY <1>2, <2>1, <2>2, <2>3 DEF Mirror
<1>8. Orderly'
  <2> SUFFICES ASSUME ~ mixed' PROVE Sent' = DOMAIN blocks' /\ CallsLast(blocks')
    BY Zenon DEF Orderly
  <2>1. ~ mixed
    BY <1>1, Zenon
  <2>2. Sent = DOMAIN blocks /\ CallsLast(blocks)
    BY <1>2, <2>1, Zenon DEF Orderly
  <2>3. \A i \in DOMAIN blocks' : blocks'[i].kind = blocks[i].kind
    BY <1>1, <1>6
  <2>4. CallsLast(blocks')
    BY <1>6, <2>2, <2>3 DEF CallsLast, IsCall
  <2> QED BY <1>5, <1>6, <2>2, <2>4
<1> QED BY <1>7, <1>8

LEMMA NextMirrors ==
  ASSUME TypeOK, Mirror, Orderly, [Next]_vars PROVE Mirror' /\ Orderly'
<1>1. CASE pc' # "streaming"
  BY <1>1, Zenon DEF Mirror, Orderly
<1>2. CASE Request
  BY <1>2 DEF Request, Mirror, Orderly, CallsLast, Sent
<1>3. CASE BlockStart  BY <1>3, StartMirrors
<1>4. CASE BlockDelta  BY <1>4, DeltaMirrors
<1>5. CASE /\ pc = "streaming" /\ pc' = "streaming"
           /\ UNCHANGED <<blocks, transcript, log, spoken, request, mixed, ran, outcome>>
  <2>1. Sent' = Sent
    BY <1>5 DEF Sent
  <2>2. Mirror'
    BY <1>5, <2>1, Zenon DEF Mirror
  <2>3. Orderly'
    BY <1>5, <2>1, Zenon DEF Orderly
  <2> QED BY <2>2, <2>3
<1> QED BY <1>1, <1>2, <1>3, <1>4, <1>5, StreamingGoesOn, Zenon

(* Once the turn is answered it is over.                                   *)
LEMMA NextOkIsEnd ==
  ASSUME TypeOK, OkIsEnd, [Next]_vars PROVE OkIsEnd'
<1>1. CASE Request \/ BlockStart \/ BlockDelta \/ AnswerCall
  BY <1>1 DEF Request, BlockStart, BlockDelta, AnswerCall, OkIsEnd
<1>2. CASE Runaway \/ Stopped \/ Gives \/ CallsAnswered
  BY <1>2 DEF Runaway, Stopped, Gives, CallsAnswered, Fails, Cancelled, Returns, OkIsEnd
<1>3. CASE MessageStop
  BY <1>3 DEF MessageStop, Finish, Returns, OkIsEnd
<1>4. CASE Breaks
  BY <1>4 DEF Breaks, Fails, Returns, OkIsEnd
<1>5. CASE PressStop \/ UNCHANGED vars
  BY <1>5 DEF PressStop, OkIsEnd, vars
<1> QED BY <1>1, <1>2, <1>3, <1>4, <1>5, Zenon DEF Next

(* A whole message: Content is what was said when the message is over.     *)
LEMMA NextWhole ==
  ASSUME TypeOK, Mirror, [Next]_vars
  PROVE  \A turn \in {t \in Range(transcript') : t.role = "assistant"} :
           turn \in Range(transcript) \/ (Complete /\ turn.content = Said)
<1> USE StreamAssumption DEF StreamAssumption
<1> SUFFICES ASSUME NEW turn \in Range(transcript'), turn.role = "assistant",
                    turn \notin Range(transcript)
             PROVE  Complete /\ turn.content = Said
  BY Zenon
<1>0. transcript \in Seq(Turn)
  BY DEF TypeOK
<1>1. CASE MessageStop
  <2>1. transcript' = Append(transcript, Message(Content)) /\ Content \in Seq(Block)
    BY <1>1, StopTypes
  <2>2. Complete /\ pc = "streaming" /\ blocks \in Seq(Slot)
    BY <1>1 DEF MessageStop, TypeOK, Slot
  <2>3. Content = Said
    <3>1. MaxBlocks \in Nat /\ Len(blocks) <= MaxBlocks /\ spoken \in [Sent -> Block]
      BY DEF TypeOK
    <3>2. /\ Sent \subseteq DOMAIN blocks
          /\ \A i \in DOMAIN blocks : blocks[i] = IF i \in Sent THEN spoken[i] ELSE Hole
      BY <2>2, Zenon DEF Mirror
    <3> QED BY <2>2, <3>1, <3>2, ContentIsSaid
  <2>4. turn = Message(Content)
    <3> DEFINE m == Message(Content)
    <3>1. m \in Turn
      BY <2>1, TurnShape
    <3> HIDE DEF m
    <3>2. PICK t \in DOMAIN Append(transcript, m) : turn = Append(transcript, m)[t]
      BY <2>1 DEF Range, m
    <3>3. /\ DOMAIN Append(transcript, m) = 1 .. Len(transcript) + 1 /\ Len(transcript) \in Nat
          /\ DOMAIN transcript = 1 .. Len(transcript)
          /\ Append(transcript, m)[Len(transcript) + 1] = m
          /\ \A k \in 1 .. Len(transcript) : Append(transcript, m)[k] = transcript[k]
      BY <1>0, <3>1, AppendProperties, LenProperties
    <3>4. CASE t \in DOMAIN transcript
      BY <3>2, <3>3, <3>4 DEF Range
    <3>5. CASE t \notin DOMAIN transcript
      BY <3>2, <3>3, <3>5 DEF m
    <3> QED BY <3>4, <3>5
  <2> QED BY <2>2, <2>3, <2>4 DEF Message
<1>2. CASE CallsAnswered
  <2>1. transcript' = Append(transcript, Replies(results)) /\ results \in Seq(Result)
    BY <1>2, AnsweredTypes DEF TypeOK
  <2> DEFINE m == Replies(results)
  <2>2. m \in Turn /\ m.role = "user"
    BY <2>1, TurnShape DEF Replies
  <2> HIDE DEF m
  <2>3. PICK t \in DOMAIN Append(transcript, m) : turn = Append(transcript, m)[t]
    BY <2>1 DEF Range, m
  <2>4. /\ DOMAIN Append(transcript, m) = 1 .. Len(transcript) + 1 /\ Len(transcript) \in Nat
        /\ DOMAIN transcript = 1 .. Len(transcript)
        /\ Append(transcript, m)[Len(transcript) + 1] = m
        /\ \A k \in 1 .. Len(transcript) : Append(transcript, m)[k] = transcript[k]
    BY <1>0, <2>2, AppendProperties, LenProperties
  <2>5. CASE t \in DOMAIN transcript
    BY <2>3, <2>4, <2>5 DEF Range
  <2>6. CASE t \notin DOMAIN transcript
    BY <2>2, <2>3, <2>4, <2>6
  <2> QED BY <2>5, <2>6
<1>3. ASSUME transcript' = transcript PROVE Complete /\ turn.content = Said
  BY <1>3
<1>4. CASE Request \/ Runaway \/ Stopped \/ BlockStart \/ BlockDelta \/ Breaks \/ Gives
           \/ AnswerCall \/ PressStop \/ UNCHANGED vars
  <2>1. transcript' = transcript
    BY <1>4 DEF Request, Runaway, Stopped, BlockStart, BlockDelta, Breaks, Gives, AnswerCall,
         PressStop, vars
  <2> QED BY <1>3, <2>1
<1> QED BY <1>1, <1>2, <1>4, Zenon DEF Next

-----------------------------------------------------------------------------
(***************************************************************************)
(* The numbers blocks and results bear, and what is asked of the tools.    *)
(***************************************************************************)
LEMMA TurnOfAssistant ==
  ASSUME NEW t \in Turn, t.role = "assistant"
  PROVE  t = Message(t.content) /\ t.content \in Seq(Block)
<1>1. t \in [role : {"assistant"}, content : Seq(Block)]
  BY DEF Turn
<1> QED BY <1>1 DEF Message

LEMMA ContentHasIds ==
  ASSUME NEW t \in Turn, NEW k \in DOMAIN t.content
  PROVE  t.content[k].id \in Id /\ t.content[k].id[1] \in Nat
<1>1. t.content[k] \in Block \/ t.content[k] \in Result
  BY TurnShape, LenProperties, ElementOfSeq
<1>2. t.content[k].id \in Id
  BY <1>1 DEF Block, Result
<1> QED BY <1>2 DEF Id

LEMMA IdsBelowMore ==
  ASSUME NEW turns \in Seq(Turn), NEW m \in Nat, NEW n \in Nat, m <= n, IdsBelow(turns, m)
  PROVE  IdsBelow(turns, n)
<1> SUFFICES ASSUME NEW t \in DOMAIN turns, NEW k \in DOMAIN turns[t].content
             PROVE  turns[t].content[k].id[1] < n
  BY DEF IdsBelow
<1>1. turns[t] \in Turn
  BY LenProperties, ElementOfSeq
<1>2. turns[t].content[k].id[1] \in Nat
  BY <1>1, ContentHasIds
<1>3. turns[t].content[k].id[1] < m
  BY DEF IdsBelow
<1> QED BY <1>2, <1>3

LEMMA IdsBelowAppend ==
  ASSUME NEW turns \in Seq(Turn), NEW t \in Turn, NEW n \in Nat, IdsBelow(turns, n),
         \A k \in DOMAIN t.content : t.content[k].id[1] < n
  PROVE  IdsBelow(Append(turns, t), n)
<1> DEFINE more == Append(turns, t)
<1>1. /\ DOMAIN more = 1 .. Len(turns) + 1 /\ Len(turns) \in Nat
      /\ DOMAIN turns = 1 .. Len(turns)
      /\ more[Len(turns) + 1] = t
      /\ \A k \in 1 .. Len(turns) : more[k] = turns[k]
  BY AppendProperties, LenProperties
<1> HIDE DEF more
<1>2. ASSUME NEW u \in DOMAIN more, NEW k \in DOMAIN more[u].content
      PROVE  more[u].content[k].id[1] < n
  <2>1. CASE u \in DOMAIN turns
    BY <1>1, <1>2, <2>1 DEF IdsBelow
  <2>2. CASE u \notin DOMAIN turns
    BY <1>1, <1>2, <2>2
  <2> QED BY <2>1, <2>2
<1> QED BY <1>2 DEF IdsBelow, more

(* What the accumulator makes bears the number of the request.             *)
LEMMA ContentIds ==
  ASSUME TypeOK, Mirror, pc = "streaming"
  PROVE  /\ \A k \in 1 .. Len(Content) : Content[k].id[1] = request
         /\ \A k, l \in 1 .. Len(Content) : Content[k].id = Content[l].id => k = l
<1>1. blocks \in Seq(Slot) /\ spoken \in [Sent -> Block]
  BY DEF TypeOK, Slot
<1>2. Content \in Seq(Block)
  BY <1>1, ContentIsPicked
<1>3. PICK f : PickedBy(f, Content, blocks)
  BY <1>1, ContentIsPicked
<1>4. DOMAIN blocks = 1 .. Len(blocks)
  BY <1>1, LenProperties
<1>5. ASSUME NEW k \in 1 .. Len(Content) PROVE Content[k].id = <<request, f[k]>>
  <2>1. f[k] \in DOMAIN blocks /\ Content[k] = blocks[f[k]]
    BY <1>3, <1>4 DEF PickedBy
  <2>2. Content[k] # Hole
    BY <1>2, ElementOfSeq, NoBlockIsAHole
  <2>3. f[k] \in Sent /\ Content[k] = spoken[f[k]]
    BY <2>1, <2>2 DEF Mirror
  <2> QED BY <2>3 DEF Mirror
<1>6. ASSUME NEW k \in 1 .. Len(Content), NEW l \in 1 .. Len(Content),
             Content[k].id = Content[l].id
      PROVE  k = l
  <2>1. f[k] = f[l]
    <3>1. Content[k].id = <<request, f[k]>> /\ Content[l].id = <<request, f[l]>>
      BY <1>5
    <3>2. <<request, f[k]>> = <<request, f[l]>>
      BY <1>6, <3>1, Zenon
    <3> QED BY <3>2
  <2>2. ~ (k < l) /\ ~ (l < k)
    <3>1. f[k] \in 1 .. Len(blocks) /\ f[l] \in 1 .. Len(blocks)
      BY <1>3 DEF PickedBy
    <3> QED BY <1>3, <2>1, <3>1 DEF PickedBy
  <2>3. Len(Content) \in Nat
    BY <1>2, LenProperties
  <2> QED BY <2>2, <2>3
<1>7. \A k \in 1 .. Len(Content) : Content[k].id[1] = request
  BY <1>5
<1> QED BY <1>6, <1>7

(* The message whose calls are being answered, and its calls.              *)
LEMMA AskedLaws ==
  ASSUME TypeOK, Pending, pc = "calls"
  PROVE  /\ Asked \in Seq(Block) /\ Front(transcript) \in Seq(Turn)
         /\ transcript = Append(Front(transcript), Message(Asked))
         /\ CallsIn(Asked) \in Seq(Block)
         /\ \A k \in 1 .. Len(CallsIn(Asked)) :
              /\ CallsIn(Asked)[k].id[1] = request
              /\ \E i \in DOMAIN Asked : CallsIn(Asked)[k] = Asked[i]
         /\ \A k, l \in 1 .. Len(CallsIn(Asked)) :
              CallsIn(Asked)[k].id = CallsIn(Asked)[l].id => k = l
<1>1. /\ transcript # <<>> /\ Last(transcript).role = "assistant"
      /\ \A i \in DOMAIN Asked : Asked[i].id[1] = request
      /\ \A i, j \in DOMAIN Asked : Asked[i].id = Asked[j].id => i = j
  BY Zenon DEF Pending
<1>2. /\ Front(transcript) \in Seq(Turn) /\ Last(transcript) \in Turn
      /\ transcript = Append(Front(transcript), Last(transcript))
  <2>1. transcript \in Seq(Turn)
    BY DEF TypeOK
  <2> QED BY <1>1, <2>1, LastReplaced
<1>3. Last(transcript) = Message(Asked) /\ Asked \in Seq(Block)
  BY <1>1, <1>2, TurnOfAssistant DEF Asked
<1> DEFINE a == Asked
           c == CallsIn(a)
<1>4. a \in Seq(Block)
  BY <1>3
<1> HIDE DEF a
<1>5. c \in Seq(Block) /\ \E f : PickedBy(f, c, a)
  BY <1>4, CallsArePicked
<1>6. PICK f : PickedBy(f, c, a)
  BY <1>5
<1>7. Len(c) \in Nat /\ Len(a) \in Nat /\ DOMAIN a = 1 .. Len(a)
  BY <1>4, <1>5, LenProperties
<1> HIDE DEF c
<1>8. \A k \in 1 .. Len(c) : c[k].id[1] = request /\ \E i \in DOMAIN a : c[k] = a[i]
  BY <1>1, <1>6, <1>7 DEF PickedBy, a
<1>9. \A k, l \in 1 .. Len(c) : c[k].id = c[l].id => k = l
  <2>1. \A i, j \in 1 .. Len(a) : a[i].id = a[j].id => i = j
    BY <1>1, <1>7 DEF a
  <2> QED BY <1>6, <1>7, <2>1, PickedIdsDiffer
<1> QED BY <1>2, <1>3, <1>5, <1>8, <1>9 DEF a, c

(* The calls that wait are those whose results are not there yet.          *)
LEMMA WaitingLaws ==
  ASSUME TypeOK, Pending, pc = "calls"
  PROVE  /\ Len(results) \in Nat /\ Len(CallsIn(Asked)) \in Nat
         /\ calls = <<>> => Len(results) = Len(CallsIn(Asked))
         /\ calls # <<>> =>
              /\ Len(results) + 1 \in 1 .. Len(CallsIn(Asked))
              /\ Head(calls) = CallsIn(Asked)[Len(results) + 1]
              /\ Tail(calls) = SubSeq(CallsIn(Asked), Len(results) + 2, Len(CallsIn(Asked)))
<1> DEFINE c == CallsIn(Asked)
           n == Len(results)
           m == Len(c)
<1>1. c \in Seq(Block) /\ results \in Seq(Result) /\ m \in Nat /\ n \in Nat
  BY AskedLaws, LenProperties DEF TypeOK
<1>2. n <= m /\ calls = SubSeq(c, n + 1, m)
  BY Zenon DEF Pending
<1> HIDE DEF c, n, m
<1>3. CASE n + 1 <= m
  <2>1. m = Len(c) /\ n + 1 \in 1 .. Len(c) /\ Len(c) \in n + 1 .. Len(c)
    BY <1>1, <1>3 DEF m
  <2>2. /\ Head(SubSeq(c, n + 1, m)) = c[n + 1]
        /\ Tail(SubSeq(c, n + 1, m)) = SubSeq(c, n + 1 + 1, m)
    BY <1>1, <2>1, HeadTailOfSubSeq
  <2>3. Len(SubSeq(c, n + 1, m)) = m - (n + 1) + 1
    <3>1. n + 1 \in Int /\ m \in Int /\ \A i \in n + 1 .. m : c[i] \in Block
      <4>1. n + 1 \in Int /\ m \in Int /\ \A i \in n + 1 .. m : i \in 1 .. Len(c)
        BY <1>1 DEF m
      <4> QED BY <1>1, <4>1, ElementOfSeq
    <3> QED BY <1>3, <3>1, SubSeqProperties
  <2>4. calls # <<>>
    <3>1. Len(calls) # 0
      BY <1>1, <1>2, <1>3, <2>3
    <3> QED BY <3>1, EmptySeq
  <2>5. n + 1 + 1 = n + 2
    BY <1>1
  <2> QED BY <1>1, <1>2, <2>1, <2>2, <2>4, <2>5 DEF c, n, m
<1>4. CASE ~ (n + 1 <= m)
  <2>1. n + 1 \in Int /\ m \in Int /\ m < n + 1 /\ n = m
    BY <1>1, <1>2, <1>4
  <2>2. calls = <<>>
    BY <1>2, <2>1, SubSeqEmpty
  <2> QED BY <1>1, <2>1, <2>2 DEF c, n, m
<1> QED BY <1>3, <1>4

LEMMA RanIds ==
  ASSUME TypeOK, NEW i \in DOMAIN ran
  PROVE  ran[i].id \in Id /\ ran[i].id[1] \in Nat /\ ran[i].input \in Seq(Part)
<1> DEFINE Run == [id : Id, input : Seq(Part)]
<1>1. ran \in Seq(Run)
  BY DEF TypeOK
<1> HIDE DEF Run
<1>2. ran[i] \in Run
  BY <1>1, LenProperties, ElementOfSeq
<1>3. ran[i].id \in Id /\ ran[i].input \in Seq(Part)
  BY <1>2 DEF Run
<1> QED BY <1>3 DEF Id

(* A run more, or none.                                                    *)
LEMMA RanShape ==
  ASSUME TypeOK, AnswerCall
  PROVE  \/ ran' = ran
         \/ /\ DOMAIN ran' = 1 .. Len(ran) + 1 /\ DOMAIN ran = 1 .. Len(ran) /\ Len(ran) \in Nat
            /\ \A i \in DOMAIN ran : ran'[i] = ran[i]
            /\ ran'[Len(ran) + 1].id = Head(calls).id
            /\ ran'[Len(ran) + 1].input \in {<<>>, Head(calls).parts}
<1> SUFFICES ASSUME ran' # ran
             PROVE  /\ DOMAIN ran' = 1 .. Len(ran) + 1 /\ DOMAIN ran = 1 .. Len(ran)
                    /\ Len(ran) \in Nat
                    /\ \A i \in DOMAIN ran : ran'[i] = ran[i]
                    /\ ran'[Len(ran) + 1].id = Head(calls).id
                    /\ ran'[Len(ran) + 1].input \in {<<>>, Head(calls).parts}
  OBVIOUS
<1>1. PICK input \in Seq(Part) :
        /\ ran' = Append(ran, [id |-> Head(calls).id, input |-> input])
        /\ input \in {<<>>, Head(calls).parts}
  BY AnswerShape, Zenon
<1>2. Head(calls) \in Block
  BY AnswerShape, Zenon
<1> DEFINE Run == [id : Id, input : Seq(Part)]
           id  == Head(calls).id
           run == [id |-> id, input |-> input]
<1>3. ran \in Seq(Run)
  BY DEF TypeOK
<1>4. run \in Run /\ run.id = id /\ run.input = input
  BY <1>2 DEF Block
<1>5. ran' = Append(ran, run)
  BY <1>1
<1> HIDE DEF Run, run, id
<1>6. /\ DOMAIN ran' = 1 .. Len(ran) + 1 /\ DOMAIN ran = 1 .. Len(ran) /\ Len(ran) \in Nat
      /\ \A i \in 1 .. Len(ran) : ran'[i] = ran[i]
      /\ ran'[Len(ran) + 1] = run
  BY <1>3, <1>4, <1>5, AppendProperties, LenProperties
<1> QED BY <1>1, <1>4, <1>6 DEF id

LEMMA NextNumbered ==
  ASSUME TypeOK, Mirror, Numbered, Pending, [Next]_vars PROVE Numbered'
<1>0. transcript \in Seq(Turn) /\ request \in Nat /\ \A i \in DOMAIN ran : ran[i].id[1] \in Nat
  BY RanIds DEF TypeOK
<1>1. \A i \in DOMAIN ran : /\ ran[i].id[1] <= request
                            /\ pc = "streaming" => ran[i].id[1] < request
  BY Zenon DEF Numbered
<1>2. IdsBelow(Earlier, Fresh)
  BY DEF Numbered
<1>3. CASE Request
  <2>1. Earlier' = Earlier /\ Fresh' = Fresh /\ ran' = ran /\ request' = request + 1
        /\ IdsBelow(Earlier, Fresh)'
    BY <1>2, <1>3 DEF Request, Earlier, Fresh
  <2> QED BY <1>0, <1>1, <2>1 DEF Numbered
<1>4. CASE Runaway \/ Stopped \/ Breaks \/ Gives
  <2>1. /\ pc \in {"round", "streaming"} /\ pc' \in {"round", "ended"}
        /\ UNCHANGED <<transcript, request, ran>>
    BY <1>4 DEF Runaway, Stopped, Breaks, Gives, Fails, Cancelled, Returns
  <2>2. Earlier = transcript /\ Earlier' = transcript /\ Fresh' = request + 1
    BY <2>1 DEF Earlier, Fresh
  <2>3. Fresh \in Nat /\ Fresh <= request + 1
    BY <1>0 DEF Fresh
  <2>4. IdsBelow(transcript, request + 1)
    BY <1>0, <1>2, <2>2, <2>3, IdsBelowMore
  <2>5. IdsBelow(Earlier, Fresh)'
    BY <2>2, <2>4
  <2> QED BY <1>1, <2>1, <2>5 DEF Numbered
<1>5. CASE MessageStop
  <2>1. /\ transcript' = Append(transcript, Message(Content)) /\ Content \in Seq(Block)
        /\ transcript' \in Seq(Turn)
    BY <1>5, StopTypes DEF TypeOK
  <2>2. pc = "streaming" /\ pc' \in {"calls", "ended"} /\ ran' = ran /\ request' = request
    BY <1>5 DEF MessageStop, Finish, Returns
  <2>3. IdsBelow(transcript, request)
    BY <1>2, <2>2 DEF Earlier, Fresh
  <2> DEFINE m == Message(Content)
  <2>4. m \in Turn /\ \A k \in DOMAIN m.content : m.content[k].id[1] = request
    BY <2>1, <2>2, ContentIds, TurnShape, LenProperties DEF Message
  <2>5. CASE pc' = "calls"
    <3> HIDE DEF m
    <3>1. Front(Append(transcript, m)) = transcript
      BY <1>0, <2>4, FrontOfAppend
    <3>2. Earlier' = transcript /\ Fresh' = request
      BY <2>1, <2>2, <2>5, <3>1 DEF Earlier, Fresh, m
    <3>3. IdsBelow(Earlier, Fresh)'
      BY <2>3, <3>2
    <3> QED BY <1>1, <2>2, <2>5, <3>3 DEF Numbered
  <2>6. CASE pc' = "ended"
    <3> HIDE DEF m
    <3>1. IdsBelow(transcript, request + 1)
      BY <1>0, <2>3, IdsBelowMore
    <3>2. \A k \in DOMAIN m.content : m.content[k].id[1] < request + 1
      BY <1>0, <2>4
    <3>3. IdsBelow(Append(transcript, m), request + 1)
      <4>1. request + 1 \in Nat
        BY <1>0
      <4> QED BY <1>0, <2>4, <3>1, <3>2, <4>1, IdsBelowAppend
    <3>4. Earlier' = Append(transcript, m) /\ Fresh' = request + 1
      BY <2>1, <2>2, <2>6 DEF Earlier, Fresh, m
    <3>5. IdsBelow(Earlier, Fresh)'
      BY <3>3, <3>4
    <3> QED BY <1>1, <2>2, <2>6, <3>5 DEF Numbered
  <2> QED BY <2>2, <2>5, <2>6
<1>6. CASE AnswerCall
  <2>1. pc = "calls" /\ pc' = "calls" /\ UNCHANGED <<transcript, request>>
    BY <1>6 DEF AnswerCall
  <2>2. IdsBelow(Earlier, Fresh)'
    BY <1>2, <2>1 DEF Earlier, Fresh
  <2>3. Head(calls).id[1] = request
    <3>1. calls # <<>>
      BY <1>6 DEF AnswerCall
    <3> QED BY <2>1, <3>1, AskedLaws, WaitingLaws
  <2>4. \A i \in DOMAIN ran' : ran'[i].id[1] <= request
    <3>1. CASE ran' = ran
      BY <1>1, <3>1
    <3>2. CASE ran' # ran
      BY <1>0, <1>1, <1>6, <2>3, <3>2, RanShape
    <3> QED BY <3>1, <3>2
  <2> QED BY <2>1, <2>2, <2>4 DEF Numbered
<1>7. CASE CallsAnswered
  <2>1. transcript' = Append(transcript, Replies(results)) /\ transcript' \in Seq(Turn)
    BY <1>7, AnsweredTypes DEF TypeOK
  <2>2. pc = "calls" /\ calls = <<>> /\ pc' \in {"round", "ended"} /\ ran' = ran /\ request' = request
    BY <1>7 DEF CallsAnswered, Cancelled, Returns
  <2> DEFINE before == Front(transcript)
             asks   == Message(Asked)
             given  == Replies(results)
  <2>3. IdsBelow(before, request + 1)
    <3>1. IdsBelow(before, request)
      BY <1>2, <2>2 DEF Earlier, Fresh
    <3>2. before \in Seq(Turn)
      BY <2>2, AskedLaws
    <3> HIDE DEF before
    <3> QED BY <1>0, <3>1, <3>2, IdsBelowMore
  <2>4. /\ before \in Seq(Turn) /\ asks \in Turn /\ given \in Turn
        /\ transcript = Append(before, asks)
    BY <2>2, AskedLaws, TurnShape DEF TypeOK
  <2>5. \A k \in DOMAIN asks.content : asks.content[k].id[1] < request + 1
    <3>1. \A k \in DOMAIN Asked : Asked[k].id[1] = request
      BY <2>2, Zenon DEF Pending
    <3> QED BY <1>0, <3>1 DEF Message
  <2>6. \A k \in DOMAIN given.content : given.content[k].id[1] < request + 1
    <3>1. \A k \in DOMAIN results : results[k].id = CallsIn(Asked)[k].id
      BY <2>2, Zenon DEF Pending
    <3>2. DOMAIN results = 1 .. Len(CallsIn(Asked))
      <4>1. DOMAIN results = 1 .. Len(results)
        BY LenProperties DEF TypeOK
      <4> QED BY <2>2, <4>1, WaitingLaws
    <3>3. \A k \in DOMAIN results : results[k].id[1] = request
      BY <2>2, <3>1, <3>2, AskedLaws
    <3> QED BY <1>0, <3>3 DEF Replies
  <2> HIDE DEF before, asks, given
  <2>7. IdsBelow(transcript', request + 1)
    <3>1. request + 1 \in Nat
      BY <1>0
    <3>2. IdsBelow(Append(before, asks), request + 1)
      BY <2>3, <2>4, <2>5, <3>1, IdsBelowAppend
    <3>3. IdsBelow(Append(transcript, given), request + 1)
      BY <1>0, <2>4, <2>6, <3>1, <3>2, IdsBelowAppend
    <3> QED BY <2>1, <3>3 DEF given
  <2>8. Earlier' = transcript' /\ Fresh' = request + 1
    BY <2>2 DEF Earlier, Fresh
  <2>9. IdsBelow(Earlier, Fresh)'
    BY <2>7, <2>8
  <2> QED BY <1>1, <2>2, <2>9 DEF Numbered
<1>8. CASE BlockStart \/ BlockDelta \/ PressStop \/ UNCHANGED vars
  <2>1. UNCHANGED <<pc, transcript, request, ran>>
    BY <1>8 DEF BlockStart, BlockDelta, PressStop, vars
  <2>2. IdsBelow(Earlier, Fresh)'
    BY <1>2, <2>1 DEF Earlier, Fresh
  <2> QED BY <1>1, <2>1, <2>2 DEF Numbered
<1> QED BY <1>3, <1>4, <1>5, <1>6, <1>7, <1>8, Zenon DEF Next

(* Unmixed, the message is the accumulator, and its calls come last.       *)
LEMMA UnmixedContent ==
  ASSUME TypeOK, Mirror, Orderly, pc = "streaming", ~ mixed
  PROVE  blocks \in Seq(Block) /\ Content = blocks /\ CallsLast(blocks)
<1>1. Sent = DOMAIN blocks /\ CallsLast(blocks)
  BY DEF Orderly
<1>2. blocks \in Seq(Slot) /\ spoken \in [Sent -> Block]
  BY DEF TypeOK, Slot
<1>3. \A i \in DOMAIN blocks : blocks[i] = spoken[i] /\ blocks[i] \in Block
  <2>1. \A i \in DOMAIN blocks : blocks[i] = IF i \in Sent THEN spoken[i] ELSE Hole
    BY DEF Mirror
  <2> QED BY <1>1, <1>2, <2>1
<1>4. blocks \in Seq(Block)
  <2>1. DOMAIN blocks = 1 .. Len(blocks) /\ Len(blocks) \in Nat
    BY <1>2, LenProperties
  <2>2. blocks \in [1 .. Len(blocks) -> Block]
    BY <1>2, <1>3, <2>1
  <2> QED BY <2>1, <2>2
<1> QED BY <1>1, <1>4, ContentWithoutHoles

LEMMA AnsweringGoesOn ==
  ASSUME [Next]_vars, pc' = "calls"
  PROVE  \/ MessageStop
         \/ AnswerCall
         \/ /\ pc = "calls"
            /\ UNCHANGED <<calls, results, transcript, log, request, mixed, ran, outcome>>
<1>1. ~ Runaway /\ ~ Stopped /\ ~ Gives
  BY DEF Runaway, Stopped, Gives, Fails, Cancelled, Returns
<1>2. ~ Request /\ ~ BlockStart /\ ~ BlockDelta
  BY DEF Request, BlockStart, BlockDelta
<1>3. ~ Breaks
  BY DEF Breaks, Fails, Returns
<1>4. ~ CallsAnswered
  BY DEF CallsAnswered, Cancelled, Returns
<1>5. CASE PressStop \/ UNCHANGED vars
  BY <1>5 DEF PressStop, vars, worker
<1> QED BY <1>1, <1>2, <1>3, <1>4, <1>5, Zenon DEF Next

LEMMA StopLeavesPending ==
  ASSUME TypeOK, Mirror, Orderly, Numbered, MessageStop, pc' = "calls"
  PROVE  Pending'
<1> DEFINE a == Last(transcript').content
           c == CallsIn(Content)
<1>1. /\ pc = "streaming" /\ calls' = c /\ results' = <<>> /\ ran' = ran /\ request' = request
      /\ mixed' = mixed /\ calls' # <<>>
  BY DEF MessageStop, Finish, Returns
<1>2. transcript' = Append(transcript, Message(Content)) /\ Content \in Seq(Block)
  BY StopTypes
<1>3. transcript' # <<>> /\ Last(transcript') = Message(Content)
  <2> DEFINE m == Message(Content)
  <2>1. transcript \in Seq(Turn) /\ m \in Turn
    BY <1>2, TurnShape DEF TypeOK
  <2> HIDE DEF m
  <2>2. Append(transcript, m) # <<>> /\ Last(Append(transcript, m)) = m
    BY <2>1, FrontOfAppend
  <2> QED BY <1>2, <2>2 DEF m
<1>4. Last(transcript').role = "assistant" /\ a = Content
  BY <1>3 DEF Message
<1> HIDE DEF a
<1>5. DOMAIN Content = 1 .. Len(Content)
  BY <1>2, LenProperties
<1>6. /\ \A i \in DOMAIN a : a[i].id[1] = request
      /\ \A i, j \in DOMAIN a : a[i].id = a[j].id => i = j
  BY <1>1, <1>4, <1>5, ContentIds
<1>7. /\ CallsIn(a) = c /\ c \in Seq(Block) /\ c # <<>> /\ Len(c) \in Nat /\ c = SubSeq(c, 1, Len(c))
  BY <1>1, <1>2, <1>4, CallsArePicked, SubSeqFull, LenProperties
<1> HIDE DEF c
<1>8. /\ Len(results') = 0 /\ DOMAIN results' = {}
      /\ calls' = SubSeq(c, Len(results') + 1, Len(c))
  BY <1>1, <1>7
<1>9. \A i \in DOMAIN ran' : ran'[i].id[1] # request
  <2>1. \A i \in DOMAIN ran : ran[i].id[1] \in Nat /\ ran[i].id[1] < request
    BY <1>1, RanIds DEF Numbered
  <2> QED BY <1>1, <2>1 DEF TypeOK
<1>10. ~ mixed' => CallsLast(a)
  BY <1>1, <1>4, UnmixedContent
<1>11. Asked' = a
  BY DEF Asked, a
<1>12. /\ CallsIn(a) # <<>>
       /\ Len(results') <= Len(CallsIn(a))
       /\ \A k \in DOMAIN results' : results'[k].id = CallsIn(a)[k].id
       /\ calls' = SubSeq(CallsIn(a), Len(results') + 1, Len(CallsIn(a)))
  BY <1>7, <1>8
<1>13. \A i \in DOMAIN ran' : ran'[i].id[1] = request' =>
                               \E k \in DOMAIN results' : ran'[i].id = results'[k].id
  BY <1>1, <1>9
<1>14. \A i \in DOMAIN a : a[i].id[1] = request'
  BY <1>1, <1>6
<1> QED BY <1>3, <1>4, <1>6, <1>10, <1>11, <1>12, <1>13, <1>14, Zenon DEF Pending

LEMMA AnswerKeepsPending ==
  ASSUME TypeOK, Pending, AnswerCall
  PROVE  Pending'
<1> DEFINE c == CallsIn(Asked)
           n == Len(results)
<1>1. /\ pc = "calls" /\ calls # <<>>
      /\ UNCHANGED <<transcript, request, mixed>>
  BY DEF AnswerCall
<1>2. /\ n \in Nat /\ Len(c) \in Nat /\ n + 1 \in 1 .. Len(c)
      /\ Head(calls) = c[n + 1] /\ Tail(calls) = SubSeq(c, n + 2, Len(c))
  BY <1>1, WaitingLaws
<1>3. PICK result \in Result :
           /\ result.id = Head(calls).id
           /\ results' = Append(results, result)
           /\ calls' = Tail(calls)
  BY AnswerShape, Zenon
<1>4. /\ transcript # <<>> /\ Last(transcript).role = "assistant"
      /\ \A i \in DOMAIN Asked : Asked[i].id[1] = request
      /\ \A i, j \in DOMAIN Asked : Asked[i].id = Asked[j].id => i = j
      /\ c # <<>>
      /\ \A k \in DOMAIN results : results[k].id = c[k].id
      /\ \A i \in DOMAIN ran : ran[i].id[1] = request =>
                                 \E k \in DOMAIN results : ran[i].id = results[k].id
      /\ ~ mixed => CallsLast(Asked)
  BY <1>1, Zenon DEF Pending
<1> HIDE DEF c, n
<1>5. /\ DOMAIN results' = 1 .. n + 1 /\ DOMAIN results = 1 .. n /\ Len(results') = n + 1
      /\ \A k \in 1 .. n : results'[k] = results[k]
      /\ results'[n + 1] = result
  <2>1. results \in Seq(Result) /\ results' \in Seq(Result)
    BY <1>3, AppendProperties DEF TypeOK
  <2>2. DOMAIN results' = 1 .. Len(results') /\ DOMAIN results = 1 .. Len(results)
    BY <2>1, LenProperties
  <2> QED BY <1>3, <2>1, <2>2, AppendProperties DEF n
<1>6. /\ Len(results') <= Len(c)
      /\ \A k \in DOMAIN results' : results'[k].id = c[k].id
  BY <1>2, <1>3, <1>4, <1>5
<1>7. calls' = SubSeq(c, Len(results') + 1, Len(c))
  <2>1. n + 1 + 1 = n + 2
    BY <1>2
  <2> QED BY <1>2, <1>3, <1>5, <2>1
<1>8. ASSUME NEW i \in DOMAIN ran', ran'[i].id[1] = request
      PROVE  \E k \in DOMAIN results' : ran'[i].id = results'[k].id
  <2>1. CASE i \in DOMAIN ran /\ ran'[i] = ran[i]
    <3>1. PICK k \in DOMAIN results : ran[i].id = results[k].id
      BY <1>4, <1>8, <2>1
    <3>2. k \in DOMAIN results' /\ results'[k] = results[k]
      BY <1>2, <1>5
    <3> QED BY <2>1, <3>1, <3>2
  <2>2. CASE ran'[i].id = Head(calls).id
    <3>1. n + 1 \in DOMAIN results' /\ results'[n + 1].id = Head(calls).id
      BY <1>2, <1>3, <1>5
    <3> QED BY <2>2, <3>1
  <2> QED BY <1>8, <2>1, <2>2, RanShape
<1>9. Asked' = Asked /\ CallsIn(Asked)' = c
  BY <1>1 DEF Asked, c
<1>10. /\ transcript' # <<>> /\ Last(transcript').role = "assistant"
       /\ ~ mixed' => CallsLast(Asked)
       /\ \A i \in DOMAIN Asked : Asked[i].id[1] = request'
       /\ \A i \in DOMAIN ran' : ran'[i].id[1] = request' =>
                                  \E k \in DOMAIN results' : ran'[i].id = results'[k].id
  BY <1>1, <1>4, <1>8
<1> QED BY <1>4, <1>6, <1>7, <1>9, <1>10, Zenon DEF Pending

LEMMA NextPending ==
  ASSUME TypeOK, Mirror, Orderly, Numbered, Pending, [Next]_vars PROVE Pending'
<1>1. CASE pc' # "calls"
  BY <1>1, Zenon DEF Pending
<1>2. CASE pc' = "calls" /\ MessageStop  BY <1>2, StopLeavesPending
<1>3. CASE AnswerCall  BY <1>3, AnswerKeepsPending
<1>4. CASE /\ pc = "calls"
           /\ UNCHANGED <<calls, results, transcript, log, request, mixed, ran, outcome>>
  BY <1>4, Zenon DEF Pending, Asked
<1> QED BY <1>1, <1>2, <1>3, <1>4, AnsweringGoesOn, Zenon

-----------------------------------------------------------------------------
(* A run's message stays in the transcript.                                *)
AskedFor(run) ==
  \E t \in DOMAIN transcript :
    /\ transcript[t].role = "assistant"
    /\ \E k \in DOMAIN transcript[t].content :
         LET call == transcript[t].content[k] IN
           call.id = run.id /\ run.input \in {<<>>, call.parts}

LEMMA RunOnceIs ==
  CallsRunOnce <=> /\ \A i, j \in DOMAIN ran : ran[i].id = ran[j].id => i = j
                   /\ \A i \in DOMAIN ran : AskedFor(ran[i])
  BY Zenon DEF CallsRunOnce, AskedFor

LEMMA NextRunOnceIs ==
  CallsRunOnce' <=> /\ \A i, j \in DOMAIN ran' : ran'[i].id = ran'[j].id => i = j
                    /\ \A i \in DOMAIN ran' : AskedFor(ran[i])'
  BY Zenon DEF CallsRunOnce, AskedFor

LEMMA AnswerRunsOnce ==
  ASSUME TypeOK, Pending, CallsRunOnce, AnswerCall
  PROVE  CallsRunOnce'
<1> DEFINE c == CallsIn(Asked)
           n == Len(results)
           call == Head(calls)
<1>1. pc = "calls" /\ calls # <<>> /\ transcript' = transcript
  BY DEF AnswerCall
<1>2. /\ \A i, j \in DOMAIN ran : ran[i].id = ran[j].id => i = j
      /\ \A i \in DOMAIN ran : AskedFor(ran[i])
  BY RunOnceIs
<1>3. CASE ran' = ran
  BY <1>1, <1>3, Zenon DEF CallsRunOnce
<1>4. CASE ran' # ran
  <2>1. /\ DOMAIN ran' = 1 .. Len(ran) + 1 /\ DOMAIN ran = 1 .. Len(ran) /\ Len(ran) \in Nat
        /\ \A i \in DOMAIN ran : ran'[i] = ran[i]
        /\ ran'[Len(ran) + 1].id = call.id
        /\ ran'[Len(ran) + 1].input \in {<<>>, call.parts}
    BY <1>4, RanShape
  <2>2. /\ n \in Nat /\ Len(c) \in Nat /\ n + 1 \in 1 .. Len(c) /\ call = c[n + 1]
    BY <1>1, WaitingLaws
  <2>3. call.id[1] = request
    BY <1>1, <2>2, AskedLaws
  <2>4. ASSUME NEW i \in DOMAIN ran PROVE ran[i].id # call.id
    <3> SUFFICES ASSUME ran[i].id = call.id PROVE FALSE
      OBVIOUS
    <3>1. PICK k \in DOMAIN results : ran[i].id = results[k].id
      BY <1>1, <2>3 DEF Pending
    <3>2. results[k].id = c[k].id /\ k \in 1 .. n /\ k \in 1 .. Len(c)
      <4>1. results[k].id = c[k].id /\ n <= Len(c)
        BY <1>1 DEF Pending
      <4>2. DOMAIN results = 1 .. n
        BY LenProperties DEF TypeOK
      <4> QED BY <2>2, <4>1, <4>2
    <3>3. k = n + 1
      BY <1>1, <2>2, <3>1, <3>2, AskedLaws
    <3> QED BY <2>2, <3>2, <3>3
  <2>5. \A i, j \in DOMAIN ran' : ran'[i].id = ran'[j].id => i = j
    BY <1>2, <2>1, <2>4
  <2>6. ASSUME NEW i \in DOMAIN ran' PROVE AskedFor(ran[i])'
    <3>1. CASE i \in DOMAIN ran
      <4>1. AskedFor(ran[i]) /\ ran'[i] = ran[i]
        BY <1>2, <2>1, <3>1
      <4> QED BY <1>1, <4>1, Zenon DEF AskedFor
    <3>2. CASE i \notin DOMAIN ran
      <4>1. ran'[i].id = call.id /\ ran'[i].input \in {<<>>, call.parts}
        BY <2>1, <3>2
      <4>2. PICK k \in DOMAIN Asked : call = Asked[k]
        BY <1>1, <2>2, AskedLaws
      <4>3. PICK t \in DOMAIN transcript : transcript[t] = Last(transcript)
        <5> DEFINE x == Last(transcript)
        <5>1. transcript \in Seq(Turn) /\ transcript # <<>>
          BY <1>1 DEF TypeOK, Pending
        <5>2. Len(transcript) \in DOMAIN transcript
          <6>1. Len(transcript) \in Nat /\ Len(transcript) # 0
            BY <5>1, EmptySeq, LenProperties, Zenon
          <6> QED BY <5>1, <6>1, LenProperties
        <5> QED BY <5>2 DEF Last
      <4>4. transcript[t].role = "assistant" /\ transcript[t].content = Asked
        BY <1>1, <4>3 DEF Pending, Asked
      <4>5. t \in DOMAIN transcript' /\ transcript'[t].role = "assistant"
            /\ k \in DOMAIN transcript'[t].content /\ transcript'[t].content[k] = call
        BY <1>1, <4>2, <4>4
      <4> HIDE DEF call
      <4> QED BY <4>1, <4>5 DEF AskedFor
    <3> QED BY <3>1, <3>2
  <2> QED BY <2>5, <2>6, NextRunOnceIs
<1> QED BY <1>3, <1>4

LEMMA NextRunOnce ==
  ASSUME TypeOK, Pending, CallsRunOnce, [Next]_vars PROVE CallsRunOnce'
<1>1. CASE AnswerCall  BY <1>1, AnswerRunsOnce
<1>2. CASE MessageStop \/ CallsAnswered
  <2>1. PICK m \in Turn : transcript' = Append(transcript, m)
    <3>1. CASE MessageStop
      BY <3>1, StopTypes, TurnShape
    <3>2. CASE CallsAnswered
      <4>1. results \in Seq(Result)
        BY DEF TypeOK
      <4> QED BY <3>2, <4>1, AnsweredTypes, TurnShape
    <3> QED BY <1>2, <3>1, <3>2
  <2>2. \A t \in DOMAIN transcript : t \in DOMAIN transcript' /\ transcript'[t] = transcript[t]
    <3>1. transcript \in Seq(Turn)
      BY DEF TypeOK
    <3> QED BY <2>1, <3>1, AppendProperties, LenProperties
  <2>3. ran' = ran
    BY <1>2 DEF MessageStop, Finish, CallsAnswered
  <2>4. ASSUME NEW i \in DOMAIN ran PROVE AskedFor(ran[i])'
    <3>1. PICK t \in DOMAIN transcript :
            /\ transcript[t].role = "assistant"
            /\ \E k \in DOMAIN transcript[t].content :
                 LET call == transcript[t].content[k] IN
                   call.id = ran[i].id /\ ran[i].input \in {<<>>, call.parts}
      BY Zenon DEF CallsRunOnce
    <3> QED BY <2>2, <2>3, <3>1, Zenon DEF AskedFor
  <2> QED BY <2>3, <2>4, RunOnceIs, NextRunOnceIs
<1>3. CASE Request \/ Runaway \/ Stopped \/ BlockStart \/ BlockDelta \/ Breaks \/ Gives
           \/ PressStop \/ UNCHANGED vars
  <2>1. transcript' = transcript /\ ran' = ran
    BY <1>3 DEF Request, Runaway, Stopped, BlockStart, BlockDelta, Breaks, Gives, PressStop, vars
  <2> QED BY <2>1, Zenon DEF CallsRunOnce
<1> QED BY <1>1, <1>2, <1>3, Zenon DEF Next

-----------------------------------------------------------------------------
(***************************************************************************)
(* What is on the screen is what reopens.                                  *)
(***************************************************************************)
(* What grows behind something grows with it.                              *)
GrowsBehind(a, b, x) == Append(a \o b, x) = a \o Append(b, x)

LEMMA GrowingBehind ==
  ASSUME NEW S, NEW a \in Seq(S), NEW b \in Seq(S), NEW x \in S
  PROVE  GrowsBehind(a, b, x)
<1> DEFINE ab == a \o b
           one == <<x>>
           bx == b \o one
<1>1. ab \in Seq(S) /\ one \in Seq(S)
  BY ConcatProperties
<1>2. Append(ab, x) = ab \o one /\ Append(b, x) = bx
  BY <1>1, AppendIsConcat
<1>3. ab \o one = a \o bx
  <2> HIDE DEF one
  <2> QED BY <1>1, ConcatAssociative
<1> QED BY <1>2, <1>3 DEF GrowsBehind

(* The parts of Watched, for the state of a chat that is not mixed.        *)
LEMMA ScreenTypes ==
  ASSUME TypeOK
  PROVE  /\ log \in Seq(LogItem) /\ transcript \in Seq(Turn)
         /\ OnScreen \in Seq(Seen) /\ Reopened \in Seq(Seen)
<1>1. log \in Seq(LogItem) /\ transcript \in Seq(Turn)
  BY DEF TypeOK
<1> QED BY <1>1, ShownLaws, ReopensAllType DEF OnScreen, Reopened

LEMMA RequestWatched ==
  ASSUME TypeOK, OkIsEnd, Watched, Request, ~ mixed'
  PROVE  Watched'
<1>1. /\ pc = "round" /\ pc' = "streaming" /\ blocks' = <<>>
      /\ UNCHANGED <<log, transcript, mixed, outcome>>
  BY DEF Request
<1>2. Shown(Retract(log)) = Reopened /\ Retract(log) = log
  BY <1>1 DEF Watched
<1>3. OnScreen = Reopened \o Texts(<<>>)
  <2>1. Reopened \o Texts(<<>>) = Reopened
    BY ScreenTypes, TextsLaws, ConcatEmptySeq
  <2> QED BY <1>2, <2>1 DEF OnScreen
<1>4. OnScreen' = OnScreen /\ Reopened' = Reopened
  BY <1>1 DEF OnScreen, Reopened
<1>5. outcome' # "ok"
  BY <1>1 DEF OkIsEnd
<1>6. Shown(Retract(log))' = Reopened' /\ OnScreen' = Reopened' \o Texts(blocks')
  BY <1>1, <1>2, <1>3, <1>4
<1> QED BY <1>1, <1>5, <1>6 DEF Watched

LEMMA EndingWatched ==
  ASSUME pc' = "ended", outcome' # "ok" PROVE Watched'
BY DEF Watched

LEMMA BreaksWatched ==
  ASSUME TypeOK, OkIsEnd, Watched, Breaks, ~ mixed'
  PROVE  Watched'
<1>1. CASE attempt < MaxStreamRetries
  <2> DEFINE notice == Item("Notice", <<>>)
             kept   == Retract(log)
  <2>1. /\ pc = "streaming" /\ pc' = "round" /\ log' = Append(kept, notice)
        /\ UNCHANGED <<transcript, mixed, outcome>>
    BY <1>1 DEF Breaks
  <2>2. Shown(kept) = Reopened
    BY <2>1 DEF Watched
  <2>3. kept \in Seq(LogItem) /\ notice \in LogItem /\ ~ Passing(notice) /\ Visible(notice) = <<>>
    BY ScreenTypes, RetractLaws, ItemLaws
  <2> HIDE DEF kept, notice
  <2>4. Retract(log') = log'
    BY <2>1, <2>3, RetractLaws
  <2>5. Shown(log') = Reopened
    <3>1. Shown(Append(kept, notice)) = Shown(kept) \o <<>>
      BY <2>3, ShownLaws
    <3> QED BY <2>1, <2>2, <3>1, ScreenTypes, ConcatEmptySeq
  <2>6. Reopened' = Reopened
    BY <2>1 DEF Reopened
  <2>7. outcome' # "ok"
    BY <2>1 DEF OkIsEnd
  <2>8. Shown(Retract(log))' = Reopened' /\ Retract(log)' = log'
    BY <2>4, <2>5, <2>6
  <2> QED BY <2>1, <2>7, <2>8 DEF Watched
<1>2. CASE ~ (attempt < MaxStreamRetries)
  BY <1>2, EndingWatched DEF Breaks, Fails, Returns
<1> QED BY <1>1, <1>2

LEMMA StartWatched ==
  ASSUME TypeOK, Mirror, Orderly, OkIsEnd, Watched, BlockStart, ~ mixed'
  PROVE  Watched'
<1>1. PICK index \in 1 .. MaxBlocks, block \in Block :
           /\ Heard(block) = <<>>
           /\ blocks' \in Seq(Slot)
           /\ Len(blocks') = (IF index > Len(blocks) THEN index ELSE Len(blocks))
           /\ \A i \in 1 .. Len(blocks') :
                blocks'[i] = IF i = index THEN block
                             ELSE IF i <= Len(blocks) THEN blocks[i] ELSE Hole
           /\ mixed' = (\/ mixed \/ index # 1 + Len(blocks)
                        \/ block.kind = "text" /\ \E i \in Sent : IsCall(spoken[i]))
  BY StartShape, Zenon
<1>2. ~ mixed /\ index = 1 + Len(blocks)
  BY <1>1, Zenon
<1>3. pc = "streaming" /\ pc' = "streaming" /\ UNCHANGED <<transcript, log, outcome>>
  BY DEF BlockStart
<1>4. blocks \in Seq(Block)
  BY <1>2, <1>3, UnmixedContent
<1>5. blocks' = Append(blocks, block)
  <2> DEFINE more == Append(blocks, block)
  <2>1. Len(blocks) \in Nat /\ blocks \in Seq(Slot) /\ block \in Slot
    BY <1>4, LenProperties DEF Slot, TypeOK
  <2>2. /\ more \in Seq(Slot) /\ Len(more) = Len(blocks) + 1 /\ more[Len(blocks) + 1] = block
        /\ \A i \in 1 .. Len(blocks) : more[i] = blocks[i]
    BY <2>1, AppendProperties
  <2> HIDE DEF more
  <2>3. Len(blocks') = Len(more) /\ \A i \in 1 .. Len(blocks') : blocks'[i] = more[i]
    BY <1>1, <1>2, <2>1, <2>2
  <2>4. blocks' = more
    BY <1>1, <2>2, <2>3, SeqEqual
  <2> QED BY <2>4 DEF more
<1>6. Texts(blocks') = Texts(blocks)
  <2>1. TextIn(block) = <<>>
    BY <1>1 DEF TextIn
  <2>2. Texts(Append(blocks, block)) = Texts(blocks) \o <<>>
    BY <1>4, <2>1, TextsLaws
  <2>3. Texts(blocks) \in Seq(Seen)
    BY <1>4, TextsLaws
  <2> QED BY <1>5, <2>2, <2>3, ConcatEmptySeq
<1>7. OnScreen = Reopened \o Texts(blocks) /\ Shown(Retract(log)) = Reopened
  BY <1>2, <1>3 DEF Watched
<1>8. OnScreen' = OnScreen /\ Reopened' = Reopened
  BY <1>3 DEF OnScreen, Reopened
<1>9. outcome' # "ok"
  BY <1>3 DEF OkIsEnd
<1>10. OnScreen' = Reopened' \o Texts(blocks') /\ Shown(Retract(log))' = Reopened'
  BY <1>3, <1>6, <1>7, <1>8
<1> QED BY <1>3, <1>9, <1>10 DEF Watched

LEMMA DeltaWatched ==
  ASSUME TypeOK, Mirror, Orderly, OkIsEnd, Watched, BlockDelta, ~ mixed'
  PROVE  Watched'
<1>1. PICK index \in Sent, part \in Part, grown \in Block :
           /\ index \in 1 .. Len(blocks) /\ blocks[index] = spoken[index]
           /\ spoken[index] \in Block /\ part.n # 0
           /\ grown.kind = spoken[index].kind /\ grown.id = spoken[index].id
           /\ grown.parts = Append(spoken[index].parts, part)
           /\ blocks' = [blocks EXCEPT ![index] = grown]
           /\ log' = (CASE spoken[index].kind = "text" -> Grow(log, "Assistant", part)
                        [] spoken[index].kind = "thinking" /\ ShowThinking
                             -> Grow(log, "Thinking", part)
                        [] OTHER -> log)
           /\ mixed' = (mixed \/ index # Len(blocks))
  BY DeltaShape, Zenon
<1>2. ~ mixed /\ index = Len(blocks)
  BY <1>1, Zenon
<1>3. pc = "streaming" /\ pc' = "streaming" /\ UNCHANGED <<transcript, outcome>>
  BY DEF BlockDelta
<1>4. blocks \in Seq(Block) /\ blocks # <<>>
  <2>1. blocks \in Seq(Block)
    BY <1>2, <1>3, UnmixedContent
  <2>2. Len(blocks) # 0
    BY <1>1, <2>1, LenProperties
  <2> QED BY <2>1, <2>2, EmptySeq
<1> DEFINE old    == spoken[index]
           before == Front(blocks)
<1>5. /\ before \in Seq(Block) /\ Last(blocks) = old /\ blocks = Append(before, old)
      /\ blocks' = Append(before, grown)
  <2>1. /\ before \in Seq(Block) /\ blocks = Append(before, Last(blocks))
        /\ [blocks EXCEPT ![Len(blocks)] = grown] = Append(before, grown)
    BY <1>4, LastReplaced
  <2>2. Last(blocks) = old
    BY <1>1, <1>2 DEF Last
  <2> QED BY <1>1, <1>2, <2>1, <2>2
<1>6. /\ OnScreen = Reopened \o Texts(blocks) /\ Shown(Retract(log)) = Reopened
  BY <1>2, <1>3 DEF Watched
<1>7. /\ log \in Seq(LogItem) /\ Reopened \in Seq(Seen) /\ part \in Seen
      /\ Texts(before) \in Seq(Seen) /\ Heard(old) \in Seq(Seen)
  <2>1. Heard(old) \in Seq(Part)
    BY <1>1, HeardType
  <2>2. Part \subseteq Seen
    BY DEF Seen
  <2> QED BY <1>5, <2>1, <2>2, ScreenTypes, TextsLaws, SeqMonotonic
<1>8. /\ Texts(blocks) = Texts(before) \o TextIn(old)
      /\ Texts(blocks') = Texts(before) \o TextIn(grown)
  <2>1. old \in Block
    BY <1>1
  <2> HIDE DEF before, old
  <2> QED BY <1>5, <2>1, TextsLaws
<1>9. /\ TextIn(old) = IF old.kind = "text" THEN Heard(old) ELSE <<>>
      /\ TextIn(grown) = IF old.kind = "text" THEN Append(Heard(old), part) ELSE <<>>
  <2>1. Heard(grown) = Append(Heard(old), part)
    BY <1>1, HeardGrows
  <2> QED BY <1>1, <2>1 DEF TextIn
<1> HIDE DEF before
<1>10. Shown(log') = Reopened \o Texts(blocks') /\ Retract(log') = Retract(log)
  <2>1. CASE old.kind = "text"
    <3> DEFINE t == Texts(before)
               p == Heard(old)
    <3>1. log' = Grow(log, "Assistant", part)
      BY <1>1, <2>1
    <3>2. Shown(log') = Append(Shown(log), part) /\ Retract(log') = Retract(log)
      BY <1>7, <3>1, GrowLaws
    <3>3. Shown(log) = Reopened \o (t \o p)
      BY <1>6, <1>8, <1>9, <2>1 DEF OnScreen
    <3>4. Texts(blocks') = t \o Append(p, part)
      BY <1>8, <1>9, <2>1
    <3> DEFINE tp == t \o p
    <3>5. t \in Seq(Seen) /\ p \in Seq(Seen) /\ part \in Seen
      BY <1>7
    <3>6. tp \in Seq(Seen) /\ Reopened \in Seq(Seen)
      <4> HIDE DEF t, p
      <4> QED BY <1>7, <3>5, ConcatProperties
    <3> HIDE DEF t, p
    <3>7. Append(tp, part) = t \o Append(p, part)
      <4>1. GrowsBehind(t, p, part)
        BY <3>5, GrowingBehind, Zenon
      <4> QED BY <4>1, Zenon DEF GrowsBehind
    <3>8. Append(Reopened \o tp, part) = Reopened \o Append(tp, part)
      <4> HIDE DEF tp
      <4>1. GrowsBehind(Reopened, tp, part)
        BY <3>5, <3>6, GrowingBehind, Zenon
      <4> QED BY <4>1, Zenon DEF GrowsBehind
    <3>9. Shown(log') = Reopened \o Append(tp, part)
      BY <3>2, <3>3, <3>8, Zenon
    <3> QED BY <3>2, <3>4, <3>7, <3>9, Zenon
  <2>2. CASE old.kind # "text"
    <3>1. Texts(blocks') = Texts(blocks)
      BY <1>8, <1>9, <2>2
    <3>2. log' = log \/ log' = Grow(log, "Thinking", part)
      BY <1>1, <2>2
    <3>3. Shown(log') = Shown(log) /\ Retract(log') = Retract(log)
      BY <1>7, <3>2, GrowLaws
    <3> QED BY <1>6, <3>1, <3>3 DEF OnScreen
  <2> QED BY <2>1, <2>2
<1>11. Reopened' = Reopened
  BY <1>3 DEF Reopened
<1>12. outcome' # "ok"
  BY <1>3 DEF OkIsEnd
<1>13. OnScreen' = Reopened' \o Texts(blocks') /\ Shown(Retract(log))' = Reopened'
  BY <1>6, <1>10, <1>11 DEF OnScreen
<1> QED BY <1>3, <1>12, <1>13 DEF Watched

LEMMA StopWatched ==
  ASSUME TypeOK, Mirror, Orderly, OkIsEnd, Watched, MessageStop, ~ mixed'
  PROVE  Watched'
<1>1. /\ pc = "streaming" /\ calls' = CallsIn(Content) /\ results' = <<>>
      /\ UNCHANGED <<log, mixed>>
      /\ pc' = (IF calls' = <<>> THEN "ended" ELSE "calls")
      /\ pc' = "calls" => outcome' = outcome
  BY DEF MessageStop, Finish, Returns
<1>2. transcript' = Append(transcript, Message(Content)) /\ Content \in Seq(Block)
  BY StopTypes
<1>3. Content = blocks /\ CallsLast(Content)
  BY <1>1, UnmixedContent
<1>4. OnScreen = Reopened \o Texts(Content)
  BY <1>1, <1>3 DEF Watched
<1>5. transcript \in Seq(Turn) /\ Reopened \in Seq(Seen) /\ Texts(Content) \in Seq(Seen)
  BY <1>2, ScreenTypes, TextsLaws
<1>6. CASE pc' = "calls"
  <2> DEFINE m == Message(Content)
  <2>1. m \in Turn
    BY <1>2, TurnShape
  <2> HIDE DEF m
  <2>2. Front(transcript') = transcript /\ Last(transcript') = m
    BY <1>2, <1>5, <2>1, FrontOfAppend DEF m
  <2>3. Asked' = Content
    BY <2>2 DEF Asked, m, Message
  <2>4. OnScreen' = (ReopensAll(Front(transcript')) \o Texts(Asked')) \o results'
    <3> DEFINE x == Reopened \o Texts(Content)
    <3>1. x \in Seq(Seen)
      BY <1>5, ConcatProperties
    <3>2. x \o <<>> = x
      <4> HIDE DEF x
      <4> QED BY <3>1, ConcatEmptySeq
    <3>3. OnScreen' = x \o <<>>
      BY <1>1, <1>4, <3>2 DEF OnScreen
    <3> QED BY <1>1, <2>2, <2>3, <3>3 DEF Reopened
  <2>5. outcome' # "ok"
    BY <1>1, <1>6 DEF OkIsEnd
  <2> QED BY <1>1, <1>6, <2>4, <2>5 DEF Watched
<1>7. CASE pc' = "ended"
  <2>1. CallsIn(Content) = <<>>
    BY <1>1, <1>7
  <2>2. AnswersTo(Content, transcript) = <<>>
    <3> DEFINE n == Len(CallsIn(Content))
               F == [k \in 1 .. n |-> ResultOf(CallsIn(Content)[k].id, transcript)]
    <3>1. AnswersTo(Content, transcript) = F
      BY <1>2, <1>5, AnswersAreImages
    <3>2. n = 0
      BY <2>1
    <3>3. F = <<>>
      BY <3>2
    <3> QED BY <3>1, <3>3
  <2>3. ReopensMessage(Content, transcript) = Texts(Content) \o <<>>
    BY <1>2, <1>3, <1>5, <2>2, TextThenAnswers
  <2>4. ReopensMessage(Content, transcript) = Texts(Content)
    <3> DEFINE t == Texts(Content)
    <3>1. t \in Seq(Seen)
      BY <1>5
    <3> HIDE DEF t
    <3>2. t \o <<>> = t
      BY <3>1, ConcatEmptySeq
    <3> QED BY <2>3, <3>2 DEF t
  <2>5. ReopensAll(Append(transcript, Message(Content)))
          = ReopensAll(transcript) \o ReopensMessage(Content, transcript)
    BY <1>2, <1>5, ReopensWithMessage
  <2>6. OnScreen' = Reopened'
    BY <1>1, <1>2, <1>4, <2>4, <2>5 DEF Reopened, OnScreen
  <2> QED BY <1>7, <2>6 DEF Watched
<1> QED BY <1>1, <1>6, <1>7

LEMMA AnswerWatched ==
  ASSUME TypeOK, OkIsEnd, Watched, Pending, AnswerCall, ~ mixed'
  PROVE  Watched'
<1>1. PICK result \in Result :
           /\ results' = Append(results, result) /\ results' \in Seq(Result)
           /\ log' = Append(log, Item("Tool", result))
  BY AnswerShape, Zenon
<1>2. pc = "calls" /\ pc' = "calls" /\ UNCHANGED <<transcript, mixed, outcome>>
  BY DEF AnswerCall
<1> DEFINE r    == ReopensAll(Front(transcript)) \o Texts(Asked)
           item == Item("Tool", result)
           u    == Shown(log)
           v    == r \o results'
<1>3. u = r \o results
  BY <1>2 DEF Watched, OnScreen
<1>4. item \in LogItem /\ ~ Passing(item) /\ Visible(item) = <<result>>
  BY ItemLaws
<1>5. log \in Seq(LogItem) /\ result \in Seen
  BY ScreenTypes DEF Seen
<1>6. r \in Seq(Seen)
  <2>1. ReopensAll(Front(transcript)) \in Seq(Seen) /\ Texts(Asked) \in Seq(Seen)
    BY <1>2, AskedLaws, ReopensAllType, TextsLaws
  <2> QED BY <2>1, ConcatProperties
<1>7. results \in Seq(Seen) /\ results' \in Seq(Seen) /\ u \in Seq(Seen)
  <2>1. results \in Seq(Result) /\ Result \subseteq Seen
    BY DEF TypeOK, Seen
  <2> QED BY <1>1, <1>5, <2>1, SeqMonotonic, ShownLaws
<1> HIDE DEF r, item, u
<1>8. v \in Seq(Seen) /\ v = r \o Append(results, result)
  BY <1>1, <1>6, <1>7, ConcatProperties
<1>9. log' = Append(log, item)
  BY <1>1 DEF item
<1> HIDE DEF v
<1>10. u \o <<result>> = v
  <2>1. GrowsBehind(r, results, result)
    BY <1>5, <1>6, <1>7, GrowingBehind, Zenon
  <2>2. Append(r \o results, result) = v
    BY <1>8, <2>1, Zenon DEF GrowsBehind
  <2>3. Append(u, result) = u \o <<result>>
    BY <1>5, <1>7, AppendIsConcat
  <2> QED BY <1>3, <2>2, <2>3, Zenon
<1>11. Shown(log') = v /\ Retract(log') = log'
  <2>1. Shown(Append(log, item)) = Shown(log) \o <<result>>
    BY <1>4, <1>5, ShownLaws
  <2>2. Retract(Append(log, item)) = Append(log, item)
    BY <1>4, <1>5, RetractLaws
  <2> QED BY <1>9, <1>10, <2>1, <2>2 DEF u
<1>12. ReopensAll(Front(transcript')) \o Texts(Asked') = r
  BY <1>2 DEF Asked, r
<1>13. /\ OnScreen' = (ReopensAll(Front(transcript')) \o Texts(Asked')) \o results'
       /\ Retract(log)' = log'
  BY <1>11, <1>12 DEF OnScreen, v
<1>14. outcome' # "ok"
  BY <1>2 DEF OkIsEnd
<1> QED BY <1>2, <1>13, <1>14 DEF Watched

LEMMA AnsweredWatched ==
  ASSUME TypeOK, OkIsEnd, Numbered, Watched, Pending, CallsAnswered, ~ mixed'
  PROVE  Watched'
<1>1. /\ pc = "calls" /\ calls = <<>> /\ mixed' = mixed
  BY DEF CallsAnswered
<1>2. transcript' = Append(transcript, Replies(results))
  BY AnsweredTypes
<1>3. CASE Cancelled
  BY <1>3, EndingWatched DEF Cancelled, Returns
<1>4. CASE pc' = "round" /\ UNCHANGED <<log, outcome>>
  <2> DEFINE before == Front(transcript)
             c      == CallsIn(Asked)
             a      == Asked
  <2>1. /\ a \in Seq(Block) /\ before \in Seq(Turn)
        /\ transcript = Append(before, Message(a))
        /\ results \in Seq(Result) /\ request \in Nat
    BY <1>1, AskedLaws DEF TypeOK
  <2>2. IdsBelow(before, request)
    BY <1>1 DEF Numbered, Earlier, Fresh
  <2>3. /\ \A i \in 1 .. Len(a) : a[i].id[1] = request
        /\ \A i, j \in 1 .. Len(a) : a[i].id = a[j].id => i = j
        /\ CallsLast(a)
        /\ c # <<>>
    <3>1. /\ \A i \in DOMAIN Asked : Asked[i].id[1] = request
          /\ \A i, j \in DOMAIN Asked : Asked[i].id = Asked[j].id => i = j
          /\ CallsLast(Asked) /\ CallsIn(Asked) # <<>>
      BY <1>1, Zenon DEF Pending
    <3>2. DOMAIN a = 1 .. Len(a)
      BY <2>1, LenProperties
    <3> QED BY <3>1, <3>2
  <2>4. Len(results) = Len(c) /\ \A k \in 1 .. Len(results) : results[k].id = c[k].id
    <3>1. \A k \in DOMAIN results : results[k].id = CallsIn(Asked)[k].id
      BY <1>1, Zenon DEF Pending
    <3>2. DOMAIN results = 1 .. Len(results)
      BY <2>1, LenProperties
    <3> QED BY <1>1, <3>1, <3>2, WaitingLaws
  <2>5. results # <<>>
    <3>1. c \in Seq(Block)
      BY <1>1, AskedLaws
    <3>2. Len(c) # 0
      BY <2>3, <3>1, EmptySeq
    <3> QED BY <2>1, <2>4, <3>2, EmptySeq
  <2>6. /\ OnScreen = (ReopensAll(before) \o Texts(a)) \o results
        /\ Retract(log) = log
    BY <1>1, <2>5 DEF Watched
  <2> HIDE DEF before, a
  <2>7. ReopensAll(Append(Append(before, Message(a)), Replies(results)))
          = (ReopensAll(before) \o Texts(a)) \o results
    BY <2>1, <2>2, <2>3, <2>4, ReopensWithReplies DEF a
  <2>8. OnScreen = Reopened'
    BY <1>2, <2>1, <2>6, <2>7 DEF Reopened
  <2>9. Shown(Retract(log))' = Reopened' /\ Retract(log)' = log'
    BY <1>4, <2>6, <2>8 DEF OnScreen
  <2>10. outcome' # "ok"
    BY <1>1, <1>4 DEF OkIsEnd
  <2> QED BY <1>4, <2>9, <2>10 DEF Watched
<1> QED BY <1>3, <1>4 DEF CallsAnswered

LEMMA NextWatched ==
  ASSUME TypeOK, Mirror, Orderly, OkIsEnd, Numbered, Pending, Watched, [Next]_vars
  PROVE  Watched'
<1>0. CASE mixed'
  BY <1>0 DEF Watched
<1> SUFFICES ASSUME ~ mixed' PROVE Watched'
  BY <1>0
<1>1. CASE Request  BY <1>1, RequestWatched
<1>2. CASE Runaway \/ Stopped \/ Gives
  BY <1>2, EndingWatched DEF Runaway, Stopped, Gives, Fails, Cancelled, Returns
<1>3. CASE BlockStart  BY <1>3, StartWatched
<1>4. CASE BlockDelta  BY <1>4, DeltaWatched
<1>5. CASE MessageStop  BY <1>5, StopWatched
<1>6. CASE Breaks  BY <1>6, BreaksWatched
<1>7. CASE AnswerCall  BY <1>7, AnswerWatched
<1>8. CASE CallsAnswered  BY <1>8, AnsweredWatched
<1>9. CASE PressStop \/ UNCHANGED vars
  <2>1. UNCHANGED <<pc, blocks, results, transcript, log, mixed, outcome>>
    BY <1>9 DEF PressStop, vars, worker
  <2> QED BY <2>1, Zenon DEF Watched, OnScreen, Reopened, Asked
<1> QED BY <1>1, <1>2, <1>3, <1>4, <1>5, <1>6, <1>7, <1>8, <1>9, Zenon DEF Next

-----------------------------------------------------------------------------
(***************************************************************************)
(* The theorems.                                                           *)
(***************************************************************************)
LEMMA Invariance == Spec => []IInv
<1>1. Init => IInv
  BY InitIInv
<1>2. IInv /\ [Next]_vars => IInv'
  <2> SUFFICES ASSUME IInv, [Next]_vars PROVE IInv'
    OBVIOUS
  <2>1. TypeOK /\ Mirror /\ Orderly /\ Numbered /\ Pending /\ CallsRunOnce /\ OkIsEnd /\ Watched
    BY DEF IInv
  <2>2. TypeOK'  BY <2>1, NextTypes
  <2>3. Mirror' /\ Orderly'  BY <2>1, NextMirrors
  <2>4. Numbered'  BY <2>1, NextNumbered
  <2>5. Pending'  BY <2>1, NextPending
  <2>6. CallsRunOnce'  BY <2>1, NextRunOnce
  <2>7. OkIsEnd'  BY <2>1, NextOkIsEnd
  <2>8. Watched'  BY <2>1, NextWatched
  <2> QED BY <2>2, <2>3, <2>4, <2>5, <2>6, <2>7, <2>8 DEF IInv
<1> QED BY <1>1, <1>2, PTL DEF Spec

(* The blocks, the calls, the transcript and the chat are of their types,  *)
(* and neither the rounds, nor the retries, nor the blocks outgrow their   *)
(* bounds (lib.rs:325-341, lib.rs:444-470), for every bound.               *)
THEOREM TypeCorrect == Spec => []TypeOK
<1>1. IInv => TypeOK
  BY DEF IInv
<1> QED BY <1>1, Invariance, PTL

(* A retry cannot duplicate a tool call (lib.rs:446-448): in a turn of any *)
(* length, with any order of the blocks and any number of broken attempts, *)
(* each call is run once, from a message that came to its end.             *)
THEOREM CallsNeverRunTwice == Spec => []CallsRunOnce
<1>1. IInv => CallsRunOnce
  BY DEF IInv
<1> QED BY <1>1, Invariance, PTL

(* Only whole messages enter the transcript, as they were sent: a broken   *)
(* attempt leaves nothing in it, and the holes of the accumulator neither  *)
(* lose a block nor move one (lib.rs:506-548, wire.rs:71-77).              *)
THEOREM OnlyWholeMessagesEnter == Spec => WholeOrNothing
<1>1. IInv /\ [Next]_vars =>
        [\A turn \in {t \in Range(transcript') : t.role = "assistant"} :
           turn \in Range(transcript) \/ (Complete /\ turn.content = Said)]_vars
  <2> SUFFICES ASSUME IInv, [Next]_vars
               PROVE  \A turn \in {t \in Range(transcript') : t.role = "assistant"} :
                        turn \in Range(transcript) \/ (Complete /\ turn.content = Said)
    OBVIOUS
  <2>1. TypeOK /\ Mirror
    BY DEF IInv
  <2> QED BY <2>1, NextWhole
<1> QED BY <1>1, Invariance, PTL DEF Spec, WholeOrNothing

(* What the user watched come in is what the chat shows when it is opened  *)
(* again (chat.rs:187-200): of any number of broken attempts nothing is    *)
(* left, of the good ones nothing is missing but the texts their blocks    *)
(* came with, which were never shown, and every call has its own result,   *)
(* however long the turn, if it was neither stopped nor failed.            *)
THEOREM TheWatchedIsReopened == Spec => []WatchedIsKept
<1>1. IInv => WatchedIsKept
  BY DEF IInv, Watched, WatchedIsKept
<1> QED BY <1>1, Invariance, PTL

=============================================================================

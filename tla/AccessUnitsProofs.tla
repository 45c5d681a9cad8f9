-------------------------- MODULE AccessUnitsProofs --------------------------
(***************************************************************************)
(* AccessUnits, for any of the two formats, any listed slice types, any    *)
(* number of picture parameter sets and any kinds of set too large for the *)
(* cache; and the decoder's side of it for cameras with one of each.       *)
(*                                                                         *)
(* A delivery is a picture, two, or parameter sets alone, and the proofs   *)
(* speak of it through three numbers: where the first picture's slices     *)
(* begin, where it ends, and where the second's slices begin (Delivery).   *)
(* The loop of split_access_units() is then a function of how far it has   *)
(* come (Split), and the emit loop a fold over the pictures (Rest).        *)
(***************************************************************************)
EXTENDS AccessUnits, SequenceTheorems, NaturalsInduction,
        WellFoundedInduction, TLAPS

-----------------------------------------------------------------------------
(* Sequences: induction over them, FlattenSeq, and the filter Kept.        *)

\* Induction over the naturals, with a set for the predicate.
LEMMA SetInduction ==
    ASSUME NEW S, 0 \in S, \A n \in Nat : n \in S => n + 1 \in S
    PROVE  \A n \in Nat : n \in S
<1> DEFINE T == Nat \ S
<1>1. SUFFICES ASSUME T # {} PROVE FALSE
  OBVIOUS
<1>2. PICK x \in T : \A y \in T : ~(<<y, x>> \in OpToRel(<, Nat))
  BY <1>1, NatLessThanWellFounded, WFMin
<1>3. x - 1 \in T
  <2>1. x \in Nat /\ x # 0
    BY <1>2
  <2>2. x - 1 \in Nat /\ (x - 1) + 1 = x
    BY <2>1
  <2> QED BY <2>2, <1>2
<1>4. <<x - 1, x>> \in Nat \X Nat /\ <<x - 1, x>>[1] < <<x - 1, x>>[2]
  BY <1>3
<1>5. <<x - 1, x>> \in OpToRel(<, Nat)
  BY <1>4, Zenon DEF OpToRel
<1> QED
  BY <1>2, <1>3, <1>5

\* f[m] joins the first m members of ss: how FlattenSeq is computed.
Runs(ss, f, n) ==
    \A m \in 1..n : f[m] = IF m = 1 THEN ss[m] ELSE f[m - 1] \o ss[m]

\* Every sequence of sequences has its running joins.
LEMMA RunsExist ==
    ASSUME NEW X, NEW ss \in Seq(Seq(X))
    PROVE  \A n \in Nat : n <= Len(ss) =>
               \E f \in [1..n -> Seq(X)] : Runs(ss, f, n)
<1> DEFINE S == {n \in Nat : n <= Len(ss) =>
                     \E f \in [1..n -> Seq(X)] : Runs(ss, f, n)}
<1>1. 0 \in S
  <2> DEFINE f == [m \in 1..0 |-> <<>>]
  <2>1. f \in [1..0 -> Seq(X)] /\ Runs(ss, f, 0)
    BY DEF Runs
  <2> QED BY <2>1
<1>2. ASSUME NEW n \in Nat, n \in S PROVE n + 1 \in S
  <2>1. SUFFICES ASSUME n + 1 <= Len(ss)
                 PROVE  \E f \in [1..(n + 1) -> Seq(X)] : Runs(ss, f, n + 1)
    BY <1>2
  <2>2. PICK g \in [1..n -> Seq(X)] : Runs(ss, g, n)
    BY <1>2, <2>1
  <2>3. ss[n + 1] \in Seq(X)
    BY <2>1, LenProperties
  <2> DEFINE top == IF n = 0 THEN ss[n + 1] ELSE g[n] \o ss[n + 1]
             f == [m \in 1..(n + 1) |-> IF m = n + 1 THEN top ELSE g[m]]
  <2>4. top \in Seq(X)
    BY <2>3
  <2>5. f \in [1..(n + 1) -> Seq(X)]
    BY <2>4
  <2>6. ASSUME NEW m \in 1..(n + 1)
        PROVE  f[m] = IF m = 1 THEN ss[m] ELSE f[m - 1] \o ss[m]
    <3>1. CASE m = n + 1
      BY <3>1
    <3>2. CASE m # n + 1
      <4>1. g[m] = IF m = 1 THEN ss[m] ELSE g[m - 1] \o ss[m]
        <5>1. m \in 1..n
          BY <3>2
        <5> HIDE DEF S, f, top
        <5> QED BY <2>2, <5>1 DEF Runs
      <4>2. f[m] = g[m] /\ (m # 1 => f[m - 1] = g[m - 1])
        BY <3>2
      <4> QED BY <4>1, <4>2
    <3> QED BY <3>1, <3>2
  <2>7. Runs(ss, f, n + 1)
    BY <2>6 DEF Runs
  <2> QED BY <2>5, <2>7
<1> HIDE DEF S
<1>3. \A n \in Nat : n \in S
  BY <1>1, <1>2, SetInduction
<1> QED BY <1>3 DEF S

\* FlattenSeq(ss) is the last of the running joins.
LEMMA FlattenIsRun ==
    ASSUME NEW X, NEW ss \in Seq(Seq(X)), Len(ss) # 0
    PROVE  \E f : Runs(ss, f, Len(ss)) /\ FlattenSeq(ss) = f[Len(ss)]
<1> DEFINE n == Len(ss)
<1>1. \E f : f = [m \in 1..n |-> IF m = 1 THEN ss[m] ELSE f[m - 1] \o ss[m]]
  <2>1. PICK f \in [1..n -> Seq(X)] : Runs(ss, f, n)
    BY RunsExist
  <2>2. f = [m \in 1..n |-> IF m = 1 THEN ss[m] ELSE f[m - 1] \o ss[m]]
    BY <2>1 DEF Runs
  <2> QED BY <2>2
<1> DEFINE fl == CHOOSE f : f = [m \in 1..n |->
                     IF m = 1 THEN ss[m] ELSE f[m - 1] \o ss[m]]
<1>2. fl = [m \in 1..n |-> IF m = 1 THEN ss[m] ELSE fl[m - 1] \o ss[m]]
  BY <1>1, Zenon
<1>3. FlattenSeq(ss) = fl[n]
  BY Zenon DEF FlattenSeq
<1> HIDE DEF fl
<1>4. Runs(ss, fl, n)
  BY <1>2 DEF Runs
<1> QED BY <1>3, <1>4

\* Two sequences agree up to n.
Agree(f, g, n) == \A m \in 1..n : f[m] = g[m]

\* Running joins depend only on the members joined so far.
LEMMA RunsAgree ==
    ASSUME NEW ss, NEW tt, NEW n \in Nat, NEW p \in Nat, n <= p,
           NEW f, NEW g, Runs(ss, f, n), Runs(tt, g, p),
           Agree(ss, tt, n)
    PROVE  Agree(f, g, n)
<1> DEFINE S == {m \in Nat : m \in 1..n => f[m] = g[m]}
<1>1. 0 \in S
  OBVIOUS
<1>2. ASSUME NEW m \in Nat, m \in S PROVE m + 1 \in S
  <2>1. SUFFICES ASSUME m + 1 \in 1..n PROVE f[m + 1] = g[m + 1]
    OBVIOUS
  <2>2. m = 0 \/ f[m] = g[m]
    BY <1>2, <2>1
  <2>3. f[m + 1] = IF m = 0 THEN ss[m + 1] ELSE f[m] \o ss[m + 1]
    BY <2>1 DEF Runs
  <2>4. g[m + 1] = IF m = 0 THEN tt[m + 1] ELSE g[m] \o tt[m + 1]
    <3>1. m + 1 \in 1..p
      BY <2>1
    <3> QED BY <3>1 DEF Runs
  <2> QED BY <2>1, <2>2, <2>3, <2>4 DEF Agree
<1> HIDE DEF S
<1>3. \A m \in Nat : m \in S
  BY <1>1, <1>2, SetInduction
<1> QED BY <1>3 DEF S, Agree

\* Of no buffers, nothing.
LEMMA FlattenEmpty == FlattenSeq(<<>>) = <<>>
BY DEF FlattenSeq

\* What buffers of units join to is a sequence of units.
LEMMA FlattenTypes ==
    ASSUME NEW X, NEW ss \in Seq(Seq(X))
    PROVE  FlattenSeq(ss) \in Seq(X)
<1>1. CASE Len(ss) = 0
  <2>1. ss = <<>>
    BY <1>1
  <2>2. FlattenSeq(ss) = <<>>
    BY <2>1, FlattenEmpty, Zenon
  <2> QED BY <2>2
<1>2. CASE Len(ss) # 0
  <2>1. PICK f : Runs(ss, f, Len(ss)) /\ FlattenSeq(ss) = f[Len(ss)]
    BY <1>2, FlattenIsRun
  <2>2. PICK g \in [1..Len(ss) -> Seq(X)] : Runs(ss, g, Len(ss))
    BY RunsExist
  <2>3. f[Len(ss)] = g[Len(ss)]
    <3>1. Agree(ss, ss, Len(ss)) /\ Len(ss) \in Nat /\ Len(ss) <= Len(ss)
      BY DEF Agree
    <3>2. Agree(f, g, Len(ss))
      BY <2>1, <2>2, <3>1, RunsAgree, Zenon
    <3> QED BY <1>2, <3>1, <3>2 DEF Agree
  <2> QED BY <1>2, <2>1, <2>2, <2>3
<1> QED BY <1>1, <1>2

\* A buffer pushed last comes last in what went downstream.
LEMMA FlattenAppend ==
    ASSUME NEW X, NEW ss \in Seq(Seq(X)), NEW s \in Seq(X)
    PROVE  FlattenSeq(Append(ss, s)) = FlattenSeq(ss) \o s
<1> DEFINE n == Len(ss)
           tt == Append(ss, s)
<1>1. n \in Nat /\ tt \in Seq(Seq(X)) /\ Len(tt) = n + 1 /\ tt[n + 1] = s
      /\ \A m \in 1..n : tt[m] = ss[m]
  OBVIOUS
<1> HIDE DEF tt, n
<1>2. PICK g : Runs(tt, g, n + 1) /\ FlattenSeq(tt) = g[n + 1]
  BY <1>1, FlattenIsRun
<1>3. g[n + 1] = IF n = 0 THEN s ELSE g[n] \o s
  BY <1>1, <1>2 DEF Runs
<1>4. CASE n = 0
  <2>1. ss = <<>>
    BY <1>4 DEF n
  <2>2. FlattenSeq(ss) = <<>> /\ <<>> \o s = s
    BY <2>1, FlattenEmpty, ConcatEmptySeq, Zenon
  <2>3. FlattenSeq(tt) = s
    BY <1>2, <1>3, <1>4, Zenon
  <2> QED BY <2>2, <2>3, Zenon DEF tt
<1>5. CASE n # 0
  <2>1. PICK f : Runs(ss, f, n) /\ FlattenSeq(ss) = f[n]
    BY <1>5, FlattenIsRun DEF n
  <2>2. Agree(f, g, n)
    <3>1. n \in Nat /\ n + 1 \in Nat /\ n <= n + 1
      BY <1>1
    <3>2. Agree(ss, tt, n)
      BY <1>1, Zenon DEF Agree
    <3> QED BY <1>2, <2>1, <3>1, <3>2, RunsAgree, Zenon
  <2>3. f[n] = g[n]
    <3>1. n \in 1..n
      BY <1>1, <1>5
    <3> QED BY <2>2, <3>1, Zenon DEF Agree
  <2>4. FlattenSeq(tt) = FlattenSeq(ss) \o s
    BY <1>2, <1>3, <1>5, <2>1, <2>3, Zenon
  <2> QED BY <2>4 DEF tt
<1> QED BY <1>4, <1>5

\* Induction over sequences built by Append, with a set for the predicate.
LEMMA SeqInduction ==
    ASSUME NEW X, NEW T, <<>> \in T,
           \A s \in Seq(X), e \in X : s \in T => Append(s, e) \in T
    PROVE  \A s \in Seq(X) : s \in T
<1> DEFINE S == {n \in Nat : \A s \in Seq(X) : Len(s) = n => s \in T}
<1>1. 0 \in S
  BY EmptySeq
<1>2. ASSUME NEW n \in Nat, n \in S PROVE n + 1 \in S
  <2>1. SUFFICES ASSUME NEW s \in Seq(X), Len(s) = n + 1 PROVE s \in T
    OBVIOUS
  <2>2. PICK t \in Seq(X), e \in X : s = Append(t, e)
    BY <2>1, SequenceEmptyOrAppend
  <2>3. Len(t) = n
    BY <2>1, <2>2
  <2> QED BY <1>2, <2>2, <2>3
<1> HIDE DEF S
<1>3. \A n \in Nat : n \in S
  BY <1>1, <1>2, SetInduction
<1> QED BY <1>3, LenProperties DEF S

\* Nothing is kept of nothing.
LEMMA KeptEmpty == \A S : Kept(<<>>, S) = <<>>
<1>1. ASSUME NEW S PROVE [n \in DOMAIN <<>> |->
                              When(<<>>[n] \in S, << <<>>[n] >>)] = <<>>
  OBVIOUS
<1> QED BY <1>1, FlattenEmpty DEF Kept

\* Each unit kept or not, as a sequence of one or none.
Cells(s, S) == [n \in DOMAIN s |-> When(s[n] \in S, <<s[n]>>)]

\* One cell per unit.
LEMMA CellTypes ==
    ASSUME NEW X, NEW s \in Seq(X), NEW S
    PROVE  Cells(s, S) \in Seq(Seq(X)) /\ Len(Cells(s, S)) = Len(s)
<1>1. \A n \in 1..Len(s) : When(s[n] \in S, <<s[n]>>) \in Seq(X)
  BY DEF When
<1>2. DOMAIN s = 1..Len(s) /\ Len(s) \in Nat
  BY LenProperties
<1>3. Cells(s, S) = [n \in 1..Len(s) |-> When(s[n] \in S, <<s[n]>>)]
  BY <1>2 DEF Cells
<1>4. Cells(s, S) \in [1..Len(s) -> Seq(X)]
  BY <1>1, <1>3
<1> HIDE DEF Cells
<1>5. Cells(s, S) \in Seq(Seq(X))
  BY <1>2, <1>4
<1>6. DOMAIN Cells(s, S) = 1..Len(s)
  BY <1>4
<1> QED BY <1>2, <1>5, <1>6, LenProperties

\* What is forwarded of an access unit is again a sequence of units.
LEMMA KeptTypes ==
    ASSUME NEW X, NEW s \in Seq(X), NEW S
    PROVE  Kept(s, S) \in Seq(X)
BY CellTypes, FlattenTypes DEF Cells, Kept

\* The filter looks at one unit at a time ...
LEMMA KeptAppend ==
    ASSUME NEW X, NEW s \in Seq(X), NEW e \in X, NEW S
    PROVE  Kept(Append(s, e), S) = Kept(s, S) \o When(e \in S, <<e>>)
<1>1. Cells(Append(s, e), S) = Append(Cells(s, S), When(e \in S, <<e>>))
  <2> DEFINE t == Append(s, e)
             c == Cells(t, S)
             d == Append(Cells(s, S), When(e \in S, <<e>>))
             n == Len(s)
  <2>1. t \in Seq(X) /\ Len(t) = n + 1 /\ t[n + 1] = e
        /\ \A m \in 1..n : t[m] = s[m]
    OBVIOUS
  <2>2. When(e \in S, <<e>>) \in Seq(X)
    BY DEF When
  <2>3. /\ d \in Seq(Seq(X)) /\ Len(d) = n + 1
        /\ c \in Seq(Seq(X)) /\ Len(c) = n + 1
    <3>1. Cells(s, S) \in Seq(Seq(X)) /\ Len(Cells(s, S)) = n
      BY CellTypes
    <3>2. c \in Seq(Seq(X)) /\ Len(c) = n + 1
      BY <2>1, CellTypes
    <3>3. d \in Seq(Seq(X)) /\ Len(d) = n + 1
      BY <2>2, <3>1, AppendProperties
    <3> QED BY <3>2, <3>3
  <2>4. ASSUME NEW m \in 1..(n + 1) PROVE c[m] = d[m]
    <3>1. c[m] = When(t[m] \in S, <<t[m]>>)
      BY <2>1 DEF Cells
    <3>2. CASE m = n + 1
      <4>1. d[m] = When(e \in S, <<e>>)
        BY <2>2, <3>2, CellTypes
      <4> QED BY <2>1, <3>1, <3>2, <4>1
    <3>3. CASE m # n + 1
      <4>1. m \in 1..n /\ t[m] = s[m]
        BY <2>1, <3>3
      <4>2. d[m] = Cells(s, S)[m]
        BY <2>2, <4>1, CellTypes
      <4>3. Cells(s, S)[m] = When(s[m] \in S, <<s[m]>>)
        BY <4>1 DEF Cells
      <4> QED BY <3>1, <4>1, <4>2, <4>3, Zenon
    <3> QED BY <3>2, <3>3
  <2> HIDE DEF t, c, d, n
  <2>5. c = d
    BY <2>3, <2>4, SeqEqual
  <2> QED BY <2>5 DEF t, c, d
<1>2. When(e \in S, <<e>>) \in Seq(X)
  BY DEF When
<1>3. FlattenSeq(Append(Cells(s, S), When(e \in S, <<e>>)))
          = FlattenSeq(Cells(s, S)) \o When(e \in S, <<e>>)
  BY <1>2, CellTypes, FlattenAppend
<1>4. /\ Kept(s, S) = FlattenSeq(Cells(s, S))
      /\ Kept(Append(s, e), S) = FlattenSeq(Cells(Append(s, e), S))
  BY Zenon DEF Kept, Cells
<1> QED BY <1>1, <1>3, <1>4, Zenon

\* ... so that it can be applied to two parts of a delivery by themselves.
LEMMA KeptConcat ==
    ASSUME NEW S, NEW X, NEW s \in Seq(X), NEW t \in Seq(X)
    PROVE  Kept(s \o t, S) = Kept(s, S) \o Kept(t, S)
<1> DEFINE T == {w \in Seq(X) : Kept(s \o w, S) = Kept(s, S) \o Kept(w, S)}
<1>1. <<>> \in T
  <2>1. s \o <<>> = s /\ Kept(s, S) \o <<>> = Kept(s, S)
    BY KeptTypes, ConcatEmptySeq
  <2>2. <<>> \in Seq(X)
    OBVIOUS
  <2> QED BY <2>1, <2>2, KeptEmpty, Zenon
<1>2. ASSUME NEW w \in Seq(X), NEW e \in X, w \in T
      PROVE  Append(w, e) \in T
  <2> DEFINE c == When(e \in S, <<e>>)
  <2>1. c \in Seq(X)
    BY DEF When
  <2>2. /\ Append(w, e) \in Seq(X) /\ s \o w \in Seq(X)
        /\ s \o Append(w, e) = Append(s \o w, e)
    OBVIOUS
  <2>3. Kept(Append(s \o w, e), S) = Kept(s \o w, S) \o c
    BY <2>2, KeptAppend
  <2>4. Kept(Append(w, e), S) = Kept(w, S) \o c
    BY KeptAppend
  <2>5. Kept(s, S) \in Seq(X) /\ Kept(w, S) \in Seq(X)
    BY KeptTypes
  <2>6. (Kept(s, S) \o Kept(w, S)) \o c = Kept(s, S) \o (Kept(w, S) \o c)
    <3> DEFINE ks == Kept(s, S)
               kw == Kept(w, S)
    <3>1. ks \in Seq(X) /\ kw \in Seq(X) /\ c \in Seq(X)
      BY <2>1, <2>5
    <3> HIDE DEF c, ks, kw
    <3>2. (ks \o kw) \o c = ks \o (kw \o c)
      BY <3>1, ConcatAssociative, SMTT(30)
    <3> QED BY <3>2 DEF ks, kw
  <2>7. Kept(s \o w, S) = Kept(s, S) \o Kept(w, S)
    BY <1>2
  <2> HIDE DEF c
  <2> QED BY <2>2, <2>3, <2>4, <2>6, <2>7, Zenon
<1> HIDE DEF T
<1>3. t \in T
  BY <1>1, <1>2, SeqInduction
<1> QED BY <1>3 DEF T

\* The units of two parts.
LEMMA ConcatToSet ==
    ASSUME NEW X, NEW s \in Seq(X), NEW t \in Seq(X)
    PROVE  ToSet(s \o t) = ToSet(s) \cup ToSet(t)
<1> DEFINE w == s \o t
<1>1. \A n \in DOMAIN s : n \in DOMAIN w /\ w[n] = s[n]
  OBVIOUS
<1>2. \A n \in DOMAIN t : Len(s) + n \in DOMAIN w /\ w[Len(s) + n] = t[n]
  OBVIOUS
<1>3. \A n \in DOMAIN w :
          \/ n \in DOMAIN s /\ w[n] = s[n]
          \/ n - Len(s) \in DOMAIN t /\ w[n] = t[n - Len(s)]
  OBVIOUS
<1> HIDE DEF w
<1>4. ToSet(w) \subseteq ToSet(s) \cup ToSet(t)
  BY <1>3, Zenon DEF ToSet
<1>5. ToSet(s) \subseteq ToSet(w)
  BY <1>1, Zenon DEF ToSet
<1>6. ToSet(t) \subseteq ToSet(w)
  BY <1>2, Zenon DEF ToSet
<1>7. ToSet(w) = ToSet(s) \cup ToSet(t)
  BY <1>4, <1>5, <1>6
<1> QED BY <1>7 DEF w

\* The filter keeps the members of S and invents none.
LEMMA KeptMembers ==
    ASSUME NEW X, NEW s \in Seq(X), NEW S
    PROVE  ToSet(Kept(s, S)) = ToSet(s) \cap S
<1> DEFINE T == {w \in Seq(X) : ToSet(Kept(w, S)) = ToSet(w) \cap S}
<1>1. <<>> \in T
  BY KeptEmpty DEF ToSet
<1>2. ASSUME NEW w \in Seq(X), NEW e \in X, w \in T
      PROVE  Append(w, e) \in T
  <2> DEFINE c == When(e \in S, <<e>>)
             k == Kept(w, S)
  <2>1. c \in Seq(X) /\ ToSet(c) = {e} \cap S
    BY DEF When, ToSet
  <2>2. k \in Seq(X) /\ Kept(Append(w, e), S) = k \o c
    BY KeptTypes, KeptAppend
  <2>3. ToSet(Append(w, e)) = ToSet(w) \cup {e}
    <3>1. Append(w, e) = w \o <<e>> /\ <<e>> \in Seq(X)
      OBVIOUS
    <3>2. ToSet(<<e>>) = {e}
      BY DEF ToSet
    <3>3. ToSet(w \o <<e>>) = ToSet(w) \cup ToSet(<<e>>)
      BY <3>1, ConcatToSet, ZenonT(40)
    <3> QED BY <3>1, <3>2, <3>3, Zenon
  <2> HIDE DEF c, k
  <2>4. ToSet(k \o c) = ToSet(k) \cup ToSet(c)
    BY <2>1, <2>2, ConcatToSet
  <2>5. ToSet(k) = ToSet(w) \cap S
    BY <1>2 DEF k
  <2>6. ToSet(Kept(Append(w, e), S)) = ToSet(k) \cup ToSet(c)
    BY <2>2, <2>4, Zenon
  <2>7. ToSet(Kept(Append(w, e), S)) = ToSet(Append(w, e)) \cap S
    BY <2>1, <2>3, <2>5, <2>6
  <2> QED BY <2>7
<1> HIDE DEF T
<1>3. s \in T
  BY <1>1, <1>2, SeqInduction
<1> QED BY <1>3 DEF T

\* Two filters that agree on the units present keep the same.
LEMMA KeptSame ==
    ASSUME NEW X, NEW s \in Seq(X), NEW S, NEW R,
           \A u \in ToSet(s) : u \in S <=> u \in R
    PROVE  Kept(s, S) = Kept(s, R)
<1>1. \A n \in DOMAIN s : s[n] \in S <=> s[n] \in R
  BY DEF ToSet
<1>2. Cells(s, S) = Cells(s, R)
  BY <1>1 DEF Cells, When
<1> QED BY <1>2, Zenon DEF Kept, Cells

\* An access unit all of whose units pass is forwarded as it is.
LEMMA KeptAll ==
    ASSUME NEW X, NEW s \in Seq(X), NEW S, ToSet(s) \subseteq S
    PROVE  Kept(s, S) = s
<1> DEFINE T == {w \in Seq(X) : Kept(w, X) = w}
<1>1. <<>> \in T
  BY KeptEmpty
<1>2. ASSUME NEW w \in Seq(X), NEW e \in X, w \in T
      PROVE  Append(w, e) \in T
  <2>1. Kept(Append(w, e), X) = w \o <<e>>
    <3>1. Kept(Append(w, e), X) = Kept(w, X) \o When(e \in X, <<e>>)
      BY KeptAppend
    <3>2. When(e \in X, <<e>>) = <<e>>
      BY DEF When
    <3> QED BY <1>2, <3>1, <3>2
  <2> QED BY <2>1
<1> HIDE DEF T
<1>3. Kept(s, X) = s
  <2>1. s \in T
    BY <1>1, <1>2, SeqInduction
  <2> QED BY <2>1 DEF T
<1>4. \A u \in ToSet(s) : u \in S <=> u \in X
  BY DEF ToSet
<1> QED BY <1>3, <1>4, KeptSame

\* One none of whose units passes leaves nothing to push.
LEMMA KeptNone ==
    ASSUME NEW X, NEW s \in Seq(X), NEW S, ToSet(s) \cap S = {}
    PROVE  Kept(s, S) = <<>>
<1>1. Kept(s, S) \in Seq(X) /\ ToSet(Kept(s, S)) = {}
  BY KeptMembers, KeptTypes
<1> QED BY <1>1 DEF ToSet

-----------------------------------------------------------------------------
(* The camera: what ParameterSets and Picture lay out.                     *)

\* The camera's slices are of the types convert_unit_type()'s table lists;
\* AuTrailN.cfg shows what becomes of the others.
ListedSlices ==
    \A f \in Formats :
        /\ KeyNals[f] \subseteq (IF f = "H264" THEN {5} ELSE {19, 20})
        /\ OtherNals[f] \subseteq {1}

\* What a unit of a delivery carries.
UnitSet == [nal : Nat, first : BOOLEAN, pic : {1, 2}, id : 1..PpsCount,
            ver : {0, 1}]

\* The session's format, and the camera's traits in it.
CameraOK == /\ frame_format \in Formats /\ delimits \in BOOLEAN
            /\ oversize \subseteq Kinds /\ ver \in {0, 1}

\* Of one picture and one version, without a slice, a delimiter at most first.
HeaderOf(s, pic, v, room) ==
    /\ s \in Seq(UnitSet)
    /\ \A n \in 1..Len(s) :
          /\ s[n].pic = pic /\ s[n].ver = v
          /\ ~nal_is_slice(s[n])
          /\ Type(s[n]) = "AUD" => n = 1 /\ room

\* All kinds of set, or none.
HasSets(s) == \A k \in Kinds : \E n \in 1..Len(s) : Type(s[n]) = k
NoSets(s)  == \A n \in 1..Len(s) : ~nal_is_parameter_set(s[n])

\* convert_unit_type() tells the camera's units apart.
LEMMA NalTypes ==
    ASSUME frame_format \in Formats, ListedSlices, NEW u
    PROVE  /\ u.nal = Nal("AUD") => Type(u) = "AUD"
           /\ u.nal = Nal("SEI") => Type(u) = "INVALID"
           /\ u.nal = Nal("SPS") => Type(u) = "SPS"
           /\ u.nal = Nal("PPS") => Type(u) = "PPS"
           /\ u.nal = Nal("VPS") /\ frame_format = "H265" => Type(u) = "VPS"
           /\ u.nal \in KeyNals[frame_format] => Type(u) = "IDR"
           /\ u.nal \in OtherNals[frame_format] => Type(u) = "NON_IDR"
<1>1. frame_format \in {"H264", "H265"}
  BY FormatAssumption
<1>2. /\ KeyNals[frame_format] \subseteq
             (IF frame_format = "H264" THEN {5} ELSE {19, 20})
      /\ OtherNals[frame_format] \subseteq {1}
  BY DEF ListedSlices
<1>3. CASE frame_format = "H264"
  BY <1>2, <1>3 DEF Nal, Type, convert_unit_type
<1>4. CASE frame_format = "H265"
  <2>1. frame_format # "H264"
    BY <1>4
  <2>2. /\ convert_unit_type(1) = "NON_IDR"
        /\ convert_unit_type(19) = "IDR" /\ convert_unit_type(20) = "IDR"
        /\ convert_unit_type(32) = "VPS" /\ convert_unit_type(33) = "SPS"
        /\ convert_unit_type(34) = "PPS" /\ convert_unit_type(35) = "AUD"
        /\ convert_unit_type(39) = "INVALID"
    <3>1. ASSUME NEW n, n \in {19, 20, 32, 33, 34}
          PROVE  convert_unit_type(n) = IF n = 32 THEN "VPS"
                                        ELSE IF n = 33 THEN "SPS"
                                        ELSE IF n = 34 THEN "PPS" ELSE "IDR"
      <4>1. /\ n # 1 /\ n # 35
            /\ n \in {19, 20} <=> n # 32 /\ n # 33 /\ n # 34
            /\ n = 32 => n # 33 /\ n # 34
            /\ n = 33 => n # 34
        BY <3>1
      <4> QED BY <2>1, <4>1, Zenon DEF convert_unit_type
    <3>2. convert_unit_type(1) = "NON_IDR"
      BY <2>1 DEF convert_unit_type
    <3>3. ASSUME NEW n, n \in {35, 39}
          PROVE  convert_unit_type(n) = IF n = 35 THEN "AUD" ELSE "INVALID"
      <4>1. n # 1 /\ n \notin {19, 20} /\ n # 32 /\ n # 33 /\ n # 34
        BY <3>3
      <4> QED BY <2>1, <4>1, Zenon DEF convert_unit_type
    <3> QED BY <3>1, <3>2, <3>3
  <2>3. /\ Nal("VPS") = 32 /\ Nal("SPS") = 33 /\ Nal("PPS") = 34
        /\ Nal("AUD") = 35 /\ Nal("SEI") = 39
    BY <2>1 DEF Nal
  <2>4. u.nal \in KeyNals[frame_format] => u.nal = 19 \/ u.nal = 20
    BY <1>2, <2>1
  <2>5. u.nal \in OtherNals[frame_format] => u.nal = 1
    BY <1>2
  <2>6. Type(u) = convert_unit_type(u.nal)
    BY DEF Type
  <2> QED BY <2>2, <2>3, <2>4, <2>5, <2>6
<1> QED BY <1>1, <1>3, <1>4

\* The nal types of everything that is not a slice.
LEMMA NalNats ==
    \A k \in {"VPS", "SPS", "PPS", "AUD", "SEI"} : Nal(k) \in Nat
BY DEF Nal

\* A unit of a kind on its own.
LEMMA OneHead ==
    ASSUME CameraOK, ListedSlices,
           NEW k \in {"VPS", "SPS", "PPS", "AUD", "SEI"},
           k = "VPS" => frame_format = "H265",
           NEW u, u.nal = Nal(k)
    PROVE  /\ ~nal_is_slice(u)
           /\ Type(u) = "AUD" <=> k = "AUD"
           /\ k \in {"AUD", "SEI"} => ~nal_is_parameter_set(u)
           /\ k \in {"VPS", "SPS", "PPS"} => Type(u) = k
<1>1. Type(u) = IF k = "SEI" THEN "INVALID" ELSE k
  BY NalTypes DEF CameraOK
<1> QED
  BY <1>1 DEF nal_is_slice, nal_is_parameter_set

\* The parts of a header that are left out ...
LEMMA HeadEmpty ==
    ASSUME NEW pic, NEW v, NEW room
    PROVE  HeaderOf(<<>>, pic, v, room) /\ NoSets(<<>>)
BY DEF HeaderOf, NoSets

\* ... and those that follow one another make a header.
LEMMA HeadConcat ==
    ASSUME NEW s, NEW t, NEW pic, NEW v, NEW room \in BOOLEAN,
           HeaderOf(s, pic, v, room), HeaderOf(t, pic, v, FALSE)
    PROVE  /\ HeaderOf(s \o t, pic, v, room)
           /\ HasSets(s) \/ HasSets(t) => HasSets(s \o t)
           /\ NoSets(s) /\ NoSets(t) => NoSets(s \o t)
<1> DEFINE w == s \o t
<1>1. /\ s \in Seq(UnitSet) /\ t \in Seq(UnitSet) /\ w \in Seq(UnitSet)
      /\ Len(w) = Len(s) + Len(t) /\ Len(s) \in Nat /\ Len(t) \in Nat
      /\ \A n \in 1..Len(s) : w[n] = s[n]
      /\ \A n \in 1..Len(t) : w[Len(s) + n] = t[n]
  BY DEF HeaderOf
<1> HIDE DEF w
<1>2. \A n \in 1..Len(w) : \/ n \in 1..Len(s) /\ w[n] = s[n]
                           \/ n - Len(s) \in 1..Len(t) /\ w[n] = t[n - Len(s)]
  <2> TAKE n \in 1..Len(w)
  <2>1. CASE n <= Len(s)
    BY <1>1, <2>1
  <2>2. CASE ~(n <= Len(s))
    <3>1. n - Len(s) \in 1..Len(t) /\ Len(s) + (n - Len(s)) = n
      BY <1>1, <2>2
    <3> QED BY <1>1, <3>1
  <2> QED BY <2>1, <2>2
<1>3. HeaderOf(w, pic, v, room)
  <2>1. ASSUME NEW n \in 1..Len(w)
        PROVE  /\ w[n].pic = pic /\ w[n].ver = v
               /\ ~nal_is_slice(w[n])
               /\ Type(w[n]) = "AUD" => n = 1 /\ room
    <3>1. CASE n \in 1..Len(s) /\ w[n] = s[n]
      BY <3>1 DEF HeaderOf
    <3>2. CASE n - Len(s) \in 1..Len(t) /\ w[n] = t[n - Len(s)]
      BY <3>2 DEF HeaderOf
    <3> QED BY <1>2, <3>1, <3>2
  <2> QED BY <1>1, <2>1 DEF HeaderOf
<1>4. NoSets(s) /\ NoSets(t) => NoSets(w)
  BY <1>2 DEF NoSets
<1>5. HasSets(s) => HasSets(w)
  <2> SUFFICES ASSUME NEW k \in Kinds, HasSets(s)
               PROVE  \E n \in 1..Len(w) : Type(w[n]) = k
    BY DEF HasSets
  <2>1. PICK n \in 1..Len(s) : Type(s[n]) = k
    BY DEF HasSets
  <2>2. n \in 1..Len(w) /\ w[n] = s[n]
    BY <1>1
  <2> QED BY <2>1, <2>2
<1>6. HasSets(t) => HasSets(w)
  <2> SUFFICES ASSUME NEW k \in Kinds, HasSets(t)
               PROVE  \E n \in 1..Len(w) : Type(w[n]) = k
    BY DEF HasSets
  <2>1. PICK n \in 1..Len(t) : Type(t[n]) = k
    BY DEF HasSets
  <2>2. Len(s) + n \in 1..Len(w) /\ w[Len(s) + n] = t[n]
    BY <1>1
  <2> QED BY <2>1, <2>2
<1> QED BY <1>3, <1>4, <1>5, <1>6 DEF w

\* A run of parameter sets has one of every kind.
LEMMA SetsHead ==
    ASSUME CameraOK, ListedSlices, NEW pic \in {1, 2}, NEW v \in {0, 1}
    PROVE  /\ HeaderOf(ParameterSets(pic, v), pic, v, FALSE)
           /\ HasSets(ParameterSets(pic, v))
           /\ Len(ParameterSets(pic, v)) > 0
<1> DEFINE vps == When(frame_format = "H265",
                       <<Unit(Nal("VPS"), FALSE, pic, 1, v)>>)
           sps == <<Unit(Nal("SPS"), FALSE, pic, 1, v)>>
           pps == [id \in 1..PpsCount |-> Unit(Nal("PPS"), FALSE, pic, id, v)]
<1>0. PpsCount \in Nat /\ 1 \in 1..PpsCount
  BY SetsAssumption
<1>1. HeaderOf(vps, pic, v, FALSE)
      /\ (frame_format = "H265" => 1 \in 1..Len(vps) /\ Type(vps[1]) = "VPS")
  <2>1. CASE frame_format = "H265"
    <3> DEFINE u == Unit(Nal("VPS"), FALSE, pic, 1, v)
    <3>1. u \in UnitSet /\ u.pic = pic /\ u.ver = v /\ ~nal_is_slice(u)
          /\ Type(u) = "VPS"
      <4>1. /\ u \in UnitSet /\ u.nal = Nal("VPS")
            /\ u.pic = pic /\ u.ver = v
        BY <1>0, NalNats DEF Unit, UnitSet
      <4> HIDE DEF u
      <4> QED BY <2>1, <4>1, OneHead
    <3>2. vps = <<u>>
      BY <2>1 DEF When
    <3> HIDE DEF u, vps
    <3> QED BY <3>1, <3>2 DEF HeaderOf
  <2>2. CASE frame_format # "H265"
    BY <2>2, HeadEmpty DEF When
  <2> QED BY <2>1, <2>2
<1>2. HeaderOf(sps, pic, v, FALSE) /\ 1 \in 1..Len(sps) /\ Type(sps[1]) = "SPS"
  <2> DEFINE u == Unit(Nal("SPS"), FALSE, pic, 1, v)
  <2>1. u \in UnitSet /\ u.pic = pic /\ u.ver = v /\ ~nal_is_slice(u)
        /\ Type(u) = "SPS"
    <3>1. /\ u \in UnitSet /\ u.nal = Nal("SPS")
          /\ u.pic = pic /\ u.ver = v
      BY <1>0, NalNats DEF Unit, UnitSet
    <3> HIDE DEF u
    <3> QED BY <3>1, OneHead
  <2>2. sps = <<u>>
    OBVIOUS
  <2> HIDE DEF u, sps
  <2> QED BY <2>1, <2>2 DEF HeaderOf
<1>3. HeaderOf(pps, pic, v, FALSE) /\ 1 \in 1..Len(pps) /\ Type(pps[1]) = "PPS"
  <2>1. ASSUME NEW id \in 1..PpsCount
        PROVE  /\ pps[id] \in UnitSet /\ pps[id].pic = pic /\ pps[id].ver = v
               /\ ~nal_is_slice(pps[id]) /\ Type(pps[id]) = "PPS"
    <3>1. /\ pps[id] \in UnitSet /\ pps[id].nal = Nal("PPS")
          /\ pps[id].pic = pic /\ pps[id].ver = v
      BY NalNats DEF Unit, UnitSet
    <3> HIDE DEF pps
    <3> QED BY <3>1, OneHead
  <2>2. pps \in Seq(UnitSet) /\ Len(pps) = PpsCount
    <3>1. pps \in [1..PpsCount -> UnitSet] /\ DOMAIN pps = 1..PpsCount
      BY <2>1
    <3> HIDE DEF pps
    <3>2. pps \in Seq(UnitSet)
      BY <1>0, <3>1
    <3> QED BY <1>0, <3>1, <3>2, LenProperties
  <2> HIDE DEF pps
  <2> QED BY <1>0, <2>1, <2>2 DEF HeaderOf
<1>4. ParameterSets(pic, v) = (vps \o sps) \o pps
  BY DEF ParameterSets
<1> HIDE DEF vps, sps, pps
<1>5. HeaderOf(vps \o sps, pic, v, FALSE)
  BY <1>1, <1>2, HeadConcat
<1>6. HeaderOf((vps \o sps) \o pps, pic, v, FALSE)
  BY <1>3, <1>5, HeadConcat
<1> DEFINE w == (vps \o sps) \o pps
<1>7. /\ Len(vps) \in Nat /\ Len(sps) \in Nat /\ Len(pps) \in Nat
      /\ Len(w) = (Len(vps) + Len(sps)) + Len(pps)
      /\ \A n \in 1..Len(vps) : w[n] = vps[n]
      /\ \A n \in 1..Len(sps) : w[Len(vps) + n] = sps[n]
      /\ \A n \in 1..Len(pps) : w[(Len(vps) + Len(sps)) + n] = pps[n]
  BY <1>1, <1>2, <1>3 DEF HeaderOf
<1> HIDE DEF w
<1>8. Len(w) > 0
  BY <1>2, <1>7
<1>9. ASSUME NEW k \in Kinds PROVE \E n \in 1..Len(w) : Type(w[n]) = k
  <2>1. CASE k = "VPS" /\ frame_format = "H265"
    <3>1. 1 \in 1..Len(w) /\ w[1] = vps[1]
      BY <1>1, <1>7, <2>1
    <3> QED BY <1>1, <2>1, <3>1
  <2>2. CASE k = "SPS"
    <3>1. Len(vps) + 1 \in 1..Len(w) /\ w[Len(vps) + 1] = sps[1]
      BY <1>2, <1>7
    <3> QED BY <1>2, <2>2, <3>1
  <2>3. CASE k = "PPS"
    <3>1. /\ (Len(vps) + Len(sps)) + 1 \in 1..Len(w)
          /\ w[(Len(vps) + Len(sps)) + 1] = pps[1]
      BY <1>3, <1>7
    <3> QED BY <1>3, <2>3, <3>1
  <2>4. (k = "VPS" /\ frame_format = "H265") \/ k = "SPS" \/ k = "PPS"
    BY FormatAssumption DEF Kinds, CameraOK
  <2> QED BY <2>1, <2>2, <2>3, <2>4
<1> QED BY <1>4, <1>6, <1>8, <1>9 DEF w, HasSets

\* One picture: the sequence s, whose header is its first h units.
PictureShape(s, h, pic, p, v) ==
    /\ s \in Seq(UnitSet) /\ h \in 0..(Len(s) - 1)
    /\ \A n \in 1..Len(s) :
          /\ s[n].pic = pic /\ s[n].ver = v
          /\ nal_is_slice(s[n]) <=> n > h
          /\ n > h => (s[n].first <=> n = h + 1)
          /\ Type(s[n]) = "AUD" => n = 1
          /\ Type(s[n]) = "IDR" => IsKey(p)
          /\ nal_is_parameter_set(s[n]) => p.sets
    /\ p.sets => HasSets(s)

\* Every picture the camera may send is a header and slices behind it.
LEMMA PictureLaidOut ==
    ASSUME CameraOK, ListedSlices, NEW pic \in {1, 2}, NEW v \in {0, 1},
           NEW p \in Layouts
    PROVE  \E h \in Nat : PictureShape(Picture(pic, p, v), h, pic, p, v)
<1> DEFINE aud == When(delimits, <<Unit(Nal("AUD"), FALSE, pic, 1, v)>>)
           pset == When(p.sets, ParameterSets(pic, v))
           sei == When(p.sei, <<Unit(Nal("SEI"), FALSE, pic, 1, v)>>)
           vcl == [s \in 1..p.slices |-> Unit(p.nal, s = 1, pic, 1, v)]
<1>0. 1 \in 1..PpsCount
  BY SetsAssumption
<1>1. HeaderOf(aud, pic, v, TRUE) /\ NoSets(aud)
  <2>1. CASE delimits
    <3> DEFINE u == Unit(Nal("AUD"), FALSE, pic, 1, v)
    <3>1. u \in UnitSet /\ u.nal = Nal("AUD") /\ u.pic = pic /\ u.ver = v
      BY <1>0, NalNats DEF Unit, UnitSet
    <3>2. aud = <<u>>
      BY <2>1 DEF When
    <3> HIDE DEF u, aud
    <3>3. ~nal_is_slice(u) /\ ~nal_is_parameter_set(u)
      BY <3>1, OneHead
    <3> QED BY <3>1, <3>2, <3>3 DEF HeaderOf, NoSets
  <2>2. CASE ~delimits
    BY <2>2, HeadEmpty DEF When
  <2> QED BY <2>1, <2>2
<1>2. /\ HeaderOf(pset, pic, v, FALSE)
      /\ p.sets => HasSets(pset)
      /\ ~p.sets => NoSets(pset)
  <2>1. CASE p.sets
    BY <2>1, SetsHead DEF When
  <2>2. CASE ~p.sets
    BY <2>2, HeadEmpty DEF When
  <2> QED BY <2>1, <2>2
<1>3. HeaderOf(sei, pic, v, FALSE) /\ NoSets(sei)
  <2>1. CASE p.sei
    <3> DEFINE u == Unit(Nal("SEI"), FALSE, pic, 1, v)
    <3>1. u \in UnitSet /\ u.nal = Nal("SEI") /\ u.pic = pic /\ u.ver = v
      BY <1>0, NalNats DEF Unit, UnitSet
    <3>2. sei = <<u>>
      BY <2>1 DEF When
    <3> HIDE DEF u, sei
    <3>3. /\ ~nal_is_slice(u) /\ ~nal_is_parameter_set(u)
          /\ Type(u) # "AUD"
      BY <3>1, OneHead
    <3> QED BY <3>1, <3>2, <3>3 DEF HeaderOf, NoSets
  <2>2. CASE ~p.sei
    BY <2>2, HeadEmpty DEF When
  <2> QED BY <2>1, <2>2
<1>4. /\ vcl \in Seq(UnitSet) /\ Len(vcl) = p.slices /\ p.slices \in Nat
      /\ p.slices > 0
      /\ \A n \in 1..Len(vcl) :
            /\ vcl[n].pic = pic /\ vcl[n].ver = v /\ vcl[n].nal = p.nal
            /\ vcl[n].first <=> n = 1
  <2>1. p.slices \in Nat /\ p.slices > 0 /\ p.nal \in Nat
    <3>1. frame_format \in Formats
      BY DEF CameraOK
    <3>2. /\ KeyNals[frame_format] \subseteq Nat
          /\ OtherNals[frame_format] \subseteq Nat
      BY <3>1, FormatAssumption
    <3> QED BY <3>2 DEF Layouts
  <2>2. \A n \in 1..p.slices :
            /\ vcl[n] \in UnitSet /\ vcl[n].pic = pic /\ vcl[n].ver = v
            /\ vcl[n].nal = p.nal /\ (vcl[n].first <=> n = 1)
    BY <1>0, <2>1 DEF Unit, UnitSet
  <2>3. vcl \in [1..p.slices -> UnitSet] /\ DOMAIN vcl = 1..p.slices
    BY <2>2
  <2> HIDE DEF vcl
  <2>4. vcl \in Seq(UnitSet)
    BY <2>1, <2>3
  <2>5. Len(vcl) = p.slices
    BY <2>1, <2>3, <2>4, LenProperties
  <2> QED BY <2>1, <2>2, <2>4, <2>5
<1>5. \A n \in 1..Len(vcl) :
          /\ nal_is_slice(vcl[n]) /\ ~nal_is_parameter_set(vcl[n])
          /\ Type(vcl[n]) # "AUD"
          /\ Type(vcl[n]) = "IDR" => IsKey(p)
  <2> SUFFICES ASSUME NEW n \in 1..Len(vcl)
               PROVE  Type(vcl[n]) \in {"IDR", "NON_IDR"}
                      /\ (Type(vcl[n]) = "IDR" => IsKey(p))
    BY DEF nal_is_slice, nal_is_parameter_set
  <2>1. vcl[n].nal = p.nal
    BY <1>4
  <2>2. p.nal \in KeyNals[frame_format] \/ p.nal \in OtherNals[frame_format]
    BY DEF Layouts
  <2> QED BY <2>1, <2>2, NalTypes DEF CameraOK, IsKey
<1> DEFINE hd == (aud \o pset) \o sei
           s == hd \o vcl
           h == Len(hd)
<1>6. Picture(pic, p, v) = s
  BY DEF Picture
<1> HIDE DEF aud, pset, sei, vcl
<1>7. /\ HeaderOf(aud \o pset, pic, v, TRUE)
      /\ p.sets => HasSets(aud \o pset)
      /\ ~p.sets => NoSets(aud \o pset)
  BY <1>1, <1>2, HeadConcat
<1>8. /\ HeaderOf(hd, pic, v, TRUE)
      /\ p.sets => HasSets(hd)
      /\ ~p.sets => NoSets(hd)
  BY <1>3, <1>7, HeadConcat
<1>9. /\ h \in Nat /\ Len(vcl) \in Nat /\ s \in Seq(UnitSet)
      /\ Len(s) = h + Len(vcl)
      /\ \A n \in 1..h : s[n] = hd[n]
      /\ \A n \in 1..Len(vcl) : s[h + n] = vcl[n]
  <2> HIDE DEF hd
  <2>1. hd \in Seq(UnitSet)
    BY <1>8, SMTT(30) DEF HeaderOf
  <2> QED BY <1>4, <2>1
<1> HIDE DEF s, h, hd
<1>10. h \in 0..(Len(s) - 1)
  BY <1>4, <1>9
<1>11. ASSUME NEW n \in 1..Len(s)
       PROVE  /\ s[n].pic = pic /\ s[n].ver = v
              /\ nal_is_slice(s[n]) <=> n > h
              /\ n > h => (s[n].first <=> n = h + 1)
              /\ Type(s[n]) = "AUD" => n = 1
              /\ Type(s[n]) = "IDR" => IsKey(p)
              /\ nal_is_parameter_set(s[n]) => p.sets
  <2>1. CASE n <= h
    <3>1. n \in 1..Len(hd) /\ s[n] = hd[n]
      BY <1>9, <2>1 DEF h
    <3>2. ~nal_is_slice(hd[n]) => Type(hd[n]) # "IDR"
      BY DEF nal_is_slice
    <3>3. ~(n > h)
      BY <1>9, <2>1
    <3> QED BY <1>8, <3>1, <3>2, <3>3 DEF HeaderOf, NoSets
  <2>2. CASE ~(n <= h)
    <3>1. n - h \in 1..Len(vcl) /\ s[n] = vcl[n - h] /\ n > h
      <4>1. n - h \in 1..Len(vcl) /\ h + (n - h) = n /\ n > h
        BY <1>9, <2>2
      <4> QED BY <1>9, <4>1
    <3>2. n - h = 1 <=> n = h + 1
      BY <1>9
    <3> QED BY <1>4, <1>5, <3>1, <3>2
  <2> QED BY <2>1, <2>2
<1>12. p.sets => HasSets(s)
  <2> SUFFICES ASSUME p.sets, NEW k \in Kinds
               PROVE  \E n \in 1..Len(s) : Type(s[n]) = k
    BY DEF HasSets
  <2>1. PICK n \in 1..Len(hd) : Type(hd[n]) = k
    BY <1>8 DEF HasSets
  <2>2. n \in 1..Len(s) /\ s[n] = hd[n]
    BY <1>9 DEF h
  <2> QED BY <2>1, <2>2
<1>13. PictureShape(s, h, pic, p, v)
  BY <1>9, <1>10, <1>11, <1>12 DEF PictureShape
<1> QED BY <1>6, <1>9, <1>13

-----------------------------------------------------------------------------
(* One delivery: a picture, two, or parameter sets alone.                  *)

\* A picture comes with a set of every kind.
KindsOf(us, pic) ==
    \A k \in Kinds : \E m \in 1..Len(us) : us[m].pic = pic /\ Type(us[m]) = k

\* What comes from the camera: pictures 1..b and b+1..Len, headers first.
Delivery(us, v, h1, b, h2) ==
    /\ us \in Seq(UnitSet)
    /\ b \in 1..Len(us) /\ h1 \in 0..b /\ h2 \in b..Len(us)
    /\ b < Len(us) => h1 < b /\ h2 < Len(us)
    /\ \A n \in 1..Len(us) :
          /\ us[n].pic = (IF n <= b THEN 1 ELSE 2) /\ us[n].ver = v
          /\ nal_is_slice(us[n]) <=> (h1 < n /\ n <= b) \/ h2 < n
          /\ nal_is_slice(us[n]) =>
                 (us[n].first <=> n = h1 + 1 \/ n = h2 + 1)
          /\ Type(us[n]) = "AUD" => n = 1 \/ n = b + 1
          /\ nal_is_parameter_set(us[n]) => KindsOf(us, us[n].pic)

\* A delivery of one picture, its header first.
LEMMA OnePicture ==
    ASSUME NEW us, NEW p, NEW v, NEW h \in Nat,
           PictureShape(us, h, 1, p, v)
    PROVE  /\ Delivery(us, v, h, Len(us), Len(us))
           /\ \A n \in 1..Len(us) : Type(us[n]) = "IDR" => IsKey(p)
           /\ p.sets => KindsOf(us, 1)
<1>1. us \in Seq(UnitSet) /\ Len(us) \in Nat /\ h \in 0..(Len(us) - 1)
  BY DEF PictureShape
<1>2. p.sets => KindsOf(us, 1)
  BY DEF PictureShape, HasSets, KindsOf
<1>3. ASSUME NEW n \in 1..Len(us)
      PROVE  /\ us[n].pic = 1 /\ us[n].ver = v
             /\ nal_is_slice(us[n]) <=> h < n
             /\ nal_is_slice(us[n]) => (us[n].first <=> n = h + 1)
             /\ Type(us[n]) = "AUD" => n = 1
             /\ nal_is_parameter_set(us[n]) => KindsOf(us, us[n].pic)
             /\ Type(us[n]) = "IDR" => IsKey(p)
  BY <1>1, <1>2 DEF PictureShape
<1>4. /\ Len(us) \in 1..Len(us) /\ h \in 0..Len(us)
      /\ Len(us) \in Len(us)..Len(us)
      /\ \A n \in 1..Len(us) : n <= Len(us) /\ ~(Len(us) < n)
                               /\ n # Len(us) + 1
  BY <1>1
<1>5. Delivery(us, v, h, Len(us), Len(us))
  <2>1. ASSUME NEW n \in 1..Len(us)
        PROVE  /\ us[n].pic = (IF n <= Len(us) THEN 1 ELSE 2) /\ us[n].ver = v
               /\ nal_is_slice(us[n]) <=> (h < n /\ n <= Len(us))
                                          \/ Len(us) < n
               /\ nal_is_slice(us[n]) =>
                      (us[n].first <=> n = h + 1 \/ n = Len(us) + 1)
               /\ Type(us[n]) = "AUD" => n = 1 \/ n = Len(us) + 1
               /\ nal_is_parameter_set(us[n]) => KindsOf(us, us[n].pic)
    BY <1>3, <1>4
  <2> QED BY <1>1, <1>4, <2>1 DEF Delivery
<1> QED BY <1>2, <1>3, <1>5

\* Which of two pictures is a key picture, and which comes with sets.
BothPictures(us, p, q) ==
    /\ \A n \in 1..Len(us) : Type(us[n]) = "IDR" =>
           (us[n].pic = 1 /\ IsKey(p)) \/ (us[n].pic = 2 /\ IsKey(q))
    /\ p.sets => KindsOf(us, 1)
    /\ q.sets => KindsOf(us, 2)

\* A delivery of two, the boundary between them at the first's length.
LEMMA TwoPictures ==
    ASSUME NEW s, NEW t, NEW p, NEW q, NEW v, NEW h \in Nat, NEW g \in Nat,
           PictureShape(s, h, 1, p, v), PictureShape(t, g, 2, q, v)
    PROVE  /\ Delivery(s \o t, v, h, Len(s), Len(s) + g)
           /\ BothPictures(s \o t, p, q)
<1> DEFINE us == s \o t
           b == Len(s)
<1>1. /\ us \in Seq(UnitSet) /\ b \in Nat /\ Len(t) \in Nat
      /\ Len(us) = b + Len(t)
      /\ \A n \in 1..b : us[n] = s[n]
      /\ \A n \in 1..Len(t) : us[b + n] = t[n]
  BY DEF PictureShape
<1>2. h \in 0..(b - 1) /\ g \in 0..(Len(t) - 1)
  BY DEF PictureShape
<1>3. p.sets => KindsOf(us, 1)
  <2> SUFFICES ASSUME p.sets, NEW k \in Kinds
               PROVE  \E n \in 1..Len(us) : us[n].pic = 1 /\ Type(us[n]) = k
    BY DEF KindsOf
  <2>1. PICK n \in 1..b : Type(s[n]) = k
    BY DEF PictureShape, HasSets
  <2>2. n \in 1..Len(us) /\ us[n] = s[n]
    BY <1>1
  <2>3. s[n].pic = 1
    BY DEF PictureShape
  <2> QED BY <2>1, <2>2, <2>3
<1>4. q.sets => KindsOf(us, 2)
  <2> SUFFICES ASSUME q.sets, NEW k \in Kinds
               PROVE  \E n \in 1..Len(us) : us[n].pic = 2 /\ Type(us[n]) = k
    BY DEF KindsOf
  <2>1. PICK n \in 1..Len(t) : Type(t[n]) = k
    BY DEF PictureShape, HasSets
  <2>2. b + n \in 1..Len(us) /\ us[b + n] = t[n]
    BY <1>1
  <2>3. t[n].pic = 2
    BY DEF PictureShape
  <2> QED BY <2>1, <2>2, <2>3
<1> HIDE DEF b, us
<1>5. ASSUME NEW n \in 1..Len(us)
      PROVE  /\ us[n].pic = (IF n <= b THEN 1 ELSE 2) /\ us[n].ver = v
             /\ nal_is_slice(us[n]) <=> (h < n /\ n <= b) \/ b + g < n
             /\ nal_is_slice(us[n]) =>
                    (us[n].first <=> n = h + 1 \/ n = (b + g) + 1)
             /\ Type(us[n]) = "AUD" => n = 1 \/ n = b + 1
             /\ nal_is_parameter_set(us[n]) => KindsOf(us, us[n].pic)
             /\ Type(us[n]) = "IDR" =>
                  (us[n].pic = 1 /\ IsKey(p)) \/ (us[n].pic = 2 /\ IsKey(q))
  <2>1. CASE n <= b
    <3>1. n \in 1..b /\ us[n] = s[n]
      BY <1>1, <2>1
    <3>2. /\ s[n].pic = 1 /\ s[n].ver = v
          /\ nal_is_slice(s[n]) <=> n > h
          /\ n > h => (s[n].first <=> n = h + 1)
          /\ Type(s[n]) = "AUD" => n = 1
          /\ Type(s[n]) = "IDR" => IsKey(p)
          /\ nal_is_parameter_set(s[n]) => p.sets
      BY <3>1 DEF PictureShape, b
    <3>3. ~(b + g < n) /\ n # (b + g) + 1 /\ (n > h <=> h < n)
      BY <1>1, <1>2, <2>1
    <3> QED BY <1>3, <2>1, <3>1, <3>2, <3>3
  <2>2. CASE ~(n <= b)
    <3> DEFINE m == n - b
    <3>1. m \in 1..Len(t) /\ b + m = n
      BY <1>1, <2>2
    <3>2. us[n] = t[m]
      BY <1>1, <3>1
    <3>3. /\ t[m].pic = 2 /\ t[m].ver = v
          /\ nal_is_slice(t[m]) <=> m > g
          /\ m > g => (t[m].first <=> m = g + 1)
          /\ Type(t[m]) = "AUD" => m = 1
          /\ Type(t[m]) = "IDR" => IsKey(q)
          /\ nal_is_parameter_set(t[m]) => q.sets
      BY <3>1 DEF PictureShape
    <3>4. /\ m > g <=> b + g < n
          /\ m = g + 1 <=> n = (b + g) + 1
          /\ m = 1 <=> n = b + 1
          /\ n # h + 1
      BY <1>1, <1>2, <2>2
    <3> HIDE DEF m
    <3> QED BY <1>4, <2>2, <3>2, <3>3, <3>4
  <2> QED BY <2>1, <2>2
<1>6. /\ b \in 1..Len(us) /\ h \in 0..b /\ b + g \in b..Len(us)
      /\ h < b /\ b + g < Len(us)
  BY <1>1, <1>2
<1>7. Delivery(us, v, h, b, b + g)
  BY <1>1, <1>5, <1>6 DEF Delivery
<1> QED BY <1>3, <1>4, <1>5, <1>7 DEF b, us, BothPictures

\* What DeliverPictures brings.
Delivered(us, p, q, v) ==
    /\ \E h1, b, h2 \in Nat : Delivery(us, v, h1, b, h2)
    /\ \A n \in 1..Len(us) : Type(us[n]) = "IDR" =>
           \/ us[n].pic = 1 /\ IsKey(p)
           \/ us[n].pic = 2 /\ q # <<>> /\ IsKey(q)
    /\ p.sets => KindsOf(us, 1)
    /\ q # <<>> /\ q.sets => KindsOf(us, 2)

\* Every choice of DeliverPictures is such a delivery.
LEMMA PicturesDelivered ==
    ASSUME CameraOK, ListedSlices, NEW v \in {0, 1}, NEW p \in Layouts,
           NEW q \in Layouts \cup {<<>>},
           NEW us, us = Picture(1, p, v)
                        \o When(q # <<>>, IF q = <<>> THEN <<>>
                                          ELSE Picture(2, q, v))
    PROVE  Delivered(us, p, q, v)
<1> DEFINE s == Picture(1, p, v)
           t == Picture(2, q, v)
<1>1. PICK h \in Nat : PictureShape(s, h, 1, p, v)
  BY PictureLaidOut
<1>2. s \in Seq(UnitSet) /\ Len(s) \in Nat
  BY <1>1 DEF PictureShape
<1>3. CASE q = <<>>
  <2>1. us = s
    BY <1>2, <1>3 DEF When
  <2>2. /\ Delivery(us, v, h, Len(us), Len(us))
        /\ \A n \in 1..Len(us) : Type(us[n]) = "IDR" => IsKey(p)
        /\ p.sets => KindsOf(us, 1)
    BY <1>1, <2>1, OnePicture
  <2>3. \A n \in 1..Len(us) : us[n].pic = 1
    BY <1>1, <2>1 DEF PictureShape
  <2>4. Len(us) \in Nat
    BY <1>2, <2>1
  <2> QED BY <1>3, <2>2, <2>3, <2>4 DEF Delivered
<1>4. CASE q # <<>>
  <2>1. us = s \o t
    BY <1>4 DEF When
  <2>2. PICK g \in Nat : PictureShape(t, g, 2, q, v)
    BY <1>4, PictureLaidOut
  <2> HIDE DEF s, t
  <2>3. /\ Delivery(us, v, h, Len(s), Len(s) + g)
        /\ \A n \in 1..Len(us) : Type(us[n]) = "IDR" =>
               (us[n].pic = 1 /\ IsKey(p)) \/ (us[n].pic = 2 /\ IsKey(q))
        /\ p.sets => KindsOf(us, 1)
        /\ q.sets => KindsOf(us, 2)
    <3>1. /\ PictureShape(s, h, 1, p, v) /\ PictureShape(t, g, 2, q, v)
          /\ h \in Nat /\ g \in Nat
      BY <1>1, <2>2
    <3>2. /\ Delivery(s \o t, v, h, Len(s), Len(s) + g)
          /\ BothPictures(s \o t, p, q)
      BY <3>1, TwoPictures
    <3> QED BY <2>1, <3>2 DEF BothPictures
  <2>4. Len(s) + g \in Nat
    BY <1>2
  <2> QED BY <1>2, <1>4, <2>3, <2>4 DEF Delivered
<1> QED BY <1>3, <1>4

\* A transfer of parameter sets.
LEMMA SetsDelivered ==
    ASSUME CameraOK, ListedSlices, NEW us, us = ParameterSets(1, ver)
    PROVE  /\ \E h1, b, h2 \in Nat : Delivery(us, ver, h1, b, h2)
           /\ \A n \in 1..Len(us) : Type(us[n]) # "IDR"
           /\ KindsOf(us, 1)
<1>1. HeaderOf(us, 1, ver, FALSE) /\ HasSets(us) /\ Len(us) > 0
  BY SetsHead DEF CameraOK
<1>2. KindsOf(us, 1)
  BY <1>1 DEF HeaderOf, HasSets, KindsOf
<1>3. us \in Seq(UnitSet) /\ Len(us) \in Nat
  BY <1>1 DEF HeaderOf
<1> DEFINE b == Len(us)
<1>4. ASSUME NEW n \in 1..Len(us)
      PROVE  /\ us[n].pic = (IF n <= b THEN 1 ELSE 2) /\ us[n].ver = ver
             /\ nal_is_slice(us[n]) <=> (b < n /\ n <= b) \/ b < n
             /\ nal_is_slice(us[n]) =>
                    (us[n].first <=> n = b + 1 \/ n = b + 1)
             /\ Type(us[n]) = "AUD" => n = 1 \/ n = b + 1
             /\ nal_is_parameter_set(us[n]) => KindsOf(us, us[n].pic)
  <2>1. n <= b /\ ~(b < n)
    BY <1>3
  <2> QED BY <1>1, <1>2, <2>1 DEF HeaderOf
<1>5. /\ b \in 1..Len(us) /\ b \in 0..b /\ b \in b..Len(us)
      /\ ~(b < Len(us))
  BY <1>1, <1>3
<1>6. Delivery(us, ver, b, b, b)
  BY <1>3, <1>4, <1>5 DEF Delivery
<1>7. \A n \in 1..Len(us) : Type(us[n]) # "IDR"
  BY <1>1 DEF HeaderOf, nal_is_slice
<1> QED BY <1>2, <1>3, <1>6, <1>7

-----------------------------------------------------------------------------
(* split_access_units(): the state of its loop after each unit.            *)

\* Where access units should begin when the second picture follows unit b.
Cuts(b) == IF b = Len(units) THEN <<1>> ELSE <<1, b + 1>>

\* split_access_units() after k = i - 1 units.
Split(h1, b, h2) ==
    LET k   == i - 1
        aud == Type(units[b + 1]) = "AUD"
    IN  /\ i \in 1..(Len(units) + 1)
        /\ starts = IF k = 0 THEN <<>>
                    ELSE IF k <= b \/ (k <= h2 /\ ~aud) THEN <<1>>
                    ELSE <<1, b + 1>>
        /\ au_has_slice <=> \/ h1 < k /\ k <= b
                            \/ b < k /\ k <= h2 /\ ~aud
                            \/ b < k /\ h2 < k
        /\ nonvcl_run = IF 1 <= k /\ k <= h1 THEN 1
                        ELSE IF b < k /\ k <= h2 THEN b + 1 ELSE 0

\* The partition.  Between deliveries the locals are clear; while the loop
\* runs they stand as Split says; then the cuts are those of the pictures.
SplitInv ==
    /\ CameraOK
    /\ pc \in {"wait", "split", "emit"}
    /\ pc = "wait" => /\ units = <<>> /\ lead = FALSE
                      /\ i = 1 /\ starts = <<>> /\ au_has_slice = FALSE
                      /\ nonvcl_run = 0
    /\ pc # "emit" => a = 0 /\ out = <<>>
    /\ pc = "split" => \E h1, b, h2 \in Nat :
                           Delivery(units, ver, h1, b, h2) /\ Split(h1, b, h2)
    /\ pc = "emit" => /\ i = Len(units) + 1 /\ a \in 0..Len(starts)
                      /\ nonvcl_run \in 0..Len(units)
                      /\ \E h1, b, h2 \in Nat :
                             /\ Delivery(units, ver, h1, b, h2)
                             /\ starts = Cuts(b)

\* A step that leaves the delivery alone leaves its layout alone.
LEMMA DeliveryKept ==
    ASSUME frame_format' = frame_format, units' = units, ver' = ver,
           NEW h1, NEW b, NEW h2
    PROVE  Delivery(units, ver, h1, b, h2)' <=> Delivery(units, ver, h1, b, h2)
BY DEF Delivery, KindsOf, Kinds, Type, convert_unit_type, nal_is_slice,
       nal_is_parameter_set

\* The kind of a unit depends on the negotiated format alone.
LEMMA TypeKept ==
    ASSUME frame_format' = frame_format
    PROVE  \A u : (Type(u))' = Type(u)
BY DEF Type, convert_unit_type

\* One unit of the loop: a slice, a delimiter or another non-VCL unit, of the
\* first picture or the second.
LEMMA SplitStep ==
    ASSUME NEW h1 \in Nat, NEW b \in Nat, NEW h2 \in Nat,
           Delivery(units, ver, h1, b, h2), Split(h1, b, h2), SplitUnit
    PROVE  Split(h1, b, h2)'
<1> DEFINE k == i - 1
           u == units[i]
           aud == Type(units[b + 1]) = "AUD"
           len == Len(units)
<1>1. i \in 1..len /\ len \in Nat /\ k \in 0..(len - 1) /\ i = k + 1
  BY DEF SplitUnit, Split, Delivery
<1>2. /\ b \in 1..len /\ h1 \in 0..b /\ h2 \in b..len
      /\ b < len => h1 < b /\ h2 < len
  BY DEF Delivery
<1>3. /\ nal_is_slice(u) <=> (h1 < i /\ i <= b) \/ h2 < i
      /\ nal_is_slice(u) => (u.first <=> i = h1 + 1 \/ i = h2 + 1)
      /\ Type(u) = "AUD" => i = 1 \/ i = b + 1
  BY <1>1 DEF Delivery
<1>4. /\ starts = IF k = 0 THEN <<>>
                  ELSE IF k <= b \/ (k <= h2 /\ ~aud) THEN <<1>>
                  ELSE <<1, b + 1>>
      /\ au_has_slice <=> \/ h1 < k /\ k <= b
                          \/ b < k /\ k <= h2 /\ ~aud
                          \/ b < k /\ h2 < k
      /\ nonvcl_run = IF 1 <= k /\ k <= h1 THEN 1
                      ELSE IF b < k /\ k <= h2 THEN b + 1 ELSE 0
  BY DEF Split
<1>5. /\ starts' = IF Boundary # 0 THEN Append(starts, Boundary) ELSE starts
      /\ au_has_slice' <=> nal_is_slice(u) \/ (Boundary = 0 /\ au_has_slice)
      /\ nonvcl_run' = IF nal_is_slice(u) THEN 0
                       ELSE IF nonvcl_run = 0 THEN i ELSE nonvcl_run
      /\ i' = i + 1 /\ i' - 1 = i
      /\ UNCHANGED <<units, frame_format>>
  <2>1. au_has_slice' = (nal_is_slice(u) \/ (Boundary = 0 /\ au_has_slice))
    BY DEF SplitUnit
  <2>2. au_has_slice' <=> nal_is_slice(u) \/ (Boundary = 0 /\ au_has_slice)
    BY <2>1, Zenon
  <2> QED BY <1>1, <2>2 DEF SplitUnit, RunAfter, camera
<1>6. i = b + 1 => (aud <=> Type(u) = "AUD")
  OBVIOUS
<1>7. Type(u) = "AUD" => ~nal_is_slice(u)
  BY DEF nal_is_slice
<1> DEFINE second == au_has_slice /\ u.first
<1>8. /\ starts = <<>> => Boundary = 1
      /\ starts # <<>> /\ Type(u) = "AUD" => Boundary = i
      /\ starts # <<>> /\ nal_is_slice(u) /\ second =>
             Boundary = IF nonvcl_run # 0 THEN nonvcl_run ELSE i
      /\ starts # <<>> /\ Type(u) # "AUD" /\ ~(nal_is_slice(u) /\ second) =>
             Boundary = 0
  BY <1>7 DEF Boundary, SecondPicture, nal_opens_new_picture, CutBefore
<1> HIDE DEF k, u, aud, len, second
<1>9. starts = <<>> <=> k = 0
  BY <1>1, <1>4
<1>10. second <=> au_has_slice /\ u.first
  BY DEF second
<1> DEFINE starts1 == IF i <= b \/ (i <= h2 /\ ~aud) THEN <<1>>
                      ELSE <<1, b + 1>>
           au1 == \/ h1 < i /\ i <= b
                  \/ b < i /\ i <= h2 /\ ~aud
                  \/ b < i /\ h2 < i
           run1 == IF 1 <= i /\ i <= h1 THEN 1
                   ELSE IF b < i /\ i <= h2 THEN b + 1 ELSE 0
<1>0. SUFFICES starts' = starts1 /\ (au_has_slice' <=> au1)
                /\ nonvcl_run' = run1
  <2>1. aud <=> (Type(units[b + 1]) = "AUD")'
    BY <1>5 DEF aud, Type, convert_unit_type
  <2>2. i' \in 1..(Len(units') + 1) /\ i # 0
    BY <1>1, <1>5 DEF len
  <2> QED BY <1>5, <2>1, <2>2 DEF Split
<1>10b. Append(<<1>>, b + 1) = <<1, b + 1>>
  <2>1. /\ <<1>> \in Seq(Nat) /\ <<1, b + 1>> \in Seq(Nat)
        /\ Append(<<1>>, b + 1) \in Seq(Nat)
    OBVIOUS
  <2>2. Len(<<1, b + 1>>) = 2 /\ Len(Append(<<1>>, b + 1)) = 2
    OBVIOUS
  <2>3. \A n \in 1..2 : <<1, b + 1>>[n] = Append(<<1>>, b + 1)[n]
    OBVIOUS
  <2> QED BY <2>1, <2>2, <2>3, SeqEqual
<1>11. CASE k = 0
  <2>1. i = 1 /\ starts = <<>> /\ Boundary = 1
    BY <1>1, <1>8, <1>9, <1>11
  <2>2. starts' = <<1>>
    BY <1>5, <2>1
  <2>3. nonvcl_run = 0
    BY <1>1, <1>2, <1>4, <1>11
  <2>4. /\ au_has_slice' <=> nal_is_slice(u)
        /\ nonvcl_run' = IF nal_is_slice(u) THEN 0 ELSE 1
    BY <1>5, <2>1, <2>3
  <2>5. nal_is_slice(u) <=> h1 = 0
    BY <1>1, <1>2, <1>3, <2>1 DEF len
  <2> QED BY <1>1, <1>2, <2>1, <2>2, <2>4, <2>5
<1>12. CASE 1 <= k /\ k < b
  <2>1. 1 < i /\ i <= b /\ Type(u) # "AUD" /\ starts = <<1>>
    BY <1>1, <1>2, <1>3, <1>4, <1>12
  <2>2. au_has_slice <=> h1 < k
    BY <1>1, <1>2, <1>4, <1>12
  <2>3. nal_is_slice(u) => ~second
    BY <1>1, <1>2, <1>3, <1>10, <2>1, <2>2
  <2>4. Boundary = 0
    BY <1>8, <2>1, <2>3
  <2>5. nal_is_slice(u) <=> h1 < i
    BY <1>1, <1>2, <1>3, <2>1
  <2>6. nonvcl_run = IF k <= h1 THEN 1 ELSE 0
    BY <1>1, <1>2, <1>4, <1>12
  <2> QED BY <1>1, <1>2, <1>5, <1>12, <2>1, <2>2, <2>4, <2>5, <2>6
<1>13. CASE k = b
  <2>1. /\ i = b + 1 /\ b < len /\ h1 < b /\ h2 < len /\ starts = <<1>>
        /\ au_has_slice /\ nonvcl_run = 0
    BY <1>1, <1>2, <1>4, <1>13
  <2>2. nal_is_slice(u) <=> h2 = b
    BY <1>1, <1>2, <1>3, <2>1
  <2>3. CASE aud
    <3>1. Type(u) = "AUD" /\ Boundary = b + 1 /\ h2 # b
      BY <1>6, <1>7, <1>8, <2>1, <2>2, <2>3
    <3>2. starts' = <<1, b + 1>>
      BY <1>2, <1>5, <2>1, <1>10b, <3>1
    <3>3. ~au_has_slice'
      BY <1>2, <1>5, <2>1, <2>2, <3>1
    <3>4. nonvcl_run' = b + 1
      BY <1>2, <1>5, <2>1, <2>2, <3>1
    <3> QED BY <1>1, <1>2, <2>1, <2>3, <3>1, <3>2, <3>3, <3>4
  <2>4. CASE ~aud /\ h2 = b
    <3>1. Type(u) # "AUD" /\ second
      BY <1>3, <1>6, <1>10, <2>1, <2>2, <2>4
    <3>2. Boundary = b + 1
      BY <1>8, <2>1, <2>2, <2>4, <3>1
    <3>3. starts' = <<1, b + 1>>
      BY <1>2, <1>5, <2>1, <1>10b, <3>2
    <3>4. au_has_slice' /\ nonvcl_run' = 0
      BY <1>5, <2>2, <2>4
    <3> QED BY <1>1, <1>2, <2>1, <2>4, <3>3, <3>4
  <2>5. CASE ~aud /\ h2 # b
    <3>1. Type(u) # "AUD" /\ Boundary = 0
      BY <1>6, <1>8, <2>1, <2>2, <2>5
    <3> QED BY <1>1, <1>2, <1>5, <2>1, <2>2, <2>5, <3>1
  <2> QED BY <2>3, <2>4, <2>5
<1>14. CASE b < k
  <2>1. b + 1 < i /\ Type(u) # "AUD" /\ h1 < b /\ h2 < len /\ starts # <<>>
    BY <1>1, <1>2, <1>3, <1>4, <1>14
  <2>2. nal_is_slice(u) <=> h2 < i
    BY <1>1, <1>2, <1>3, <2>1
  <2>3. CASE i <= h2
    <3>1. Boundary = 0 /\ ~nal_is_slice(u)
      BY <1>1, <1>2, <1>8, <2>1, <2>2, <2>3
    <3>2. k <= h2 /\ nonvcl_run = b + 1
      BY <1>1, <1>2, <1>4, <1>14, <2>3
    <3> QED BY <1>1, <1>2, <1>4, <1>5, <1>14, <2>1, <2>3, <3>1, <3>2
  <2>4. CASE i = h2 + 1
    <3>1. k = h2 /\ nal_is_slice(u) /\ u.first /\ nonvcl_run = b + 1
      BY <1>1, <1>2, <1>3, <1>4, <1>14, <2>2, <2>4
    <3>2. au_has_slice <=> ~aud
      BY <1>1, <1>2, <1>4, <1>14, <3>1
    <3>3. Boundary = IF aud THEN 0 ELSE b + 1
      BY <1>1, <1>2, <1>8, <1>10, <2>1, <3>1, <3>2
    <3>4. starts = IF aud THEN <<1, b + 1>> ELSE <<1>>
      BY <1>1, <1>2, <1>4, <1>14, <3>1
    <3>5. starts' = <<1, b + 1>>
      BY <1>2, <1>5, <1>10b, <3>3, <3>4
    <3>6. au_has_slice' /\ nonvcl_run' = 0
      BY <1>5, <3>1
    <3>7. ~(i <= b) /\ ~(i <= h2) /\ b < i /\ h2 < i /\ ~(i <= h1)
      BY <1>1, <1>2, <1>14, <2>1, <2>4
    <3> QED BY <3>5, <3>6, <3>7
  <2>5. CASE h2 + 1 < i
    <3>1. h2 < k /\ nal_is_slice(u) /\ ~u.first /\ nonvcl_run = 0
      BY <1>1, <1>2, <1>3, <1>4, <1>14, <2>1, <2>2, <2>5
    <3>2. Boundary = 0 /\ au_has_slice /\ starts = <<1, b + 1>>
      BY <1>1, <1>2, <1>4, <1>8, <1>10, <1>14, <2>1, <3>1
    <3> QED BY <1>1, <1>2, <1>5, <1>14, <2>1, <2>5, <3>1, <3>2
  <2> QED BY <1>1, <1>2, <2>3, <2>4, <2>5
<1>15. k = 0 \/ (1 <= k /\ k < b) \/ k = b \/ b < k
  BY <1>1, <1>2
<1> HIDE DEF starts1, au1, run1
<1> QED BY <1>11, <1>12, <1>13, <1>14, <1>15

-----------------------------------------------------------------------------
(* The partition, over every action.                                       *)

\* The layout of a delivery that has just come in.
LEMMA DeliveryMoved ==
    ASSUME frame_format' = frame_format, NEW us, NEW v, units' = us, ver' = v,
           NEW h1, NEW b, NEW h2
    PROVE  Delivery(units, ver, h1, b, h2)' <=> Delivery(us, v, h1, b, h2)
BY DEF Delivery, KindsOf, Kinds, Type, convert_unit_type, nal_is_slice,
       nal_is_parameter_set

\* The scan of a delivery that has just come in.
LEMMA SplitBegins ==
    ASSUME NEW us, NEW h1 \in Nat, NEW b \in Nat, NEW h2 \in Nat,
           Delivery(us, ver', h1, b, h2), units' = us,
           i' = 1, starts' = <<>>, au_has_slice' = FALSE, nonvcl_run' = 0
    PROVE  Split(h1, b, h2)'
<1>1. Len(us) \in Nat /\ b \in 1..Len(us)
  BY DEF Delivery
<1>2. i' - 1 = 0 /\ i' \in 1..(Len(units') + 1)
  BY <1>1
<1>3. /\ ~(h1 < 0 /\ 0 <= b) /\ ~(b < 0) /\ ~(1 <= 0)
  BY <1>1
<1> QED BY <1>2, <1>3 DEF Split

\* The loop that has seen every unit has made one cut per picture.
LEMMA SplitEnds ==
    ASSUME NEW h1 \in Nat, NEW b \in Nat, NEW h2 \in Nat,
           Delivery(units, ver, h1, b, h2), Split(h1, b, h2), i > Len(units)
    PROVE  /\ i = Len(units) + 1 /\ starts = Cuts(b)
           /\ nonvcl_run \in 0..Len(units)
<1>1. /\ b \in 1..Len(units) /\ h2 \in b..Len(units) /\ Len(units) \in Nat
      /\ h1 \in 0..b
      /\ b < Len(units) => h2 < Len(units)
  BY DEF Delivery
<1>2. i = Len(units) + 1
  BY <1>1 DEF Split
<1>3. /\ b = Len(units) => Len(units) <= b
      /\ b # Len(units) => ~(Len(units) <= b) /\ ~(Len(units) <= h2)
      /\ i - 1 = Len(units) /\ Len(units) # 0
  BY <1>1, <1>2
<1>4. starts = Cuts(b)
  BY <1>3 DEF Split, Cuts
<1>5. nonvcl_run \in 0..Len(units)
  BY <1>1, <1>2 DEF Split
<1> QED BY <1>2, <1>4, <1>5

\* The cuts: one or two, the first at the first unit.
LEMMA CutTypes ==
    ASSUME NEW h1, NEW b, NEW h2, Delivery(units, ver, h1, b, h2),
           starts = Cuts(b)
    PROVE  /\ Len(units) \in Nat /\ b \in 1..Len(units)
           /\ Len(starts) = IF b = Len(units) THEN 1 ELSE 2
           /\ starts[1] = 1 /\ (b # Len(units) => starts[2] = b + 1)
           /\ DOMAIN starts = 1..Len(starts)
           /\ b # Len(units) => b + 1 \in 1..Len(units)
<1>1. Len(units) \in Nat /\ b \in 1..Len(units)
  BY DEF Delivery
<1> DEFINE len == Len(units)
<1>2. len \in Nat /\ b \in 1..len
  BY <1>1
<1> HIDE DEF len
<1>3. b # len => b + 1 \in 1..len
  BY <1>2
<1>4. CASE b = len
  <2>1. starts = <<1>>
    BY <1>4 DEF Cuts, len
  <2>2. Len(starts) = 1 /\ starts[1] = 1 /\ DOMAIN starts = 1..1
    BY <2>1
  <2> QED BY <1>2, <1>4, <2>2 DEF len
<1>5. CASE b # len
  <2>1. starts = <<1, b + 1>>
    BY <1>5 DEF Cuts, len
  <2> QED BY <1>2, <1>3, <1>5, <2>1 DEF len
<1> QED BY <1>4, <1>5

\* Every step of frame_callback() and of the camera keeps the partition.
LEMMA SplitInvStep ==
    ASSUME SplitInv, ListedSlices, [Next]_vars
    PROVE  SplitInv'
<1>0. (frame_format' = frame_format /\ delimits' = delimits
        /\ oversize' = oversize /\ ver' \in {0, 1}) => CameraOK'
  BY DEF SplitInv, CameraOK, Kinds
<1>1. CASE DeliverPictures
  <2>1. PICK p \in Layouts, q \in Layouts \cup {<<>>}, v \in {0, 1} :
            /\ ver' = v
            /\ Receive(Picture(1, p, v)
                       \o When(q # <<>>, IF q = <<>> THEN <<>>
                                         ELSE Picture(2, q, v)))
    BY <1>1 DEF DeliverPictures
  <2>2. PICK us : us = Picture(1, p, v)
                       \o When(q # <<>>, IF q = <<>> THEN <<>>
                                         ELSE Picture(2, q, v))
    OBVIOUS
  <2>3. Receive(us)
    BY <2>1, <2>2, Zenon
  <2>8. Delivered(us, p, q, v)
    BY <2>2, PicturesDelivered DEF SplitInv
  <2>4. PICK h1, b, h2 \in Nat : Delivery(us, v, h1, b, h2)
    BY <2>8 DEF Delivered
  <2>5. Delivery(units, ver, h1, b, h2)'
    BY <2>1, <2>3, <2>4, DeliveryMoved DEF Receive
  <2>6. Split(h1, b, h2)'
    BY <1>1, <2>1, <2>3, <2>4, SplitBegins
       DEF Receive, split, SplitInv, DeliverPictures
  <2>7. CameraOK'
    BY <1>0, <2>1, <2>3 DEF Receive
  <2> QED
    BY <1>1, <2>3, <2>5, <2>6, <2>7 DEF Receive, SplitInv, DeliverPictures
<1>2. CASE DeliverSets
  <2>1. PICK us : us = ParameterSets(1, ver)
    OBVIOUS
  <2>2. Receive(us) /\ ver' = ver
    BY <1>2, <2>1, Zenon DEF DeliverSets
  <2>3. PICK h1, b, h2 \in Nat : Delivery(us, ver, h1, b, h2)
    BY <2>1, SetsDelivered DEF SplitInv
  <2>4. Delivery(units, ver, h1, b, h2)'
    BY <2>2, <2>3, DeliveryMoved DEF Receive
  <2>5. Split(h1, b, h2)'
    BY <1>2, <2>2, <2>3, SplitBegins DEF Receive, split, SplitInv, DeliverSets
  <2>6. CameraOK'
    BY <1>0, <2>2 DEF Receive, SplitInv, CameraOK
  <2> QED
    BY <1>2, <2>2, <2>4, <2>5, <2>6 DEF Receive, SplitInv, DeliverSets
<1>3. CASE Reopen
  <2>1. CameraOK'
    BY <1>0, <1>3 DEF Reopen, camera, SplitInv, CameraOK
  <2> QED
    BY <1>3, <2>1 DEF Reopen, SplitInv, split
<1>4. CASE SplitUnit
  <2>1. PICK h1, b, h2 \in Nat :
            Delivery(units, ver, h1, b, h2) /\ Split(h1, b, h2)
    BY <1>4 DEF SplitInv, SplitUnit
  <2>2. Delivery(units, ver, h1, b, h2)'
    BY <1>4, <2>1, DeliveryKept DEF SplitUnit, camera
  <2>3. Split(h1, b, h2)'
    BY <1>4, <2>1, SplitStep
  <2>4. CameraOK'
    BY <1>0, <1>4 DEF SplitUnit, camera, SplitInv, CameraOK
  <2> QED
    BY <1>4, <2>2, <2>3, <2>4 DEF SplitUnit, SplitInv
<1>5. CASE SplitDone
  <2>1. PICK h1, b, h2 \in Nat :
            Delivery(units, ver, h1, b, h2) /\ Split(h1, b, h2)
    BY <1>5 DEF SplitInv, SplitDone
  <2>2. Delivery(units, ver, h1, b, h2)'
    BY <1>5, <2>1, DeliveryKept DEF SplitDone, camera
  <2>3. i = Len(units) + 1 /\ starts = Cuts(b) /\ nonvcl_run \in 0..Len(units)
    BY <1>5, <2>1, SplitEnds DEF SplitDone
  <2>4. Len(starts) \in Nat
    BY <2>1, <2>3, CutTypes
  <2>5. CameraOK'
    BY <1>0, <1>5 DEF SplitDone, camera, SplitInv, CameraOK
  <2>6. (starts = Cuts(b))'
    BY <1>5, <2>3 DEF SplitDone, split, Cuts
  <2> QED
    BY <1>5, <2>2, <2>3, <2>4, <2>5, <2>6 DEF SplitDone, SplitInv, split
<1>6. CASE EmitUnit
  <2>1. PICK h1, b, h2 \in Nat :
            Delivery(units, ver, h1, b, h2) /\ starts = Cuts(b)
    BY <1>6 DEF SplitInv, EmitUnit
  <2>2. /\ UNCHANGED <<camera, pc, units, lead, split>>
        /\ a' = a + 1 /\ a < Len(starts) /\ pc = "emit"
    BY <1>6 DEF EmitUnit
  <2>3. Delivery(units, ver, h1, b, h2)'
    BY <2>1, <2>2, DeliveryKept DEF camera
  <2>4. (starts = Cuts(b))'
    BY <2>1, <2>2 DEF split, Cuts
  <2>5. Len(starts) \in Nat
    BY <2>1, CutTypes
  <2>6. CameraOK'
    BY <1>0, <2>2 DEF camera, SplitInv, CameraOK
  <2>7. a' \in 0..Len(starts)
    BY <2>2, <2>5 DEF SplitInv
  <2> QED
    BY <2>2, <2>3, <2>4, <2>6, <2>7 DEF SplitInv, split
<1>7. CASE EmitDone
  <2>1. CameraOK'
    BY <1>0, <1>7 DEF EmitDone, camera, SplitInv, CameraOK
  <2> QED
    BY <1>7, <2>1 DEF EmitDone, SplitInv
<1>8. CASE UNCHANGED vars
  <2>1. UNCHANGED <<camera, pc, units, lead, split, a, out>>
    BY <1>8 DEF vars
  <2>2. CameraOK'
    BY <1>0, <2>1 DEF camera, SplitInv, CameraOK
  <2>3. CASE pc = "wait"
    BY <2>1, <2>2, <2>3 DEF SplitInv, split
  <2>4. CASE pc = "split"
    <3>1. PICK h1, b, h2 \in Nat :
              Delivery(units, ver, h1, b, h2) /\ Split(h1, b, h2)
      BY <2>4 DEF SplitInv
    <3>2. Delivery(units, ver, h1, b, h2)'
      BY <2>1, <3>1, DeliveryKept DEF camera
    <3>3. Split(h1, b, h2)'
      BY <2>1, <3>1 DEF Split, split, camera, Type, convert_unit_type
    <3> QED
      BY <2>1, <2>2, <2>4, <3>2, <3>3 DEF SplitInv
  <2>5. CASE pc = "emit"
    <3>1. PICK h1, b, h2 \in Nat :
              Delivery(units, ver, h1, b, h2) /\ starts = Cuts(b)
      BY <2>5 DEF SplitInv
    <3>2. Delivery(units, ver, h1, b, h2)'
      BY <2>1, <3>1, DeliveryKept DEF camera
    <3>3. (starts = Cuts(b))'
      BY <2>1, <3>1 DEF split, Cuts
    <3> QED
      BY <2>1, <2>2, <2>5, <3>2, <3>3 DEF SplitInv, split
  <2> QED
    BY <2>3, <2>4, <2>5 DEF SplitInv
<1> QED
  BY <1>1, <1>2, <1>3, <1>4, <1>5, <1>6, <1>7, <1>8 DEF Next

\* The first delivery has yet to come.
LEMMA SplitInit == Init => SplitInv
<1>1. Init => CameraOK
  BY DEF Init, CameraOK
<1> QED BY <1>1 DEF Init, SplitInv

\* The cuts of the invariant are the cuts between pictures.
LEMMA OneUnitPerPictureHolds == SplitInv => OneUnitPerPicture
<1> SUFFICES ASSUME SplitInv, pc = "emit"
             PROVE  ToSet(starts) = {n \in DOMAIN units :
                                n = 1 \/ units[n].pic # units[n - 1].pic}
  BY DEF OneUnitPerPicture
<1>1. PICK h1, b, h2 \in Nat :
          Delivery(units, ver, h1, b, h2) /\ starts = Cuts(b)
  BY DEF SplitInv
<1>2. DOMAIN units = 1..Len(units) /\ Len(units) \in Nat /\ b \in 1..Len(units)
  BY <1>1 DEF Delivery
<1>3. \A n \in 1..Len(units) : units[n].pic = IF n <= b THEN 1 ELSE 2
  BY <1>1 DEF Delivery
<1>4. \A n \in 1..Len(units) : n # 1 =>
          (units[n].pic # units[n - 1].pic <=> n = b + 1)
  BY <1>2, <1>3
<1>5. ToSet(starts) = {1} \cup (IF b = Len(units) THEN {} ELSE {b + 1})
  <2>1. ToSet(<<1>>) = {1} /\ ToSet(<<1, b + 1>>) = {1, b + 1}
    BY DEF ToSet
  <2> QED BY <1>1, <2>1 DEF Cuts
<1>6. 1 \in 1..Len(units) /\ (b # Len(units) <=> b + 1 \in 1..Len(units))
  <2> DEFINE len == Len(units)
  <2>1. len \in Nat /\ b \in 1..len
    BY <1>2
  <2> HIDE DEF len
  <2>2. 1 \in 1..len /\ (b # len <=> b + 1 \in 1..len)
    BY <2>1
  <2> QED BY <2>2 DEF len
<1> QED BY <1>2, <1>4, <1>5, <1>6

-----------------------------------------------------------------------------
(* The access unit that the emit loop takes next.                          *)

\* The first unit no access unit has been made of yet.
Rest == IF pc = "emit"
        THEN IF a < Len(starts) THEN starts[a + 1] ELSE Len(units) + 1
        ELSE 1

\* The access unit the loop takes next.
Hand == AccessUnit(a + 1)

\* The access unit in hand: units lo..hi, those of one picture.
InHand(lo, hi) ==
    /\ units \in Seq(UnitSet)
    /\ lo \in 1..Len(units) /\ hi \in lo..Len(units)
    /\ lo = Rest /\ Hand = SubSeq(units, lo, hi)
    /\ hi + 1 = IF a + 1 < Len(starts) THEN starts[a + 2] ELSE Len(units) + 1
    /\ \A n \in 1..Len(units), m \in lo..hi :
          /\ n < lo => units[n].pic < units[m].pic
          /\ lo <= n /\ n <= hi => units[n].pic = units[m].pic
          /\ hi < n => units[m].pic < units[n].pic
    /\ \A n \in lo..hi :
          /\ Type(units[n]) = "AUD" => n = lo
          /\ nal_is_parameter_set(units[n]) =>
                 \A k \in Kinds : \E m \in lo..hi : Type(units[m]) = k
    /\ \A n \in 1..Len(units) : units[n].ver = ver

\* While the loop has an access unit left, it is all of one picture.
LEMMA OneInHand ==
    ASSUME SplitInv, pc = "emit", a < Len(starts)
    PROVE  \E lo, hi \in Nat : InHand(lo, hi)
<1>1. PICK h1, b, h2 \in Nat :
          Delivery(units, ver, h1, b, h2) /\ starts = Cuts(b)
  BY DEF SplitInv
<1> DEFINE len == Len(units)
<1>2. /\ len \in Nat /\ b \in 1..len /\ units \in Seq(UnitSet)
      /\ Len(starts) = IF b = len THEN 1 ELSE 2
      /\ starts[1] = 1 /\ (b # len => starts[2] = b + 1)
      /\ b # len => b + 1 \in 1..len
  BY <1>1, CutTypes DEF Delivery
<1>3. \A n \in 1..len :
          /\ units[n].pic = (IF n <= b THEN 1 ELSE 2) /\ units[n].ver = ver
          /\ Type(units[n]) = "AUD" => n = 1 \/ n = b + 1
          /\ nal_is_parameter_set(units[n]) =>
                 \A k \in Kinds : \E m \in 1..len :
                     units[m].pic = units[n].pic /\ Type(units[m]) = k
  BY <1>1 DEF Delivery, KindsOf
<1>4. a \in 0..Len(starts)
  BY DEF SplitInv
<1>5. a = 0 \/ (a = 1 /\ b # len)
  BY <1>2, <1>4
<1> DEFINE lo == IF a = 0 THEN 1 ELSE b + 1
           hi == IF a = 0 THEN b ELSE len
<1>6. lo \in 1..len /\ hi \in lo..len /\ lo \in Nat /\ hi \in Nat
  BY <1>2, <1>5
<1>7. lo = Rest
  BY <1>2, <1>5 DEF Rest
<1>8. hi + 1 = IF a + 1 < Len(starts) THEN starts[a + 2] ELSE len + 1
  BY <1>2, <1>5
<1>9. AccessUnit(a + 1) = SubSeq(units, lo, hi)
  <2>1. CASE a = 0 /\ b = len
    BY <1>2, <2>1 DEF AccessUnit
  <2>2. CASE a = 0 /\ b # len
    <3>1. a + 1 = 1 /\ starts[a + 1] = 1 /\ starts[(a + 1) + 1] - 1 = b
          /\ a + 1 < Len(starts)
      BY <1>2, <2>2
    <3> QED BY <2>2, <3>1 DEF AccessUnit
  <2>3. CASE a = 1 /\ b # len
    <3>1. starts[a + 1] = b + 1 /\ ~(a + 1 < Len(starts))
      BY <1>2, <2>3
    <3> QED BY <2>3, <3>1 DEF AccessUnit
  <2> QED BY <1>5, <2>1, <2>2, <2>3
<1>10. \A n \in 1..len : lo <= n /\ n <= hi <=>
                             units[n].pic = (IF a = 0 THEN 1 ELSE 2)
  BY <1>2, <1>3, <1>5
<1>11. ASSUME NEW n \in 1..len, NEW m \in lo..hi
       PROVE  /\ n < lo => units[n].pic < units[m].pic
              /\ lo <= n /\ n <= hi => units[n].pic = units[m].pic
              /\ hi < n => units[m].pic < units[n].pic
  <2>1. m \in 1..len
    BY <1>6
  <2>2. units[n].pic = (IF n <= b THEN 1 ELSE 2)
        /\ units[m].pic = (IF m <= b THEN 1 ELSE 2)
    BY <1>3, <2>1
  <2>3. CASE a = 0
    BY <1>2, <2>1, <2>2, <2>3
  <2>4. CASE a = 1 /\ b # len
    BY <1>2, <2>1, <2>2, <2>4
  <2> QED BY <1>5, <2>3, <2>4
<1>12. ASSUME NEW n \in lo..hi
       PROVE  /\ Type(units[n]) = "AUD" => n = lo
              /\ nal_is_parameter_set(units[n]) =>
                     \A k \in Kinds : \E m \in lo..hi : Type(units[m]) = k
  <2>1. n \in 1..len /\ lo <= n /\ n <= hi
    BY <1>6
  <2>2. Type(units[n]) = "AUD" => n = lo
    BY <1>2, <1>3, <1>5, <2>1
  <2>3. ASSUME nal_is_parameter_set(units[n]), NEW k \in Kinds
        PROVE  \E m \in lo..hi : Type(units[m]) = k
    <3>1. PICK m \in 1..len : units[m].pic = units[n].pic /\ Type(units[m]) = k
      BY <1>3, <2>1, <2>3
    <3>2. lo <= m /\ m <= hi
      BY <1>10, <2>1, <3>1
    <3>3. m \in lo..hi
      BY <1>6, <3>2
    <3> QED BY <3>1, <3>3
  <2> QED BY <2>2, <2>3
<1> HIDE DEF lo, hi
<1>13. InHand(lo, hi)
  BY <1>2, <1>3, <1>6, <1>7, <1>8, <1>9, <1>11, <1>12 DEF InHand, Hand
<1> QED BY <1>6, <1>13

\* The units of the access unit in hand.
LEMMA HandUnits ==
    ASSUME NEW lo, NEW hi, InHand(lo, hi)
    PROVE  /\ Hand \in Seq(UnitSet)
           /\ \A n \in lo..hi : units[n] \in ToSet(Hand)
           /\ \A u \in ToSet(Hand) : \E n \in lo..hi : u = units[n]
           /\ ToSet(Hand) \subseteq UnitSet
           /\ Hand = <<units[lo]>> \o SubSeq(units, lo + 1, hi)
           /\ SubSeq(units, lo + 1, hi) \in Seq(UnitSet)
           /\ \A u \in ToSet(SubSeq(units, lo + 1, hi)) : Type(u) # "AUD"
<1> DEFINE seq == Hand
<1>1. /\ units \in Seq(UnitSet) /\ Len(units) \in Nat
      /\ lo \in 1..Len(units) /\ hi \in lo..Len(units)
      /\ seq = SubSeq(units, lo, hi)
  BY DEF InHand
<1> HIDE DEF seq
<1>2. \A n \in lo..hi : units[n] \in UnitSet
  BY <1>1
<1>3. /\ seq \in Seq(UnitSet) /\ Len(seq) = hi - lo + 1
      /\ \A n \in 1..(hi - lo + 1) : seq[n] = units[lo + n - 1]
  <2>1. lo \in Int /\ hi \in Int /\ lo <= hi
    BY <1>1
  <2>2. \A n \in lo..hi : units[n] \in UnitSet
    BY <1>2
  <2>3. /\ SubSeq(units, lo, hi) \in Seq(UnitSet)
        /\ Len(SubSeq(units, lo, hi)) = IF lo <= hi THEN hi - lo + 1 ELSE 0
        /\ \A n \in 1..(hi - lo + 1) :
              SubSeq(units, lo, hi)[n] = units[lo + n - 1]
    BY <2>1, <2>2, SubSeqProperties
  <2> QED BY <1>1, <2>1, <2>3
<1>4. ASSUME NEW n \in lo..hi PROVE units[n] \in ToSet(seq)
  <2>1. n - lo + 1 \in 1..(hi - lo + 1) /\ lo + (n - lo + 1) - 1 = n
    BY <1>1
  <2>2. n - lo + 1 \in DOMAIN seq /\ seq[n - lo + 1] = units[n]
    BY <1>3, <2>1
  <2> QED BY <2>2 DEF ToSet
<1>5. ASSUME NEW u \in ToSet(seq) PROVE \E n \in lo..hi : u = units[n]
  <2>1. PICK n \in 1..(hi - lo + 1) : u = seq[n]
    BY <1>3 DEF ToSet
  <2>2. lo + n - 1 \in lo..hi
    BY <1>1
  <2> QED BY <1>3, <2>1, <2>2
<1>6. seq = <<units[lo]>> \o SubSeq(units, lo + 1, hi)
  BY <1>1, SubSeqRecursiveFirst
<1>7. \A n \in (lo + 1)..hi : units[n] \in UnitSet /\ Type(units[n]) # "AUD"
  <2> TAKE n \in (lo + 1)..hi
  <2>1. n \in lo..hi /\ n # lo
    BY <1>1
  <2> QED BY <1>2, <2>1 DEF InHand
<1> DEFINE t == SubSeq(units, lo + 1, hi)
<1>8. /\ t \in Seq(UnitSet)
      /\ Len(t) = IF lo + 1 <= hi THEN hi - (lo + 1) + 1 ELSE 0
      /\ \A n \in 1..(hi - (lo + 1) + 1) : t[n] = units[(lo + 1) + n - 1]
  BY <1>1, <1>7, SubSeqProperties
<1>9. ASSUME NEW u \in ToSet(t) PROVE Type(u) # "AUD"
  <2> HIDE DEF t
  <2>1. PICK n \in 1..Len(t) : u = t[n]
    BY <1>8 DEF ToSet
  <2>2. n \in 1..(hi - (lo + 1) + 1) /\ (lo + 1) + n - 1 \in (lo + 1)..hi
    BY <1>1, <1>8
  <2> QED BY <1>7, <1>8, <2>1, <2>2
<1>10. ToSet(seq) \subseteq UnitSet
  BY <1>2, <1>5
<1> QED BY <1>3, <1>4, <1>5, <1>6, <1>8, <1>9, <1>10 DEF seq

\* SelectInSeq's first match is a match ...
LEMMA MinIsMember ==
    ASSUME NEW S, S \subseteq Nat, S # {}
    PROVE  Min(S) \in S /\ \A y \in S : Min(S) <= y
<1>1. PICK x \in S : \A y \in S : ~(<<y, x>> \in OpToRel(<, Nat))
  BY NatLessThanWellFounded, WFMin
<1>2. ASSUME NEW y \in S PROVE x <= y
  <2>1. ~(y < x)
    <3> SUFFICES ASSUME y < x PROVE FALSE
      OBVIOUS
    <3>1. <<y, x>> \in Nat \X Nat /\ <<y, x>>[1] < <<y, x>>[2]
      OBVIOUS
    <3>2. <<y, x>> \in OpToRel(<, Nat)
      BY <3>1, Zenon DEF OpToRel
    <3> QED
      BY <1>1, <3>2
  <2>2. x \in Nat /\ y \in Nat
    OBVIOUS
  <2> QED
    BY <2>1, <2>2
<1> QED
  BY <1>2 DEF Min

\* ... and so is SelectLastInSeq's last one.
LEMMA MaxIsMember ==
    ASSUME NEW N \in Nat, NEW S, S \subseteq 1..N, S # {}
    PROVE  Max(S) \in S
<1> DEFINE T == {N - y : y \in S}
<1>1. T \subseteq Nat /\ T # {}
  <2>1. PICK s \in S : TRUE
    OBVIOUS
  <2>2. N - s \in T
    OBVIOUS
  <2>3. \A y \in S : N - y \in Nat
    OBVIOUS
  <2> QED BY <2>2, <2>3
<1>2. Min(T) \in T /\ \A z \in T : Min(T) <= z
  BY <1>1, MinIsMember
<1>3. PICK x \in S : Min(T) = N - x
  BY <1>2
<1>4. ASSUME NEW y \in S PROVE x >= y
  <2>1. N - y \in T /\ x \in Nat /\ y \in Nat
    OBVIOUS
  <2>2. N - x <= N - y
    BY <1>2, <1>3, <2>1
  <2> QED BY <2>1, <2>2
<1> QED BY <1>4 DEF Max

-----------------------------------------------------------------------------
(* The cache, the prefix made of it, and what a decoder learns.            *)

\* A slot holds nothing, or one set of its kind.
Slots(c) == \A k \in Kinds :
                \/ c[k] = <<>>
                \/ \E u \in UnitSet : c[k] = <<u>> /\ Type(u) = k

\* Every kind that fits is held, in the version in force.
Held(c) == \A k \in Kinds \ oversize :
               \E u \in UnitSet : c[k] = <<u>> /\ Type(u) = k /\ u.ver = ver

\* The decoder has every kind that fits, in the version in force, unless the
\* buffer that carried them went with a flush.
DecCurrent == missed \/ \A k \in Kinds \ oversize : dec[<<k, 1>>] = ver

\* LastOf finds a set of the kind where the access unit has one.
LEMMA LastOfFacts ==
    ASSUME NEW seq \in Seq(UnitSet), NEW k
    PROVE  /\ LastOf(k, seq) = 0 => \A u \in ToSet(seq) : Type(u) # k
           /\ LastOf(k, seq) # 0 =>
                  /\ LastOf(k, seq) \in 1..Len(seq)
                  /\ Type(seq[LastOf(k, seq)]) = k
<1> DEFINE I == {n \in 1..Len(seq) : Type(seq[n]) = k}
<1>1. LastOf(k, seq) = IF I # {} THEN Max(I) ELSE 0
  BY Zenon DEF LastOf, SelectLastInSeq
<1>2. Len(seq) \in Nat /\ DOMAIN seq = 1..Len(seq)
  OBVIOUS
<1>3. CASE I = {}
  <2>1. \A n \in 1..Len(seq) : Type(seq[n]) # k
    BY <1>3
  <2> HIDE DEF I
  <2> QED BY <1>1, <1>2, <1>3, <2>1 DEF ToSet
<1>4. CASE I # {}
  <2>1. Max(I) \in I
    BY <1>2, <1>4, MaxIsMember
  <2>2. Max(I) \in 1..Len(seq) /\ Type(seq[Max(I)]) = k
    BY <2>1
  <2>3. Max(I) # 0
    BY <2>2
  <2> HIDE DEF I
  <2> QED BY <1>1, <1>4, <2>2, <2>3
<1> QED BY <1>3, <1>4

\* cache_parameter_set() keeps a slot to its kind.
LEMMA CachedSlots ==
    ASSUME Slots(cache), NEW seq \in Seq(UnitSet)
    PROVE  Slots(Cached(seq))
<1> SUFFICES ASSUME NEW k \in Kinds
             PROVE  \/ Cached(seq)[k] = <<>>
                    \/ \E u \in UnitSet : Cached(seq)[k] = <<u>> /\ Type(u) = k
  BY DEF Slots
<1>1. Cached(seq)[k] = IF k \in oversize \/ LastOf(k, seq) = 0 THEN cache[k]
                       ELSE <<seq[LastOf(k, seq)]>>
  BY DEF Cached
<1>2. CASE k \in oversize \/ LastOf(k, seq) = 0
  BY <1>1, <1>2 DEF Slots
<1>3. CASE ~(k \in oversize \/ LastOf(k, seq) = 0)
  <2>1. LastOf(k, seq) \in 1..Len(seq) /\ Type(seq[LastOf(k, seq)]) = k
    BY <1>3, LastOfFacts
  <2>2. seq[LastOf(k, seq)] \in UnitSet
    BY <2>1
  <2> QED BY <1>1, <1>3, <2>1, <2>2
<1> QED BY <1>2, <1>3

\* An access unit without a parameter set leaves the cache alone.
LEMMA CachedNothing ==
    ASSUME NEW seq \in Seq(UnitSet),
           \A u \in ToSet(seq) : ~nal_is_parameter_set(u)
    PROVE  \A k \in Kinds : Cached(seq)[k] = cache[k]
<1> SUFFICES ASSUME NEW k \in Kinds PROVE Cached(seq)[k] = cache[k]
  OBVIOUS
<1>1. k \in {"VPS", "SPS", "PPS"}
  BY DEF Kinds
<1>2. LastOf(k, seq) = 0
  <2> SUFFICES ASSUME LastOf(k, seq) # 0 PROVE FALSE
    OBVIOUS
  <2>1. LastOf(k, seq) \in 1..Len(seq) /\ Type(seq[LastOf(k, seq)]) = k
    BY LastOfFacts
  <2>2. seq[LastOf(k, seq)] \in ToSet(seq)
    BY <2>1 DEF ToSet
  <2> QED BY <1>1, <2>1, <2>2 DEF nal_is_parameter_set
<1> QED BY <1>2 DEF Cached

\* One that brings every kind brings the cache up to date.
LEMMA CachedAll ==
    ASSUME NEW seq \in Seq(UnitSet), \A u \in ToSet(seq) : u.ver = ver,
           \A k \in Kinds : \E u \in ToSet(seq) : Type(u) = k
    PROVE  Held(Cached(seq))
<1> SUFFICES ASSUME NEW k \in Kinds \ oversize
             PROVE  \E u \in UnitSet : /\ Cached(seq)[k] = <<u>>
                                       /\ Type(u) = k /\ u.ver = ver
  BY DEF Held
<1>1. LastOf(k, seq) # 0
  BY LastOfFacts
<1>2. LastOf(k, seq) \in 1..Len(seq) /\ Type(seq[LastOf(k, seq)]) = k
  BY <1>1, LastOfFacts
<1>3. seq[LastOf(k, seq)] \in UnitSet /\ seq[LastOf(k, seq)] \in ToSet(seq)
  BY <1>2 DEF ToSet
<1>4. Cached(seq)[k] = <<seq[LastOf(k, seq)]>>
  BY <1>1 DEF Cached
<1> QED BY <1>2, <1>3, <1>4

\* Two caches with the same slots hold the same.
LEMMA HeldMoves ==
    ASSUME NEW c, NEW d, \A k \in Kinds : c[k] = d[k]
    PROVE  (Held(c) <=> Held(d)) /\ (Slots(c) <=> Slots(d))
BY DEF Held, Slots

\* A slot as a part of the prefix.
LEMMA SlotSet ==
    ASSUME NEW c, Slots(c), NEW k \in Kinds
    PROVE  /\ c[k] \in Seq(UnitSet)
           /\ \A u : u \in ToSet(c[k]) <=> c[k] = <<u>>
           /\ \A u \in ToSet(c[k]) : Type(u) = k
<1>1. CASE c[k] = <<>>
  BY <1>1 DEF ToSet
<1>2. CASE c[k] # <<>>
  <2>1. PICK u \in UnitSet : c[k] = <<u>> /\ Type(u) = k
    BY <1>2 DEF Slots
  <2>2. ToSet(<<u>>) = {u} /\ <<u>> \in Seq(UnitSet)
    BY DEF ToSet
  <2>3. \A v : <<u>> = <<v>> <=> u = v
    OBVIOUS
  <2> QED BY <2>1, <2>2, <2>3
<1> QED BY <1>1, <1>2

\* The prefix is made of the slots, each set once.
LEMMA PrefixSet ==
    ASSUME CameraOK, NEW c, Slots(c)
    PROVE  /\ Prefix(c) \in Seq(UnitSet)
           /\ \A u : u \in ToSet(Prefix(c)) <=>
                         \E k \in Kinds : c[k] = <<u>>
           /\ \A u \in ToSet(Prefix(c)) :
                  Type(u) \in Kinds /\ c[Type(u)] = <<u>>
<1> DEFINE vps == When(frame_format = "H265", c["VPS"])
           sps == c["SPS"]
           pps == c["PPS"]
<1>1. Prefix(c) = (vps \o sps) \o pps
  BY DEF Prefix
<1>2. frame_format \in {"H264", "H265"}
  BY FormatAssumption DEF CameraOK
<1>3. /\ {"SPS", "PPS"} \subseteq Kinds
      /\ "VPS" \in Kinds <=> frame_format = "H265"
      /\ Kinds \subseteq {"VPS", "SPS", "PPS"}
  BY <1>2 DEF Kinds
<1>4. sps \in Seq(UnitSet) /\ pps \in Seq(UnitSet)
  BY <1>3, SlotSet
<1>5. /\ vps \in Seq(UnitSet)
      /\ ToSet(vps) = IF frame_format = "H265" THEN ToSet(c["VPS"]) ELSE {}
  <2>1. CASE frame_format = "H265"
    BY <1>3, <2>1, SlotSet DEF When
  <2>2. CASE frame_format # "H265"
    BY <2>2 DEF When, ToSet
  <2> QED BY <2>1, <2>2
<1> HIDE DEF vps, sps, pps
<1>6. vps \o sps \in Seq(UnitSet) /\ (vps \o sps) \o pps \in Seq(UnitSet)
  BY <1>4, <1>5, ConcatProperties
<1>7. ToSet((vps \o sps) \o pps) = (ToSet(vps) \cup ToSet(sps)) \cup ToSet(pps)
  <2>1. ToSet(vps \o sps) = ToSet(vps) \cup ToSet(sps)
    BY <1>4, <1>5, ConcatToSet
  <2>2. ToSet((vps \o sps) \o pps) = ToSet(vps \o sps) \cup ToSet(pps)
    BY <1>4, <1>6, ConcatToSet, ZenonT(40)
  <2> QED BY <2>1, <2>2, Zenon
<1>8. \A u : u \in ToSet(Prefix(c)) <=> \E k \in Kinds : u \in ToSet(c[k])
  BY <1>1, <1>3, <1>5, <1>7 DEF sps, pps
<1>9. \A u : u \in ToSet(Prefix(c)) <=> \E k \in Kinds : c[k] = <<u>>
  BY <1>8, SlotSet
<1>10. \A u \in ToSet(Prefix(c)) : Type(u) \in Kinds /\ c[Type(u)] = <<u>>
  <2> TAKE u \in ToSet(Prefix(c))
  <2>1. PICK k \in Kinds : u \in ToSet(c[k])
    BY <1>8
  <2>2. c[k] = <<u>> /\ Type(u) = k
    BY <2>1, SlotSet
  <2> QED BY <2>2
<1> QED BY <1>1, <1>6, <1>9, <1>10

\* A decoder takes a set from a buffer that holds one, and nothing otherwise.
LEMMA LearnFacts ==
    ASSUME NEW buffer \in Seq(UnitSet), NEW key \in SetKeys
    PROVE  \/ /\ Learn(buffer)[key] = dec[key]
              /\ \A u \in ToSet(buffer) : ~(Type(u) = key[1] /\ u.id = key[2])
           \/ \E u \in ToSet(buffer) :
                  /\ Type(u) = key[1] /\ u.id = key[2]
                  /\ Learn(buffer)[key] = u.ver
<1> DEFINE I == {n \in 1..Len(buffer) : Type(buffer[n]) = key[1]
                                        /\ buffer[n].id = key[2]}
           x == IF I # {} THEN Max(I) ELSE 0
<1>1. Learn(buffer)[key] = IF x = 0 THEN dec[key] ELSE buffer[x].ver
  BY Zenon DEF Learn, SelectLastInSeq
<1>2. Len(buffer) \in Nat /\ DOMAIN buffer = 1..Len(buffer)
  OBVIOUS
<1>3. CASE I = {}
  <2>1. \A n \in 1..Len(buffer) :
            ~(Type(buffer[n]) = key[1] /\ buffer[n].id = key[2])
    BY <1>3
  <2>2. x = 0
    BY <1>3
  <2> HIDE DEF I, x
  <2> QED BY <1>1, <1>2, <2>1, <2>2 DEF ToSet
<1>4. CASE I # {}
  <2>1. Max(I) \in I /\ x = Max(I)
    BY <1>2, <1>4, MaxIsMember
  <2>2. x \in 1..Len(buffer) /\ Type(buffer[x]) = key[1]
        /\ buffer[x].id = key[2]
    BY <2>1
  <2> HIDE DEF I, x
  <2>3. x # 0 /\ buffer[x] \in ToSet(buffer)
    BY <1>2, <2>2 DEF ToSet
  <2> QED BY <1>1, <2>2, <2>3
<1> QED BY <1>3, <1>4

\* The cached sets go right before the first key slice.
LEMMA Inserted ==
    ASSUME NEW payload \in Seq(UnitSet), NEW prefix \in Seq(UnitSet),
           \E u \in ToSet(payload) : Type(u) = "IDR"
    PROVE  \E s, t \in Seq(UnitSet) :
               /\ payload = s \o t /\ t # <<>> /\ Type(t[1]) = "IDR"
               /\ Insert(payload, prefix) = (s \o prefix) \o t
<1> DEFINE I == {n \in 1..Len(payload) : Type(payload[n]) = "IDR"}
           k == IF I # {} THEN Min(I) ELSE 0
           s == SubSeq(payload, 1, k - 1)
           t == SubSeq(payload, k, Len(payload))
           len == Len(payload)
<1>1. Insert(payload, prefix) = (s \o prefix) \o t
  BY Zenon DEF Insert, SelectInSeq
<1>2. len \in Nat /\ DOMAIN payload = 1..len
  OBVIOUS
<1>3. PICK n \in 1..len : Type(payload[n]) = "IDR"
  BY <1>2 DEF ToSet
<1>4. I # {} /\ I \subseteq Nat
  BY <1>3
<1>5. k \in I
  BY <1>4, MinIsMember
<1>6. k \in 1..len /\ Type(payload[k]) = "IDR"
  BY <1>5
<1> HIDE DEF k, I
<1>7. s \in Seq(UnitSet) /\ t \in Seq(UnitSet) /\ Len(t) = len - k + 1
      /\ t[1] = payload[k]
  <2>1. \A m \in 1..(k - 1) : payload[m] \in UnitSet
    BY <1>2, <1>6
  <2>2. s \in Seq(UnitSet)
    BY <1>6, <2>1, SubSeqProperties
  <2>3. \A m \in k..len : payload[m] \in UnitSet
    BY <1>2, <1>6
  <2>4. k \in Int /\ len \in Int /\ k <= len
    BY <1>2, <1>6
  <2>5. /\ t \in Seq(UnitSet) /\ Len(t) = len - k + 1
        /\ \A m \in 1..(len - k + 1) : t[m] = payload[k + m - 1]
    BY <2>3, <2>4, SubSeqProperties
  <2>6. t[1] = payload[k]
    BY <2>4, <2>5
  <2> QED BY <2>2, <2>5, <2>6
<1>8. payload = s \o t
  <2>1. (k - 1) + 1 = k /\ k - 1 \in 0..len
    BY <1>2, <1>6
  <2>2. SubSeq(payload, 1, k - 1) \o SubSeq(payload, (k - 1) + 1, len)
            = SubSeq(payload, 1, len)
    <3>1. /\ 1 \in 1..(Len(payload) + 1) /\ k - 1 \in (1 - 1)..Len(payload)
          /\ len \in (k - 1)..Len(payload)
      BY <1>2, <1>6
    <3> HIDE DEF len
    <3> QED BY <3>1, ConcatAdjacentSubSeq
  <2>3. SubSeq(payload, 1, len) = payload
    BY SubSeqFull
  <2> QED BY <2>1, <2>2, <2>3
<1>9. t # <<>>
  <2>1. Len(t) # 0
    BY <1>2, <1>6, <1>7
  <2> HIDE DEF t
  <2> QED BY <2>1
<1> HIDE DEF s, t
<1> QED BY <1>1, <1>6, <1>7, <1>8, <1>9

-----------------------------------------------------------------------------
(* One turn of the emit loop.                                              *)

\* Parameter sets to come that picture p will find in the cache.
Ahead(p) == \E m \in 1..Len(units) :
                /\ Rest <= m /\ nal_is_parameter_set(units[m])
                /\ units[m].pic <= p

\* frame_callback()'s locals over one access unit: has_idr, the refresh of
\* send_sps_pps, the sets put in front, the buffer, and whether it is pushed.
HasKey(seq)  == \E n \in DOMAIN seq : Type(seq[n]) = "IDR"
HasSet(seq)  == \E u \in ToSet(seq) : nal_is_parameter_set(u)
Send(seq)    == send_sps_pps \/ Refreshed(seq)
Fronted(seq) == When(HasKey(seq) /\ NeedsSets(Send(seq)), Prefix(Cached(seq)))
Buffer(seq)  == IF Fronted(seq) = <<>> THEN Forwardable(seq)
                ELSE Insert(Forwardable(seq), Fronted(seq))
Pushes(seq)  == (had_idr \/ HasKey(seq)) /\ Forwardable(seq) # <<>>

\* The gate, the sets and the buffer of one access unit.
LEMMA EmitIs ==
    ASSUME EmitUnit
    PROVE  /\ cache' = Cached(Hand)
           /\ Pushes(Hand) =>
                  /\ out' = Append(out, Buffer(Hand))
                  /\ had_idr' <=> had_idr \/ HasKey(Hand)
                  /\ send_sps_pps' <=> Send(Hand) /\ Fronted(Hand) = <<>>
           /\ ~Pushes(Hand) =>
                  /\ UNCHANGED <<out, dec, missed, had_idr>>
                  /\ send_sps_pps' <=> Send(Hand)
BY Zenon DEF EmitUnit, Forwards, Pushes, Buffer, Fronted, Send, HasKey, Hand

\* What becomes of a pushed buffer: the decoder reads it or a flush takes it,
\* and the sets count as missed where they were due and went.
LEMMA EmitReceived ==
    ASSUME EmitUnit, Pushes(Hand)
    PROVE  \E flushed \in BOOLEAN :
               /\ dec' = Received(Buffer(Hand), flushed)
               /\ missed' = IF HasKey(Hand) /\ (~had_idr \/ Send(Hand))
                            THEN flushed /\ Fronted(Hand) # <<>> ELSE missed
BY Zenon DEF EmitUnit, Forwards, Pushes, Buffer, Fronted, Send, HasKey, Hand

\* The same, by cases of what is in front of the key slice.
LEMMA EmitLearns ==
    ASSUME EmitUnit, Pushes(Hand)
    PROVE  /\ dec' = dec \/ dec' = Learn(Buffer(Hand))
           /\ Fronted(Hand) # <<>> => missed' \/ dec' = Learn(Buffer(Hand))
           /\ ~(HasKey(Hand) /\ NeedsSets(Send(Hand))) => missed' = missed
<1>1. PICK flushed \in BOOLEAN :
          /\ dec' = Received(Buffer(Hand), flushed)
          /\ missed' = IF HasKey(Hand) /\ (~had_idr \/ Send(Hand))
                       THEN flushed /\ Fronted(Hand) # <<>> ELSE missed
  BY EmitReceived
<1>2. Fronted(Hand) # <<>> => HasKey(Hand) /\ NeedsSets(Send(Hand))
  BY Zenon DEF Fronted, When
<1>3. CASE flushed
  <2>1. dec' = dec
    BY <1>1, <1>3, Zenon DEF Received
  <2>2. Fronted(Hand) # <<>> => missed'
    BY <1>1, <1>2, <1>3, Zenon DEF NeedsSets
  <2>3. ~(HasKey(Hand) /\ NeedsSets(Send(Hand))) => missed' = missed
    BY <1>1, Zenon DEF NeedsSets
  <2> QED BY <2>1, <2>2, <2>3
<1>4. CASE ~flushed
  <2>1. dec' = Learn(Buffer(Hand))
    BY <1>1, <1>4, Zenon DEF Received
  <2>2. ~(HasKey(Hand) /\ NeedsSets(Send(Hand))) => missed' = missed
    BY <1>1, Zenon DEF NeedsSets
  <2> QED BY <2>1, <2>2
<1> QED BY <1>3, <1>4

\* Units that go downstream from the wire.
Plain == {u \in UnitSet : ~nal_is_parameter_set(u)}

\* The payload is the access unit without its parameter sets.
LEMMA ForwardableIs ==
    ASSUME NEW seq \in Seq(UnitSet)
    PROVE  /\ Forwardable(seq) = Kept(seq, Plain)
           /\ Forwardable(seq) \in Seq(UnitSet)
           /\ ToSet(Forwardable(seq)) = {u \in ToSet(seq) :
                                             ~nal_is_parameter_set(u)}
<1> DEFINE S == {u \in ToSet(seq) : ~nal_is_parameter_set(u)}
<1>1. ToSet(seq) \subseteq UnitSet
  BY DEF ToSet
<1>2. \A u \in ToSet(seq) : u \in S <=> u \in Plain
  BY <1>1 DEF Plain
<1>3. Kept(seq, S) = Kept(seq, Plain) /\ Kept(seq, S) \in Seq(UnitSet)
      /\ ToSet(Kept(seq, S)) = ToSet(seq) \cap S
  BY <1>2, KeptSame, KeptTypes, KeptMembers
<1>4. Forwardable(seq) = Kept(seq, S)
  BY DEF Forwardable
<1>5. ToSet(seq) \cap S = S
  OBVIOUS
<1> QED BY <1>3, <1>4, <1>5, Zenon

\* Only parameter sets of the cache go in front, and only of a key picture.
LEMMA FrontedSet ==
    ASSUME CameraOK, Slots(cache), NEW seq \in Seq(UnitSet)
    PROVE  /\ Fronted(seq) \in Seq(UnitSet)
           /\ \A u \in ToSet(Fronted(seq)) : nal_is_parameter_set(u)
           /\ Fronted(seq) # <<>> => /\ Fronted(seq) = Prefix(Cached(seq))
                                     /\ HasKey(seq)
<1>1. Slots(Cached(seq))
  BY CachedSlots
<1>2. /\ Prefix(Cached(seq)) \in Seq(UnitSet)
      /\ \A u \in ToSet(Prefix(Cached(seq))) : Type(u) \in Kinds
  BY <1>1, PrefixSet
<1>3. \A k \in Kinds : k \in {"VPS", "SPS", "PPS"}
  BY DEF Kinds
<1>4. \A u \in ToSet(Prefix(Cached(seq))) : nal_is_parameter_set(u)
  BY <1>2, <1>3 DEF nal_is_parameter_set
<1>5. CASE Fronted(seq) = Prefix(Cached(seq)) /\ HasKey(seq)
  BY <1>2, <1>4, <1>5
<1>6. CASE Fronted(seq) = <<>>
  BY <1>6 DEF ToSet
<1>7. \/ Fronted(seq) = <<>>
      \/ Fronted(seq) = Prefix(Cached(seq)) /\ HasKey(seq)
  BY Zenon DEF Fronted, When
<1> QED BY <1>5, <1>6, <1>7

\* An insertion that the filter removes leaves the payload.
LEMMA KeptBetween ==
    ASSUME NEW S, NEW X, NEW s \in Seq(X), NEW r \in Seq(X), NEW t \in Seq(X)
    PROVE  Kept(s, S) = s /\ Kept(r, S) = <<>> /\ Kept(t, S) = t =>
               Kept((s \o r) \o t, S) = (s \o <<>>) \o t
<1>1. Kept(s \o r, S) = Kept(s, S) \o Kept(r, S)
  BY KeptConcat
<1>2. ASSUME NEW w \in Seq(X) PROVE Kept(w \o t, S) = Kept(w, S) \o Kept(t, S)
  BY KeptConcat
<1>3. s \o r \in Seq(X)
  BY ConcatProperties
<1> QED BY <1>1, <1>2, <1>3, Zenon

\* A buffer is the payload, with the cached sets or without.
LEMMA BufferFacts ==
    ASSUME CameraOK, Slots(cache), NEW seq \in Seq(UnitSet)
    PROVE  /\ Buffer(seq) \in Seq(UnitSet)
           /\ ToSet(Buffer(seq)) =
                  ToSet(Forwardable(seq)) \cup ToSet(Fronted(seq))
           /\ Forwardable(Buffer(seq)) = Forwardable(seq)
<1> DEFINE payload == Forwardable(seq)
           pre == Fronted(seq)
<1>1. /\ payload \in Seq(UnitSet)
      /\ ToSet(payload) = {u \in ToSet(seq) : ~nal_is_parameter_set(u)}
  BY ForwardableIs
<1>2. /\ pre \in Seq(UnitSet)
      /\ \A u \in ToSet(pre) : nal_is_parameter_set(u)
      /\ pre # <<>> => HasKey(seq)
  BY FrontedSet
<1>3. ToSet(payload) \subseteq Plain
  BY <1>1 DEF Plain, ToSet
<1>4. CASE pre = <<>>
  <2>1. Buffer(seq) = payload /\ ToSet(pre) = {}
    BY <1>4 DEF Buffer, ToSet
  <2>2. Forwardable(payload) = payload
    <3> HIDE DEF payload
    <3>1. Forwardable(payload) = Kept(payload, Plain)
      BY <1>1, ForwardableIs
    <3>2. Kept(payload, Plain) = payload
      BY <1>1, <1>3, KeptAll
    <3> QED BY <3>1, <3>2
  <2> QED BY <1>1, <2>1, <2>2
<1>5. CASE pre # <<>>
  <2>1. \E u \in ToSet(payload) : Type(u) = "IDR"
    <3>1. PICK n \in DOMAIN seq : Type(seq[n]) = "IDR"
      BY <1>2, <1>5 DEF HasKey
    <3>2. seq[n] \in ToSet(seq)
      BY <3>1 DEF ToSet
    <3>3. ~nal_is_parameter_set(seq[n])
      BY <3>1 DEF nal_is_parameter_set
    <3> QED BY <1>1, <3>1, <3>2, <3>3
  <2>2. Buffer(seq) = Insert(payload, pre)
    BY <1>5 DEF Buffer
  <2> HIDE DEF payload, pre
  <2>14. payload \in Seq(UnitSet) /\ pre \in Seq(UnitSet)
    BY <1>1, <1>2, Zenon
  <2>15. \E s, t \in Seq(UnitSet) :
            /\ payload = s \o t /\ t # <<>> /\ Type(t[1]) = "IDR"
            /\ Insert(payload, pre) = (s \o pre) \o t
    BY <2>14, <2>1, Inserted, Zenon
  <2>3. PICK s, t \in Seq(UnitSet) :
            payload = s \o t /\ Insert(payload, pre) = (s \o pre) \o t
    BY <2>15
  <2>4. s \o pre \in Seq(UnitSet) /\ (s \o pre) \o t \in Seq(UnitSet)
    BY <2>14, ConcatProperties
  <2>5. /\ ToSet(payload) = ToSet(s) \cup ToSet(t)
        /\ ToSet((s \o pre) \o t) = (ToSet(s) \cup ToSet(pre)) \cup ToSet(t)
    <3>1. ToSet(payload) = ToSet(s) \cup ToSet(t)
      BY <2>3, ConcatToSet
    <3>2. ToSet(s \o pre) = ToSet(s) \cup ToSet(pre)
      BY <1>2, ConcatToSet
    <3>3. ToSet((s \o pre) \o t) = ToSet(s \o pre) \cup ToSet(t)
      BY <2>4, ConcatToSet, ZenonT(40)
    <3> QED BY <3>1, <3>2, <3>3, Zenon
  <2>6. ToSet(s) \subseteq Plain /\ ToSet(t) \subseteq Plain
        /\ ToSet(pre) \cap Plain = {}
    BY <1>2, <1>3, <2>5 DEF Plain
  <2>7. Kept(s, Plain) = s /\ Kept(t, Plain) = t /\ Kept(pre, Plain) = <<>>
    BY <1>2, <2>6, KeptAll, KeptNone
  <2>8. Kept((s \o pre) \o t, Plain) = (s \o <<>>) \o t
    <3>1. s \in Seq(UnitSet) /\ t \in Seq(UnitSet)
      OBVIOUS
    <3> QED BY <2>14, <2>7, <3>1, KeptBetween
  <2>9. s \o <<>> = s
    BY ConcatEmptySeq
  <2>10. Forwardable((s \o pre) \o t) = payload
    <3>1. Forwardable((s \o pre) \o t) = Kept((s \o pre) \o t, Plain)
      BY <2>4, ForwardableIs
    <3> QED BY <2>3, <2>8, <2>9, <3>1, Zenon
  <2>11. ToSet((s \o pre) \o t) = ToSet(payload) \cup ToSet(pre)
    BY <2>5
  <2>12. Buffer(seq) = (s \o pre) \o t
    BY <2>2, <2>3
  <2>13. /\ Buffer(seq) \in Seq(UnitSet)
         /\ ToSet(Buffer(seq)) = ToSet(payload) \cup ToSet(pre)
         /\ Forwardable(Buffer(seq)) = payload
    BY <2>4, <2>10, <2>11, <2>12, Zenon
  <2> QED BY <2>13 DEF payload, pre
<1> QED BY <1>4, <1>5

-----------------------------------------------------------------------------
(* Types, and the place of the delimiter in a buffer.                      *)

\* The types of the model, from the partition and the slots.
LEMMA TypesHold ==
    ASSUME SplitInv, Slots(cache)
    PROVE  TypeOK
<1>1. \A k \in Kinds : Len(cache[k]) <= 1
  <2> TAKE k \in Kinds
  <2>1. CASE cache[k] = <<>>
    BY <2>1
  <2>2. CASE cache[k] # <<>>
    <3>1. PICK u \in UnitSet : cache[k] = <<u>>
      BY <2>2 DEF Slots
    <3>2. Len(<<u>>) = 1
      OBVIOUS
    <3> QED BY <3>1, <3>2
  <2> QED BY <2>1, <2>2
<1>2. CASE pc = "wait"
  BY <1>1, <1>2 DEF SplitInv, TypeOK
<1>3. CASE pc = "split"
  <2>1. PICK h1, b, h2 \in Nat :
            Delivery(units, ver, h1, b, h2) /\ Split(h1, b, h2)
    BY <1>3 DEF SplitInv
  <2>2. /\ Len(units) \in Nat /\ b \in 1..Len(units) /\ h1 \in 0..b
        /\ h2 \in b..Len(units)
    BY <2>1 DEF Delivery
  <2>3. i \in 1..(Len(units) + 1) /\ a = 0
    BY <1>3, <2>1 DEF Split, SplitInv
  <2>4. nonvcl_run \in 0..Len(units)
    BY <2>1, <2>2, <2>3 DEF Split
  <2>5. \/ starts = <<>>
        \/ starts = <<1>>
        \/ starts = <<1, b + 1>> /\ b + 1 \in 1..Len(units)
    <3>1. starts = IF i - 1 = 0 THEN <<>>
                   ELSE IF i - 1 <= b \/ (i - 1 <= h2
                                          /\ ~(Type(units[b + 1]) = "AUD"))
                   THEN <<1>> ELSE <<1, b + 1>>
      BY <2>1 DEF Split
    <3>2. ~(i - 1 <= b) => b + 1 \in 1..Len(units)
      BY <2>2, <2>3
    <3> QED BY <3>1, <3>2
  <2>6. Len(starts) \in Nat
    BY <2>5
  <2> QED
    BY <1>1, <2>2, <2>3, <2>4, <2>5, <2>6, SMTT(20) DEF TypeOK
<1>4. CASE pc = "emit"
  <2>1. PICK h1, b, h2 \in Nat :
            Delivery(units, ver, h1, b, h2) /\ starts = Cuts(b)
    BY <1>4 DEF SplitInv
  <2>2. /\ Len(units) \in Nat /\ b \in 1..Len(units)
        /\ Len(starts) = IF b = Len(units) THEN 1 ELSE 2
        /\ starts[1] = 1 /\ (b # Len(units) => starts[2] = b + 1)
        /\ DOMAIN starts = 1..Len(starts)
        /\ b # Len(units) => b + 1 \in 1..Len(units)
    BY <2>1, CutTypes
  <2>3. /\ i = Len(units) + 1 /\ a \in 0..Len(starts)
        /\ nonvcl_run \in 0..Len(units)
    BY <1>4 DEF SplitInv
  <2>4. /\ \A n \in DOMAIN starts : starts[n] \in 1..Len(units)
        /\ \A n \in 1..(Len(starts) - 1) : starts[n] < starts[n + 1]
    <3>1. CASE b = Len(units)
      BY <2>2, <3>1
    <3>2. CASE b # Len(units)
      <4>1. \A n \in 1..Len(starts) : n = 1 \/ n = 2
        BY <2>2, <3>2
      <4>2. \A n \in 1..(Len(starts) - 1) : n = 1 /\ n + 1 = 2
        BY <2>2, <3>2
      <4> QED BY <2>2, <3>2, <4>1, <4>2
    <3> QED BY <3>1, <3>2
  <2> QED BY <1>1, <2>2, <2>3, <2>4 DEF TypeOK
<1> QED BY <1>2, <1>3, <1>4 DEF SplitInv

\* A buffer with a delimiter only where the access unit begins with one.
LEMMA BufferDelimiter ==
    ASSUME CameraOK, Slots(cache), NEW seq \in Seq(UnitSet),
           NEW u \in UnitSet, NEW r \in Seq(UnitSet), seq = <<u>> \o r,
           \A v \in ToSet(r) : Type(v) # "AUD"
    PROVE  \A k \in 1..Len(Buffer(seq)) :
               Type(Buffer(seq)[k]) = "AUD" => k = 1
<1> DEFINE payload == Forwardable(seq)
           pre == Fronted(seq)
           body == Kept(r, Plain)
<1>1. payload \in Seq(UnitSet) /\ payload = Kept(seq, Plain)
      /\ ToSet(payload) = {v \in ToSet(seq) : ~nal_is_parameter_set(v)}
  BY ForwardableIs
<1>2. /\ pre \in Seq(UnitSet)
      /\ \A v \in ToSet(pre) : nal_is_parameter_set(v)
      /\ pre # <<>> => HasKey(seq)
  BY FrontedSet
<1>3. body \in Seq(UnitSet) /\ ToSet(body) \subseteq ToSet(r)
  <2>1. body \in Seq(UnitSet) /\ ToSet(body) = ToSet(r) \cap Plain
    BY KeptTypes, KeptMembers
  <2> QED BY <2>1
<1>4. \A n \in 1..Len(body) : Type(body[n]) # "AUD"
  <2> TAKE n \in 1..Len(body)
  <2>1. body[n] \in ToSet(body)
    BY <1>3 DEF ToSet
  <2> QED BY <1>3, <2>1
<1>5. payload = body \/ payload = <<u>> \o body
  <2>1. <<u>> \in Seq(UnitSet) /\ ToSet(<<u>>) = {u}
    BY DEF ToSet
  <2>2. \A w \in Seq(UnitSet) : Kept(w \o r, Plain) = Kept(w, Plain) \o body
    BY KeptConcat
  <2>3. payload = Kept(<<u>>, Plain) \o body
    BY <1>1, <2>1, <2>2, Zenon
  <2>4. CASE u \in Plain
    <3>1. Kept(<<u>>, Plain) = <<u>>
      BY <2>1, <2>4, KeptAll
    <3> QED BY <2>3, <3>1, Zenon
  <2>5. CASE u \notin Plain
    <3>1. Kept(<<u>>, Plain) = <<>>
      BY <2>1, <2>5, KeptNone
    <3>2. <<>> \o body = body
      BY <1>3
    <3> QED BY <2>3, <3>1, <3>2, Zenon
  <2> QED BY <2>4, <2>5
<1>6. \A n \in 1..Len(payload) : n # 1 => Type(payload[n]) # "AUD"
  <2> HIDE DEF body, payload
  <2>1. CASE payload = body
    BY <1>4, <2>1
  <2>2. CASE payload = <<u>> \o body
    <3> TAKE n \in 1..Len(payload)
    <3> HAVE n # 1
    <3>1. n - 1 \in 1..Len(body) /\ payload[n] = body[n - 1]
      BY <1>3, <2>2
    <3> QED BY <1>4, <3>1
  <2> QED BY <1>5, <2>1, <2>2
<1>7. CASE pre = <<>>
  BY <1>6, <1>7 DEF Buffer
<1>8. CASE pre # <<>>
  <2>1. \E v \in ToSet(payload) : Type(v) = "IDR"
    <3>1. PICK n \in DOMAIN seq : Type(seq[n]) = "IDR"
      BY <1>2, <1>8 DEF HasKey
    <3>2. seq[n] \in ToSet(seq)
      BY <3>1 DEF ToSet
    <3>3. ~nal_is_parameter_set(seq[n])
      BY <3>1 DEF nal_is_parameter_set
    <3> QED BY <1>1, <3>1, <3>2, <3>3
  <2>2. Buffer(seq) = Insert(payload, pre)
    BY <1>8 DEF Buffer
  <2> HIDE DEF payload, pre, body
  <2>3. payload \in Seq(UnitSet) /\ pre \in Seq(UnitSet)
    BY <1>1, <1>2, Zenon
  <2>4. \E s, t \in Seq(UnitSet) :
            /\ payload = s \o t /\ t # <<>> /\ Type(t[1]) = "IDR"
            /\ Insert(payload, pre) = (s \o pre) \o t
    BY <2>3, <2>1, Inserted, Zenon
  <2>5. PICK s, t \in Seq(UnitSet) :
            /\ payload = s \o t /\ t # <<>> /\ Type(t[1]) = "IDR"
            /\ Insert(payload, pre) = (s \o pre) \o t
    BY <2>4
  <2>6. /\ Len(s) \in Nat /\ Len(t) \in Nat /\ Len(payload) = Len(s) + Len(t)
        /\ \A m \in 1..Len(t) : payload[Len(s) + m] = t[m]
        /\ \A n \in 1..Len(s) : payload[n] = s[n]
    BY <2>5
  <2>7. \A m \in 1..Len(t) : Type(t[m]) # "AUD"
    <3> TAKE m \in 1..Len(t)
    <3>1. CASE Len(s) = 0 /\ m = 1
      BY <2>5, <3>1
    <3>2. CASE ~(Len(s) = 0 /\ m = 1)
      <4>1. Len(s) + m \in 1..Len(payload) /\ Len(s) + m # 1
        BY <2>6, <3>2
      <4> QED BY <1>6, <2>6, <4>1
    <3> QED BY <3>1, <3>2
  <2>8. \A n \in 1..Len(s) : n # 1 => Type(s[n]) # "AUD"
    <3> TAKE n \in 1..Len(s)
    <3> HAVE n # 1
    <3>1. n \in 1..Len(payload) /\ payload[n] = s[n]
      BY <2>6
    <3> QED BY <1>6, <3>1
  <2>9. \A n \in 1..Len(pre) : Type(pre[n]) # "AUD"
    <3> TAKE n \in 1..Len(pre)
    <3>1. pre[n] \in ToSet(pre)
      BY <2>3 DEF ToSet
    <3> QED BY <1>2, <3>1 DEF nal_is_parameter_set
  <2> DEFINE front == s \o pre
             w == front \o t
  <2>10. /\ front \in Seq(UnitSet) /\ Len(pre) \in Nat
         /\ Len(front) = Len(s) + Len(pre)
         /\ \A n \in 1..Len(s) : front[n] = s[n]
         /\ \A n \in 1..Len(pre) : front[Len(s) + n] = pre[n]
    BY <2>3
  <2> HIDE DEF front
  <2>11. \A n \in 1..Len(front) : Type(front[n]) = "AUD" => n = 1
    <3> TAKE n \in 1..Len(front)
    <3>1. CASE n <= Len(s)
      BY <2>6, <2>8, <2>10, <3>1
    <3>2. CASE ~(n <= Len(s))
      <4>1. n - Len(s) \in 1..Len(pre) /\ Len(s) + (n - Len(s)) = n
        BY <2>6, <2>10, <3>2
      <4> QED BY <2>9, <2>10, <4>1
    <3> QED BY <3>1, <3>2
  <2>12. /\ w \in Seq(UnitSet) /\ Len(w) = Len(front) + Len(t)
         /\ Len(front) \in Nat
         /\ \A n \in 1..Len(front) : w[n] = front[n]
         /\ \A n \in 1..Len(t) : w[Len(front) + n] = t[n]
    <3>1. front \in Seq(UnitSet) /\ t \in Seq(UnitSet)
      BY <2>5, <2>10
    <3> QED BY <3>1, ConcatProperties
  <2> HIDE DEF w
  <2>13. \A n \in 1..Len(w) : Type(w[n]) = "AUD" => n = 1
    <3> TAKE n \in 1..Len(w)
    <3>1. CASE n <= Len(front)
      BY <2>11, <2>12, <3>1
    <3>2. CASE ~(n <= Len(front))
      <4>1. n - Len(front) \in 1..Len(t)
            /\ Len(front) + (n - Len(front)) = n
        BY <2>6, <2>12, <3>2
      <4> QED BY <2>7, <2>12, <4>1
    <3> QED BY <3>1, <3>2
  <2>14. Buffer(seq) = w
    BY <2>2, <2>5 DEF w, front
  <2> QED BY <2>13, <2>14
<1> QED BY <1>7, <1>8

-----------------------------------------------------------------------------
(* The cache and the buffers, over every action.                           *)

\* The loop goes on right after the access unit in hand.
LEMMA RestMoves ==
    ASSUME EmitUnit, SplitInv, NEW lo, NEW hi, InHand(lo, hi)
    PROVE  Rest' = hi + 1 /\ Rest = lo
<1>1. /\ pc' = "emit" /\ a' = a + 1 /\ starts' = starts /\ units' = units
      /\ a \in Nat
  <2>1. pc = "emit" /\ pc' = pc /\ a' = a + 1 /\ starts' = starts
        /\ units' = units
    BY DEF EmitUnit, split
  <2>2. a \in 0..Len(starts)
    BY <2>1 DEF SplitInv
  <2> QED BY <2>1, <2>2
<1>2. hi + 1 = IF a + 1 < Len(starts) THEN starts[a + 2] ELSE Len(units) + 1
  BY DEF InHand
<1>3. (a + 1) + 1 = a + 2
  BY <1>1
<1>4. Rest' = IF a + 1 < Len(starts) THEN starts[(a + 1) + 1]
              ELSE Len(units) + 1
  BY <1>1 DEF Rest
<1> QED BY <1>2, <1>3, <1>4 DEF InHand

\* The slots of the next cache.
LEMMA SlotsMoved ==
    ASSUME frame_format' = frame_format, NEW c, cache' = c
    PROVE  Slots(cache)' <=> Slots(c)
BY DEF Slots, Kinds, Type, convert_unit_type

\* A slot of the cache keeps to its kind.
LEMMA SlotsStep ==
    ASSUME SplitInv, Slots(cache), [Next]_vars
    PROVE  Slots(cache)'
<1>1. CASE EmitUnit
  <2>1. PICK lo, hi \in Nat : InHand(lo, hi)
    BY <1>1, OneInHand DEF EmitUnit
  <2>2. Hand \in Seq(UnitSet)
    BY <2>1, HandUnits
  <2>3. cache' = Cached(Hand) /\ frame_format' = frame_format
    BY <1>1, EmitIs DEF EmitUnit, camera
  <2> QED BY <2>2, <2>3, CachedSlots, SlotsMoved
<1>2. CASE UNCHANGED <<cache, frame_format>>
  BY <1>2, SlotsMoved
<1>3. CASE ~EmitUnit
  <2>1. UNCHANGED <<cache, frame_format>>
    BY <1>3 DEF Next, vars, DeliverPictures, DeliverSets, Reopen, SplitUnit,
                SplitDone, EmitDone, Receive, camera, split, stream
  <2> QED BY <1>2, <2>1
<1> QED BY <1>1, <1>3

\* The cache starts empty.
LEMMA SlotsInit == Init => Slots(cache)
BY DEF Init, Slots

\* Buffers are sequences of units, and a delimiter is first in its own.
OutInv == out \in Seq(Seq(UnitSet)) /\ DelimiterLeads

\* A delimiter stays in front of the sets that are put back.
LEMMA OutStep ==
    ASSUME SplitInv, Slots(cache), OutInv, [Next]_vars
    PROVE  OutInv'
<1>1. CASE EmitUnit
  <2>1. PICK lo, hi \in Nat : InHand(lo, hi)
    BY <1>1, OneInHand DEF EmitUnit
  <2> DEFINE seq == Hand
             r   == SubSeq(units, lo + 1, hi)
  <2>2. /\ seq \in Seq(UnitSet) /\ seq = <<units[lo]>> \o r
        /\ r \in Seq(UnitSet) /\ \A v \in ToSet(r) : Type(v) # "AUD"
    BY <2>1, HandUnits
  <2>3. units[lo] \in UnitSet
    BY <2>1 DEF InHand
  <2>4. CameraOK
    BY DEF SplitInv
  <2>5. /\ Pushes(seq) => out' = Append(out, Buffer(seq))
        /\ ~Pushes(seq) => out' = out
    BY <1>1, EmitIs
  <2>6. frame_format' = frame_format
    BY <1>1 DEF EmitUnit, camera
  <2>7. \A u : (Type(u))' = Type(u)
    BY <2>6, TypeKept
  <2>8. DelimiterLeads' <=> \A n \in DOMAIN out' : \A k \in DOMAIN (out'[n]) :
                                Type(out'[n][k]) = "AUD" => k = 1
    BY <2>6 DEF DelimiterLeads, Type, convert_unit_type
  <2> HIDE DEF seq, r
  <2>9. Buffer(seq) \in Seq(UnitSet)
    BY <2>2, <2>4, BufferFacts
  <2>10. \A k \in 1..Len(Buffer(seq)) : Type(Buffer(seq)[k]) = "AUD" => k = 1
    BY <2>2, <2>3, <2>4, BufferDelimiter
  <2> DEFINE buf == Buffer(seq)
  <2>11. /\ buf \in Seq(UnitSet) /\ DOMAIN buf = 1..Len(buf)
         /\ \A k \in DOMAIN buf : Type(buf[k]) = "AUD" => k = 1
    BY <2>9, <2>10
  <2> HIDE DEF buf
  <2>12. CASE out' = Append(out, buf)
    <3>1. /\ out' \in Seq(Seq(UnitSet)) /\ Len(out) \in Nat
          /\ DOMAIN out = 1..Len(out) /\ DOMAIN out' = 1..(Len(out) + 1)
          /\ \A n \in 1..Len(out) : out'[n] = out[n]
          /\ out'[Len(out) + 1] = buf
      BY <2>11, <2>12 DEF OutInv
    <3>2. ASSUME NEW n \in DOMAIN out', NEW k \in DOMAIN (out'[n]),
                 Type(out'[n][k]) = "AUD"
          PROVE  k = 1
      <4>1. CASE n \in 1..Len(out)
        BY <3>1, <3>2, <4>1 DEF OutInv, DelimiterLeads
      <4>2. CASE n = Len(out) + 1
        BY <2>11, <3>1, <3>2, <4>2
      <4> QED BY <3>1, <4>1, <4>2
    <3> QED BY <2>8, <3>1, <3>2 DEF OutInv
  <2>13. CASE out' = out
    BY <2>8, <2>13 DEF OutInv, DelimiterLeads
  <2> QED BY <2>5, <2>12, <2>13 DEF buf, seq
<1>2. CASE out' = out /\ frame_format' = frame_format
  BY <1>2 DEF OutInv, DelimiterLeads, Type, convert_unit_type
<1>3. CASE out' = <<>>
  BY <1>3 DEF OutInv, DelimiterLeads
<1>4. CASE ~EmitUnit
  <2>1. (out' = out /\ frame_format' = frame_format) \/ out' = <<>>
    BY <1>4 DEF Next, vars, DeliverPictures, DeliverSets, Reopen, SplitUnit,
                SplitDone, EmitDone, Receive, camera, split, stream
  <2> QED BY <1>2, <1>3, <2>1
<1> QED BY <1>1, <1>4

\* Nothing has been pushed.
LEMMA OutInit == Init => OutInv
BY DEF Init, OutInv, DelimiterLeads

-----------------------------------------------------------------------------
(* What the buffers carry, sets aside.                                     *)

\* What the buffers pushed so far say, sets aside.
Sent(o) == FlattenSeq([n \in DOMAIN o |-> Forwardable(o[n])])

\* Nothing pushed, nothing sent.
LEMMA SentEmpty == Sent(<<>>) = <<>>
<1>1. [n \in DOMAIN <<>> |-> Forwardable(<<>>[n])] = <<>>
  OBVIOUS
<1> QED BY <1>1, FlattenEmpty, Zenon DEF Sent

\* A push adds its payload.
LEMMA SentAppend ==
    ASSUME NEW o \in Seq(Seq(UnitSet)), NEW b \in Seq(UnitSet)
    PROVE  Sent(Append(o, b)) = Sent(o) \o Forwardable(b)
<1> DEFINE f == [n \in DOMAIN o |-> Forwardable(o[n])]
           w == Append(o, b)
           g == [n \in DOMAIN w |-> Forwardable(w[n])]
<1>1. /\ Len(o) \in Nat /\ DOMAIN o = 1..Len(o)
      /\ DOMAIN w = 1..(Len(o) + 1) /\ w[Len(o) + 1] = b
      /\ \A n \in 1..Len(o) : w[n] = o[n] /\ o[n] \in Seq(UnitSet)
  OBVIOUS
<1>2. \A s \in Seq(UnitSet) : Forwardable(s) \in Seq(UnitSet)
  BY ForwardableIs
<1> HIDE DEF w, g
<1>3. /\ f \in Seq(Seq(UnitSet)) /\ Len(f) = Len(o)
      /\ \A n \in 1..Len(o) : f[n] = Forwardable(o[n])
  <2>1. f \in [1..Len(o) -> Seq(UnitSet)]
    BY <1>1, <1>2
  <2> HIDE DEF f
  <2>2. f \in Seq(Seq(UnitSet)) /\ Len(f) = Len(o)
    <3> DEFINE m == Len(o)
    <3>1. m \in Nat /\ f \in [1..m -> Seq(UnitSet)]
      BY <1>1, <2>1
    <3> HIDE DEF m
    <3>2. f \in Seq(Seq(UnitSet)) /\ Len(f) = m
      BY <3>1
    <3> QED BY <3>2 DEF m
  <2> QED BY <1>1, <2>2 DEF f
<1>4. g = Append(f, Forwardable(b))
  <2> USE DEF g
  <2> DEFINE h == Append(f, Forwardable(b))
  <2>1. /\ DOMAIN g = 1..(Len(o) + 1)
        /\ g[Len(o) + 1] = Forwardable(b)
        /\ \A n \in 1..Len(o) : g[n] = Forwardable(o[n])
    <3>1. \A n \in DOMAIN w : g[n] = Forwardable(w[n])
      OBVIOUS
    <3>2. Len(o) + 1 \in DOMAIN w /\ \A n \in 1..Len(o) : n \in DOMAIN w
      BY <1>1
    <3>3. DOMAIN g = DOMAIN w
      OBVIOUS
    <3> HIDE DEF g
    <3> QED BY <1>1, <3>1, <3>2, <3>3
  <2> HIDE DEF g, f
  <2>2. Forwardable(b) \in Seq(UnitSet)
    BY <1>2
  <2>3. /\ h \in Seq(Seq(UnitSet)) /\ Len(h) = Len(o) + 1
        /\ h[Len(o) + 1] = Forwardable(b)
        /\ \A n \in 1..Len(o) : h[n] = f[n]
    BY <1>3, <2>2
  <2>4. \A n \in 1..(Len(o) + 1) : n \in 1..Len(o) \/ n = Len(o) + 1
    BY <1>1
  <2> HIDE DEF h
  <2>5. g \in [1..(Len(o) + 1) -> Seq(UnitSet)]
    <3>1. g = [n \in DOMAIN g |-> g[n]]
      BY DEF g
    <3>2. \A n \in 1..(Len(o) + 1) : g[n] \in Seq(UnitSet)
      BY <1>1, <1>2, <2>1, <2>2, <2>4
    <3> QED BY <2>1, <3>1, <3>2
  <2>6. g \in Seq(Seq(UnitSet)) /\ Len(g) = Len(o) + 1
    BY <1>1, <2>5
  <2>7. \A n \in 1..(Len(o) + 1) : g[n] = h[n]
    BY <1>3, <2>1, <2>3, <2>4
  <2>8. g = h
    BY <2>3, <2>6, <2>7, SeqEqual
  <2> QED BY <2>8 DEF h
<1>5. FlattenSeq(Append(f, Forwardable(b))) = FlattenSeq(f) \o Forwardable(b)
  <2> HIDE DEF f
  <2>1. Forwardable(b) \in Seq(UnitSet) /\ f \in Seq(Seq(UnitSet))
    BY <1>2, <1>3
  <2> QED BY <2>1, FlattenAppend
<1>6. Sent(Append(o, b)) = FlattenSeq(g) /\ Sent(o) = FlattenSeq(f)
  BY Zenon DEF Sent, g, w
<1> HIDE DEF f
<1> QED BY <1>4, <1>5, <1>6, Zenon DEF w

\* The units of an access unit are owed when the gate is open or a key picture
\* opens it, and not otherwise.
LEMMA HandDue ==
    ASSUME NEW lo, NEW hi, InHand(lo, hi),
           had_idr <=> \/ lead
                       \/ \E n \in 1..(lo - 1) : Type(units[n]) = "IDR"
    PROVE  /\ had_idr \/ HasKey(Hand) => Kept(Hand, Due) = Forwardable(Hand)
           /\ ~(had_idr \/ HasKey(Hand)) => Kept(Hand, Due) = <<>>
           /\ HasKey(Hand) => Forwardable(Hand) # <<>>
           /\ HasKey(Hand) <=> \E n \in lo..hi : Type(units[n]) = "IDR"
<1> DEFINE seq == Hand
<1>1. /\ units \in Seq(UnitSet) /\ Len(units) \in Nat
      /\ lo \in 1..Len(units) /\ hi \in lo..Len(units)
      /\ \A n \in 1..Len(units), m \in lo..hi :
            /\ n < lo => units[n].pic < units[m].pic
            /\ lo <= n /\ n <= hi => units[n].pic = units[m].pic
            /\ hi < n => units[m].pic < units[n].pic
  BY DEF InHand
<1>2. /\ seq \in Seq(UnitSet)
      /\ \A n \in lo..hi : units[n] \in ToSet(seq)
      /\ \A u \in ToSet(seq) : \E n \in lo..hi : u = units[n]
  BY HandUnits
<1> HIDE DEF seq
<1>3. HasKey(seq) <=> \E n \in lo..hi : Type(units[n]) = "IDR"
  <2>1. HasKey(seq) <=> \E u \in ToSet(seq) : Type(u) = "IDR"
    BY DEF HasKey, ToSet
  <2> QED BY <1>2, <2>1
<1>4. KeyPictures \subseteq {1, 2}
      /\ \A p : p \in KeyPictures <=>
             \E m \in 1..Len(units) :
                 Type(units[m]) = "IDR" /\ p = units[m].pic
  <2>1. DOMAIN units = 1..Len(units)
    BY <1>1
  <2>2. \A m \in 1..Len(units) : units[m] \in UnitSet
    BY <1>1
  <2>3. \A m \in 1..Len(units) : units[m].pic \in {1, 2}
    BY <2>2 DEF UnitSet
  <2> QED BY <2>1, <2>3 DEF KeyPictures
<1>5. ASSUME NEW m \in lo..hi
      PROVE  (\E p \in KeyPictures : p <= units[m].pic) <=>
                 \E n \in 1..hi : Type(units[n]) = "IDR"
  <2>1. \A n \in 1..Len(units) : units[n].pic \in {1, 2}
    <3>1. \A n \in 1..Len(units) : units[n] \in UnitSet
      BY <1>1
    <3> QED BY <3>1 DEF UnitSet
  <2>2. m \in 1..Len(units)
    BY <1>1
  <2>3. \A n \in 1..Len(units) : units[n].pic <= units[m].pic <=> n <= hi
    BY <1>1, <2>1, <2>2
  <2>4. \A n \in 1..hi : n \in 1..Len(units) /\ n <= hi
    BY <1>1
  <2>5. \A n \in 1..Len(units) : n <= hi => n \in 1..hi
    BY <1>1
  <2>6. ASSUME NEW p \in KeyPictures, p <= units[m].pic
        PROVE  \E n \in 1..hi : Type(units[n]) = "IDR"
    <3>1. PICK n \in 1..Len(units) : Type(units[n]) = "IDR" /\ p = units[n].pic
      BY <1>4
    <3>2. n \in 1..hi
      BY <2>3, <2>5, <2>6, <3>1
    <3> QED BY <3>1, <3>2
  <2>7. ASSUME NEW n \in 1..hi, Type(units[n]) = "IDR"
        PROVE  \E p \in KeyPictures : p <= units[m].pic
    <3>1. n \in 1..Len(units) /\ n <= hi
      BY <2>4
    <3>2. units[n].pic \in KeyPictures
      BY <1>4, <2>7, <3>1
    <3>3. units[n].pic <= units[m].pic
      BY <2>3, <3>1
    <3> QED BY <3>2, <3>3
  <2> QED BY <2>6, <2>7
<1>6. (\E n \in 1..hi : Type(units[n]) = "IDR") <=>
          \/ \E n \in 1..(lo - 1) : Type(units[n]) = "IDR"
          \/ \E n \in lo..hi : Type(units[n]) = "IDR"
  <2>1. \A n : n \in 1..hi <=> n \in 1..(lo - 1) \/ n \in lo..hi
    BY <1>1
  <2> QED BY <2>1
<1>7. ASSUME NEW u \in ToSet(seq)
      PROVE  u \in Due <=> ~nal_is_parameter_set(u) /\ (had_idr \/ HasKey(seq))
  <2>1. PICK m \in lo..hi : u = units[m]
    BY <1>2
  <2>2. m \in 1..Len(units) /\ DOMAIN units = 1..Len(units)
    BY <1>1
  <2>3. u \in ToSet(units)
    BY <2>1, <2>2 DEF ToSet
  <2>4. (\E p \in KeyPictures : p <= u.pic) <=>
            \E n \in 1..hi : Type(units[n]) = "IDR"
    BY <1>5, <2>1
  <2>5. u \in Due <=> /\ ~nal_is_parameter_set(u)
                      /\ lead \/ \E p \in KeyPictures : p <= u.pic
    BY <2>3 DEF Due
  <2> QED BY <1>3, <1>6, <2>4, <2>5
<1>8. Forwardable(seq) = Kept(seq, Plain)
  BY <1>2, ForwardableIs
<1>9. \A u \in ToSet(seq) : u \in Plain <=> ~nal_is_parameter_set(u)
  BY <1>2 DEF Plain, ToSet
<1>10. ASSUME had_idr \/ HasKey(seq) PROVE Kept(seq, Due) = Forwardable(seq)
  <2>1. \A u \in ToSet(seq) : u \in Due <=> u \in Plain
    BY <1>7, <1>9, <1>10
  <2>2. Kept(seq, Due) = Kept(seq, Plain)
    BY <1>2, <2>1, KeptSame
  <2> QED BY <1>8, <2>2
<1>11. ASSUME ~(had_idr \/ HasKey(seq)) PROVE Kept(seq, Due) = <<>>
  <2>1. ToSet(seq) \cap Due = {}
    BY <1>7, <1>11
  <2> QED BY <1>2, <2>1, KeptNone
<1>12. ASSUME HasKey(seq) PROVE Forwardable(seq) # <<>>
  <2>1. PICK u \in ToSet(seq) : Type(u) = "IDR"
    BY <1>12 DEF HasKey, ToSet
  <2>2. ~nal_is_parameter_set(u)
    BY <2>1 DEF nal_is_parameter_set
  <2>3. u \in ToSet(Forwardable(seq))
    BY <1>2, <2>2, ForwardableIs
  <2> QED BY <2>3 DEF ToSet
<1> QED BY <1>3, <1>10, <1>11, <1>12 DEF seq

-----------------------------------------------------------------------------
(* That nothing is lost, over every action.                                *)

\* What went out is what the access units before Rest owed, and the gate is
\* open when it was or a key picture among them opened it.
LostInv ==
    /\ pc = "split" => (lead <=> had_idr)
    /\ pc = "emit" =>
           /\ Sent(out) = Kept(SubSeq(units, 1, Rest - 1), Due)
           /\ had_idr <=> \/ lead
                          \/ \E n \in 1..(Rest - 1) : Type(units[n]) = "IDR"

\* What the next buffers carry.
LEMMA SentMoved ==
    ASSUME frame_format' = frame_format, NEW o, out' = o
    PROVE  Sent(out)' = Sent(o)
BY DEF Sent, Forwardable, nal_is_parameter_set, Type, convert_unit_type

\* What a delivery owes is settled when it comes in.
LEMMA DueKept ==
    ASSUME frame_format' = frame_format, units' = units, lead' = lead
    PROVE  Due' = Due
BY DEF Due, KeyPictures, nal_is_parameter_set, Type, convert_unit_type

\* One turn of the emit loop pushes what its access unit owes, no more.
LEMMA LostEmit ==
    ASSUME SplitInv, Slots(cache), OutInv, LostInv, EmitUnit
    PROVE  LostInv'
<1>1. PICK lo, hi \in Nat : InHand(lo, hi)
  BY OneInHand DEF EmitUnit
<1>2. Rest' = hi + 1 /\ Rest = lo
  BY <1>1, RestMoves
<1>3. /\ units \in Seq(UnitSet) /\ Len(units) \in Nat
      /\ lo \in 1..Len(units) /\ hi \in lo..Len(units)
      /\ Hand = SubSeq(units, lo, hi)
  BY <1>1 DEF InHand
<1>4. /\ pc = "emit" /\ pc' = "emit" /\ units' = units /\ lead' = lead
      /\ frame_format' = frame_format
  BY DEF EmitUnit, camera
<1>5. /\ Sent(out) = Kept(SubSeq(units, 1, lo - 1), Due)
      /\ had_idr <=> \/ lead
                     \/ \E n \in 1..(lo - 1) : Type(units[n]) = "IDR"
  BY <1>2, <1>4 DEF LostInv
<1>6. /\ had_idr \/ HasKey(Hand) => Kept(Hand, Due) = Forwardable(Hand)
      /\ ~(had_idr \/ HasKey(Hand)) => Kept(Hand, Due) = <<>>
      /\ HasKey(Hand) => Forwardable(Hand) # <<>>
      /\ HasKey(Hand) <=> \E n \in lo..hi : Type(units[n]) = "IDR"
  BY <1>1, <1>5, HandDue
<1>7. /\ Pushes(Hand) => /\ out' = Append(out, Buffer(Hand))
                         /\ had_idr' <=> had_idr \/ HasKey(Hand)
      /\ ~Pushes(Hand) => out' = out /\ had_idr' = had_idr
  BY EmitIs
<1>8. had_idr' <=> had_idr \/ HasKey(Hand)
  <2>1. CASE Pushes(Hand)
    BY <1>7, <2>1
  <2>2. CASE ~Pushes(Hand)
    <3>1. ~HasKey(Hand)
      BY <1>6, <2>2 DEF Pushes
    <3>2. had_idr' = had_idr
      BY <1>7, <2>2, Zenon
    <3>3. had_idr' <=> had_idr
      BY <3>2, Zenon
    <3> QED BY <3>1, <3>3
  <2> QED BY <2>1, <2>2
<1>9. had_idr' <=> lead' \/ \E n \in 1..(Rest' - 1) :
                                (Type(units[n]))' = "IDR"
  <2>1. Rest' - 1 = hi
    BY <1>2, <1>3
  <2>2. \A n : n \in 1..hi <=> n \in 1..(lo - 1) \/ n \in lo..hi
    BY <1>3
  <2>3. \A n : (Type(units[n]))' = Type(units[n])
    BY <1>4 DEF Type, convert_unit_type
  <2>4. (\E n \in 1..hi : Type(units[n]) = "IDR") <=>
            \/ \E n \in 1..(lo - 1) : Type(units[n]) = "IDR"
            \/ \E n \in lo..hi : Type(units[n]) = "IDR"
    BY <2>2
  <2>5. had_idr' <=> lead \/ \E n \in 1..hi : Type(units[n]) = "IDR"
    BY <1>5, <1>6, <1>8, <2>4
  <2>6. lead' <=> lead
    BY <1>4, Zenon
  <2> QED BY <2>1, <2>3, <2>5, <2>6
<1> DEFINE before == SubSeq(units, 1, lo - 1)
           upto   == SubSeq(units, 1, hi)
<1>10. upto = before \o Hand
  <2>1. (lo - 1) + 1 = lo
    BY <1>3
  <2>2. /\ 1 \in 1..(Len(units) + 1) /\ lo - 1 \in (1 - 1)..Len(units)
        /\ hi \in (lo - 1)..Len(units)
    BY <1>3
  <2>3. SubSeq(units, 1, lo - 1) \o SubSeq(units, (lo - 1) + 1, hi)
            = SubSeq(units, 1, hi)
    BY <1>3, <2>2, ConcatAdjacentSubSeq
  <2> QED BY <1>3, <2>1, <2>3
<1>11. before \in Seq(UnitSet) /\ Hand \in Seq(UnitSet)
  <2>1. \A n \in 1..(lo - 1) : units[n] \in UnitSet
    BY <1>3
  <2>2. lo - 1 \in Int /\ 1 \in Int
    BY <1>3
  <2>3. before \in Seq(UnitSet)
    BY <2>1, <2>2, SubSeqProperties
  <2> QED BY <1>1, <2>3, HandUnits
<1>12. Kept(upto, Due) = Kept(before, Due) \o Kept(Hand, Due)
  <2> HIDE DEF before, upto
  <2>1. Kept(before \o Hand, Due) = Kept(before, Due) \o Kept(Hand, Due)
    BY <1>11, KeptConcat
  <2> QED BY <1>10, <2>1, Zenon
<1>13. CameraOK /\ Buffer(Hand) \in Seq(UnitSet)
       /\ Forwardable(Buffer(Hand)) = Forwardable(Hand)
  BY <1>11, BufferFacts DEF SplitInv
<1>14. Sent(out)' = Sent(out) \o Kept(Hand, Due)
  <2>1. CASE Pushes(Hand)
    <3>1. Sent(out)' = Sent(Append(out, Buffer(Hand)))
      BY <1>4, <1>7, <2>1, SentMoved
    <3>2. Sent(Append(out, Buffer(Hand))) =
              Sent(out) \o Forwardable(Buffer(Hand))
      BY <1>13, SentAppend DEF OutInv
    <3>3. Kept(Hand, Due) = Forwardable(Hand)
      BY <1>6, <2>1 DEF Pushes
    <3> QED BY <1>13, <3>1, <3>2, <3>3, Zenon
  <2>2. CASE ~Pushes(Hand)
    <3>1. Sent(out)' = Sent(out)
      BY <1>4, <1>7, <2>2, SentMoved
    <3>2. Kept(Hand, Due) = <<>>
      BY <1>6, <2>2 DEF Pushes
    <3>3. Sent(out) \in Seq(UnitSet)
      <4> HIDE DEF before
      <4>1. Kept(before, Due) \in Seq(UnitSet)
        BY <1>11, KeptTypes
      <4> QED BY <1>5, <4>1 DEF before
    <3>4. Sent(out) \o <<>> = Sent(out)
      BY <3>3, ConcatEmptySeq
    <3> QED BY <3>1, <3>2, <3>4, Zenon
  <2> QED BY <2>1, <2>2
<1>15. Sent(out)' = Kept(SubSeq(units, 1, Rest - 1), Due)'
  <2>1. Due' = Due
    BY <1>4, DueKept
  <2>2. Rest' - 1 = hi
    BY <1>2, <1>3
  <2>3. Kept(SubSeq(units, 1, Rest - 1), Due)'
            = Kept(SubSeq(units', 1, Rest' - 1), Due')
    OBVIOUS
  <2>4. Sent(out)' = Kept(upto, Due)
    BY <1>5, <1>12, <1>14, Zenon
  <2> QED BY <1>4, <2>1, <2>2, <2>3, <2>4, Zenon
<1>16. pc' # "split"
  BY <1>4
<1> QED BY <1>9, <1>15, <1>16 DEF LostInv

\* The other steps push nothing, or begin the next delivery.
LEMMA LostStep ==
    ASSUME SplitInv, Slots(cache), OutInv, LostInv, [Next]_vars
    PROVE  LostInv'
<1>1. CASE EmitUnit
  BY <1>1, LostEmit
<1>2. ASSUME pc' \notin {"split", "emit"} PROVE LostInv'
  BY <1>2 DEF LostInv
<1>3. CASE DeliverPictures
  <2>1. lead' = had_idr /\ pc' = "split" /\ had_idr' = had_idr
    BY <1>3 DEF DeliverPictures, Receive, stream
  <2>2. lead' <=> had_idr'
    BY <2>1, Zenon
  <2> QED BY <2>1, <2>2 DEF LostInv
<1>4. CASE DeliverSets
  <2>1. lead' = had_idr /\ pc' = "split" /\ had_idr' = had_idr
    BY <1>4 DEF DeliverSets, Receive, stream
  <2>2. lead' <=> had_idr'
    BY <2>1, Zenon
  <2> QED BY <2>1, <2>2 DEF LostInv
<1>5. CASE Reopen
  <2>1. pc' = "wait"
    BY <1>5 DEF Reopen
  <2> QED BY <1>2, <2>1
<1>6. CASE SplitUnit
  <2>1. lead' = lead /\ pc' = "split" /\ had_idr' = had_idr /\ pc = "split"
    BY <1>6 DEF SplitUnit, stream
  <2>2. lead' <=> had_idr'
    BY <2>1, Zenon DEF LostInv
  <2> QED BY <2>1, <2>2 DEF LostInv
<1>7. CASE SplitDone
  <2>1. /\ pc = "split" /\ pc' = "emit" /\ i > Len(units)
        /\ UNCHANGED <<camera, units, lead, split, a, out, stream>>
    BY <1>7 DEF SplitDone
  <2>2. PICK h1, b, h2 \in Nat :
            Delivery(units, ver, h1, b, h2) /\ Split(h1, b, h2)
    BY <2>1 DEF SplitInv
  <2>3. starts = Cuts(b)
    BY <2>1, <2>2, SplitEnds
  <2>4. Len(starts) > 0 /\ starts[1] = 1 /\ a = 0 /\ out = <<>>
    BY <2>1, <2>2, <2>3, CutTypes DEF SplitInv
  <2>5. Rest' = 1
    BY <2>1, <2>4 DEF Rest, split
  <2>6. Sent(out)' = <<>>
    <3>1. frame_format' = frame_format /\ out' = <<>>
      BY <2>1, <2>4 DEF camera
    <3> QED BY <3>1, SentMoved, SentEmpty
  <2>7. Kept(SubSeq(units, 1, Rest - 1), Due)' = <<>>
    <3>1. SubSeq(units', 1, Rest' - 1) = <<>>
      BY <2>1, <2>2, <2>5, SubSeqEmpty DEF Delivery
    <3> QED BY <3>1, KeptEmpty
  <2>8. had_idr' <=> lead'
    <3>1. had_idr' = had_idr /\ lead' = lead
      BY <2>1 DEF stream
    <3>2. lead <=> had_idr
      BY <2>1, Zenon DEF LostInv
    <3>3. (had_idr' <=> had_idr) /\ (lead' <=> lead)
      BY <3>1, Zenon
    <3> QED BY <3>2, <3>3
  <2>9. \A n : ~(n \in 1..(Rest' - 1))
    BY <2>5
  <2> QED BY <2>1, <2>6, <2>7, <2>8, <2>9 DEF LostInv
<1>8. CASE EmitDone
  <2>1. pc' = "wait"
    BY <1>8 DEF EmitDone
  <2> QED BY <1>2, <2>1
<1>9. CASE UNCHANGED vars
  <2>1. /\ pc' = pc /\ units' = units /\ lead' = lead /\ out' = out
        /\ frame_format' = frame_format /\ a' = a /\ starts' = starts
        /\ had_idr' = had_idr
    BY <1>9 DEF vars, camera, split, stream
  <2>2. Rest' = Rest
    BY <2>1 DEF Rest
  <2>3. Due' = Due /\ Sent(out)' = Sent(out)
    BY <2>1, DueKept, SentMoved
  <2>4. \A n : (Type(units[n]))' = Type(units[n])
    BY <2>1 DEF Type, convert_unit_type
  <2>5. (lead' <=> lead) /\ (had_idr' <=> had_idr)
    BY <2>1, Zenon
  <2> QED BY <2>1, <2>2, <2>3, <2>4, <2>5 DEF LostInv
<1> QED BY <1>1, <1>3, <1>4, <1>5, <1>6, <1>7, <1>8, <1>9 DEF Next

\* Nothing is owed before the first delivery.
LEMMA LostInit == Init => LostInv
BY DEF Init, LostInv

\* When the loop ends, what was owed up to Rest is all that was owed.
LEMMA NothingLostHolds ==
    ASSUME SplitInv, Slots(cache), LostInv
    PROVE  NothingLost
<1>1. TypeOK
  BY TypesHold
<1>2. ASSUME pc = "emit", a = Len(starts)
      PROVE  Sent(out) = Kept(units, Due)
  <2>1. PICK h1, b, h2 \in Nat : Delivery(units, ver, h1, b, h2)
    BY <1>2 DEF SplitInv
  <2>2. units \in Seq(UnitSet) /\ Len(units) \in Nat
    BY <2>1 DEF Delivery
  <2>3. Rest = Len(units) + 1
    <3>1. ~(a < Len(starts))
      BY <1>1, <1>2 DEF TypeOK
    <3> QED BY <1>2, <3>1 DEF Rest
  <2>4. Rest - 1 = Len(units)
    BY <2>2, <2>3
  <2>5. SubSeq(units, 1, Len(units)) = units
    BY <2>2, SubSeqFull
  <2> QED BY <1>2, <2>4, <2>5, Zenon DEF LostInv
<1> QED BY <1>1, <1>2, Zenon DEF NothingLost, Sent

-----------------------------------------------------------------------------
(* The parameter sets still to come, held, and learnt.                     *)

\* Once the camera has sent its sets the cache holds them, or they are still
\* to come; and they come before any key picture that needs them.
CacheInv ==
    /\ announced => Held(cache) \/ Ahead(2)
    /\ \A n \in 1..Len(units) : Rest <= n /\ Type(units[n]) = "IDR" =>
           Held(cache) \/ Ahead(units[n].pic)

\* With the gate open and no refresh pending the decoder has the sets in force,
\* or they are still to come; and so it had at the last buffer's key slice.
DecInv ==
    /\ had_idr /\ ~send_sps_pps =>
           /\ DecCurrent \/ Ahead(2)
           /\ \A n \in 1..Len(units) : Rest <= n /\ Type(units[n]) = "IDR" =>
                  DecCurrent \/ Ahead(units[n].pic)
    /\ out # <<>> => \A u \in ToSet(Last(out)) :
                         Type(u) = "IDR" => DecCurrent /\ u.ver = ver

\* What the next cache holds.
LEMMA HeldMoved ==
    ASSUME frame_format' = frame_format, oversize' = oversize, ver' = ver,
           NEW c, cache' = c
    PROVE  Held(cache)' <=> Held(c)
BY DEF Held, Kinds, Type, convert_unit_type

\* What the decoder has next.
LEMMA DecMoved ==
    ASSUME frame_format' = frame_format, oversize' = oversize, ver' = ver,
           NEW d, dec' = d
    PROVE  DecCurrent' <=> \/ missed'
                           \/ \A k \in Kinds \ oversize : d[<<k, 1>>] = ver
BY DEF DecCurrent, Kinds

\* What is still to come next.
LEMMA AheadMoved ==
    ASSUME frame_format' = frame_format, NEW us, units' = us, NEW p
    PROVE  Ahead(p)' <=> \E m \in 1..Len(us) :
                             /\ Rest' <= m /\ nal_is_parameter_set(us[m])
                             /\ us[m].pic <= p
BY DEF Ahead, nal_is_parameter_set, Type, convert_unit_type

\* No set in the access unit in hand: what was to come still is.
LEMMA AheadMoves ==
    ASSUME EmitUnit, SplitInv, NEW lo, NEW hi, InHand(lo, hi), ~HasSet(Hand),
           NEW p, Ahead(p)
    PROVE  Ahead(p)'
<1>1. PICK m \in 1..Len(units) : /\ Rest <= m /\ nal_is_parameter_set(units[m])
                                 /\ units[m].pic <= p
  BY DEF Ahead
<1>2. Rest' = hi + 1 /\ Rest = lo
  BY RestMoves
<1>3. /\ lo \in 1..Len(units) /\ hi \in lo..Len(units) /\ Len(units) \in Nat
      /\ \A n \in lo..hi : units[n] \in ToSet(Hand)
  <2>1. \A n \in lo..hi : units[n] \in ToSet(Hand)
    BY HandUnits
  <2>2. /\ units \in Seq(UnitSet)
        /\ lo \in 1..Len(units) /\ hi \in lo..Len(units)
    BY DEF InHand
  <2> QED BY <2>1, <2>2
<1>4. m \notin lo..hi
  BY <1>1, <1>3 DEF HasSet
<1>5. hi + 1 <= m
  BY <1>1, <1>2, <1>3, <1>4
<1>6. frame_format' = frame_format /\ units' = units
  BY DEF EmitUnit, camera
<1> QED BY <1>1, <1>2, <1>5, <1>6, AheadMoved

\* A set the access unit brings brings them all.
LEMMA SetsTogether ==
    ASSUME NEW lo, NEW hi, InHand(lo, hi), HasSet(Hand)
    PROVE  /\ Held(Cached(Hand))
           /\ ~Refreshed(Hand) => Kinds \subseteq oversize
<1>1. /\ Hand \in Seq(UnitSet)
      /\ \A n \in lo..hi : units[n] \in ToSet(Hand)
      /\ \A u \in ToSet(Hand) : \E n \in lo..hi : u = units[n]
  BY HandUnits
<1>2. /\ Len(units) \in Nat /\ lo \in 1..Len(units) /\ hi \in lo..Len(units)
      /\ \A n \in lo..hi : nal_is_parameter_set(units[n]) =>
             \A k \in Kinds : \E m \in lo..hi : Type(units[m]) = k
      /\ \A n \in 1..Len(units) : units[n].ver = ver
  <2>1. /\ units \in Seq(UnitSet)
        /\ lo \in 1..Len(units) /\ hi \in lo..Len(units)
    BY DEF InHand
  <2>2. /\ \A n \in lo..hi : nal_is_parameter_set(units[n]) =>
               \A k \in Kinds : \E m \in lo..hi : Type(units[m]) = k
        /\ \A n \in 1..Len(units) : units[n].ver = ver
    BY Zenon DEF InHand
  <2> QED BY <2>1, <2>2
<1>3. \A k \in Kinds : \E u \in ToSet(Hand) : Type(u) = k
  <2>1. PICK u \in ToSet(Hand) : nal_is_parameter_set(u)
    BY DEF HasSet
  <2>2. PICK n \in lo..hi : u = units[n]
    BY <1>1
  <2> QED BY <1>1, <1>2, <2>1, <2>2
<1>4. \A u \in ToSet(Hand) : u.ver = ver
  <2> TAKE u \in ToSet(Hand)
  <2>1. PICK n \in lo..hi : u = units[n]
    BY <1>1
  <2>2. n \in 1..Len(units)
    BY <1>2
  <2> QED BY <1>2, <2>1, <2>2
<1>5. Held(Cached(Hand))
  BY <1>1, <1>3, <1>4, CachedAll
<1>6. ASSUME NEW k \in Kinds, k \notin oversize PROVE Refreshed(Hand)
  <2>1. PICK u \in ToSet(Hand) : Type(u) = k
    BY <1>3
  <2>2. PICK n \in DOMAIN Hand : u = Hand[n]
    BY DEF ToSet
  <2>3. k \in {"VPS", "SPS", "PPS"}
    BY DEF Kinds
  <2> QED BY <1>6, <2>1, <2>2, <2>3 DEF Refreshed, nal_is_parameter_set
<1> QED BY <1>5, <1>6

\* No set in hand: no key picture in hand is waiting for one.
LEMMA NoSetHere ==
    ASSUME NEW lo, NEW hi, InHand(lo, hi), ~HasSet(Hand), NEW n \in lo..hi
    PROVE  ~Ahead(units[n].pic)
<1>1. /\ lo \in 1..Len(units) /\ hi \in lo..Len(units) /\ Len(units) \in Nat
      /\ lo = Rest /\ units \in Seq(UnitSet)
      /\ \A m \in 1..Len(units) : hi < m => units[n].pic < units[m].pic
  BY DEF InHand
<1>2. \A m \in lo..hi : units[m] \in ToSet(Hand)
  BY HandUnits
<1>3. SUFFICES ASSUME NEW m \in 1..Len(units), Rest <= m,
                      nal_is_parameter_set(units[m]),
                      units[m].pic <= units[n].pic
               PROVE  FALSE
  BY DEF Ahead
<1>4. m \notin lo..hi
  BY <1>2, <1>3 DEF HasSet
<1>5. hi < m
  BY <1>1, <1>3, <1>4
<1>6. units[n].pic < units[m].pic
  BY <1>1, <1>5
<1>7. units[n] \in UnitSet /\ units[m] \in UnitSet
  BY <1>1
<1>8. units[n].pic \in {1, 2} /\ units[m].pic \in {1, 2}
  BY <1>7 DEF UnitSet
<1> QED BY <1>3, <1>6, <1>8

\* A key picture in hand is one of the units to come.
LEMMA KeyInHand ==
    ASSUME NEW lo, NEW hi, InHand(lo, hi), HasKey(Hand)
    PROVE  \E n \in lo..hi : /\ n \in 1..Len(units) /\ Rest <= n
                             /\ Type(units[n]) = "IDR"
<1>1. \A u \in ToSet(Hand) : \E n \in lo..hi : u = units[n]
  BY HandUnits
<1>2. PICK u \in ToSet(Hand) : Type(u) = "IDR"
  BY DEF HasKey, ToSet
<1>3. PICK n \in lo..hi : u = units[n]
  BY <1>1
<1>4. lo \in 1..Len(units) /\ hi \in lo..Len(units) /\ lo = Rest
  BY DEF InHand
<1>5. n \in 1..Len(units) /\ Rest <= n
  BY <1>4
<1> QED BY <1>2, <1>3, <1>5

\* A key picture finds the sets in force in the cache.
LEMMA KeyHeld ==
    ASSUME CacheInv, NEW lo, NEW hi, InHand(lo, hi), HasKey(Hand)
    PROVE  Held(Cached(Hand))
<1>1. CASE HasSet(Hand)
  BY <1>1, SetsTogether
<1>2. CASE ~HasSet(Hand)
  <2>1. PICK n \in lo..hi : n \in 1..Len(units) /\ Rest <= n
                            /\ Type(units[n]) = "IDR"
    BY KeyInHand
  <2>2. ~Ahead(units[n].pic)
    BY <1>2, <2>1, NoSetHere
  <2>3. Held(cache)
    BY <2>1, <2>2 DEF CacheInv
  <2>4. Hand \in Seq(UnitSet)
    BY HandUnits
  <2>5. \A k \in Kinds : Cached(Hand)[k] = cache[k]
    BY <1>2, <2>4, CachedNothing DEF HasSet
  <2> QED BY <2>3, <2>5, HeldMoves
<1> QED BY <1>1, <1>2

\* A cache that holds what fits puts something in front, or nothing fits.
LEMMA HeldPrefix ==
    ASSUME CameraOK, NEW c, Slots(c), Held(c), Prefix(c) = <<>>
    PROVE  Kinds \subseteq oversize
<1> SUFFICES ASSUME NEW k \in Kinds \ oversize PROVE FALSE
  OBVIOUS
<1>1. PICK u \in UnitSet : c[k] = <<u>>
  BY DEF Held
<1>2. u \in ToSet(Prefix(c))
  BY <1>1, PrefixSet
<1> QED BY <1>2 DEF ToSet

-----------------------------------------------------------------------------
(* What a pushed buffer teaches a decoder.                                 *)

\* The decoder takes the cached sets from a buffer they are in front of.
LEMMA FrontedLearnt ==
    ASSUME PpsCount = 1, CameraOK, Slots(cache), NEW seq \in Seq(UnitSet),
           Held(Cached(seq)), Fronted(seq) # <<>>,
           NEW k \in Kinds \ oversize
    PROVE  Learn(Buffer(seq))[<<k, 1>>] = ver
<1> DEFINE c == Cached(seq)
           buf == Buffer(seq)
           key == <<k, 1>>
<1>1. Slots(c) /\ Fronted(seq) = Prefix(c)
  BY CachedSlots, FrontedSet
<1>2. /\ buf \in Seq(UnitSet)
      /\ ToSet(buf) = ToSet(Forwardable(seq)) \cup ToSet(Fronted(seq))
  BY BufferFacts
<1>3. \A u \in ToSet(Forwardable(seq)) : ~nal_is_parameter_set(u)
  BY ForwardableIs
<1>4. PICK u \in UnitSet : c[k] = <<u>> /\ Type(u) = k /\ u.ver = ver
  BY DEF Held
<1>5. k \in {"VPS", "SPS", "PPS"} /\ key \in SetKeys
  BY DEF Kinds, SetKeys
<1>6. u \in ToSet(Prefix(c))
  BY <1>1, <1>4, PrefixSet
<1>7. u \in ToSet(buf) /\ u.id = 1
  BY <1>1, <1>2, <1>4, <1>6 DEF UnitSet
<1>8. \A v \in ToSet(Prefix(c)) : c[Type(v)] = <<v>>
  BY <1>1, PrefixSet
<1>9. \A v \in ToSet(buf) : Type(v) = k => v = u
  <2> TAKE v \in ToSet(buf)
  <2> HAVE Type(v) = k
  <2>1. v \notin ToSet(Forwardable(seq))
    BY <1>3, <1>5 DEF nal_is_parameter_set
  <2>2. v \in ToSet(Prefix(c))
    BY <1>1, <1>2, <2>1
  <2>3. <<v>> = <<u>>
    BY <1>4, <1>8, <2>2, Zenon
  <2> QED BY <2>3
<1> HIDE DEF buf, c
<1>10. /\ key[1] = k /\ key[2] = 1
  OBVIOUS
<1> HIDE DEF key
<1>11. \/ /\ Learn(buf)[key] = dec[key]
          /\ \A v \in ToSet(buf) : ~(Type(v) = key[1] /\ v.id = key[2])
       \/ \E v \in ToSet(buf) :
              Type(v) = key[1] /\ v.id = key[2] /\ Learn(buf)[key] = v.ver
  BY <1>2, <1>5, LearnFacts
<1>12. \E v \in ToSet(buf) : Type(v) = k /\ Learn(buf)[key] = v.ver
  BY <1>4, <1>7, <1>10, <1>11
<1>13. Learn(buf)[key] = ver
  BY <1>4, <1>9, <1>12
<1> QED BY <1>13 DEF buf, key

\* A buffer without sets teaches the decoder nothing.
LEMMA PlainLearnt ==
    ASSUME PpsCount = 1, NEW seq \in Seq(UnitSet), Fronted(seq) = <<>>,
           NEW k \in Kinds
    PROVE  Learn(Buffer(seq))[<<k, 1>>] = dec[<<k, 1>>]
<1> DEFINE buf == Buffer(seq)
           key == <<k, 1>>
<1>1. buf = Forwardable(seq)
  BY DEF Buffer
<1>2. /\ buf \in Seq(UnitSet)
      /\ \A u \in ToSet(buf) : ~nal_is_parameter_set(u)
  BY <1>1, ForwardableIs
<1>3. k \in {"VPS", "SPS", "PPS"} /\ key \in SetKeys /\ key[1] = k
  BY DEF Kinds, SetKeys
<1> HIDE DEF buf, key
<1>4. \A u \in ToSet(buf) : Type(u) # k
  BY <1>2, <1>3 DEF nal_is_parameter_set
<1>5. \/ /\ Learn(buf)[key] = dec[key]
         /\ \A v \in ToSet(buf) : ~(Type(v) = key[1] /\ v.id = key[2])
      \/ \E v \in ToSet(buf) :
             Type(v) = key[1] /\ v.id = key[2] /\ Learn(buf)[key] = v.ver
  BY <1>2, <1>3, LearnFacts
<1>6. Learn(buf)[key] = dec[key]
  BY <1>3, <1>4, <1>5
<1> QED BY <1>6 DEF buf, key

\* One turn of the loop keeps the cache in step.
LEMMA CacheEmit ==
    ASSUME SplitInv, CacheInv, EmitUnit
    PROVE  CacheInv'
<1>1. PICK lo, hi \in Nat : InHand(lo, hi)
  BY OneInHand DEF EmitUnit
<1>2. Rest' = hi + 1 /\ Rest = lo
  BY <1>1, RestMoves
<1>3. /\ UNCHANGED <<frame_format, oversize, ver, announced, units>>
      /\ cache' = Cached(Hand)
  BY EmitIs DEF EmitUnit, camera
<1>4. Held(cache)' <=> Held(Cached(Hand))
  BY <1>3, HeldMoved
<1>5. \A n : /\ (Type(units[n]))' = Type(units[n])
             /\ (units[n].pic)' = units[n].pic
  BY <1>3 DEF Type, convert_unit_type
<1>6. CASE HasSet(Hand)
  <2>1. Held(cache)'
    BY <1>1, <1>4, <1>6, SetsTogether
  <2> QED BY <2>1 DEF CacheInv
<1>7. CASE ~HasSet(Hand)
  <2>1. Hand \in Seq(UnitSet)
    BY <1>1, HandUnits
  <2>2. \A k \in Kinds : Cached(Hand)[k] = cache[k]
    BY <1>7, <2>1, CachedNothing DEF HasSet
  <2>3. Held(cache) => Held(cache)'
    BY <1>4, <2>2, HeldMoves
  <2>4. \A p : Ahead(p) => Ahead(p)'
    BY <1>1, <1>7, AheadMoves
  <2>5. announced' => Held(cache)' \/ Ahead(2)'
    BY <1>3, <2>3, <2>4 DEF CacheInv
  <2>6. ASSUME NEW n \in 1..Len(units), Rest' <= n, Type(units[n]) = "IDR"
        PROVE  Held(cache)' \/ Ahead(units[n].pic)'
    <3>1. Rest <= n
      BY <1>1, <1>2, <2>6 DEF InHand
    <3>2. Held(cache) \/ Ahead(units[n].pic)
      BY <2>6, <3>1 DEF CacheInv
    <3>3. PICK p : p = units[n].pic
      OBVIOUS
    <3>4. Ahead(units[n].pic)' <=> Ahead(p)'
      BY <1>3, <3>3 DEF Ahead
    <3>5. Ahead(units[n].pic) => Ahead(units[n].pic)'
      BY <2>4, <3>3, <3>4
    <3> QED BY <2>3, <3>2, <3>5
  <2> QED BY <1>3, <1>5, <2>5, <2>6 DEF CacheInv
<1> QED BY <1>6, <1>7

-----------------------------------------------------------------------------
(* The decoder, over one turn of the emit loop.                            *)

\* What DecInv says of the stream, once a unit has been handled.
LEMMA DecRest ==
    ASSUME SplitInv, EmitUnit, NEW lo, NEW hi, InHand(lo, hi), ~HasSet(Hand),
           had_idr, ~send_sps_pps, DecInv, DecCurrent => DecCurrent'
    PROVE  /\ DecCurrent' \/ Ahead(2)'
           /\ \A n \in 1..Len(units') :
                  Rest' <= n /\ (Type(units[n]))' = "IDR" =>
                      DecCurrent' \/ Ahead(units[n].pic)'
<1>1. \A p : Ahead(p) => Ahead(p)'
  BY AheadMoves
<1>2. DecCurrent' \/ Ahead(2)'
  BY <1>1 DEF DecInv
<1>3. /\ Rest' = hi + 1 /\ Rest = lo
      /\ hi \in lo..Len(units) /\ lo \in 1..Len(units)
  <2>1. Rest' = hi + 1 /\ Rest = lo
    BY RestMoves
  <2>2. hi \in lo..Len(units) /\ lo \in 1..Len(units)
    BY DEF InHand
  <2> QED BY <2>1, <2>2
<1>4. frame_format' = frame_format /\ units' = units
  BY DEF EmitUnit, camera
<1>5. \A n : (Type(units[n]))' = Type(units[n])
  BY <1>4 DEF Type, convert_unit_type
<1>6. ASSUME NEW n \in 1..Len(units), Rest' <= n, Type(units[n]) = "IDR"
      PROVE  DecCurrent' \/ Ahead(units[n].pic)'
  <2>1. Rest <= n
    BY <1>3, <1>6
  <2>2. DecCurrent \/ Ahead(units[n].pic)
    BY <1>6, <2>1 DEF DecInv
  <2>3. PICK p : p = units[n].pic
    OBVIOUS
  <2>4. Ahead(units[n].pic)' <=> Ahead(p)'
    BY <1>4, <2>3 DEF Ahead
  <2> QED BY <1>1, <2>2, <2>3, <2>4
<1> QED BY <1>2, <1>4, <1>5, <1>6

\* The buffer just pushed.
LEMMA LastPushed ==
    ASSUME OutInv, NEW b \in Seq(UnitSet), out' = Append(out, b)
    PROVE  out' # <<>> /\ Last(out') = b
<1>1. /\ Len(out) \in Nat /\ Len(out') = Len(out) + 1
      /\ out'[Len(out) + 1] = b
  BY DEF OutInv
<1>2. out' # <<>>
  BY <1>1
<1> QED BY <1>1, <1>2 DEF Last

\* One turn of the loop keeps the decoder in step: it pushes the sets with a
\* key picture, or leaves the refresh pending, or drops what the gate drops.
LEMMA DecEmit ==
    ASSUME PpsCount = 1, SplitInv, Slots(cache), OutInv, CacheInv, DecInv,
           EmitUnit
    PROVE  DecInv'
<1>1. PICK lo, hi \in Nat : InHand(lo, hi)
  BY OneInHand DEF EmitUnit
<1>2. CameraOK /\ Hand \in Seq(UnitSet)
  BY <1>1, HandUnits DEF SplitInv
<1>3. UNCHANGED <<frame_format, oversize, ver, announced, units>>
  BY DEF EmitUnit, camera
<1>4. \A u : (Type(u))' = Type(u)
  BY <1>3, TypeKept
<1>5. /\ Pushes(Hand) =>
             /\ out' = Append(out, Buffer(Hand))
             /\ had_idr' <=> had_idr \/ HasKey(Hand)
             /\ send_sps_pps' <=> Send(Hand) /\ Fronted(Hand) = <<>>
      /\ ~Pushes(Hand) =>
             /\ UNCHANGED <<out, dec, missed, had_idr>>
             /\ send_sps_pps' <=> Send(Hand)
  BY EmitIs
<1>6. \A k \in Kinds \ oversize : dec'[<<k, 1>>] = dec[<<k, 1>>] =>
          (DecCurrent => missed \/ dec'[<<k, 1>>] = ver)
  BY DEF DecCurrent
<1>7. DecCurrent' <=> \/ missed'
                      \/ \A k \in Kinds \ oversize : dec'[<<k, 1>>] = ver
  BY <1>3 DEF DecCurrent, Kinds
<1>8. /\ HasSet(Hand) /\ ~Refreshed(Hand) => DecCurrent'
      /\ (missed => missed') /\ (\A k \in Kinds : dec'[<<k, 1>>] = dec[<<k, 1>>])
             => (DecCurrent => DecCurrent')
  <2>1. HasSet(Hand) /\ ~Refreshed(Hand) => Kinds \subseteq oversize
    BY <1>1, SetsTogether
  <2> QED BY <1>6, <1>7, <2>1
<1> DEFINE News == \A u \in ToSet(Last(out')) :
                       Type(u) = "IDR" => DecCurrent' /\ u.ver = ver
           Stream == had_idr' /\ ~send_sps_pps' =>
               /\ DecCurrent' \/ Ahead(2)'
               /\ \A n \in 1..Len(units') :
                      Rest' <= n /\ (Type(units[n]))' = "IDR" =>
                          DecCurrent' \/ Ahead(units[n].pic)'
<1>9. Stream /\ (out' # <<>> => News) => DecInv'
  BY <1>3, <1>4 DEF DecInv
<1>10. ASSUME had_idr, ~send_sps_pps, ~Refreshed(Hand),
              DecCurrent => DecCurrent'
       PROVE  /\ DecCurrent' \/ Ahead(2)'
              /\ \A n \in 1..Len(units') :
                     Rest' <= n /\ (Type(units[n]))' = "IDR" =>
                         DecCurrent' \/ Ahead(units[n].pic)'
  <2>1. CASE HasSet(Hand)
    BY <1>8, <1>10, <2>1
  <2>2. CASE ~HasSet(Hand)
    BY <1>1, <1>10, <2>2, DecRest
  <2> QED BY <2>1, <2>2
<1>11. CASE ~Pushes(Hand)
  <2>1. /\ out' = out /\ dec' = dec /\ missed' = missed
        /\ had_idr' = had_idr
        /\ send_sps_pps' <=> Send(Hand)
    BY <1>5, <1>11, Zenon
  <2>2. DecCurrent => DecCurrent'
    <3>1. missed => missed'
      BY <2>1, Zenon
    <3> QED BY <1>8, <2>1, <3>1
  <2>3. had_idr' <=> had_idr
    BY <2>1, Zenon
  <2>4. Stream
    BY <1>10, <2>1, <2>2, <2>3 DEF Send
  <2>5. out' # <<>> => News
    BY <2>1, <2>2 DEF DecInv
  <2> QED BY <1>9, <2>4, <2>5
<1>12. ASSUME Pushes(Hand)
       PROVE  /\ out' # <<>> /\ Last(out') = Buffer(Hand)
              /\ had_idr' <=> had_idr \/ HasKey(Hand)
              /\ send_sps_pps' <=> Send(Hand) /\ Fronted(Hand) = <<>>
  <2>1. Buffer(Hand) \in Seq(UnitSet)
    BY <1>2, BufferFacts
  <2> QED BY <1>5, <1>12, <2>1, LastPushed
<1>13. \A u \in ToSet(Buffer(Hand)) :
           Type(u) = "IDR" => u.ver = ver /\ HasKey(Hand)
  <2> TAKE u \in ToSet(Buffer(Hand))
  <2> HAVE Type(u) = "IDR"
  <2>1. u \in ToSet(Forwardable(Hand)) \cup ToSet(Fronted(Hand))
    BY <1>2, BufferFacts
  <2>2. ~nal_is_parameter_set(u)
    BY DEF nal_is_parameter_set
  <2>3. u \in ToSet(Forwardable(Hand))
    BY <1>2, <2>1, <2>2, FrontedSet
  <2>4. u \in ToSet(Hand)
    BY <1>2, <2>3, ForwardableIs
  <2>8. \A v \in ToSet(Hand) : \E n \in lo..hi : v = units[n]
    BY <1>1, HandUnits
  <2>5. PICK n \in lo..hi : u = units[n]
    BY <2>4, <2>8
  <2>6. n \in 1..Len(units)
    BY <1>1, <2>5 DEF InHand
  <2>7. u.ver = ver
    BY <1>1, <2>5, <2>6 DEF InHand
  <2> QED BY <2>4, <2>7 DEF HasKey, ToSet
<1>14. CASE Pushes(Hand) /\ Fronted(Hand) # <<>>
  <2>1. HasKey(Hand)
    BY <1>2, <1>14, FrontedSet
  <2>2. Held(Cached(Hand))
    BY <1>1, <2>1, KeyHeld
  <2>3. DecCurrent'
    <3>1. missed' \/ dec' = Learn(Buffer(Hand))
      BY <1>14, EmitLearns
    <3> QED BY <1>2, <1>7, <1>14, <2>2, <3>1, FrontedLearnt
  <2>4. Stream
    BY <2>3
  <2>5. News
    BY <1>12, <1>13, <1>14, <2>3
  <2> QED BY <1>9, <2>4, <2>5
<1>15. CASE Pushes(Hand) /\ Fronted(Hand) = <<>>
  <2>1. \A k \in Kinds : dec'[<<k, 1>>] = dec[<<k, 1>>]
    <3>1. dec' = dec \/ dec' = Learn(Buffer(Hand))
      BY <1>15, EmitLearns
    <3> QED BY <1>2, <1>15, <3>1, PlainLearnt
  <2>2. /\ ~(HasKey(Hand) /\ NeedsSets(Send(Hand)))
        => (DecCurrent => DecCurrent')
    <3> SUFFICES ASSUME ~(HasKey(Hand) /\ NeedsSets(Send(Hand)))
                 PROVE  DecCurrent => DecCurrent'
      OBVIOUS
    <3>1. missed' = missed
      BY <1>15, EmitLearns
    <3>2. missed => missed'
      BY <3>1, Zenon
    <3> QED BY <1>8, <2>1, <3>2
  <2>3. send_sps_pps' <=> Send(Hand)
    BY <1>12, <1>15
  <2>4. CASE HasKey(Hand)
    <3>1. DecCurrent'
      <4>1. CASE NeedsSets(Send(Hand))
        <5>1. Prefix(Cached(Hand)) = <<>>
          BY <1>15, <2>4, <4>1, Zenon DEF Fronted, When
        <5>2. Held(Cached(Hand)) /\ Slots(Cached(Hand))
          BY <1>1, <1>2, <2>4, KeyHeld, CachedSlots
        <5>3. Kinds \subseteq oversize
          BY <1>2, <5>1, <5>2, HeldPrefix
        <5> QED BY <1>7, <5>3
      <4>2. CASE ~NeedsSets(Send(Hand))
        <5>1. had_idr /\ ~Send(Hand)
          BY <4>2 DEF NeedsSets
        <5>2. ~send_sps_pps /\ ~Refreshed(Hand)
          BY <5>1 DEF Send
        <5>3. CASE HasSet(Hand)
          BY <1>8, <5>2, <5>3
        <5>4. CASE ~HasSet(Hand)
          <6>1. PICK n \in lo..hi : n \in 1..Len(units) /\ Rest <= n
                                    /\ Type(units[n]) = "IDR"
            BY <1>1, <2>4, KeyInHand
          <6>2. ~Ahead(units[n].pic)
            BY <1>1, <5>4, <6>1, NoSetHere
          <6>3. DecCurrent
            BY <5>1, <5>2, <6>1, <6>2 DEF DecInv
          <6> QED BY <2>2, <4>2, <6>3
        <5> QED BY <5>3, <5>4
      <4> QED BY <4>1, <4>2
    <3> QED BY <1>9, <1>12, <1>13, <1>15, <3>1
  <2>5. CASE ~HasKey(Hand)
    <3>1. had_idr' <=> had_idr
      BY <1>12, <1>15, <2>5
    <3>2. Stream
      BY <1>10, <2>2, <2>3, <2>5, <3>1 DEF Send
    <3>3. News
      BY <1>12, <1>13, <1>15, <2>5
    <3> QED BY <1>9, <3>2, <3>3
  <2> QED BY <2>4, <2>5
<1> QED BY <1>11, <1>14, <1>15

-----------------------------------------------------------------------------
(* The camera announces a change of sets before it uses it.                *)

\* The picture of a unit, in the next state.
LEMMA AheadAt ==
    ASSUME NEW us, units' = us, NEW n, NEW p, us[n].pic = p
    PROVE  Ahead(units[n].pic)' <=> Ahead(p)'
BY DEF Ahead

\* Nothing is to come between deliveries, nor after the last access unit.
LEMMA NothingAhead ==
    ASSUME SplitInv, pc = "wait" \/ (pc = "emit" /\ a = Len(starts))
    PROVE  \A p : ~Ahead(p)
<1>1. CASE pc = "wait"
  <2>1. Len(units) = 0
    BY <1>1 DEF SplitInv
  <2> QED BY <2>1 DEF Ahead
<1>2. CASE pc = "emit" /\ a = Len(starts)
  <2>1. Len(starts) \in Nat /\ Len(units) \in Nat
    <3>1. PICK h1, b, h2 \in Nat :
              Delivery(units, ver, h1, b, h2) /\ starts = Cuts(b)
      BY <1>2 DEF SplitInv
    <3> QED BY <3>1, CutTypes
  <2>2. Rest = Len(units) + 1
    BY <1>2, <2>1 DEF Rest
  <2>3. \A m \in 1..Len(units) : ~(Rest <= m)
    BY <2>1, <2>2
  <2> QED BY <2>3 DEF Ahead
<1> QED BY <1>1, <1>2

\* The sets of a picture are ahead of it when it has just come in.
LEMMA KindsAhead ==
    ASSUME CameraOK, frame_format' = frame_format, NEW us, units' = us,
           Rest' = 1, NEW pic, KindsOf(us, pic), NEW p, pic <= p
    PROVE  Ahead(p)'
<1>1. "SPS" \in Kinds
  BY DEF Kinds
<1>2. PICK m \in 1..Len(us) : us[m].pic = pic /\ Type(us[m]) = "SPS"
  BY <1>1 DEF KindsOf
<1>3. nal_is_parameter_set(us[m])
  BY <1>2 DEF nal_is_parameter_set
<1>4. Rest' <= m
  OBVIOUS
<1> QED BY <1>2, <1>3, <1>4, AheadMoved

\* A step that leaves the camera, the units to come and the stream alone.
LEMMA StreamKept ==
    ASSUME UNCHANGED <<frame_format, oversize, ver, announced, units, cache,
                       dec, missed, out>>,
           Rest' = Rest, had_idr' /\ ~send_sps_pps' => had_idr /\ ~send_sps_pps
    PROVE  /\ CacheInv => CacheInv'
           /\ DecInv => DecInv'
<1>1. Held(cache)' <=> Held(cache)
  BY HeldMoved
<1>2. DecCurrent' <=> DecCurrent
  BY DEF DecCurrent, Kinds
<1>3. \A u : (Type(u))' = Type(u)
  BY TypeKept
<1>4. \A p : Ahead(p)' <=> Ahead(p)
  BY <1>3 DEF Ahead, nal_is_parameter_set, Type, convert_unit_type
<1>5. ASSUME NEW n
      PROVE  /\ Ahead(units[n].pic)' <=> Ahead(units[n].pic)
             /\ (Type(units[n]))' = Type(units[n])
  <2>1. PICK p : p = units[n].pic
    OBVIOUS
  <2>2. Ahead(units[n].pic)' <=> Ahead(p)'
    BY <2>1, AheadAt
  <2> QED BY <1>4, <2>1, <2>2 DEF Type, convert_unit_type
<1>6. CacheInv => CacheInv'
  BY <1>1, <1>4, <1>5 DEF CacheInv
<1>7. DecInv => DecInv'
  BY <1>2, <1>3, <1>4, <1>5 DEF DecInv
<1> QED BY <1>6, <1>7

\* A key picture comes with the new sets or the old ones are announced.
LEMMA PicturesStream ==
    ASSUME SplitInv, ListedSlices, CacheInv, DecInv, DeliverPictures
    PROVE  CacheInv' /\ DecInv'
<1>1. PICK p \in Layouts, q \in Layouts \cup {<<>>}, v \in {0, 1} :
          /\ v # ver => IsKey(p) /\ p.sets
          /\ IsKey(p) => announced \/ p.sets
          /\ q # <<>> => (IsKey(q) => announced \/ p.sets \/ q.sets)
          /\ ver' = v
          /\ announced' = (announced \/ p.sets \/ (q # <<>> /\ q.sets))
          /\ Receive(Picture(1, p, v)
                     \o When(q # <<>>, IF q = <<>> THEN <<>>
                                       ELSE Picture(2, q, v)))
  BY DEF DeliverPictures
<1>2. PICK us : us = Picture(1, p, v)
                     \o When(q # <<>>, IF q = <<>> THEN <<>>
                                       ELSE Picture(2, q, v))
  OBVIOUS
<1>3. Receive(us)
  BY <1>1, <1>2, Zenon
<1>4. CameraOK /\ pc = "wait" /\ out = <<>>
  BY DEF SplitInv, DeliverPictures
<1>5. /\ units' = us /\ pc' = "split" /\ Rest' = 1 /\ out' = <<>>
      /\ UNCHANGED <<frame_format, oversize, had_idr, send_sps_pps, cache,
                     dec, missed>>
  BY <1>3, <1>4 DEF Receive, stream, Rest
<1>6. /\ \E h1, b, h2 \in Nat : Delivery(us, v, h1, b, h2)
      /\ \A n \in 1..Len(us) : Type(us[n]) = "IDR" =>
             \/ us[n].pic = 1 /\ IsKey(p)
             \/ us[n].pic = 2 /\ q # <<>> /\ IsKey(q)
      /\ p.sets => KindsOf(us, 1)
      /\ q # <<>> /\ q.sets => KindsOf(us, 2)
  <2>1. Delivered(us, p, q, v)
    BY <1>2, <1>4, PicturesDelivered
  <2> QED BY <2>1 DEF Delivered
<1>7. /\ p.sets => Ahead(1)' /\ Ahead(2)'
      /\ q # <<>> /\ q.sets => Ahead(2)'
  BY <1>4, <1>5, <1>6, KindsAhead
<1>8. \A n \in 1..Len(us) : us[n].pic \in {1, 2}
  <2>1. us \in Seq(UnitSet)
    BY <1>6 DEF Delivery
  <2>2. \A n \in 1..Len(us) : us[n] \in UnitSet
    BY <2>1
  <2> QED BY <2>2 DEF UnitSet
<1>9. \A n \in 1..Len(us) :
          /\ us[n].pic = 1 /\ Ahead(1)' => Ahead(units[n].pic)'
          /\ us[n].pic = 2 /\ Ahead(2)' => Ahead(units[n].pic)'
          /\ (Type(units[n]))' = Type(us[n])
  BY <1>5, AheadAt DEF Type, convert_unit_type
<1>10. DecInv' <=> (had_idr' /\ ~send_sps_pps' =>
           /\ DecCurrent' \/ Ahead(2)'
           /\ \A n \in 1..Len(us) : Rest' <= n /\ (Type(units[n]))' = "IDR" =>
                  DecCurrent' \/ Ahead(units[n].pic)')
  BY <1>5 DEF DecInv
<1>11. CASE p.sets
  <2>1. \A n \in 1..Len(us) : Ahead(units[n].pic)'
    BY <1>7, <1>8, <1>9, <1>11
  <2> QED BY <1>5, <1>7, <1>10, <1>11, <2>1 DEF CacheInv
<1>12. CASE ~p.sets
  <2>1. ver' = ver
    BY <1>1, <1>12
  <2>2. /\ Held(cache)' <=> Held(cache)
        /\ DecCurrent' <=> DecCurrent
    BY <1>5, <2>1, HeldMoved DEF DecCurrent, Kinds
  <2>3. \A r : ~Ahead(r)
    BY <1>4, NothingAhead
  <2>4. announced => Held(cache)
    BY <2>3 DEF CacheInv
  <2>5. had_idr /\ ~send_sps_pps => DecCurrent
    BY <2>3 DEF DecInv
  <2>6. (had_idr' /\ ~send_sps_pps') <=> (had_idr /\ ~send_sps_pps)
    <3>1. had_idr' = had_idr /\ send_sps_pps' = send_sps_pps
      BY <1>5
    <3> QED BY <3>1, Zenon
  <2>7. DecInv'
    BY <1>10, <2>2, <2>5, <2>6
  <2>8. announced' <=> announced \/ (q # <<>> /\ q.sets)
    <3>1. announced' <=> announced \/ p.sets \/ (q # <<>> /\ q.sets)
      BY <1>1, Zenon
    <3> QED BY <1>12, <3>1
  <2>9. announced' => Held(cache)' \/ Ahead(2)'
    BY <1>7, <2>2, <2>4, <2>8
  <2>10. ASSUME NEW n \in 1..Len(us), Type(us[n]) = "IDR"
         PROVE  Held(cache)' \/ Ahead(units[n].pic)'
    <3>1. CASE us[n].pic = 1 /\ IsKey(p)
      BY <1>1, <1>12, <2>2, <2>4, <3>1
    <3>2. CASE us[n].pic = 2 /\ q # <<>> /\ IsKey(q)
      <4>1. announced \/ q.sets
        BY <1>1, <1>12, <3>2
      <4> QED BY <1>7, <1>9, <2>2, <2>4, <3>2, <4>1
    <3> QED BY <1>6, <2>10, <3>1, <3>2
  <2>11. CacheInv'
    BY <1>5, <1>9, <2>9, <2>10 DEF CacheInv
  <2> QED BY <2>7, <2>11
<1> QED BY <1>11, <1>12

\* A transfer of sets alone announces them all.
LEMMA SetsStream ==
    ASSUME SplitInv, ListedSlices, CacheInv, DecInv, DeliverSets
    PROVE  CacheInv' /\ DecInv'
<1>1. PICK us : us = ParameterSets(1, ver)
  OBVIOUS
<1>2. Receive(us) /\ UNCHANGED <<had_idr, send_sps_pps, cache, dec, missed>>
  BY <1>1, Zenon DEF DeliverSets, Receive, stream
<1>3. CameraOK /\ pc = "wait" /\ out = <<>>
  BY DEF SplitInv, DeliverSets
<1>4. /\ units' = us /\ pc' = "split" /\ Rest' = 1 /\ out' = <<>>
      /\ frame_format' = frame_format
  BY <1>2, <1>3 DEF Receive, Rest
<1>5. /\ \A n \in 1..Len(us) : Type(us[n]) # "IDR"
      /\ KindsOf(us, 1)
  BY <1>1, <1>3, SetsDelivered
<1>6. Ahead(2)'
  BY <1>3, <1>4, <1>5, KindsAhead
<1>7. \A n \in 1..Len(us) : (Type(units[n]))' # "IDR"
  BY <1>4, <1>5 DEF Type, convert_unit_type
<1>8. CacheInv'
  BY <1>4, <1>6, <1>7 DEF CacheInv
<1>9. DecInv'
  BY <1>4, <1>6, <1>7 DEF DecInv
<1> QED BY <1>8, <1>9

-----------------------------------------------------------------------------
(* The theorems.                                                           *)

\* Every step keeps cache and decoder in step.
LEMMA StreamStep ==
    ASSUME PpsCount = 1, ListedSlices, SplitInv, Slots(cache), OutInv,
           CacheInv, DecInv, [Next]_vars
    PROVE  CacheInv' /\ DecInv'
<1>1. CASE DeliverPictures
  BY <1>1, PicturesStream
<1>2. CASE DeliverSets
  BY <1>2, SetsStream
<1>3. CASE Reopen
  <2>1. UNCHANGED <<frame_format, oversize, ver, announced, units, cache, dec,
                    missed, out>> /\ Rest' = Rest /\ ~had_idr'
    BY <1>3 DEF Reopen, camera, split, Rest
  <2> QED BY <2>1, StreamKept
<1>4. CASE SplitUnit
  <2>1. UNCHANGED <<frame_format, oversize, ver, announced, units, cache, dec,
                    missed, out>>
    BY <1>4 DEF SplitUnit, camera, stream
  <2>2. Rest' = Rest
    BY <1>4 DEF SplitUnit, Rest
  <2>3. had_idr' = had_idr /\ send_sps_pps' = send_sps_pps
    BY <1>4 DEF SplitUnit, stream
  <2>4. had_idr' /\ ~send_sps_pps' => had_idr /\ ~send_sps_pps
    BY <2>3, Zenon
  <2> QED BY <2>1, <2>2, <2>4, StreamKept
<1>5. CASE SplitDone
  <2>1. UNCHANGED <<frame_format, oversize, ver, announced, units, cache, dec,
                    missed, out, starts, a>>
    BY <1>5 DEF SplitDone, camera, stream, split
  <2>2. PICK h1, b, h2 \in Nat :
            Delivery(units, ver, h1, b, h2) /\ Split(h1, b, h2)
    BY <1>5 DEF SplitInv, SplitDone
  <2>3. starts = Cuts(b)
    BY <1>5, <2>2, SplitEnds DEF SplitDone
  <2>4. Len(starts) > 0 /\ starts[1] = 1 /\ a = 0
    BY <1>5, <2>2, <2>3, CutTypes DEF SplitInv, SplitDone
  <2>5. Rest' = 1 /\ Rest = 1
    BY <1>5, <2>1, <2>4 DEF Rest, SplitDone
  <2>6. had_idr' = had_idr /\ send_sps_pps' = send_sps_pps
    BY <1>5 DEF SplitDone, stream
  <2>7. had_idr' /\ ~send_sps_pps' => had_idr /\ ~send_sps_pps
    BY <2>6, Zenon
  <2> QED BY <2>1, <2>5, <2>7, StreamKept
<1>6. CASE EmitUnit
  BY <1>6, CacheEmit, DecEmit
<1>7. CASE EmitDone
  <2>1. /\ UNCHANGED <<frame_format, oversize, ver, announced, cache, dec,
                       missed, had_idr, send_sps_pps>>
        /\ units' = <<>> /\ out' = <<>>
    BY <1>7 DEF EmitDone, camera, stream
  <2>2. \A p : ~Ahead(p)
    BY <1>7, NothingAhead DEF EmitDone
  <2>3. (Held(cache)' <=> Held(cache)) /\ (DecCurrent' <=> DecCurrent)
    BY <2>1, HeldMoved DEF DecCurrent, Kinds
  <2>4. announced' => Held(cache)'
    BY <2>1, <2>2, <2>3 DEF CacheInv
  <2>5. (had_idr' /\ ~send_sps_pps') <=> (had_idr /\ ~send_sps_pps)
    BY <2>1, Zenon
  <2>6. had_idr' /\ ~send_sps_pps' => DecCurrent'
    BY <2>2, <2>3, <2>5 DEF DecInv
  <2> QED BY <2>1, <2>4, <2>6 DEF CacheInv, DecInv
<1>8. CASE UNCHANGED vars
  <2>1. UNCHANGED <<frame_format, oversize, ver, announced, units, cache, dec,
                    missed, out, pc, a, starts, had_idr, send_sps_pps>>
    BY <1>8 DEF vars, camera, stream, split
  <2>2. Rest' = Rest
    BY <2>1 DEF Rest
  <2>3. had_idr' /\ ~send_sps_pps' => had_idr /\ ~send_sps_pps
    BY <2>1, Zenon
  <2> QED BY <2>1, <2>2, <2>3, StreamKept
<1> QED BY <1>1, <1>2, <1>3, <1>4, <1>5, <1>6, <1>7, <1>8 DEF Next

\* A camera that was never opened has announced nothing.
LEMMA StreamInit == Init => CacheInv /\ DecInv
BY DEF Init, CacheInv, DecInv

\* With one set of each kind, the sets of a picture are those kinds.
LEMMA DecoderHasSetsHolds ==
    ASSUME PpsCount = 1, OutInv, DecInv
    PROVE  DecoderHasSets
<1> SUFFICES ASSUME ~missed, out # <<>>, NEW k \in DOMAIN Last(out),
                    Type(Last(out)[k]) = "IDR",
                    NEW key \in SetKeys, key[1] \notin oversize
             PROVE  dec[key] = Last(out)[k].ver
  BY DEF DecoderHasSets, SetsHeld
<1>1. PICK kind \in Kinds : key = <<kind, 1>>
  <2>1. key \in Kinds \X (1..1)
    BY DEF SetKeys
  <2> QED BY <2>1
<1>2. Last(out)[k] \in ToSet(Last(out))
  BY DEF ToSet
<1>3. DecCurrent /\ Last(out)[k].ver = ver
  BY <1>2 DEF DecInv
<1>4. kind \notin oversize
  BY <1>1
<1> QED BY <1>1, <1>3, <1>4 DEF DecCurrent

\* The inductive invariant: partition, cache slots, buffers, and what is owed.
DeliveryInv == SplitInv /\ Slots(cache) /\ OutInv /\ LostInv

\* The same with the cache and the decoder.
StreamInv == DeliveryInv /\ CacheInv /\ DecInv

\* DeliveryInv holds whatever the camera delivers: any formats, slice types the
\* table lists, any number of picture parameter sets.
THEOREM DeliveriesAreKept ==
    ASSUME ListedSlices
    PROVE  Spec => []DeliveryInv
<1>1. Init => DeliveryInv
  BY SplitInit, SlotsInit, OutInit, LostInit DEF DeliveryInv
<1>2. DeliveryInv /\ [Next]_vars => DeliveryInv'
  BY SplitInvStep, SlotsStep, OutStep, LostStep DEF DeliveryInv
<1> QED
  BY <1>1, <1>2, PTL DEF Spec

\* split_access_units() makes one access unit of each picture, with delimiters
\* or without.
THEOREM PicturesAreCut ==
    ASSUME ListedSlices
    PROVE  Spec => []OneUnitPerPicture
<1>1. DeliveryInv => OneUnitPerPicture
  BY OneUnitPerPictureHolds DEF DeliveryInv
<1> QED
  BY <1>1, DeliveriesAreKept, PTL

\* No buffer of frame_callback() has anything in front of a delimiter, the sets
\* it puts back included.
THEOREM DelimitersLead ==
    ASSUME ListedSlices
    PROVE  Spec => []DelimiterLeads
<1>1. DeliveryInv => DelimiterLeads
  BY DEF DeliveryInv, OutInv
<1> QED
  BY <1>1, DeliveriesAreKept, PTL

\* frame_callback() pushes every unit it owes once and in order.
THEOREM NothingIsLost ==
    ASSUME ListedSlices
    PROVE  Spec => []NothingLost
<1>1. DeliveryInv => NothingLost
  BY NothingLostHolds DEF DeliveryInv
<1> QED
  BY <1>1, DeliveriesAreKept, PTL

\* StreamInv holds for a camera with one picture parameter set.
THEOREM StreamIsKept ==
    ASSUME ListedSlices, PpsCount = 1
    PROVE  Spec => []StreamInv
<1>1. Init => StreamInv
  BY SplitInit, SlotsInit, OutInit, LostInit, StreamInit
  DEF DeliveryInv, StreamInv
<1>2. StreamInv /\ [Next]_vars => StreamInv'
  BY SplitInvStep, SlotsStep, OutStep, LostStep, StreamStep
  DEF DeliveryInv, StreamInv
<1> QED
  BY <1>1, <1>2, PTL DEF Spec

\* A decoder that reaches a key slice has the sets in force, unless a flush
\* took the buffer that carried them and none has been due since.
\* PpsCount = 1 is needed: the cache keeps one set of a kind, and AuTwoPps.cfg
\* shows a second one missing.
THEOREM DecodersHaveSets ==
    ASSUME ListedSlices, PpsCount = 1
    PROVE  Spec => []DecoderHasSets
<1>1. StreamInv => DecoderHasSets
  BY DecoderHasSetsHolds DEF DeliveryInv, StreamInv
<1> QED
  BY <1>1, StreamIsKept, PTL
=============================================================================

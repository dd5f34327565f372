------------------------- MODULE ProbeReplayProofs -------------------------
(***************************************************************************)
(* Theorems about ProbeReplay: what a scan reads from a stream of any      *)
(* length, what a hash says of a conversation of any length, and what      *)
(* follows for the samples and the requests answered with them.            *)
(***************************************************************************)
EXTENDS ProbeReplay, SequenceTheorems, WellFoundedInduction, TLAPS

-----------------------------------------------------------------------------
(* Induction.  The principle is stated for a set of numbers: the set is the *)
(* property, and no operator has to be instantiated.                        *)

Less == {ss \in Nat \X Nat : ss[1] < ss[2]}

LEMMA LessWellFounded == IsWellFoundedOn(Less, Nat)
  BY NatLessThanWellFounded, Zenon DEF OpToRel, Less

LEMMA Least ==
    ASSUME NEW T \in SUBSET Nat, T # {}
    PROVE  \E x \in T : \A y \in T : ~(y < x)
  <1>1. PICK x \in T : \A y \in T : <<y, x>> \notin Less
    BY LessWellFounded, WFMin, Zenon
  <1>2. ASSUME NEW y \in T, y < x PROVE FALSE
    <2>1. <<y, x>> \in Less
      BY <1>2 DEF Less
    <2> QED BY <2>1, <1>1
  <1> QED BY <1>2

LEMMA Induction ==
    ASSUME NEW T, 0 \in T, \A n \in Nat : n \in T => n + 1 \in T
    PROVE  \A n \in Nat : n \in T
  <1> SUFFICES ASSUME NEW m \in Nat, m \notin T PROVE FALSE
    OBVIOUS
  <1> DEFINE Rest == {n \in Nat : n \notin T}
  <1>1. PICK x \in Rest : \A y \in Rest : ~(y < x)
    <2>1. Rest \in SUBSET Nat /\ Rest # {}
      OBVIOUS
    <2> HIDE DEF Rest
    <2> QED BY <2>1, Least
  <1>2. x \in Nat /\ x # 0
    OBVIOUS
  <1>3. x - 1 \in Nat /\ x - 1 < x
    BY <1>2
  <1>4. x - 1 \in T
    BY <1>1, <1>3
  <1>5. (x - 1) + 1 \in T
    BY <1>3, <1>4
  <1> QED BY <1>2, <1>5

-----------------------------------------------------------------------------
(* Sequences                                                                *)

IsConcat(z, s, t) ==
    /\ Len(z) = Len(s) + Len(t)
    /\ \A i \in 1..Len(s) : z[i] = s[i]
    /\ \A i \in 1..Len(t) : z[Len(s) + i] = t[i]

LEMMA ConcatParts ==
    ASSUME NEW S, NEW s \in Seq(S), NEW t \in Seq(S)
    PROVE  s \o t \in Seq(S) /\ IsConcat(s \o t, s, t)
  <1> DEFINE z == s \o t
  <1>1. Len(s) \in Nat /\ Len(t) \in Nat
    BY LenProperties
  <1>2. /\ z \in Seq(S) /\ Len(z) = Len(s) + Len(t)
        /\ \A i \in 1..Len(s) + Len(t) : z[i] = IF i <= Len(s) THEN s[i] ELSE t[i - Len(s)]
    BY ConcatProperties
  <1> HIDE DEF z
  <1>3. \A i \in 1..Len(s) : z[i] = s[i]
    BY <1>1, <1>2
  <1>4. ASSUME NEW i \in 1..Len(t) PROVE z[Len(s) + i] = t[i]
    <2>1. /\ Len(s) + i \in 1..Len(s) + Len(t) /\ ~(Len(s) + i <= Len(s))
          /\ (Len(s) + i) - Len(s) = i
      BY <1>1
    <2> QED BY <1>2, <2>1
  <1> QED BY <1>2, <1>3, <1>4 DEF z, IsConcat

-----------------------------------------------------------------------------
(* Joined texts                                                             *)

IsFlat(f, p, n) ==
    f = [i \in 1..n |-> IF i = 1 THEN p[i] ELSE f[i - 1] \o p[i]]

Agree(f, g, n) == \A i \in 1..n : f[i] = g[i]

LEMMA FlatFirst ==
    ASSUME NEW p, NEW n \in Nat, n # 0, NEW f, IsFlat(f, p, n)
    PROVE  f[1] = p[1]
  <1>1. 1 \in 1..n
    OBVIOUS
  <1> QED BY <1>1, Zenon DEF IsFlat

LEMMA FlatNext ==
    ASSUME NEW p, NEW n \in Nat, NEW f, IsFlat(f, p, n)
    PROVE  \A i \in 1..n - 1 : f[i + 1] = f[i] \o p[i + 1]
  <1> TAKE i \in 1..n - 1
  <1>1. i + 1 \in 1..n /\ i + 1 # 1 /\ (i + 1) - 1 = i
    OBVIOUS
  <1>2. f[i + 1] = IF i + 1 = 1 THEN p[i + 1] ELSE f[(i + 1) - 1] \o p[i + 1]
    BY <1>1, Zenon DEF IsFlat
  <1> QED BY <1>1, <1>2

LEMMA FlatExists ==
    ASSUME NEW p
    PROVE  \A n \in Nat : \E f : IsFlat(f, p, n)
  <1> DEFINE T == {n \in Nat : \E f : IsFlat(f, p, n)}
  <1>1. 0 \in T
    <2> DEFINE f == [i \in 1..0 |-> IF i = 1 THEN p[i] ELSE p[i]]
    <2>1. \A i \in 1..0 : FALSE
      OBVIOUS
    <2>2. IsFlat(f, p, 0)
      BY <2>1, Zenon DEF IsFlat
    <2> HIDE DEF f
    <2> QED BY <2>2
  <1>2. ASSUME NEW n \in Nat, n \in T PROVE n + 1 \in T
    <2>1. PICK f : IsFlat(f, p, n)
      BY <1>2
    <2> DEFINE g == [i \in 1..n + 1 |->
                       IF i = 1 THEN p[i] ELSE IF i <= n THEN f[i] ELSE f[i - 1] \o p[i]]
    <2>2. ASSUME NEW i \in 1..n + 1
          PROVE  g[i] = IF i = 1 THEN p[i] ELSE g[i - 1] \o p[i]
      <3>1. CASE i = 1
        BY <3>1
      <3>2. CASE i # 1
        <4>1. i - 1 \in 1..n /\ i - 1 \in 1..n + 1 /\ i - 1 <= n /\ n # 0
          BY <3>2
        <4>2. g[i - 1] = f[i - 1]
          <5>1. CASE i - 1 = 1
            <6>1. g[i - 1] = p[i - 1]
              BY <5>1, <4>1
            <6>2. f[1] = p[1]
              BY <2>1, <4>1, FlatFirst
            <6> QED BY <5>1, <6>1, <6>2
          <5>2. CASE i - 1 # 1
            BY <5>2, <4>1
          <5> QED BY <5>1, <5>2
        <4>3. g[i] = f[i - 1] \o p[i]
          <5>1. CASE i <= n
            <6>1. i - 1 \in 1..n - 1 /\ (i - 1) + 1 = i
              BY <4>1, <5>1
            <6>2. \A j \in 1..n - 1 : f[j + 1] = f[j] \o p[j + 1]
              BY <2>1, FlatNext, Zenon
            <6>3. g[i] = f[i]
              BY <3>2, <5>1
            <6> QED BY <6>1, <6>2, <6>3
          <5>2. CASE ~(i <= n)
            BY <3>2, <5>2
          <5> QED BY <5>1, <5>2
        <4> HIDE DEF g
        <4> QED BY <3>2, <4>2, <4>3
      <3> QED BY <3>1, <3>2
    <2>3. g = [i \in 1..n + 1 |-> g[i]]
      OBVIOUS
    <2> HIDE DEF g
    <2>4. IsFlat(g, p, n + 1)
      BY <2>2, <2>3, Zenon DEF IsFlat
    <2> QED BY <2>4
  <1> HIDE DEF T
  <1>3. \A n \in Nat : n \in T
    BY <1>1, <1>2, Induction
  <1> QED BY <1>3 DEF T

\* Flattening looks at no part twice.
LEMMA FlatUnique ==
    ASSUME NEW p, NEW q, NEW m \in Nat, NEW k \in Nat, k <= m,
           Agree(p, q, k), NEW f, IsFlat(f, p, k), NEW g, IsFlat(g, q, m)
    PROVE  Agree(f, g, k)
  <1>1. \A i \in 1..k - 1 : f[i + 1] = f[i] \o p[i + 1]
    BY FlatNext, Zenon
  <1>2. \A i \in 1..m - 1 : g[i + 1] = g[i] \o q[i + 1]
    BY FlatNext, Zenon
  <1> DEFINE T == {n \in Nat : n \in 1..k => f[n] = g[n]}
  <1>3. 0 \in T
    OBVIOUS
  <1>4. ASSUME NEW n \in Nat, n \in T PROVE n + 1 \in T
    <2> SUFFICES ASSUME n + 1 \in 1..k PROVE f[n + 1] = g[n + 1]
      OBVIOUS
    <2>1. p[n + 1] = q[n + 1]
      BY DEF Agree
    <2>2. CASE n = 0
      <3>1. k # 0 /\ m # 0 /\ n + 1 = 1
        BY <2>2
      <3> QED BY <2>1, <3>1, FlatFirst
    <2>3. CASE n # 0
      <3>1. n \in 1..k - 1 /\ n \in 1..m - 1 /\ f[n] = g[n]
        BY <1>4, <2>3
      <3>2. f[n + 1] = f[n] \o p[n + 1]
        BY <3>1, <1>1, Zenon
      <3>3. g[n + 1] = g[n] \o q[n + 1]
        BY <3>1, <1>2, Zenon
      <3> QED BY <2>1, <3>1, <3>2, <3>3, Zenon
    <2> QED BY <2>2, <2>3
  <1> HIDE DEF T
  <1>5. \A n \in Nat : n \in T
    BY <1>3, <1>4, Induction
  <1> QED BY <1>5 DEF T, Agree

LEMMA JoinedIsFlat ==
    ASSUME NEW S, NEW p \in Seq(S), p # <<>>
    PROVE  \E f : IsFlat(f, p, Len(p)) /\ Joined(p) = f[Len(p)]
  <1>1. Len(p) \in Nat /\ Len(p) # 0
    BY EmptySeq
  <1> DEFINE f == CHOOSE h : IsFlat(h, p, Len(p))
  <1>2. IsFlat(f, p, Len(p))
    BY <1>1, FlatExists, Zenon
  <1>3. Joined(p) = f[Len(p)]
    BY <1>1, Zenon DEF Joined, FlattenSeq, IsFlat
  <1> QED BY <1>2, <1>3

LEMMA JoinedNothing == Joined(<<>>) = <<>>
  BY DEF Joined, FlattenSeq

LEMMA JoinedOne ==
    ASSUME NEW t
    PROVE  Joined(<<t>>) = t
  <1>1. <<t>> \in Seq({t}) /\ <<t>> # <<>> /\ Len(<<t>>) = 1 /\ <<t>>[1] = t
    OBVIOUS
  <1>2. PICK f : IsFlat(f, <<t>>, 1) /\ Joined(<<t>>) = f[1]
    BY <1>1, JoinedIsFlat
  <1> QED BY <1>1, <1>2 DEF IsFlat

LEMMA JoinedAppend ==
    ASSUME NEW S, NEW p \in Seq(Seq(S)), NEW t \in Seq(S)
    PROVE  Joined(Append(p, t)) = Joined(p) \o t
  <1> DEFINE q == Append(p, t)
  <1>1. /\ q \in Seq(Seq(S)) /\ q # <<>>
        /\ Len(q) = Len(p) + 1 /\ Len(p) \in Nat
        /\ \A i \in 1..Len(p) : q[i] = p[i]
        /\ q[Len(p) + 1] = t
    BY AppendProperties, LenProperties
  <1> HIDE DEF q
  <1>2. PICK g : IsFlat(g, q, Len(p) + 1) /\ Joined(q) = g[Len(p) + 1]
    BY <1>1, JoinedIsFlat
  <1>3. CASE p = <<>>
    <2>1. Len(p) = 0
      BY <1>3
    <2>2. g[1] = t
      <3>1. IsFlat(g, q, 1) /\ q[1] = t
        BY <1>1, <1>2, <2>1
      <3> QED BY <3>1, FlatFirst
    <2>3. Joined(p) \o t = t
      BY <1>3, JoinedNothing, ConcatEmptySeq
    <2> QED BY <1>2, <2>1, <2>2, <2>3 DEF q
  <1>4. CASE p # <<>>
    <2>1. PICK f : IsFlat(f, p, Len(p)) /\ Joined(p) = f[Len(p)]
      BY <1>4, JoinedIsFlat
    <2>2. Len(p) \in Nat \ {0}
      BY <1>4, EmptySeq
    <2>3. f[Len(p)] = g[Len(p)]
      <3> DEFINE k == Len(p)
      <3> DEFINE m == Len(p) + 1
      <3>1. /\ k \in Nat /\ m \in Nat /\ k <= m /\ k \in 1..k
            /\ Agree(p, q, k) /\ IsFlat(f, p, k) /\ IsFlat(g, q, m)
        BY <1>1, <1>2, <2>1, <2>2 DEF Agree
      <3> HIDE DEF k, m
      <3>2. Agree(f, g, k)
        BY <3>1, FlatUnique
      <3>3. f[k] = g[k]
        BY <3>1, <3>2, Zenon DEF Agree
      <3> QED BY <3>3 DEF k
    <2>4. g[Len(p) + 1] = g[Len(p)] \o t
      <3> DEFINE m == Len(p) + 1
      <3>1. m \in Nat /\ Len(p) \in 1..m - 1 /\ IsFlat(g, q, m)
        BY <1>2, <2>2
      <3> HIDE DEF m
      <3>2. \A i \in 1..m - 1 : g[i + 1] = g[i] \o q[i + 1]
        BY <3>1, FlatNext, Zenon
      <3>3. g[Len(p) + 1] = g[Len(p)] \o q[Len(p) + 1]
        BY <3>1, <3>2, Zenon
      <3> QED BY <1>1, <3>3
    <2> QED BY <1>2, <2>1, <2>3, <2>4 DEF q
  <1> QED BY <1>3, <1>4

LEMMA JoinedText ==
    ASSUME NEW S
    PROVE  \A p \in Seq(Seq(S)) : Joined(p) \in Seq(S)
  <1> DEFINE T == {n \in Nat : \A p \in Seq(Seq(S)) : Len(p) = n => Joined(p) \in Seq(S)}
  <1>1. 0 \in T
    <2> SUFFICES ASSUME NEW p \in Seq(Seq(S)), Len(p) = 0 PROVE Joined(p) \in Seq(S)
      OBVIOUS
    <2>1. p = <<>>
      BY EmptySeq
    <2> QED BY <2>1, JoinedNothing, EmptySeq
  <1>2. ASSUME NEW n \in Nat, n \in T PROVE n + 1 \in T
    <2> SUFFICES ASSUME NEW p \in Seq(Seq(S)), Len(p) = n + 1 PROVE Joined(p) \in Seq(S)
      OBVIOUS
    <2>1. p # <<>>
      BY EmptySeq
    <2>2. PICK q \in Seq(Seq(S)), t \in Seq(S) : p = Append(q, t)
      BY <2>1, SequenceEmptyOrAppend
    <2>3. Len(q) = n
      BY <2>2, AppendProperties, LenProperties
    <2>4. Joined(q) \in Seq(S)
      BY <1>2, <2>3
    <2>5. Joined(p) = Joined(q) \o t
      BY <2>2, JoinedAppend
    <2> QED BY <2>4, <2>5, ConcatProperties
  <1> HIDE DEF T
  <1>3. \A n \in Nat : n \in T
    BY <1>1, <1>2, Induction
  <1> QED BY <1>3, LenProperties DEF T

LEMMA JoinedSilence ==
    ASSUME NEW S
    PROVE  \A p \in Seq(Seq(S)) : (\A i \in 1..Len(p) : p[i] = <<>>) => Joined(p) = <<>>
  <1> DEFINE Silent(p) == \A i \in 1..Len(p) : p[i] = <<>>
  <1> DEFINE T == {n \in Nat :
                     \A p \in Seq(Seq(S)) : Len(p) = n /\ Silent(p) => Joined(p) = <<>>}
  <1>1. 0 \in T
    <2> SUFFICES ASSUME NEW p \in Seq(Seq(S)), Len(p) = 0 PROVE Joined(p) = <<>>
      OBVIOUS
    <2>1. p = <<>>
      BY EmptySeq
    <2> QED BY <2>1, JoinedNothing
  <1>2. ASSUME NEW n \in Nat, n \in T PROVE n + 1 \in T
    <2> SUFFICES ASSUME NEW p \in Seq(Seq(S)), Len(p) = n + 1, Silent(p)
                 PROVE  Joined(p) = <<>>
      OBVIOUS
    <2>1. p # <<>>
      BY EmptySeq
    <2>2. PICK q \in Seq(Seq(S)), t \in Seq(S) : p = Append(q, t)
      BY <2>1, SequenceEmptyOrAppend
    <2>3. Len(q) = n /\ (\A i \in 1..n : p[i] = q[i]) /\ p[n + 1] = t
      BY <2>2, AppendProperties, LenProperties
    <2>4. Silent(q) /\ t = <<>>
      BY <2>3
    <2>5. Joined(q) = <<>>
      BY <1>2, <2>3, <2>4
    <2>6. Joined(p) = Joined(q) \o t
      BY <2>2, JoinedAppend
    <2> QED BY <2>4, <2>5, <2>6, ConcatEmptySeq
  <1> HIDE DEF T
  <1>3. \A n \in Nat : n \in T
    BY <1>1, <1>2, Induction
  <1> QED BY <1>3, LenProperties DEF T

\* Of parts that are all empty but one, that one is the whole.
LEMMA JoinedSingle ==
    ASSUME NEW S
    PROVE  \A p \in Seq(Seq(S)) : \A k \in 1..Len(p) :
             (\A i \in 1..Len(p) : i # k => p[i] = <<>>) => Joined(p) = p[k]
  <1> DEFINE Single(p, k) == \A i \in 1..Len(p) : i # k => p[i] = <<>>
  <1> DEFINE T == {n \in Nat : \A p \in Seq(Seq(S)) : \A k \in 1..Len(p) :
                     Len(p) = n /\ Single(p, k) => Joined(p) = p[k]}
  <1>1. 0 \in T
    OBVIOUS
  <1>2. ASSUME NEW n \in Nat, n \in T PROVE n + 1 \in T
    <2> SUFFICES ASSUME NEW p \in Seq(Seq(S)), NEW k \in 1..Len(p), Len(p) = n + 1,
                        Single(p, k)
                 PROVE  Joined(p) = p[k]
      OBVIOUS
    <2>1. p # <<>>
      BY EmptySeq
    <2>2. PICK q \in Seq(Seq(S)), t \in Seq(S) : p = Append(q, t)
      BY <2>1, SequenceEmptyOrAppend
    <2>3. Len(q) = n /\ (\A i \in 1..n : p[i] = q[i]) /\ p[n + 1] = t
      BY <2>2, AppendProperties, LenProperties
    <2>4. Joined(p) = Joined(q) \o t
      BY <2>2, JoinedAppend
    <2>5. CASE k = n + 1
      <3>1. ASSUME NEW i \in 1..Len(q) PROVE q[i] = <<>>
        <4>1. i \in 1..n /\ i \in 1..Len(p) /\ i # k
          BY <2>3, <2>5
        <4> QED BY <2>3, <4>1, Zenon
      <3>2. Joined(q) = <<>>
        BY <3>1, JoinedSilence
      <3>3. <<>> \o t = t
        BY ConcatEmptySeq
      <3> QED BY <2>3, <2>4, <2>5, <3>2, <3>3
    <2>6. CASE k # n + 1
      <3>1. k \in 1..Len(q) /\ n + 1 \in 1..Len(p) /\ n + 1 # k
        BY <2>3, <2>6
      <3>5. t = <<>>
        BY <2>3, <3>1, Zenon
      <3>6. ASSUME NEW i \in 1..Len(q), i # k PROVE q[i] = <<>>
        <4>1. i \in 1..n /\ i \in 1..Len(p)
          BY <2>3
        <4> QED BY <2>3, <3>6, <4>1, Zenon
      <3>2. Joined(q) = q[k]
        BY <1>2, <2>3, <3>1, <3>6
      <3>3. q[k] \in Seq(S)
        BY <3>1, ElementOfSeq
      <3>4. q[k] \o <<>> = q[k]
        BY <3>3, ConcatEmptySeq
      <3> QED BY <2>3, <2>4, <3>1, <3>2, <3>4, <3>5
    <2> QED BY <2>5, <2>6
  <1> HIDE DEF T
  <1>3. \A n \in Nat : n \in T
    BY <1>1, <1>2, Induction
  <1> QED BY <1>3, LenProperties DEF T

-----------------------------------------------------------------------------
(* What a hash says of a conversation                                       *)

Bar == Char("|")

WithBar(S) == S \cup {Bar}

Behind(t) == <<Bar>> \o t

\* The parts, each behind a separator.
Marked(p) == [n \in DOMAIN p |-> Behind(p[n])]

LEMMA BehindText ==
    ASSUME NEW S, NEW t \in Seq(S)
    PROVE  /\ Behind(t) \in Seq(WithBar(S))
           /\ Behind(t) # <<>>
           /\ Len(Behind(t)) = 1 + Len(t)
           /\ Behind(t)[1] = Bar
           /\ \A i \in 1..Len(t) : Behind(t)[1 + i] = t[i]
  <1> DEFINE B == WithBar(S)
  <1>1. t \in Seq(B) /\ <<Bar>> \in Seq(B) /\ Len(<<Bar>>) = 1 /\ <<Bar>>[1] = Bar
    BY SeqMonotonic DEF WithBar
  <1> HIDE DEF B
  <1>2. Behind(t) \in Seq(B) /\ IsConcat(Behind(t), <<Bar>>, t)
    BY <1>1, ConcatParts DEF Behind
  <1>3. Len(t) \in Nat
    BY LenProperties
  <1>4. /\ Len(Behind(t)) = 1 + Len(t)
        /\ Behind(t)[1] = Bar
        /\ \A i \in 1..Len(t) : Behind(t)[1 + i] = t[i]
    BY <1>1, <1>2, <1>3 DEF IsConcat
  <1>5. Behind(t) # <<>>
    BY <1>3, <1>4
  <1> QED BY <1>2, <1>4, <1>5 DEF B

LEMMA MarkedText ==
    ASSUME NEW S, NEW p \in Seq(Seq(S))
    PROVE  /\ Marked(p) \in Seq(Seq(WithBar(S)))
           /\ Len(Marked(p)) = Len(p)
           /\ \A n \in 1..Len(p) : Marked(p)[n] = Behind(p[n])
  <1> DEFINE B == WithBar(S)
  <1>1. Len(p) \in Nat /\ DOMAIN p = 1..Len(p)
    BY LenProperties
  <1>2. \A n \in 1..Len(p) : Behind(p[n]) \in Seq(B)
    <2> TAKE n \in 1..Len(p)
    <2>1. p[n] \in Seq(S)
      BY ElementOfSeq
    <2> QED BY <2>1, BehindText
  <1>3. Marked(p) = [n \in 1..Len(p) |-> Behind(p[n])]
    BY <1>1, Zenon DEF Marked
  <1> HIDE DEF B
  <1>4. Marked(p) \in [1..Len(p) -> Seq(B)]
    BY <1>2, <1>3
  <1>5. Marked(p) \in Seq(Seq(B)) /\ Len(Marked(p)) = Len(p)
    BY <1>1, <1>4
  <1> QED BY <1>3, <1>5 DEF B

LEMMA MarkedAppend ==
    ASSUME NEW S, NEW p \in Seq(Seq(S)), NEW t \in Seq(S)
    PROVE  Marked(Append(p, t)) = Append(Marked(p), Behind(t))
  <1> DEFINE B == WithBar(S)
  <1> DEFINE q == Append(p, t)
  <1> DEFINE u == Behind(t)
  <1>1. /\ q \in Seq(Seq(S)) /\ Len(q) = Len(p) + 1 /\ Len(p) \in Nat
        /\ \A i \in 1..Len(p) : q[i] = p[i]
        /\ q[Len(p) + 1] = t
    BY AppendProperties, LenProperties
  <1>2. u \in Seq(B)
    BY BehindText
  <1>3. /\ Marked(p) \in Seq(Seq(B)) /\ Len(Marked(p)) = Len(p)
        /\ \A n \in 1..Len(p) : Marked(p)[n] = Behind(p[n])
    BY MarkedText
  <1>4. /\ Marked(q) \in Seq(Seq(B)) /\ Len(Marked(q)) = Len(q)
        /\ \A n \in 1..Len(q) : Marked(q)[n] = Behind(q[n])
    BY <1>1, MarkedText
  <1> HIDE DEF B, q
  <1>5. /\ Append(Marked(p), u) \in Seq(Seq(B))
        /\ Len(Append(Marked(p), u)) = Len(p) + 1
        /\ \A i \in 1..Len(p) : Append(Marked(p), u)[i] = Marked(p)[i]
        /\ Append(Marked(p), u)[Len(p) + 1] = u
    <2> HIDE DEF u
    <2> QED BY <1>2, <1>3, AppendProperties
  <1>6. \A n \in 1..Len(q) : Marked(q)[n] = Append(Marked(p), u)[n]
    <2> TAKE n \in 1..Len(q)
    <2>1. CASE n = Len(p) + 1
      <3>1. Marked(q)[n] = Behind(t)
        BY <1>1, <1>4, <2>1
      <3> QED BY <1>5, <2>1, <3>1
    <2>2. CASE n # Len(p) + 1
      <3>1. n \in 1..Len(p)
        BY <1>1, <2>2
      <3>2. Marked(q)[n] = Behind(p[n])
        BY <1>1, <1>4, <3>1
      <3> QED BY <1>3, <1>5, <3>1, <3>2
    <2> QED BY <2>1, <2>2
  <1> DEFINE v == Append(Marked(p), u)
  <1>7. v \in Seq(Seq(B)) /\ Len(v) = Len(p) + 1
    BY <1>5
  <1> HIDE DEF u, v
  <1>8. Len(Marked(q)) = Len(v) /\ \A i \in 1..Len(Marked(q)) : Marked(q)[i] = v[i]
    BY <1>1, <1>4, <1>6, <1>7 DEF v
  <1>9. Marked(q) = v
    BY <1>4, <1>7, <1>8, SeqEqual, Zenon
  <1> QED BY <1>9 DEF q, u, v

Splits(z, x, t) == z = x \o Behind(t)

\* The last separator tells where the last part begins.
LEMMA SplitLast ==
    ASSUME NEW S, Bar \notin S,
           NEW x \in Seq(WithBar(S)), NEW y \in Seq(WithBar(S)),
           NEW s \in Seq(S), NEW t \in Seq(S),
           NEW z, Splits(z, x, s), Splits(z, y, t)
    PROVE  x = y /\ s = t
  <1> DEFINE B == WithBar(S)
  <1> DEFINE u == Behind(s)
  <1> DEFINE v == Behind(t)
  <1>1. /\ u \in Seq(B) /\ Len(u) = 1 + Len(s) /\ u[1] = Bar
        /\ \A i \in 1..Len(s) : u[1 + i] = s[i]
    BY BehindText
  <1>2. /\ v \in Seq(B) /\ Len(v) = 1 + Len(t) /\ v[1] = Bar
        /\ \A i \in 1..Len(t) : v[1 + i] = t[i]
    BY BehindText
  <1>3. /\ Len(s) \in Nat /\ Len(t) \in Nat /\ Len(x) \in Nat /\ Len(y) \in Nat
        /\ \A i \in 1..Len(s) : s[i] # Bar
        /\ \A i \in 1..Len(t) : t[i] # Bar
    BY LenProperties, ElementOfSeq
  <1>4. x \in Seq(B) /\ y \in Seq(B) /\ z = x \o u /\ z = y \o v
    BY DEF Splits
  <1> HIDE DEF B, u, v
  <1>5. IsConcat(z, x, u)
    BY <1>1, <1>4, ConcatParts
  <1>6. IsConcat(z, y, v)
    BY <1>2, <1>4, ConcatParts
  <1>7. /\ z[Len(x) + 1] = Bar
        /\ \A i \in 1..Len(s) : z[Len(x) + (1 + i)] = s[i] /\ z[Len(x) + (1 + i)] # Bar
    <2>1. 1 \in 1..Len(u) /\ \A i \in 1..Len(s) : 1 + i \in 1..Len(u)
      BY <1>1, <1>3
    <2>2. \A i \in 1..Len(u) : z[Len(x) + i] = u[i]
      BY <1>5 DEF IsConcat
    <2>3. z[Len(x) + 1] = Bar
      BY <2>1, <2>2, <1>1, Zenon
    <2>4. ASSUME NEW i \in 1..Len(s)
          PROVE  z[Len(x) + (1 + i)] = s[i] /\ s[i] # Bar
      BY <2>1, <2>2, <1>1, <1>3, Zenon
    <2> QED BY <2>3, <2>4, Zenon
  <1>8. /\ z[Len(y) + 1] = Bar
        /\ \A i \in 1..Len(t) : z[Len(y) + (1 + i)] = t[i] /\ z[Len(y) + (1 + i)] # Bar
    <2>1. 1 \in 1..Len(v) /\ \A i \in 1..Len(t) : 1 + i \in 1..Len(v)
      BY <1>2, <1>3
    <2>2. \A i \in 1..Len(v) : z[Len(y) + i] = v[i]
      BY <1>6 DEF IsConcat
    <2>3. z[Len(y) + 1] = Bar
      BY <2>1, <2>2, <1>2, Zenon
    <2>4. ASSUME NEW i \in 1..Len(t)
          PROVE  z[Len(y) + (1 + i)] = t[i] /\ t[i] # Bar
      BY <2>1, <2>2, <1>2, <1>3, Zenon
    <2> QED BY <2>3, <2>4, Zenon
  <1>9. Len(x) = Len(y)
    <2>1. ~(Len(x) < Len(y))
      <3> SUFFICES ASSUME Len(x) < Len(y) PROVE FALSE
        OBVIOUS
      <3> DEFINE i == Len(y) - Len(x)
      <3>1. i \in 1..Len(s) /\ Len(x) + (1 + i) = Len(y) + 1
        BY <1>1, <1>2, <1>3, <1>5, <1>6 DEF IsConcat
      <3> QED BY <3>1, <1>7, <1>8
    <2>2. ~(Len(y) < Len(x))
      <3> SUFFICES ASSUME Len(y) < Len(x) PROVE FALSE
        OBVIOUS
      <3> DEFINE i == Len(x) - Len(y)
      <3>1. i \in 1..Len(t) /\ Len(y) + (1 + i) = Len(x) + 1
        BY <1>1, <1>2, <1>3, <1>5, <1>6 DEF IsConcat
      <3> QED BY <3>1, <1>7, <1>8
    <2> QED BY <2>1, <2>2, <1>3
  <1>10. x = y
    <2>1. \A i \in 1..Len(x) : x[i] = y[i]
      BY <1>5, <1>6, <1>9 DEF IsConcat
    <2> QED BY <2>1, <1>4, <1>9, SeqEqual
  <1>11. s = t
    <2>1. Len(s) = Len(t)
      BY <1>1, <1>2, <1>3, <1>5, <1>6, <1>9 DEF IsConcat
    <2>2. \A i \in 1..Len(s) : s[i] = t[i]
      BY <2>1, <1>7, <1>8, <1>9, Zenon
    <2> QED BY <2>1, <2>2, SeqEqual
  <1> QED BY <1>10, <1>11

\* Parts joined behind separators can be told apart.
LEMMA MarkedInjective ==
    ASSUME NEW S, Bar \notin S
    PROVE  \A p, q \in Seq(Seq(S)) : Joined(Marked(p)) = Joined(Marked(q)) => p = q
  <1> DEFINE B == WithBar(S)
  <1> DEFINE Same(p, q) == Joined(Marked(p)) = Joined(Marked(q)) => p = q
  <1> DEFINE T == {n \in Nat : \A p, q \in Seq(Seq(S)) : Len(p) = n => Same(p, q)}
  <1>1. ASSUME NEW p \in Seq(Seq(S)), NEW t \in Seq(S)
        PROVE  /\ Joined(Marked(p)) \in Seq(B)
               /\ Joined(Marked(Append(p, t))) = Joined(Marked(p)) \o Behind(t)
               /\ Joined(Marked(Append(p, t))) # <<>>
    <2>1. Marked(p) \in Seq(Seq(B))
      BY MarkedText
    <2>3. Marked(Append(p, t)) = Append(Marked(p), Behind(t))
      BY MarkedAppend
    <2>4. Behind(t) \in Seq(B) /\ Behind(t) # <<>>
      BY BehindText
    <2> HIDE DEF B
    <2>5. Joined(Marked(p)) \in Seq(B)
      BY <2>1, JoinedText
    <2>6. Joined(Marked(Append(p, t))) = Joined(Marked(p)) \o Behind(t)
      BY <2>1, <2>3, <2>4, JoinedAppend
    <2> DEFINE u == Behind(t)
    <2>7. Joined(Marked(p)) \o u # <<>>
      <3> HIDE DEF u
      <3> QED BY <2>4, <2>5, ConcatEqualIffEmpty DEF u
    <2> QED BY <2>5, <2>6, <2>7
  <1>2. Joined(Marked(<<>>)) = <<>>
    <2>1. Marked(<<>>) = <<>>
      BY DEF Marked
    <2> QED BY <2>1, JoinedNothing
  <1>3. 0 \in T
    <2> SUFFICES ASSUME NEW p \in Seq(Seq(S)), NEW q \in Seq(Seq(S)), Len(p) = 0,
                        Joined(Marked(p)) = Joined(Marked(q))
                 PROVE  p = q
      OBVIOUS
    <2>1. p = <<>>
      BY EmptySeq
    <2>2. ASSUME q # <<>> PROVE FALSE
      <3>1. PICK r \in Seq(Seq(S)), t \in Seq(S) : q = Append(r, t)
        BY <2>2, SequenceEmptyOrAppend
      <3> QED BY <1>1, <1>2, <2>1, <3>1
    <2> QED BY <2>1, <2>2
  <1>4. ASSUME NEW n \in Nat, n \in T PROVE n + 1 \in T
    <2> SUFFICES ASSUME NEW p \in Seq(Seq(S)), NEW q \in Seq(Seq(S)), Len(p) = n + 1,
                        Joined(Marked(p)) = Joined(Marked(q))
                 PROVE  p = q
      OBVIOUS
    <2>1. p # <<>>
      BY EmptySeq
    <2>2. PICK pp \in Seq(Seq(S)), s \in Seq(S) : p = Append(pp, s)
      BY <2>1, SequenceEmptyOrAppend
    <2>3. Len(pp) = n
      BY <2>2, AppendProperties, LenProperties
    <2>4. q # <<>>
      BY <1>1, <1>2, <2>2
    <2>5. PICK qq \in Seq(Seq(S)), t \in Seq(S) : q = Append(qq, t)
      BY <2>4, SequenceEmptyOrAppend
    <2> DEFINE x == Joined(Marked(pp))
    <2> DEFINE y == Joined(Marked(qq))
    <2>6. x \in Seq(B) /\ Splits(Joined(Marked(p)), x, s)
      BY <1>1, <2>2 DEF Splits
    <2>7. y \in Seq(B) /\ Splits(Joined(Marked(p)), y, t)
      BY <1>1, <2>5 DEF Splits
    <2>8. x = y /\ s = t
      <3> HIDE DEF x, y
      <3> QED BY <2>6, <2>7, SplitLast, Zenon
    <2>9. pp = qq
      BY <1>4, <2>3, <2>8
    <2> QED BY <2>2, <2>5, <2>8, <2>9
  <1> HIDE DEF T
  <1>5. \A n \in Nat : n \in T
    BY <1>3, <1>4, Induction
  <1> QED BY <1>5, LenProperties DEF T

LEMMA FirstAndRest ==
    ASSUME NEW S, NEW c \in S, NEW d \in S, NEW x \in Seq(S), NEW y \in Seq(S),
           <<c>> \o x = <<d>> \o y
    PROVE  c = d /\ x = y
  <1>1. <<c>> \in Seq(S) /\ <<d>> \in Seq(S)
    OBVIOUS
  <1>2. IsConcat(<<c>> \o x, <<c>>, x) /\ IsConcat(<<c>> \o x, <<d>>, y)
    BY <1>1, ConcatParts
  <1>3. Len(<<c>>) = 1 /\ Len(<<d>>) = 1 /\ <<c>>[1] = c /\ <<d>>[1] = d
    OBVIOUS
  <1>4. Len(x) \in Nat /\ Len(y) \in Nat
    BY LenProperties
  <1> DEFINE z == <<c>> \o x
  <1> HIDE DEF z
  <1>5. IsConcat(z, <<c>>, x) /\ IsConcat(z, <<d>>, y)
    BY <1>2 DEF z
  <1>6. c = d
    BY <1>3, <1>5 DEF IsConcat
  <1>7. Len(x) = Len(y) /\ \A i \in 1..Len(x) : x[i] = y[i]
    BY <1>3, <1>4, <1>5 DEF IsConcat
  <1>8. x = y
    BY <1>7, SeqEqual
  <1> QED BY <1>6, <1>8

\* What stands before the first "c" of a sequence, and what behind it.
LEMMA SplitFirst ==
    ASSUME NEW S, NEW c \in S,
           NEW r \in Seq(S), NEW q \in Seq(S), NEW x \in Seq(S), NEW y \in Seq(S),
           c \notin Range(r), c \notin Range(q),
           (r \o <<c>>) \o x = (q \o <<c>>) \o y
    PROVE  r = q /\ x = y
  <1> DEFINE one == <<c>>
  <1>1. one \in Seq(S) /\ Len(one) = 1 /\ one[1] = c
    OBVIOUS
  <1> HIDE DEF one
  <1> DEFINE u == r \o one
  <1> DEFINE v == q \o one
  <1>2. u \in Seq(S) /\ IsConcat(u, r, one) /\ v \in Seq(S) /\ IsConcat(v, q, one)
    BY <1>1, ConcatParts
  <1> DEFINE z == u \o x
  <1>3. z = v \o y
    BY DEF one
  <1> HIDE DEF u, v
  <1>4. IsConcat(z, u, x) /\ IsConcat(z, v, y)
    BY <1>2, <1>3, ConcatParts
  <1> HIDE DEF z
  <1>5. Len(r) \in Nat /\ Len(q) \in Nat /\ Len(x) \in Nat /\ Len(y) \in Nat
    BY LenProperties
  <1>6. Len(u) = Len(r) + 1 /\ Len(v) = Len(q) + 1
    BY <1>1, <1>2 DEF IsConcat
  <1>7. z[Len(r) + 1] = c /\ \A i \in 1..Len(r) : z[i] = r[i] /\ z[i] # c
    <2>1. u[Len(r) + 1] = c /\ \A i \in 1..Len(r) : u[i] = r[i]
      BY <1>1, <1>2 DEF IsConcat
    <2>2. Len(r) + 1 \in 1..Len(u) /\ \A i \in 1..Len(r) : i \in 1..Len(u)
      BY <1>5, <1>6
    <2>3. \A i \in 1..Len(u) : z[i] = u[i]
      BY <1>4 DEF IsConcat
    <2>4. \A i \in 1..Len(r) : r[i] \in Range(r)
      BY LenProperties DEF Range
    <2>5. ASSUME NEW i \in 1..Len(r) PROVE z[i] = r[i] /\ z[i] # c
      BY <2>1, <2>2, <2>3, <2>4, Zenon
    <2> QED BY <2>1, <2>2, <2>3, <2>5, Zenon
  <1>8. z[Len(q) + 1] = c /\ \A i \in 1..Len(q) : z[i] = q[i] /\ z[i] # c
    <2>1. v[Len(q) + 1] = c /\ \A i \in 1..Len(q) : v[i] = q[i]
      BY <1>1, <1>2 DEF IsConcat
    <2>2. Len(q) + 1 \in 1..Len(v) /\ \A i \in 1..Len(q) : i \in 1..Len(v)
      BY <1>5, <1>6
    <2>3. \A i \in 1..Len(v) : z[i] = v[i]
      BY <1>4 DEF IsConcat
    <2>4. \A i \in 1..Len(q) : q[i] \in Range(q)
      BY LenProperties DEF Range
    <2>5. ASSUME NEW i \in 1..Len(q) PROVE z[i] = q[i] /\ z[i] # c
      BY <2>1, <2>2, <2>3, <2>4, Zenon
    <2> QED BY <2>1, <2>2, <2>3, <2>5, Zenon
  <1>9. Len(r) = Len(q)
    <2>1. ~(Len(r) < Len(q))
      <3> SUFFICES ASSUME Len(r) < Len(q) PROVE FALSE
        OBVIOUS
      <3>1. Len(r) + 1 \in 1..Len(q)
        BY <1>5
      <3> QED BY <3>1, <1>7, <1>8
    <2>2. ~(Len(q) < Len(r))
      <3> SUFFICES ASSUME Len(q) < Len(r) PROVE FALSE
        OBVIOUS
      <3>1. Len(q) + 1 \in 1..Len(r)
        BY <1>5
      <3> QED BY <3>1, <1>7, <1>8
    <2> QED BY <2>1, <2>2, <1>5
  <1>10. r = q
    <2>1. \A i \in 1..Len(r) : r[i] = q[i]
      BY <1>7, <1>8, <1>9
    <2> QED BY <2>1, <1>9, SeqEqual
  <1>11. x = y
    <2>1. Len(x) = Len(y)
      BY <1>4, <1>5, <1>6, <1>9 DEF IsConcat
    <2>2. \A i \in 1..Len(x) : x[i] = y[i]
      BY <2>1, <1>4, <1>6, <1>9 DEF IsConcat
    <2> QED BY <2>1, <2>2, SeqEqual
  <1> QED BY <1>10, <1>11

Prompts(b) == [n \in DOMAIN b.messages |-> Prompt(b.messages[n])]

\* The tokens of a body's messages.
RoleLetters(b) == UNION {Range(m.role) : m \in Range(b.messages)}

ContentLetters(b) ==
    UNION {UNION {Range(part.text) : part \in Range(m.content)} : m \in Range(b.messages)}

Letters(b) == {Char(":")} \cup RoleLetters(b) \cup ContentLetters(b)

LEMMA ContentText ==
    ASSUME NEW b, WellFormed(b), NEW S, Letters(b) \subseteq S, NEW n \in DOMAIN b.messages
    PROVE  ContentString(b.messages[n].content) \in Seq(S)
  <1> DEFINE m == b.messages[n]
  <1> DEFINE c == m.content
  <1>1. m \in Range(b.messages)
    BY DEF Range
  <1>2. c \in Seq(Range(c)) /\ \A part \in Range(c) : part.text \in Seq(Range(part.text))
    BY <1>1, Zenon DEF WellFormed, IsSeq
  <1>3. ASSUME NEW part \in Range(c) PROVE Range(part.text) \subseteq S
    <2> DEFINE U(mm) == UNION {Range(part1.text) : part1 \in Range(mm.content)}
    <2>1. Range(part.text) \subseteq U(m)
      OBVIOUS
    <2>2. U(m) \subseteq UNION {U(mm) : mm \in Range(b.messages)}
      <3> HIDE DEF U, m
      <3> QED BY <1>1
    <2>3. UNION {U(mm) : mm \in Range(b.messages)} = ContentLetters(b)
      BY Zenon DEF ContentLetters
    <2>4. ContentLetters(b) \subseteq S
      BY DEF Letters
    <2> HIDE DEF U, m
    <2> QED BY <2>1, <2>2, <2>3, <2>4
  <1> HIDE DEF m, c
  <1>4. \A k \in DOMAIN c : c[k] \in Range(c)
    BY DEF Range
  <1>5. ASSUME NEW k \in DOMAIN c PROVE c[k].text \in Seq(S)
    <2> DEFINE t == c[k].text
    <2>1. t \in Seq(Range(t)) /\ Range(t) \subseteq S
      BY <1>2, <1>3, <1>4, Zenon
    <2> HIDE DEF t
    <2> QED BY <2>1, SeqMonotonic DEF t
  <1>6. Len(c) \in Nat /\ DOMAIN c = 1..Len(c)
    BY <1>2, LenProperties
  <1> DEFINE p == [k \in DOMAIN c |-> c[k].text]
  <1>7. p \in [1..Len(c) -> Seq(S)]
    BY <1>5, <1>6
  <1>8. p \in Seq(Seq(S))
    <2> HIDE DEF p
    <2> QED BY <1>6, <1>7
  <1>9. ContentString(c) = Joined(p)
    BY Zenon DEF ContentString
  <1> HIDE DEF p
  <1> QED BY <1>8, <1>9, JoinedText DEF m, c

LEMMA RoleText ==
    ASSUME NEW b, WellFormed(b), NEW S, Letters(b) \subseteq S, NEW n \in DOMAIN b.messages
    PROVE  b.messages[n].role \in Seq(S) /\ Char(":") \in S
  <1> DEFINE m == b.messages[n]
  <1>1. m \in Range(b.messages)
    BY DEF Range
  <1> DEFINE r == m.role
  <1>2. r \in Seq(Range(r))
    BY <1>1, Zenon DEF WellFormed, IsSeq
  <1>3. Char(":") \in S /\ RoleLetters(b) \subseteq S
    BY DEF Letters
  <1>4. Range(r) \subseteq S
    BY <1>1, <1>3 DEF RoleLetters
  <1> HIDE DEF r
  <1> QED BY <1>2, <1>3, <1>4, SeqMonotonic DEF r

LEMMA PromptText ==
    ASSUME NEW b, WellFormed(b), NEW S, Letters(b) \subseteq S
    PROVE  Prompts(b) \in Seq(Seq(S)) /\ DOMAIN Prompts(b) = DOMAIN b.messages
  <1>1. ASSUME NEW n \in DOMAIN b.messages PROVE Prompt(b.messages[n]) \in Seq(S)
    <2> DEFINE m == b.messages[n]
    <2>1. m \in Range(b.messages)
      BY DEF Range
    <2>2. m.role \in Seq(S) /\ Char(":") \in S
      BY RoleText
    <2>3. ContentString(m.content) \in Seq(S)
      BY ContentText
    <2> DEFINE r == m.role
    <2> DEFINE colon == Char(":")
    <2> DEFINE t == ContentString(m.content)
    <2>4. Prompt(m) = (r \o <<colon>>) \o t
      BY Zenon DEF Prompt
    <2>5. r \in Seq(S) /\ colon \in S /\ t \in Seq(S)
      BY <2>2, <2>3
    <2> HIDE DEF r, colon, t, m
    <2>6. <<colon>> \in Seq(S)
      BY <2>5
    <2>7. (r \o <<colon>>) \o t \in Seq(S)
      BY <2>5, <2>6, ConcatProperties
    <2> QED BY <2>4, <2>7 DEF m
  <1>2. Len(b.messages) \in Nat /\ DOMAIN b.messages = 1..Len(b.messages)
    BY LenProperties DEF WellFormed, IsSeq
  <1>3. Prompts(b) \in [1..Len(b.messages) -> Seq(S)]
    BY <1>1, <1>2 DEF Prompts
  <1>4. Prompts(b) \in Seq(Seq(S))
    BY <1>2, <1>3
  <1> QED BY <1>4 DEF Prompts

LEMMA HashOfPrompts ==
    ASSUME NEW b
    PROVE  InputHash(b) = <<Char(b.model)>> \o Joined(Marked(Prompts(b)))
  <1>1. DOMAIN Prompts(b) = DOMAIN b.messages
    BY DEF Prompts
  <1>2. \A n \in DOMAIN b.messages : Prompts(b)[n] = Prompt(b.messages[n])
    BY DEF Prompts
  <1>3. Marked(Prompts(b))
        = [n \in DOMAIN b.messages |-> <<Char("|")>> \o Prompt(b.messages[n])]
    BY <1>1, <1>2, Zenon DEF Marked, Behind, Bar
  <1> QED BY <1>3, Zenon DEF InputHash

LEMMA NoSeparator ==
    ASSUME NEW b, TextBody(b)
    PROVE  Bar \notin Letters(b)
  <1>1. \A m \in Range(b.messages) :
          Bar \notin Range(m.role) /\ \A part \in Range(m.content) : Bar \notin Range(part.text)
    <2> TAKE m \in Range(b.messages)
    <2>1. {Char(":"), Bar} \cap Range(m.role) = {}
      BY Zenon DEF TextBody, Bar
    <2>2. \A part \in Range(m.content) : Bar \notin Range(part.text)
      BY Zenon DEF TextBody, Bar
    <2> QED BY <2>1, <2>2
  <1>2. Char(":") # Bar
    BY DEF Char, Bar
  <1> HIDE DEF Bar
  <1> DEFINE U(m) == UNION {Range(part.text) : part \in Range(m.content)}
  <1>3. \A m \in Range(b.messages) : Bar \notin U(m)
    BY <1>1
  <1>4. Bar \notin RoleLetters(b)
    BY <1>1 DEF RoleLetters
  <1>5. ContentLetters(b) = UNION {U(m) : m \in Range(b.messages)}
    BY Zenon DEF ContentLetters
  <1> HIDE DEF U
  <1>6. Bar \notin ContentLetters(b)
    BY <1>3, <1>5
  <1> QED BY <1>2, <1>4, <1>6 DEF Letters

\* The property's notion of a question is what the hash is made of.
LEMMA QuestionMakesHash ==
    ASSUME NEW a, NEW b, Question(a) = Question(b)
    PROVE  InputHash(a) = InputHash(b)
  <1> DEFINE f == [n \in DOMAIN a.messages |->
                     <<a.messages[n].role, ContentString(a.messages[n].content)>>]
  <1> DEFINE g == [n \in DOMAIN b.messages |->
                     <<b.messages[n].role, ContentString(b.messages[n].content)>>]
  <1>1. a.model = b.model /\ f = g
    BY DEF Question
  <1>2. DOMAIN a.messages = DOMAIN f /\ DOMAIN b.messages = DOMAIN g
    OBVIOUS
  <1>3. \A n \in DOMAIN a.messages :
          f[n] = <<a.messages[n].role, ContentString(a.messages[n].content)>>
    OBVIOUS
  <1>4. \A n \in DOMAIN b.messages :
          g[n] = <<b.messages[n].role, ContentString(b.messages[n].content)>>
    OBVIOUS
  <1> HIDE DEF f, g
  <1>5. DOMAIN a.messages = DOMAIN b.messages
    BY <1>1, <1>2
  <1>6. ASSUME NEW n \in DOMAIN a.messages PROVE Prompt(a.messages[n]) = Prompt(b.messages[n])
    <2>1. <<a.messages[n].role, ContentString(a.messages[n].content)>>
          = <<b.messages[n].role, ContentString(b.messages[n].content)>>
      BY <1>1, <1>3, <1>4, <1>5, Zenon
    <2>2. /\ a.messages[n].role = b.messages[n].role
          /\ ContentString(a.messages[n].content) = ContentString(b.messages[n].content)
      BY <2>1
    <2> QED BY <2>2, Zenon DEF Prompt
  <1>7. Prompts(a) = Prompts(b)
    BY <1>5, <1>6, Zenon DEF Prompts
  <1> QED BY <1>1, <1>7, HashOfPrompts, Zenon

LEMMA PromptsTellQuestion ==
    ASSUME NEW a, NEW b, WellFormed(a), WellFormed(b), TextBody(a), TextBody(b),
           a.model = b.model, Prompts(a) = Prompts(b)
    PROVE  Question(a) = Question(b)
  <1> DEFINE S == Letters(a) \cup Letters(b)
  <1>1. DOMAIN a.messages = DOMAIN b.messages
    <2>1. DOMAIN Prompts(a) = DOMAIN a.messages /\ DOMAIN Prompts(b) = DOMAIN b.messages
      BY DEF Prompts
    <2> QED BY <2>1
  <1>2. ASSUME NEW n \in DOMAIN a.messages
        PROVE  /\ a.messages[n].role = b.messages[n].role
               /\ ContentString(a.messages[n].content) = ContentString(b.messages[n].content)
    <2> DEFINE x == ContentString(a.messages[n].content)
    <2> DEFINE y == ContentString(b.messages[n].content)
    <2> DEFINE r == a.messages[n].role
    <2> DEFINE q == b.messages[n].role
    <2> DEFINE colon == Char(":")
    <2>1. x \in Seq(S) /\ y \in Seq(S)
      BY <1>1, ContentText
    <2>2. r \in Seq(S) /\ q \in Seq(S) /\ colon \in S
      BY <1>1, RoleText
    <2>3. (r \o <<colon>>) \o x = (q \o <<colon>>) \o y
      <3>1. Prompt(a.messages[n]) = Prompt(b.messages[n])
        BY <1>1, Zenon DEF Prompts
      <3> QED BY <3>1, Zenon DEF Prompt
    <2>4. colon \notin Range(r) /\ colon \notin Range(q)
      <3>1. a.messages[n] \in Range(a.messages) /\ b.messages[n] \in Range(b.messages)
        BY <1>1 DEF Range
      <3>2. {colon, Char("|")} \cap Range(r) = {} /\ {colon, Char("|")} \cap Range(q) = {}
        BY <3>1, Zenon DEF TextBody
      <3> HIDE DEF colon, r, q
      <3> QED BY <3>2
    <2> HIDE DEF S, x, y, r, q, colon
    <2>5. r = q /\ x = y
      BY <2>1, <2>2, <2>3, <2>4, SplitFirst
    <2> QED BY <2>5 DEF r, q, x, y
  <1> QED BY <1>1, <1>2, Zenon DEF Question

\* Of text that nowhere has the separator, two bodies have the same hash only
\* if they ask the same question.
LEMMA HashTellsQuestion ==
    ASSUME NEW a, NEW b, WellFormed(a), WellFormed(b), TextBody(a), TextBody(b)
    PROVE  InputHash(a) = InputHash(b) <=> Question(a) = Question(b)
  <1> SUFFICES ASSUME InputHash(a) = InputHash(b) PROVE Question(a) = Question(b)
    BY QuestionMakesHash
  <1> DEFINE S == Letters(a) \cup Letters(b)
  <1>1. Bar \notin S
    BY NoSeparator
  <1>2. Letters(a) \subseteq S /\ Letters(b) \subseteq S
    OBVIOUS
  <1> HIDE DEF S
  <1>3. Prompts(a) \in Seq(Seq(S)) /\ Prompts(b) \in Seq(Seq(S))
    BY <1>2, PromptText
  <1> DEFINE p == Prompts(a)
  <1> DEFINE q == Prompts(b)
  <1> DEFINE x == Joined(Marked(p))
  <1> DEFINE y == Joined(Marked(q))
  <1> DEFINE c == Char(a.model)
  <1> DEFINE d == Char(b.model)
  <1> DEFINE B == WithBar(S) \cup {c, d}
  <1>4. x \in Seq(WithBar(S)) /\ y \in Seq(WithBar(S))
    BY <1>3, MarkedText, JoinedText
  <1>5. <<c>> \o x = <<d>> \o y
    BY HashOfPrompts
  <1> HIDE DEF p, q, x, y, c, d
  <1>6. x \in Seq(B) /\ y \in Seq(B) /\ c \in B /\ d \in B
    BY <1>4, SeqMonotonic
  <1> HIDE DEF B
  <1>7. c = d /\ x = y
    BY <1>5, <1>6, FirstAndRest
  <1>8. p = q
    BY <1>1, <1>3, <1>7, MarkedInjective DEF p, q, x, y
  <1>9. a.model = b.model
    <2>1. Char(a.model).char = Char(b.model).char
      BY <1>7 DEF c, d
    <2> QED BY <2>1 DEF Char
  <1> QED BY <1>8, <1>9, PromptsTellQuestion DEF p, q

-----------------------------------------------------------------------------
(* What a client reads                                                      *)

Readable == {"content", "text_delta"}

Unread(s) == \A i \in 1..Len(s) : ~(s[i].tok = "open" /\ s[i].kind \in Readable)

LEMMA ConcatCases ==
    ASSUME NEW z, NEW s, NEW t, Len(s) \in Nat, Len(t) \in Nat, IsConcat(z, s, t),
           NEW i \in 1..Len(z)
    PROVE  \/ i \in 1..Len(s) /\ z[i] = s[i]
           \/ i - Len(s) \in 1..Len(t) /\ z[i] = t[i - Len(s)]
  <1>1. CASE i <= Len(s)
    <2>1. i \in 1..Len(s)
      BY <1>1
    <2> QED BY <2>1 DEF IsConcat
  <1>2. CASE ~(i <= Len(s))
    <2>1. i - Len(s) \in 1..Len(t) /\ Len(s) + (i - Len(s)) = i
      BY <1>2 DEF IsConcat
    <2>2. z[Len(s) + (i - Len(s))] = t[i - Len(s)]
      BY <2>1 DEF IsConcat
    <2> QED BY <2>1, <2>2
  <1> QED BY <1>1, <1>2

LEMMA UnreadConcat ==
    ASSUME NEW S, NEW s \in Seq(S), NEW t \in Seq(S), Unread(s), Unread(t)
    PROVE  s \o t \in Seq(S) /\ Unread(s \o t)
  <1> DEFINE z == s \o t
  <1>1. z \in Seq(S) /\ IsConcat(z, s, t)
    BY ConcatParts
  <1>2. Len(s) \in Nat /\ Len(t) \in Nat
    BY LenProperties
  <1> HIDE DEF z
  <1>3. ASSUME NEW i \in 1..Len(z)
        PROVE  ~(z[i].tok = "open" /\ z[i].kind \in Readable)
    <2>1. \/ i \in 1..Len(s) /\ z[i] = s[i]
          \/ i - Len(s) \in 1..Len(t) /\ z[i] = t[i - Len(s)]
      BY <1>1, <1>2, ConcatCases
    <2> QED BY <2>1, Zenon DEF Unread
  <1> QED BY <1>1, <1>3 DEF z, Unread

TextAt(z, p, t) ==
    /\ p + Len(t) + 1 \in 1..Len(z)
    /\ \A i \in 1..Len(t) : z[p + i] = t[i] /\ t[i] # CLOSE
    /\ z[p + Len(t) + 1] = CLOSE

\* The end of a document is the first mark of it after its text.
LEMMA TextFromDocument ==
    ASSUME NEW S, NEW z \in Seq(S), NEW t \in Seq(S), NEW p \in 1..Len(z), TextAt(z, p, t)
    PROVE  TextFrom(z, p) = t
  <1>0. /\ p + Len(t) + 1 \in 1..Len(z)
        /\ \A i \in 1..Len(t) : z[p + i] = t[i] /\ t[i] # CLOSE
        /\ z[p + Len(t) + 1] = CLOSE
    BY DEF TextAt
  <1> DEFINE e == p + Len(t) + 1
  <1> DEFINE Ends(q) == z[q] = CLOSE /\ \A k \in p+1..q-1 : z[k] # CLOSE
  <1>1. Len(t) \in Nat /\ Len(z) \in Nat
    BY LenProperties
  <1>2. \A k \in p+1..e-1 : z[k] # CLOSE
    <2> TAKE k \in p+1..e-1
    <2>1. k - p \in 1..Len(t) /\ p + (k - p) = k
      BY <1>1
    <2>2. z[p + (k - p)] # CLOSE
      BY <2>1, <1>0, Zenon
    <2> QED BY <2>1, <2>2
  <1>3. e \in p+1..Len(z) /\ Ends(e)
    BY <1>0, <1>1, <1>2
  <1>4. ASSUME NEW q \in p+1..Len(z), Ends(q) PROVE q = e
    <2>1. ~(q < e)
      <3> SUFFICES ASSUME q < e PROVE FALSE
        OBVIOUS
      <3>1. q \in p+1..e-1
        BY <1>1
      <3> QED BY <3>1, <1>2, <1>4, Zenon
    <2>2. ~(e < q)
      <3> SUFFICES ASSUME e < q PROVE FALSE
        OBVIOUS
      <3>1. e \in p+1..q-1
        BY <1>1
      <3> QED BY <3>1, <1>3, <1>4, Zenon
    <2>3. e \in Int /\ q \in Int
      BY <1>1
    <2> HIDE DEF e
    <2> QED BY <2>1, <2>2, <2>3
  <1> DEFINE f == CHOOSE q \in p+1..Len(z) : Ends(q)
  <1>5. f = e
    <2>1. f \in p+1..Len(z) /\ Ends(f)
      <3> HIDE DEF Ends, e
      <3> QED BY <1>3, Zenon
    <2> HIDE DEF f, e, Ends
    <2> QED BY <2>1, <1>4, Zenon
  <1>6. TextFrom(z, p) = SubSeq(z, p + 1, f - 1)
    BY Zenon DEF TextFrom
  <1> HIDE DEF f
  <1>7. f - 1 = p + Len(t)
    BY <1>1, <1>5
  <1> DEFINE u == SubSeq(z, p + 1, p + Len(t))
  <1>8. u \in Seq(S) /\ Len(u) = Len(t) /\ \A i \in 1..Len(t) : u[i] = t[i]
    <2>1. p + 1 \in Int /\ p + Len(t) \in Int
      BY <1>1
    <2>2. \A i \in p + 1..p + Len(t) : z[i] \in S
      <3> TAKE i \in p + 1..p + Len(t)
      <3>1. i \in 1..Len(z)
        BY <1>0, <1>1
      <3> QED BY <3>1, ElementOfSeq
    <2>3. /\ u \in Seq(S)
          /\ Len(u) = IF p + 1 <= p + Len(t) THEN p + Len(t) - (p + 1) + 1 ELSE 0
          /\ \A i \in 1..p + Len(t) - (p + 1) + 1 : u[i] = z[p + 1 + i - 1]
      BY <2>1, <2>2, SubSeqProperties
    <2> HIDE DEF u
    <2>4. Len(u) = Len(t)
      BY <2>3, <1>1
    <2>5. ASSUME NEW i \in 1..Len(t) PROVE u[i] = t[i]
      <3>1. i \in 1..p + Len(t) - (p + 1) + 1 /\ p + 1 + i - 1 = p + i
        BY <1>1
      <3>2. u[i] = z[p + i]
        BY <2>3, <3>1
      <3> QED BY <3>2, <1>0
    <2> QED BY <2>3, <2>4, <2>5
  <1> HIDE DEF u
  <1>9. u = t
    BY <1>8, SeqEqual
  <1> QED BY <1>6, <1>7, <1>9 DEF u

\* The only readable document of z has text t.
HasText(z, p, t) ==
    /\ z[p].tok = "open" /\ z[p].kind \in Readable
    /\ TextAt(z, p, t)
    /\ \A i \in 1..Len(z) : i # p => ~(z[i].tok = "open" /\ z[i].kind \in Readable)

OneText(z, t) == \E p \in 1..Len(z) : HasText(z, p, t)

LEMMA OneTextBefore ==
    ASSUME NEW S, NEW s \in Seq(S), NEW u \in Seq(S), NEW t \in Seq(S),
           OneText(s, t), Unread(u)
    PROVE  s \o u \in Seq(S) /\ OneText(s \o u, t)
  <1> DEFINE z == s \o u
  <1>1. PICK p \in 1..Len(s) : HasText(s, p, t)
    BY Zenon DEF OneText
  <1>2. z \in Seq(S) /\ IsConcat(z, s, u)
    BY ConcatParts
  <1>3. Len(s) \in Nat /\ Len(u) \in Nat /\ Len(t) \in Nat
    BY LenProperties
  <1> HIDE DEF z
  <1>4. Len(z) = Len(s) + Len(u) /\ \A i \in 1..Len(s) : z[i] = s[i]
    BY <1>2, Zenon DEF IsConcat
  <1>5. z[p] = s[p] /\ p \in 1..Len(z)
    BY <1>3, <1>4
  <1>6. TextAt(z, p, t)
    <2>1. /\ p + Len(t) + 1 \in 1..Len(s)
          /\ \A i \in 1..Len(t) : s[p + i] = t[i] /\ t[i] # CLOSE
          /\ s[p + Len(t) + 1] = CLOSE
      BY <1>1, Zenon DEF HasText, TextAt
    <2>2. p + Len(t) + 1 \in 1..Len(z) /\ \A i \in 1..Len(t) : p + i \in 1..Len(s)
      BY <1>3, <1>4, <2>1
    <2>3. z[p + Len(t) + 1] = CLOSE
      BY <1>4, <2>1, Zenon
    <2>4. \A i \in 1..Len(t) : z[p + i] = t[i] /\ t[i] # CLOSE
      BY <1>4, <2>1, <2>2, Zenon
    <2> QED BY <2>2, <2>3, <2>4, Zenon DEF TextAt
  <1>7. ASSUME NEW i \in 1..Len(z), i # p
        PROVE  ~(z[i].tok = "open" /\ z[i].kind \in Readable)
    <2>1. \/ i \in 1..Len(s) /\ z[i] = s[i]
          \/ i - Len(s) \in 1..Len(u) /\ z[i] = u[i - Len(s)]
      BY <1>2, <1>3, ConcatCases
    <2> QED BY <1>1, <1>7, <2>1, Zenon DEF HasText, Unread
  <1>8. HasText(z, p, t)
    BY <1>1, <1>5, <1>6, <1>7, Zenon DEF HasText
  <1> QED BY <1>2, <1>5, <1>8, Zenon DEF OneText, z

LEMMA OneTextBehind ==
    ASSUME NEW S, NEW s \in Seq(S), NEW u \in Seq(S), NEW t \in Seq(S),
           OneText(s, t), Unread(u)
    PROVE  u \o s \in Seq(S) /\ OneText(u \o s, t)
  <1> DEFINE z == u \o s
  <1>1. PICK p \in 1..Len(s) : HasText(s, p, t)
    BY Zenon DEF OneText
  <1>2. z \in Seq(S) /\ IsConcat(z, u, s)
    BY ConcatParts
  <1>3. Len(s) \in Nat /\ Len(u) \in Nat /\ Len(t) \in Nat
    BY LenProperties
  <1> HIDE DEF z
  <1> DEFINE q == Len(u) + p
  <1>4. Len(z) = Len(u) + Len(s) /\ \A i \in 1..Len(s) : z[Len(u) + i] = s[i]
    BY <1>2, Zenon DEF IsConcat
  <1>5. z[q] = s[p] /\ q \in 1..Len(z)
    BY <1>3, <1>4
  <1>6. TextAt(z, q, t)
    <2>1. /\ p + Len(t) + 1 \in 1..Len(s)
          /\ \A i \in 1..Len(t) : s[p + i] = t[i] /\ t[i] # CLOSE
          /\ s[p + Len(t) + 1] = CLOSE
      BY <1>1, Zenon DEF HasText, TextAt
    <2>2. /\ q + Len(t) + 1 \in 1..Len(z)
          /\ Len(u) + (p + Len(t) + 1) = q + Len(t) + 1
      BY <1>3, <1>4, <2>1
    <2>3. z[q + Len(t) + 1] = CLOSE
      <3>1. z[Len(u) + (p + Len(t) + 1)] = CLOSE
        BY <1>4, <2>1, Zenon
      <3> QED BY <2>2, <3>1
    <2>4. ASSUME NEW i \in 1..Len(t) PROVE z[q + i] = t[i] /\ t[i] # CLOSE
      <3>1. p + i \in 1..Len(s) /\ Len(u) + (p + i) = q + i
        BY <1>3, <2>1
      <3>2. z[Len(u) + (p + i)] = t[i] /\ t[i] # CLOSE
        BY <1>4, <2>1, <3>1, Zenon
      <3> QED BY <3>1, <3>2
    <2> QED BY <2>2, <2>3, <2>4, Zenon DEF TextAt
  <1>7. ASSUME NEW i \in 1..Len(z), i # q
        PROVE  ~(z[i].tok = "open" /\ z[i].kind \in Readable)
    <2>1. \/ i \in 1..Len(u) /\ z[i] = u[i]
          \/ i - Len(u) \in 1..Len(s) /\ z[i] = s[i - Len(u)]
      BY <1>2, <1>3, ConcatCases
    <2>2. i - Len(u) # p
      BY <1>3, <1>7
    <2> QED BY <1>1, <2>1, <2>2, Zenon DEF HasText, Unread
  <1> HIDE DEF q
  <1>8. HasText(z, q, t)
    BY <1>1, <1>5, <1>6, <1>7, Zenon DEF HasText
  <1> QED BY <1>2, <1>5, <1>8, Zenon DEF OneText, z

LEMMA DocumentText ==
    ASSUME NEW S, NEW kind \in Readable, Open(kind) \in S, CLOSE \in S,
           NEW t \in Seq(S), IsText(t)
    PROVE  Document(kind, t) \in Seq(S) /\ OneText(Document(kind, t), t)
  <1> DEFINE o == <<Open(kind)>>
  <1> DEFINE c == <<CLOSE>>
  <1> DEFINE y == o \o t
  <1> DEFINE z == y \o c
  <1>1. /\ o \in Seq(S) /\ Len(o) = 1 /\ o[1] = Open(kind)
        /\ c \in Seq(S) /\ Len(c) = 1 /\ c[1] = CLOSE
    OBVIOUS
  <1>2. Len(t) \in Nat
    BY LenProperties
  <1>3. Document(kind, t) = z
    BY DEF Document
  <1> HIDE DEF o, c
  <1>4. y \in Seq(S) /\ IsConcat(y, o, t)
    BY <1>1, ConcatParts
  <1> HIDE DEF y
  <1>5. z \in Seq(S) /\ IsConcat(z, y, c)
    BY <1>1, <1>4, ConcatParts
  <1> HIDE DEF z
  <1>6. Len(y) = 1 + Len(t) /\ y[1] = Open(kind) /\ \A i \in 1..Len(t) : y[1 + i] = t[i]
    BY <1>1, <1>2, <1>4 DEF IsConcat
  <1>7. /\ Len(z) = 1 + Len(t) + 1
        /\ \A i \in 1..1 + Len(t) : z[i] = y[i]
        /\ z[1 + Len(t) + 1] = CLOSE
    BY <1>1, <1>2, <1>5, <1>6 DEF IsConcat
  <1>8. ASSUME NEW i \in 1..Len(t) PROVE t[i] # CLOSE /\ t[i].tok # "open"
    <2>1. CLOSE.tok = "close"
      BY DEF CLOSE
    <2>2. t[i].tok \in {"char", "data", "event"}
      BY <1>2, LenProperties DEF IsText
    <2>3. t[i].tok # "close" /\ t[i].tok # "open"
      BY <2>2
    <2> QED BY <2>1, <2>3
  <1>9. ASSUME NEW i \in 1..Len(t) PROVE z[1 + i] = t[i]
    <2>1. 1 + i \in 1..1 + Len(t)
      BY <1>2
    <2> QED BY <1>6, <1>7, <2>1, Zenon
  <1>10. z[1] = Open(kind) /\ 1 \in 1..Len(z)
    BY <1>2, <1>6, <1>7
  <1>11. TextAt(z, 1, t)
    <2>1. 1 + Len(t) + 1 \in 1..Len(z)
      BY <1>2, <1>7
    <2> QED BY <1>7, <1>8, <1>9, <2>1, Zenon DEF TextAt
  <1>12. ASSUME NEW i \in 1..Len(z), i # 1
         PROVE  ~(z[i].tok = "open" /\ z[i].kind \in Readable)
    <2>1. CASE i = 1 + Len(t) + 1
      BY <2>1, <1>7 DEF CLOSE
    <2>2. CASE i # 1 + Len(t) + 1
      <3>1. i - 1 \in 1..Len(t) /\ 1 + (i - 1) = i
        BY <1>2, <1>7, <1>12, <2>2
      <3>2. z[1 + (i - 1)].tok # "open"
        BY <1>8, <1>9, <3>1, Zenon
      <3> QED BY <3>1, <3>2
    <2> QED BY <2>1, <2>2
  <1>13. z[1].tok = "open" /\ z[1].kind \in Readable
    BY <1>10 DEF Open
  <1>14. HasText(z, 1, t)
    BY <1>11, <1>12, <1>13, Zenon DEF HasText
  <1> QED BY <1>3, <1>5, <1>10, <1>14, Zenon DEF OneText

LEMMA ReadsOne ==
    ASSUME NEW S, NEW z \in Seq(S), NEW t \in Seq(S), OneText(z, t)
    PROVE  ReadFrom(z, Readable) = t
  <1> DEFINE Read(i) == z[i].tok = "open" /\ z[i].kind \in Readable
  <1>1. PICK p \in 1..Len(z) : HasText(z, p, t)
    BY Zenon DEF OneText
  <1>2. Read(p) /\ TextAt(z, p, t) /\ \A i \in 1..Len(z) : i # p => ~Read(i)
    BY <1>1, Zenon DEF HasText
  <1>3. TextFrom(z, p) = t
    BY <1>2, TextFromDocument
  <1> DEFINE f == [i \in DOMAIN z |-> IF Read(i) THEN TextFrom(z, i) ELSE <<>>]
  <1>4. DOMAIN z = 1..Len(z) /\ Len(z) \in Nat
    BY LenProperties
  <1>5. f[p] = t
    BY <1>2, <1>3, <1>4
  <1>6. \A i \in 1..Len(z) : i # p => f[i] = <<>>
    BY <1>2, <1>4
  <1>7. ReadFrom(z, Readable) = Joined(f)
    BY Zenon DEF ReadFrom
  <1>8. f = [i \in 1..Len(z) |-> f[i]]
    BY <1>4
  <1> DEFINE m == Len(z)
  <1> DEFINE B == Seq(S)
  <1> HIDE DEF f, Read
  <1>9. f \in [1..m -> B]
    <2>1. \A i \in 1..Len(z) : f[i] \in Seq(S)
      BY <1>5, <1>6, EmptySeq
    <2> QED BY <2>1, <1>8
  <1>10. m \in Nat
    BY <1>4
  <1> HIDE DEF m, B
  <1>11. f \in Seq(B) /\ Len(f) = m
    BY <1>9, <1>10
  <1>12. f \in Seq(Seq(S)) /\ Len(f) = Len(z)
    BY <1>11 DEF m, B
  <1>13. Joined(f) = f[p]
    BY <1>6, <1>12, JoinedSingle
  <1> QED BY <1>5, <1>7, <1>13

\* A text and its neighbours in a stream.
Kinds == {"content", "no_content", "text_delta", "other_delta", "response"}

Marks == {NL, EVENT, DONE, CLOSE, DATA} \cup {Open(kind) : kind \in Kinds}

LEMMA TextUnread ==
    ASSUME NEW S, NEW t \in Seq(S), IsText(t)
    PROVE  Unread(t)
  <1>1. \A i \in 1..Len(t) : t[i].tok \in {"char", "data", "event"}
    BY LenProperties DEF IsText
  <1>2. \A i \in 1..Len(t) : t[i].tok # "open"
    BY <1>1
  <1> QED BY <1>2, Zenon DEF Unread

DumbMarks == Marks \ {Open("content"), Open("text_delta")}

LEMMA MarkUnread ==
    ASSUME NEW s \in Seq(DumbMarks)
    PROVE  Unread(s)
  <1>1. ASSUME NEW x \in DumbMarks PROVE ~(x.tok = "open" /\ x.kind \in Readable)
    <2>1. CASE x \in {NL, EVENT, DONE, CLOSE, DATA}
      BY <2>1 DEF NL, EVENT, DONE, CLOSE, DATA
    <2>2. CASE x \in {Open(kind) : kind \in Kinds}
      <3>1. PICK kind \in Kinds : x = Open(kind)
        BY <2>2
      <3>2. x.kind = kind /\ kind \notin Readable
        BY <3>1 DEF Open, Readable, DumbMarks, Kinds
      <3> QED BY <3>2
    <2> QED BY <2>1, <2>2 DEF Marks, DumbMarks
  <1> HIDE DEF DumbMarks
  <1>2. \A i \in 1..Len(s) : s[i] \in DumbMarks
    BY ElementOfSeq
  <1> QED BY <1>1, <1>2, Zenon DEF Unread

LEMMA DumbMarksAre ==
    {NL, EVENT, DONE, CLOSE, DATA, Open("response"), Open("no_content")} \subseteq DumbMarks
  <1>1. /\ Open("response") \in Marks /\ Open("no_content") \in Marks
        /\ {NL, EVENT, DONE, CLOSE, DATA} \subseteq Marks
    BY DEF Marks, Kinds
  <1>2. \A x \in {NL, EVENT, DONE, CLOSE, DATA} : x # Open("content") /\ x # Open("text_delta")
    BY DEF Open, NL, EVENT, DONE, CLOSE, DATA
  <1>3. \A k \in {"response", "no_content"} :
          Open(k) # Open("content") /\ Open(k) # Open("text_delta")
    BY DEF Open
  <1> QED BY <1>1, <1>2, <1>3 DEF DumbMarks

LEMMA UnreadMarks ==
    ASSUME NEW S, Marks \subseteq S
    PROVE  /\ {<<NL, NL>>, <<DATA>>, <<EVENT, NL>>, <<CLOSE>>, LastFrame} \subseteq Seq(S)
           /\ \A s \in {<<NL, NL>>, <<DATA>>, <<EVENT, NL>>, <<CLOSE>>, LastFrame,
                        <<Open("response")>>, <<Open("no_content")>>} : Unread(s)
  <1>1. {NL, EVENT, DONE, CLOSE, DATA, Open("response"), Open("no_content")} \subseteq DumbMarks
    BY DumbMarksAre
  <1>2. DumbMarks \subseteq S
    BY DEF DumbMarks
  <1> DEFINE r == Open("response")
  <1> DEFINE n == Open("no_content")
  <1> HIDE DEF NL, EVENT, DONE, CLOSE, DATA, r, n
  <1>3. {<<NL, NL>>, <<DATA>>, <<EVENT, NL>>, <<CLOSE>>, <<DATA, DONE, NL, NL>>, <<r>>, <<n>>}
        \subseteq Seq(DumbMarks)
    BY <1>1 DEF r, n
  <1>4. Seq(DumbMarks) \subseteq Seq(S)
    BY <1>2, SeqMonotonic
  <1> QED BY <1>3, <1>4, MarkUnread DEF LastFrame, r, n

\* An event of a kind that is not read.
LEMMA DocumentUnread ==
    ASSUME NEW S, Marks \subseteq S, NEW kind \in {"response", "no_content"},
           NEW t \in Seq(S), IsText(t)
    PROVE  Document(kind, t) \in Seq(S) /\ Unread(Document(kind, t))
  <1> DEFINE o == <<Open(kind)>>
  <1> DEFINE c == <<CLOSE>>
  <1>1. o \in Seq(S) /\ c \in Seq(S)
    BY DEF Marks, Kinds
  <1>2. Unread(o) /\ Unread(c)
    BY UnreadMarks
  <1>3. Unread(t)
    BY TextUnread
  <1>4. Document(kind, t) = (o \o t) \o c
    BY DEF Document
  <1> HIDE DEF o, c
  <1>5. o \o t \in Seq(S) /\ Unread(o \o t)
    BY <1>1, <1>2, <1>3, UnreadConcat
  <1> DEFINE u == o \o t
  <1> HIDE DEF u
  <1>6. u \o c \in Seq(S) /\ Unread(u \o c)
    BY <1>1, <1>2, <1>5, UnreadConcat DEF u
  <1> QED BY <1>4, <1>6 DEF u


LEMMA FrameUnread ==
    ASSUME NEW S, Marks \subseteq S, NEW kind \in {"response", "no_content"},
           NEW t \in Seq(S), IsText(t)
    PROVE  /\ Frame(kind, t) \in Seq(S) /\ Unread(Frame(kind, t))
           /\ NamedFrame(kind, t) \in Seq(S) /\ Unread(NamedFrame(kind, t))
  <1> DEFINE d == Document(kind, t)
  <1> DEFINE m == <<DATA>>
  <1> DEFINE n == <<NL, NL>>
  <1> DEFINE e == <<EVENT, NL>>
  <1>1. d \in Seq(S) /\ Unread(d)
    BY DocumentUnread
  <1>2. /\ m \in Seq(S) /\ n \in Seq(S) /\ e \in Seq(S)
        /\ Unread(m) /\ Unread(n) /\ Unread(e)
    BY UnreadMarks
  <1>3. Frame(kind, t) = (m \o d) \o n /\ NamedFrame(kind, t) = e \o Frame(kind, t)
    BY Zenon DEF Frame, NamedFrame
  <1> HIDE DEF d, m, n, e
  <1>4. m \o d \in Seq(S) /\ Unread(m \o d)
    BY <1>1, <1>2, UnreadConcat
  <1>5. Frame(kind, t) \in Seq(S) /\ Unread(Frame(kind, t))
    BY <1>2, <1>3, <1>4, UnreadConcat
  <1> DEFINE f == Frame(kind, t)
  <1>6. f \in Seq(S) /\ Unread(f)
    BY <1>5
  <1> HIDE DEF f
  <1>7. e \o f \in Seq(S) /\ Unread(e \o f)
    BY <1>2, <1>6, UnreadConcat
  <1> QED BY <1>3, <1>6, <1>7, Zenon DEF f

LEMMA FrameText ==
    ASSUME NEW S, Marks \subseteq S, NEW kind \in Readable, NEW t \in Seq(S), IsText(t)
    PROVE  /\ Frame(kind, t) \in Seq(S) /\ OneText(Frame(kind, t), t)
           /\ NamedFrame(kind, t) \in Seq(S) /\ OneText(NamedFrame(kind, t), t)
  <1> DEFINE d == Document(kind, t)
  <1> DEFINE m == <<DATA>>
  <1> DEFINE n == <<NL, NL>>
  <1> DEFINE e == <<EVENT, NL>>
  <1>1. d \in Seq(S) /\ OneText(d, t)
    <2>1. Open(kind) \in S /\ CLOSE \in S
      BY DEF Marks, Kinds, Readable
    <2> QED BY <2>1, DocumentText
  <1>2. /\ m \in Seq(S) /\ n \in Seq(S) /\ e \in Seq(S)
        /\ Unread(m) /\ Unread(n) /\ Unread(e)
    BY UnreadMarks
  <1>3. Frame(kind, t) = (m \o d) \o n /\ NamedFrame(kind, t) = e \o Frame(kind, t)
    BY Zenon DEF Frame, NamedFrame
  <1> HIDE DEF d, m, n, e
  <1>4. m \o d \in Seq(S) /\ OneText(m \o d, t)
    BY <1>1, <1>2, OneTextBehind
  <1>5. Frame(kind, t) \in Seq(S) /\ OneText(Frame(kind, t), t)
    BY <1>2, <1>3, <1>4, OneTextBefore
  <1> DEFINE f == Frame(kind, t)
  <1>6. f \in Seq(S) /\ OneText(f, t)
    BY <1>5
  <1> HIDE DEF f
  <1>7. e \o f \in Seq(S) /\ OneText(e \o f, t)
    BY <1>2, <1>6, OneTextBehind
  <1> QED BY <1>3, <1>6, <1>7, Zenon DEF f

\* Whatever the protocol, a client reads the text of a replayed stream once.
LEMMA ReplayedReads ==
    ASSUME NEW S, Marks \subseteq S, NEW format, NEW t \in Seq(S), IsText(t)
    PROVE  ReadFrom(Replayed(format, t), Readable) = t
  <1> DEFINE l == LastFrame
  <1>1. l \in Seq(S) /\ Unread(l)
    BY UnreadMarks
  <1>2. <<>> \in Seq(S) /\ IsText(<<>>)
    BY DEF IsText
  <1>3. CASE format = "responses"
    <2> DEFINE x == NamedFrame("response", <<>>)
    <2> DEFINE y == NamedFrame("text_delta", t)
    <2> DEFINE z == NamedFrame("response", t)
    <2>1. /\ x \in Seq(S) /\ Unread(x) /\ z \in Seq(S) /\ Unread(z)
      BY <1>2, FrameUnread
    <2>2. y \in Seq(S) /\ OneText(y, t)
      BY FrameText DEF Readable
    <2>3. Replayed(format, t) = ((x \o y) \o z) \o l
      BY <1>3, Zenon DEF Replayed
    <2> HIDE DEF x, y, z, l
    <2>4. x \o y \in Seq(S) /\ OneText(x \o y, t)
      BY <2>1, <2>2, OneTextBehind
    <2>5. (x \o y) \o z \in Seq(S) /\ OneText((x \o y) \o z, t)
      BY <2>1, <2>4, OneTextBefore
    <2>6. ((x \o y) \o z) \o l \in Seq(S) /\ OneText(((x \o y) \o z) \o l, t)
      BY <1>1, <2>5, OneTextBefore
    <2> QED BY <2>3, <2>6, ReadsOne
  <1>4. CASE format # "responses"
    <2> DEFINE x == Frame("no_content", <<>>)
    <2> DEFINE y == Frame("content", t)
    <2>1. x \in Seq(S) /\ Unread(x)
      BY <1>2, FrameUnread
    <2>2. y \in Seq(S) /\ OneText(y, t)
      BY FrameText DEF Readable
    <2>3. Replayed(format, t) = ((x \o y) \o x) \o l
      BY <1>4, Zenon DEF Replayed
    <2> HIDE DEF x, y, l
    <2>4. x \o y \in Seq(S) /\ OneText(x \o y, t)
      BY <2>1, <2>2, OneTextBehind
    <2>5. (x \o y) \o x \in Seq(S) /\ OneText((x \o y) \o x, t)
      BY <2>1, <2>4, OneTextBefore
    <2>6. ((x \o y) \o x) \o l \in Seq(S) /\ OneText(((x \o y) \o x) \o l, t)
      BY <1>1, <2>5, OneTextBefore
    <2> QED BY <2>3, <2>6, ReadsOne
  <1> QED BY <1>3, <1>4

\* A client reads the text of a sample, streamed or not.
LEMMA AnswerReads ==
    ASSUME NEW S, Marks \subseteq S, NEW format, NEW t \in Seq(S), IsText(t),
           NEW streamed \in BOOLEAN
    PROVE  /\ ClientReads(FormatResponse(t, streamed, format)) = t
           /\ FormatResponse(t, streamed, format).stream = streamed
  <1>1. CASE streamed
    <2>1. /\ FormatResponse(t, streamed, format).stream = TRUE
          /\ FormatResponse(t, streamed, format).tokens = Replayed(format, t)
      BY <1>1 DEF FormatResponse
    <2>2. ReadFrom(Replayed(format, t), {"content", "text_delta"}) = t
      BY ReplayedReads DEF Readable
    <2> QED BY <1>1, <2>1, <2>2 DEF ClientReads
  <1>2. CASE ~streamed
    <2>1. /\ FormatResponse(t, streamed, format).stream = FALSE
          /\ FormatResponse(t, streamed, format).object.texts = <<t>>
      BY <1>2 DEF FormatResponse, SynthesizeRawResponse, Object
    <2> QED BY <1>2, <2>1, JoinedOne DEF ClientReads
  <1> QED BY <1>1, <1>2

-----------------------------------------------------------------------------
(* What a scan has found after n tokens                                     *)

Start == [line |-> <<>>, text |-> <<>>]

IsScan(f, format, s, n) ==
    f = [i \in 0..n |-> IF i = 0 THEN Start ELSE ScanStep(format, f[i - 1], s[i])]

ScanAt(format, s, n) == (CHOOSE f : IsScan(f, format, s, n))[n]

\* Each state of a scan is a step from the one before.
Follows(f, format, s, n) ==
    \A i \in 0..n - 1 : f[i + 1] = ScanStep(format, f[i], s[i + 1])

LEMMA TextIsScan ==
    ASSUME NEW format, NEW s, NEW n
    PROVE  TextOfFirst(format, s, n) = AbsorbLine(format, ScanAt(format, s, n))
  BY Zenon DEF TextOfFirst, ScanAt, IsScan, Start

LEMMA ScanFirst ==
    ASSUME NEW format, NEW s, NEW n \in Nat, NEW f, IsScan(f, format, s, n)
    PROVE  f[0] = Start
  <1>1. 0 \in 0..n
    OBVIOUS
  <1> QED BY <1>1, Zenon DEF IsScan

LEMMA ScanNexts ==
    ASSUME NEW format, NEW s, NEW n \in Nat, NEW f, IsScan(f, format, s, n)
    PROVE  Follows(f, format, s, n)
  <1> SUFFICES ASSUME NEW i \in 0..n - 1 PROVE f[i + 1] = ScanStep(format, f[i], s[i + 1])
    BY Zenon DEF Follows
  <1>1. i + 1 \in 0..n /\ i + 1 # 0 /\ (i + 1) - 1 = i
    OBVIOUS
  <1>2. f[i + 1] = IF i + 1 = 0 THEN Start ELSE ScanStep(format, f[(i + 1) - 1], s[i + 1])
    BY <1>1, Zenon DEF IsScan
  <1> QED BY <1>1, <1>2, Zenon

LEMMA ScanExists ==
    ASSUME NEW format, NEW s
    PROVE  \A n \in Nat : \E f : IsScan(f, format, s, n)
  <1> DEFINE T == {n \in Nat : \E f : IsScan(f, format, s, n)}
  <1>1. 0 \in T
    <2> DEFINE f == [i \in 0..0 |-> Start]
    <2>1. \A i \in 0..0 : i = 0
      OBVIOUS
    <2>2. IsScan(f, format, s, 0)
      <3> DEFINE g == [i \in 0..0 |->
                         IF i = 0 THEN Start ELSE ScanStep(format, f[i - 1], s[i])]
      <3>1. f = g
        BY <2>1, Zenon
      <3> QED BY <3>1, Zenon DEF IsScan
    <2> HIDE DEF f
    <2> QED BY <2>2
  <1>2. ASSUME NEW n \in Nat, n \in T PROVE n + 1 \in T
    <2>1. PICK f : IsScan(f, format, s, n)
      BY <1>2
    <2> DEFINE g == [i \in 0..n + 1 |->
                       IF i <= n THEN f[i] ELSE ScanStep(format, f[i - 1], s[i])]
    <2>2. ASSUME NEW i \in 0..n + 1
          PROVE  g[i] = IF i = 0 THEN Start ELSE ScanStep(format, g[i - 1], s[i])
      <3>1. CASE i = 0
        <4>1. f[0] = Start
          BY <2>1, ScanFirst
        <4> QED BY <3>1, <4>1
      <3>2. CASE i # 0
        <4>1. i - 1 \in 0..n + 1 /\ i - 1 <= n
          BY <3>2
        <4>2. g[i - 1] = f[i - 1]
          BY <4>1
        <4>3. g[i] = ScanStep(format, f[i - 1], s[i])
          <5>1. CASE i <= n
            <6>1. i - 1 \in 0..n - 1 /\ (i - 1) + 1 = i
              BY <3>2, <5>1
            <6>2. Follows(f, format, s, n)
              BY <2>1, ScanNexts
            <6>3. f[(i - 1) + 1] = ScanStep(format, f[i - 1], s[(i - 1) + 1])
              BY <6>1, <6>2, Zenon DEF Follows
            <6>4. g[i] = f[i]
              BY <5>1
            <6> HIDE DEF g
            <6> QED BY <6>1, <6>3, <6>4
          <5>2. CASE ~(i <= n)
            BY <5>2
          <5> QED BY <5>1, <5>2
        <4> HIDE DEF g
        <4> QED BY <3>2, <4>2, <4>3
      <3> QED BY <3>1, <3>2
    <2>3. g = [i \in 0..n + 1 |-> g[i]]
      OBVIOUS
    <2> HIDE DEF g
    <2>4. IsScan(g, format, s, n + 1)
      BY <2>2, <2>3, Zenon DEF IsScan
    <2> QED BY <2>4
  <1> HIDE DEF T
  <1>3. \A n \in Nat : n \in T
    BY <1>1, <1>2, Induction
  <1> QED BY <1>3 DEF T

\* A scan does not look ahead.
LEMMA ScanUnique ==
    ASSUME NEW format, NEW s, NEW r, NEW m \in Nat, NEW k \in Nat, k <= m,
           Agree(s, r, k), NEW f, IsScan(f, format, s, k), NEW g, IsScan(g, format, r, m)
    PROVE  f[k] = g[k]
  <1>1. Follows(f, format, s, k)
    BY ScanNexts
  <1>2. Follows(g, format, r, m)
    BY ScanNexts
  <1> DEFINE T == {n \in Nat : n \in 0..k => f[n] = g[n]}
  <1>3. 0 \in T
    <2>1. f[0] = Start
      BY ScanFirst
    <2>2. g[0] = Start
      BY ScanFirst
    <2> QED BY <2>1, <2>2
  <1>4. ASSUME NEW n \in Nat, n \in T PROVE n + 1 \in T
    <2> SUFFICES ASSUME n + 1 \in 0..k PROVE f[n + 1] = g[n + 1]
      OBVIOUS
    <2>1. n \in 0..k - 1 /\ n \in 0..m - 1 /\ n + 1 \in 1..k /\ f[n] = g[n]
      BY <1>4
    <2>2. s[n + 1] = r[n + 1]
      BY <2>1, Zenon DEF Agree
    <2>3. f[n + 1] = ScanStep(format, f[n], s[n + 1])
      BY <1>1, <2>1, Zenon DEF Follows
    <2>4. g[n + 1] = ScanStep(format, g[n], r[n + 1])
      BY <1>2, <2>1, Zenon DEF Follows
    <2> QED BY <2>1, <2>2, <2>3, <2>4, Zenon
  <1> HIDE DEF T
  <1>5. \A n \in Nat : n \in T
    BY <1>3, <1>4, Induction
  <1> QED BY <1>5 DEF T

LEMMA ScanIs ==
    ASSUME NEW format, NEW s, NEW n \in Nat
    PROVE  \E f : IsScan(f, format, s, n) /\ ScanAt(format, s, n) = f[n]
  <1> DEFINE f == CHOOSE h : IsScan(h, format, s, n)
  <1>1. IsScan(f, format, s, n)
    BY ScanExists, Zenon
  <1>2. ScanAt(format, s, n) = f[n]
    BY Zenon DEF ScanAt
  <1> QED BY <1>1, <1>2, Zenon

LEMMA ScanSame ==
    ASSUME NEW format, NEW s, NEW r, NEW n \in Nat, Agree(s, r, n)
    PROVE  ScanAt(format, s, n) = ScanAt(format, r, n)
  <1>1. PICK f : IsScan(f, format, s, n) /\ ScanAt(format, s, n) = f[n]
    BY ScanIs
  <1>2. PICK g : IsScan(g, format, r, n) /\ ScanAt(format, r, n) = g[n]
    BY ScanIs
  <1>3. n <= n
    OBVIOUS
  <1>4. f[n] = g[n]
    BY <1>1, <1>2, <1>3, ScanUnique
  <1> QED BY <1>1, <1>2, <1>4

LEMMA ScanStarts ==
    ASSUME NEW format, NEW s
    PROVE  ScanAt(format, s, 0) = Start
  <1>1. 0 \in Nat
    OBVIOUS
  <1>2. PICK f : IsScan(f, format, s, 0) /\ ScanAt(format, s, 0) = f[0]
    BY <1>1, ScanIs, Zenon
  <1> QED BY <1>1, <1>2, ScanFirst, Zenon

LEMMA ScanGoesOn ==
    ASSUME NEW format, NEW s, NEW n \in Nat
    PROVE  ScanAt(format, s, n + 1) = ScanStep(format, ScanAt(format, s, n), s[n + 1])
  <1> DEFINE m == n + 1
  <1>1. m \in Nat /\ n <= m /\ n \in 0..m - 1
    OBVIOUS
  <1> HIDE DEF m
  <1>2. PICK f : IsScan(f, format, s, n) /\ ScanAt(format, s, n) = f[n]
    BY ScanIs
  <1>3. PICK g : IsScan(g, format, s, m) /\ ScanAt(format, s, m) = g[m]
    BY <1>1, ScanIs
  <1>4. Agree(s, s, n)
    BY DEF Agree
  <1>5. f[n] = g[n]
    BY <1>1, <1>2, <1>3, <1>4, ScanUnique
  <1>6. Follows(g, format, s, m)
    BY <1>1, <1>3, ScanNexts
  <1>7. g[n + 1] = ScanStep(format, g[n], s[n + 1])
    BY <1>1, <1>6, Zenon DEF Follows
  <1> QED BY <1>2, <1>3, <1>5, <1>7, Zenon DEF m

-----------------------------------------------------------------------------
(* What a scan finds in a frame                                             *)

Acc(line, text) == [line |-> line, text |-> text]

Scanned(format, s) == ScanAt(format, s, Len(s))

\* However few tokens of it are read, the text found is one of these.
Finds(format, s, P) == \A n \in 0..Len(s) : TextOfFirst(format, s, n) \in P

\* Where a scan of s stands.
Stands(format, s, line, text, P) ==
    Scanned(format, s) = Acc(line, text) /\ Finds(format, s, P)

LEMMA ScanAppend ==
    ASSUME NEW format, NEW S, NEW s \in Seq(S), NEW x \in S
    PROVE  Scanned(format, Append(s, x)) = ScanStep(format, Scanned(format, s), x)
  <1> DEFINE r == Append(s, x)
  <1> DEFINE n == Len(s)
  <1>1. /\ n \in Nat /\ Len(r) = n + 1 /\ r[n + 1] = x
        /\ \A i \in 1..n : s[i] = r[i]
    BY AppendProperties, LenProperties
  <1> HIDE DEF r, n
  <1>2. Agree(s, r, n)
    BY <1>1 DEF Agree
  <1>3. ScanAt(format, s, n) = ScanAt(format, r, n)
    BY <1>1, <1>2, ScanSame
  <1>4. ScanAt(format, r, n + 1) = ScanStep(format, ScanAt(format, r, n), r[n + 1])
    BY <1>1, ScanGoesOn
  <1> QED BY <1>1, <1>3, <1>4 DEF Scanned, n, r

LEMMA FindsAppend ==
    ASSUME NEW format, NEW S, NEW s \in Seq(S), NEW x \in S, NEW P, Finds(format, s, P),
           AbsorbLine(format, Scanned(format, Append(s, x))) \in P
    PROVE  Finds(format, Append(s, x), P)
  <1> DEFINE r == Append(s, x)
  <1> DEFINE n == Len(s)
  <1>1. /\ n \in Nat /\ Len(r) = n + 1
        /\ \A i \in 1..n : s[i] = r[i]
    BY AppendProperties, LenProperties
  <1>2. AbsorbLine(format, Scanned(format, r)) \in P
    OBVIOUS
  <1> HIDE DEF r
  <1>3. ASSUME NEW i \in 0..n + 1 PROVE TextOfFirst(format, r, i) \in P
    <2>1. CASE i \in 0..n
      <3>1. Agree(s, r, i) /\ i \in Nat
        BY <1>1, <2>1 DEF Agree
      <3>2. ScanAt(format, s, i) = ScanAt(format, r, i)
        BY <3>1, ScanSame
      <3>3. TextOfFirst(format, s, i) \in P
        BY <2>1, Zenon DEF Finds
      <3> QED BY <3>2, <3>3, TextIsScan
    <2>2. CASE i = n + 1
      BY <1>1, <1>2, <2>2, TextIsScan DEF Scanned
    <2> QED BY <1>1, <2>1, <2>2
  <1> QED BY <1>1, <1>3 DEF Finds, r

LEMMA StandsAppend ==
    ASSUME NEW format, NEW S, NEW s \in Seq(S), NEW x \in S, NEW P,
           NEW line, NEW text, Stands(format, s, line, text, P),
           NEW line2, NEW text2,
           ScanStep(format, Acc(line, text), x) = Acc(line2, text2),
           AbsorbLine(format, Acc(line2, text2)) \in P
    PROVE  Append(s, x) \in Seq(S) /\ Stands(format, Append(s, x), line2, text2, P)
  <1>1. Scanned(format, Append(s, x)) = Acc(line2, text2)
    BY ScanAppend DEF Stands
  <1>2. Finds(format, Append(s, x), P)
    BY <1>1, FindsAppend DEF Stands
  <1> QED BY <1>1, <1>2, AppendProperties DEF Stands

LEMMA StandsAtStart ==
    ASSUME NEW format, NEW P, <<>> \in P
    PROVE  Stands(format, <<>>, <<>>, <<>>, P)
  <1>1. ScanAt(format, <<>>, 0) = Acc(<<>>, <<>>)
    BY ScanStarts DEF Start, Acc
  <1>2. AbsorbLine(format, Acc(<<>>, <<>>)) = <<>>
    BY DEF AbsorbLine, Acc
  <1>3. Len(<<>>) = 0
    OBVIOUS
  <1>4. TextOfFirst(format, <<>>, 0) \in P
    BY <1>1, <1>2, TextIsScan
  <1>5. \A n \in 0..0 : n = 0
    OBVIOUS
  <1> QED BY <1>1, <1>3, <1>4, <1>5, Zenon DEF Stands, Scanned, Finds

\* The lines of a frame.
LEMMA PlainLine ==
    ASSUME NEW format, NEW text, NEW line \in {<<>>, <<EVENT>>, <<DATA>>}
    PROVE  AbsorbLine(format, Acc(line, text)) = text
  <1>1. CASE line = <<>>
    BY <1>1 DEF AbsorbLine, Acc
  <1>2. CASE line = <<EVENT>>
    <2>1. EVENT # DATA
      BY DEF EVENT, DATA
    <2> QED BY <1>2, <2>1 DEF AbsorbLine, Acc
  <1>3. CASE line = <<DATA>>
    <2>1. Len(Tail(<<DATA>>)) = 0
      OBVIOUS
    <2>2. ~IsDocument(Tail(<<DATA>>))
      BY <2>1 DEF IsDocument
    <2> QED BY <1>3, <2>2 DEF AbsorbLine, Acc
  <1> QED BY <1>1, <1>2, <1>3

DataLine(d) == <<DATA>> \o d

LEMMA DataLineParts ==
    ASSUME NEW S, DATA \in S, NEW d \in Seq(S)
    PROVE  /\ DataLine(d) \in Seq(S) /\ DataLine(d) # <<>>
           /\ Head(DataLine(d)) = DATA /\ Tail(DataLine(d)) = d
  <1> DEFINE z == DataLine(d)
  <1>1. <<DATA>> \in Seq(S) /\ Len(<<DATA>>) = 1 /\ <<DATA>>[1] = DATA
    OBVIOUS
  <1>2. z \in Seq(S) /\ IsConcat(z, <<DATA>>, d)
    BY <1>1, ConcatParts DEF DataLine
  <1>3. Len(d) \in Nat
    BY LenProperties
  <1> HIDE DEF z
  <1>4. Len(z) = 1 + Len(d) /\ z[1] = DATA /\ \A i \in 1..Len(d) : z[1 + i] = d[i]
    BY <1>1, <1>2 DEF IsConcat
  <1>5. z # <<>>
    BY <1>3, <1>4
  <1>6. /\ Tail(z) \in Seq(S) /\ Len(Tail(z)) = Len(d)
        /\ \A i \in 1..Len(d) : Tail(z)[i] = d[i]
    <2>1. /\ Tail(z) \in Seq(S) /\ Len(Tail(z)) = Len(z) - 1
          /\ \A i \in 1..Len(Tail(z)) : Tail(z)[i] = z[i + 1]
      BY <1>2, <1>5, HeadTailProperties
    <2>2. Len(Tail(z)) = Len(d)
      BY <1>3, <1>4, <2>1
    <2>3. ASSUME NEW i \in 1..Len(d) PROVE Tail(z)[i] = d[i]
      <3>1. 1 + i = i + 1
        BY <1>3
      <3> QED BY <1>4, <2>1, <2>2, <3>1, Zenon
    <2> QED BY <2>1, <2>2, <2>3
  <1>7. Tail(z) = d
    BY <1>6, SeqEqual
  <1>8. Head(z) = DATA
    BY <1>2, <1>4, <1>5
  <1> QED BY <1>2, <1>5, <1>7, <1>8 DEF z

\* What a line "data:" adds to the text.
LEMMA DataLineAbsorbed ==
    ASSUME NEW format, NEW text, NEW S, DATA \in S, NEW d \in Seq(S)
    PROVE  AbsorbLine(format, Acc(DataLine(d), text)) =
             IF IsDocument(d)
             THEN Absorb(format, text, Head(d).kind, SubSeq(d, 2, Len(d) - 1)) ELSE text
  <1> DEFINE z == DataLine(d)
  <1>1. z # <<>> /\ Head(z) = DATA /\ Tail(z) = d
    BY DataLineParts
  <1> HIDE DEF z
  <1>2. Acc(z, text).line = z /\ Acc(z, text).text = text
    BY DEF Acc
  <1> QED BY <1>1, <1>2 DEF AbsorbLine, z

Opened(kind, t) == <<Open(kind)>> \o t

LEMMA OpenedParts ==
    ASSUME NEW S, NEW kind, Open(kind) \in S, NEW t \in Seq(S)
    PROVE  /\ Opened(kind, t) \in Seq(S) /\ Len(Opened(kind, t)) = 1 + Len(t)
           /\ Opened(kind, t)[1] = Open(kind)
           /\ \A i \in 1..Len(t) : Opened(kind, t)[1 + i] = t[i]
  <1>1. <<Open(kind)>> \in Seq(S) /\ Len(<<Open(kind)>>) = 1 /\ <<Open(kind)>>[1] = Open(kind)
    OBVIOUS
  <1>2. Opened(kind, t) \in Seq(S) /\ IsConcat(Opened(kind, t), <<Open(kind)>>, t)
    BY <1>1, ConcatParts DEF Opened
  <1>3. Len(t) \in Nat
    BY LenProperties
  <1> QED BY <1>1, <1>2, <1>3 DEF IsConcat

\* A document that is not closed yet says nothing.
LEMMA OpenedAbsorbed ==
    ASSUME NEW format, NEW text, NEW S, DATA \in S, NEW kind, Open(kind) \in S,
           NEW t \in Seq(S), IsText(t)
    PROVE  AbsorbLine(format, Acc(DataLine(Opened(kind, t)), text)) = text
  <1> DEFINE d == Opened(kind, t)
  <1>1. /\ d \in Seq(S) /\ Len(d) = 1 + Len(t) /\ d[1] = Open(kind)
        /\ \A i \in 1..Len(t) : d[1 + i] = t[i]
    BY OpenedParts
  <1>2. Len(t) \in Nat /\ DOMAIN t = 1..Len(t)
    BY LenProperties
  <1> HIDE DEF d
  <1>3. ~IsDocument(d)
    <2> SUFFICES ASSUME Len(d) >= 2, d[Len(d)] = CLOSE PROVE FALSE
      BY DEF IsDocument
    <2>1. Len(t) \in 1..Len(t) /\ Len(d) = 1 + Len(t)
      BY <1>1, <1>2
    <2>2. t[Len(t)] = CLOSE
      BY <1>1, <2>1
    <2>3. t[Len(t)].tok \in {"char", "data", "event"}
      BY <1>2, <2>1 DEF IsText
    <2> QED BY <2>2, <2>3 DEF CLOSE
  <1> QED BY <1>1, <1>3, DataLineAbsorbed DEF d

\* A closed one is absorbed.
LEMMA ClosedAbsorbed ==
    ASSUME NEW format, NEW text, NEW S, DATA \in S, CLOSE \in S, NEW kind, Open(kind) \in S,
           NEW t \in Seq(S), IsText(t)
    PROVE  AbsorbLine(format, Acc(DataLine(Append(Opened(kind, t), CLOSE)), text))
             = Absorb(format, text, kind, t)
  <1> DEFINE c == Opened(kind, t)
  <1> DEFINE d == Append(c, CLOSE)
  <1>1. /\ c \in Seq(S) /\ Len(c) = 1 + Len(t) /\ c[1] = Open(kind)
        /\ \A i \in 1..Len(t) : c[1 + i] = t[i]
    BY OpenedParts
  <1>2. Len(t) \in Nat /\ DOMAIN t = 1..Len(t)
    BY LenProperties
  <1> HIDE DEF c
  <1>3. /\ d \in Seq(S) /\ Len(d) = Len(c) + 1 /\ d[Len(c) + 1] = CLOSE
        /\ \A i \in 1..Len(c) : d[i] = c[i]
    BY <1>1, AppendProperties
  <1> HIDE DEF d
  <1>4. /\ Len(d) = Len(t) + 2 /\ d[Len(d)] = CLOSE /\ d[1] = Open(kind)
        /\ \A i \in 1..Len(t) : d[1 + i] = t[i]
    <2>1. Len(d) = Len(t) + 2 /\ Len(c) + 1 = Len(d) /\ 1 \in 1..Len(c)
      BY <1>1, <1>2, <1>3
    <2>2. \A i \in 1..Len(t) : 1 + i \in 1..Len(c)
      BY <1>1, <1>2
    <2> QED BY <1>1, <1>3, <2>1, <2>2
  <1>5. SubSeq(d, 2, Len(d) - 1) = t
    <2> DEFINE m == Len(d) - 1
    <2>1. m \in Int /\ 2 \in Int /\ m - 2 + 1 = Len(t) /\ m = Len(t) + 1
      BY <1>2, <1>4
    <2>2. \A i \in 2..m : d[i] \in S
      BY <1>2, <1>3, <1>4, ElementOfSeq
    <2> HIDE DEF m
    <2>3. /\ SubSeq(d, 2, m) \in Seq(S)
          /\ Len(SubSeq(d, 2, m)) = IF 2 <= m THEN m - 2 + 1 ELSE 0
          /\ \A i \in 1..m - 2 + 1 : SubSeq(d, 2, m)[i] = d[2 + i - 1]
      BY <2>1, <2>2, SubSeqProperties
    <2>4. Len(SubSeq(d, 2, m)) = Len(t)
      BY <1>2, <2>1, <2>3
    <2>5. ASSUME NEW i \in 1..Len(t) PROVE SubSeq(d, 2, m)[i] = t[i]
      <3>1. 2 + i - 1 = 1 + i
        BY <1>2
      <3>2. SubSeq(d, 2, m)[i] = d[2 + i - 1]
        BY <2>1, <2>3
      <3> QED BY <1>4, <3>1, <3>2
    <2>6. SubSeq(d, 2, m) = t
      BY <2>3, <2>4, <2>5, SeqEqual
    <2> QED BY <2>6 DEF m
  <1>6. Head(d) = Open(kind)
    <2>1. d # <<>> /\ d[1] = Open(kind)
      BY <1>2, <1>4
    <2> HIDE DEF Open
    <2> QED BY <2>1 DEF Head
  <1>7. Open(kind).tok = "open" /\ Open(kind).kind = kind
    BY DEF Open
  <1>8. IsDocument(d)
    <2>1. Len(d) >= 2
      BY <1>2, <1>4
    <2> QED BY <1>4, <1>5, <1>7, <2>1 DEF IsDocument
  <1>9. AbsorbLine(format, Acc(DataLine(d), text)) =
          IF IsDocument(d)
          THEN Absorb(format, text, Head(d).kind, SubSeq(d, 2, Len(d) - 1)) ELSE text
    BY <1>3, DataLineAbsorbed
  <1>10. AbsorbLine(format, Acc(DataLine(d), text)) = Absorb(format, text, kind, t)
    BY <1>5, <1>6, <1>7, <1>8, <1>9, Zenon
  <1> QED BY <1>10 DEF d, c

\* A mark starts a line, after the one before is absorbed.
LEMMA StandsMark ==
    ASSUME NEW format, NEW S, NEW s \in Seq(S), NEW x \in {EVENT, DATA}, x \in S, NEW P,
           NEW line, NEW before, Stands(format, s, line, before, P),
           NEW text \in P, AbsorbLine(format, Acc(line, before)) = text
    PROVE  Append(s, x) \in Seq(S) /\ Stands(format, Append(s, x), <<x>>, text, P)
  <1>1. x # NL /\ StartsLine(x)
    BY DEF NL, EVENT, DATA, StartsLine
  <1>2. ScanStep(format, Acc(line, before), x) = Acc(<<x>>, text)
    BY <1>1 DEF ScanStep, Acc
  <1>3. AbsorbLine(format, Acc(<<x>>, text)) = text
    BY PlainLine
  <1> QED BY <1>2, <1>3, StandsAppend

LEMMA StandsBreak ==
    ASSUME NEW format, NEW S, NEW s \in Seq(S), NL \in S, NEW P,
           NEW line, NEW before, Stands(format, s, line, before, P),
           NEW text \in P, AbsorbLine(format, Acc(line, before)) = text
    PROVE  Append(s, NL) \in Seq(S) /\ Stands(format, Append(s, NL), <<>>, text, P)
  <1>0. ~StartsLine(NL)
    BY DEF StartsLine, NL, EVENT, DATA
  <1>1. ScanStep(format, Acc(line, before), NL) = Acc(<<>>, text)
    BY <1>0 DEF ScanStep, Acc
  <1>2. AbsorbLine(format, Acc(<<>>, text)) = text
    BY PlainLine
  <1> QED BY <1>1, <1>2, StandsAppend

LEMMA StandsOther ==
    ASSUME NEW format, NEW S, NEW s \in Seq(S), NEW x \in S, x \notin {NL, EVENT, DATA}, NEW P,
           NEW line, NEW text, Stands(format, s, line, text, P),
           AbsorbLine(format, Acc(Append(line, x), text)) \in P
    PROVE  /\ Append(s, x) \in Seq(S)
           /\ Stands(format, Append(s, x), Append(line, x), text, P)
  <1>1. x # NL /\ ~StartsLine(x)
    BY DEF StartsLine
  <1>2. ScanStep(format, Acc(line, text), x) = Acc(Append(line, x), text)
    BY <1>1 DEF ScanStep, Acc
  <1> QED BY <1>2, StandsAppend

\* Appending inside a concatenation.
LEMMA ConcatAppend ==
    ASSUME NEW S, NEW s \in Seq(S), NEW t \in Seq(S), NEW x \in S
    PROVE  s \o Append(t, x) = Append(s \o t, x)
  <1> DEFINE c == <<x>>
  <1>1. c \in Seq(S)
    OBVIOUS
  <1>2. \A r \in Seq(S) : Append(r, x) = r \o c
    OBVIOUS
  <1> HIDE DEF c
  <1>3. s \o t \in Seq(S)
    BY ConcatProperties
  <1>4. (s \o t) \o c = s \o (t \o c)
    BY <1>1, ConcatAssociative
  <1>5. Append(t, x) = t \o c /\ Append(s \o t, x) = (s \o t) \o c
    BY <1>2, <1>3
  <1> QED BY <1>4, <1>5, Zenon

\* A line that starts at a mark inside a text: whatever of the text is added to
\* it, it is no document.
Dead(line) ==
    line # <<>> /\ (line[1] = DATA /\ Len(line) >= 2 => line[2].tok # "open")

LEMMA DeadLine ==
    ASSUME NEW format, NEW text, NEW S, NEW line \in Seq(S), Dead(line)
    PROVE  AbsorbLine(format, Acc(line, text)) = text
  <1>1. Acc(line, text).line = line /\ Acc(line, text).text = text
    BY DEF Acc
  <1>2. ASSUME Head(line) = DATA, IsDocument(Tail(line)) PROVE FALSE
    <2> DEFINE d == Tail(line)
    <2>1. line # <<>> /\ Len(line) \in Nat
      BY LenProperties DEF Dead
    <2>2. /\ d \in Seq(S) /\ Len(d) = Len(line) - 1
          /\ \A i \in 1..Len(d) : d[i] = line[i + 1]
      BY <2>1, HeadTailProperties
    <2>3. Len(d) >= 2 /\ d[1].tok = "open"
      BY <1>2 DEF IsDocument
    <2> HIDE DEF d
    <2>4. d[1] = line[2] /\ Len(line) >= 2
      BY <2>1, <2>2, <2>3
    <2>5. line[1] = DATA
      BY <1>2, <2>1
    <2> QED BY <2>3, <2>4, <2>5 DEF Dead
  <1> QED BY <1>1, <1>2 DEF AbsorbLine

LEMMA DeadAppend ==
    ASSUME NEW S, NEW line \in Seq(S), Dead(line), NEW x \in S, x.tok # "open"
    PROVE  Append(line, x) \in Seq(S) /\ Dead(Append(line, x))
  <1> DEFINE z == Append(line, x)
  <1>1. /\ z \in Seq(S) /\ Len(z) = Len(line) + 1 /\ z[Len(line) + 1] = x
        /\ \A i \in 1..Len(line) : z[i] = line[i]
    BY AppendProperties
  <1>2. Len(line) \in Nat /\ Len(line) # 0
    BY LenProperties, EmptySeq DEF Dead
  <1> HIDE DEF z
  <1>3. z # <<>> /\ z[1] = line[1]
    <2>1. 1 \in 1..Len(line)
      BY <1>2
    <2> QED BY <1>1, <1>2, <2>1
  <1>4. ASSUME z[1] = DATA, Len(z) >= 2 PROVE z[2].tok # "open"
    <2>1. CASE Len(line) = 1
      BY <1>1, <2>1
    <2>2. CASE Len(line) # 1
      <3> DEFINE n == Len(line)
      <3>0. n \in Nat /\ n # 0 /\ n # 1
        BY <1>2, <2>2
      <3> HIDE DEF n
      <3>1. 2 \in 1..n /\ n >= 2
        BY <3>0
      <3>2. line[1] = DATA /\ z[2] = line[2]
        BY <1>1, <1>3, <1>4, <3>1, Zenon DEF n
      <3>3. line[2].tok # "open"
        BY <3>1, <3>2, Zenon DEF Dead, n
      <3> QED BY <3>2, <3>3
    <2> QED BY <2>1, <2>2
  <1>5. Dead(z)
    BY <1>3, <1>4, Zenon DEF Dead
  <1> QED BY <1>1, <1>5 DEF z

LEMMA DeadMark ==
    ASSUME NEW S, NEW x \in S
    PROVE  <<x>> \in Seq(S) /\ Dead(<<x>>)
  <1>1. <<x>> \in Seq(S) /\ <<x>> # <<>> /\ Len(<<x>>) = 1
    OBVIOUS
  <1>2. ~(Len(<<x>>) >= 2)
    BY <1>1
  <1> QED BY <1>1, <1>2, Zenon DEF Dead

LEMMA LegibleNothing == Legible(<<>>)
  BY DEF Legible

LEMMA LegibleAppend ==
    ASSUME NEW S, NEW u \in Seq(S), NEW x \in S
    PROVE  Legible(Append(u, x)) <=> Legible(u) /\ ~StartsLine(x)
  <1> DEFINE t == Append(u, x)
  <1> DEFINE n == Len(u)
  <1>1. /\ n \in Nat /\ DOMAIN u = 1..n /\ t \in Seq(S) /\ Len(t) = n + 1
        /\ t[n + 1] = x /\ \A i \in 1..n : t[i] = u[i]
    BY AppendProperties, LenProperties
  <1> HIDE DEF t, n
  <1>2. DOMAIN t = 1..n + 1
    BY <1>1, LenProperties
  <1>3. /\ \A i \in 1..n : i \in 1..n + 1
        /\ \A i \in 1..n + 1 : i \in 1..n \/ i = n + 1
        /\ n + 1 \in 1..n + 1
    BY <1>1
  <1>4. Legible(t) <=> Legible(u) /\ ~StartsLine(x)
    BY <1>1, <1>2, <1>3, Zenon DEF Legible
  <1> QED BY <1>4 DEF t

LEMMA LegibleConcat ==
    ASSUME NEW S, NEW u \in Seq(S), NEW t \in Seq(S), Legible(u \o t)
    PROVE  Legible(u) /\ Legible(t)
  <1> DEFINE z == u \o t
  <1>1. z \in Seq(S) /\ IsConcat(z, u, t) /\ Legible(z)
    BY ConcatParts
  <1> HIDE DEF z
  <1>2. /\ Len(u) \in Nat /\ Len(t) \in Nat
        /\ DOMAIN u = 1..Len(u) /\ DOMAIN t = 1..Len(t) /\ DOMAIN z = 1..Len(z)
    BY <1>1, LenProperties
  <1>3. ASSUME NEW i \in 1..Len(u) PROVE ~StartsLine(u[i])
    <2>1. i \in 1..Len(z) /\ z[i] = u[i]
      BY <1>1, <1>2 DEF IsConcat
    <2>2. ~StartsLine(z[i])
      BY <1>1, <1>2, <2>1, Zenon DEF Legible
    <2> QED BY <2>1, <2>2
  <1>4. ASSUME NEW i \in 1..Len(t) PROVE ~StartsLine(t[i])
    <2>1. Len(u) + i \in 1..Len(z) /\ z[Len(u) + i] = t[i]
      BY <1>1, <1>2 DEF IsConcat
    <2>2. ~StartsLine(z[Len(u) + i])
      BY <1>1, <1>2, <2>1, Zenon DEF Legible
    <2> QED BY <2>1, <2>2
  <1> QED BY <1>2, <1>3, <1>4, Zenon DEF Legible

\* The line at which a document with text t ends, before it is closed: the
\* document as it is, or the rest of it behind the last mark of the text.
EndsIn(line, kind, t) ==
    IF Legible(t) THEN line = DataLine(Opened(kind, t)) ELSE Dead(line)

LEMMA EndAbsorbed ==
    ASSUME NEW format, NEW text, NEW S, DATA \in S, NEW kind, Open(kind) \in S,
           NEW t \in Seq(S), IsText(t), NEW line \in Seq(S), EndsIn(line, kind, t)
    PROVE  AbsorbLine(format, Acc(line, text)) = text
  <1>1. CASE Legible(t)
    <2>1. line = DataLine(Opened(kind, t))
      BY <1>1, Zenon DEF EndsIn
    <2> QED BY <2>1, OpenedAbsorbed
  <1>2. CASE ~Legible(t)
    BY <1>2, DeadLine DEF EndsIn
  <1> QED BY <1>1, <1>2

LEMMA DataLineAppend ==
    ASSUME NEW S, DATA \in S, NEW kind, Open(kind) \in S, NEW u \in Seq(S), NEW x \in S
    PROVE  Append(DataLine(Opened(kind, u)), x) = DataLine(Opened(kind, Append(u, x)))
  <1> DEFINE o == <<Open(kind)>>
  <1> DEFINE m == <<DATA>>
  <1> DEFINE t == Append(u, x)
  <1>1. o \in Seq(S) /\ m \in Seq(S)
    OBVIOUS
  <1> HIDE DEF o, m
  <1>2. o \o u \in Seq(S)
    BY <1>1, ConcatProperties
  <1>3. o \o t = Append(o \o u, x)
    BY <1>1, ConcatAppend
  <1>4. m \o Append(o \o u, x) = Append(m \o (o \o u), x)
    BY <1>1, <1>2, ConcatAppend
  <1> HIDE DEF t
  <1>5. DataLine(Opened(kind, t)) = m \o (o \o t)
    BY Zenon DEF DataLine, Opened, o, m
  <1>6. DataLine(Opened(kind, u)) = m \o (o \o u)
    BY Zenon DEF DataLine, Opened, o, m
  <1> QED BY <1>3, <1>4, <1>5, <1>6, Zenon DEF t

\* One more token of the text.
LEMMA EndAppend ==
    ASSUME NEW S, DATA \in S, NEW kind, Open(kind) \in S, NEW u \in Seq(S),
           NEW line \in Seq(S), EndsIn(line, kind, u),
           NEW x \in S, ~StartsLine(x), x.tok # "open"
    PROVE  Append(line, x) \in Seq(S) /\ EndsIn(Append(line, x), kind, Append(u, x))
  <1>1. Append(line, x) \in Seq(S)
    BY AppendProperties
  <1>2. Legible(Append(u, x)) <=> Legible(u)
    BY LegibleAppend
  <1>3. CASE Legible(u)
    <2>1. line = DataLine(Opened(kind, u))
      BY <1>3, Zenon DEF EndsIn
    <2>2. Append(line, x) = DataLine(Opened(kind, Append(u, x)))
      BY <2>1, DataLineAppend
    <2> QED BY <1>1, <1>2, <1>3, <2>2, Zenon DEF EndsIn
  <1>4. CASE ~Legible(u)
    <2>1. Dead(line)
      BY <1>4, Zenon DEF EndsIn
    <2>2. Dead(Append(line, x))
      BY <2>1, DeadAppend
    <2> QED BY <1>1, <1>2, <1>4, <2>2, Zenon DEF EndsIn
  <1> QED BY <1>3, <1>4

\* The opening token and the text of a document.
LEMMA StandsText ==
    ASSUME NEW format, NEW S, Marks \subseteq S, NEW s \in Seq(S), NEW P,
           NEW kind, Open(kind) \in S, NEW text \in P,
           Stands(format, s, DataLine(Opened(kind, <<>>)), text, P)
    PROVE  \A t \in Seq(S) : IsText(t) =>
             \E line \in Seq(S) :
                EndsIn(line, kind, t) /\ Stands(format, s \o t, line, text, P)
  <1> DEFINE Done(t) == \E line \in Seq(S) :
                          EndsIn(line, kind, t) /\ Stands(format, s \o t, line, text, P)
  <1> DEFINE T == {n \in Nat : \A t \in Seq(S) : Len(t) = n /\ IsText(t) => Done(t)}
  <1>0. DATA \in S
    BY DEF Marks
  <1>1. 0 \in T
    <2> SUFFICES ASSUME NEW t \in Seq(S), Len(t) = 0, IsText(t) PROVE Done(t)
      BY Zenon
    <2>1. t = <<>>
      BY EmptySeq
    <2>2. s \o <<>> = s
      BY ConcatEmptySeq
    <2> DEFINE l == DataLine(Opened(kind, <<>>))
    <2>3. l \in Seq(S)
      <3> DEFINE w == <<>>
      <3>1. w \in Seq(S)
        OBVIOUS
      <3> HIDE DEF w
      <3>2. Opened(kind, w) \in Seq(S)
        BY <3>1, OpenedParts
      <3>3. DataLine(Opened(kind, w)) \in Seq(S)
        BY <1>0, <3>2, DataLineParts
      <3> QED BY <3>3 DEF w
    <2>4. EndsIn(l, kind, <<>>)
      BY LegibleNothing, Zenon DEF EndsIn
    <2>5. Stands(format, s, l, text, P)
      OBVIOUS
    <2> HIDE DEF l
    <2> QED BY <2>1, <2>2, <2>3, <2>4, <2>5
  <1>2. ASSUME NEW n \in Nat, n \in T PROVE n + 1 \in T
    <2> SUFFICES ASSUME NEW t \in Seq(S), Len(t) = n + 1, IsText(t) PROVE Done(t)
      <3> HIDE DEF Done
      <3> QED OBVIOUS
    <2>1. t # <<>>
      BY EmptySeq
    <2>2. PICK u \in Seq(S), x \in S : t = Append(u, x)
      BY <2>1, SequenceEmptyOrAppend
    <2>3. /\ Len(u) = n /\ Len(u) \in Nat /\ DOMAIN u = 1..Len(u) /\ DOMAIN t = 1..n + 1
          /\ t[n + 1] = x /\ \A i \in 1..n : t[i] = u[i]
      BY <2>2, AppendProperties, LenProperties
    <2>4. IsText(u) /\ x.tok \in {"char", "data", "event"}
      <3>1. n + 1 \in DOMAIN t /\ \A i \in 1..n : i \in DOMAIN t
        BY <2>3
      <3>2. \A i \in 1..n : u[i].tok \in {"char", "data", "event"}
        BY <2>3, <3>1, Zenon DEF IsText
      <3>3. x.tok \in {"char", "data", "event"}
        BY <2>3, <3>1, Zenon DEF IsText
      <3> QED BY <2>3, <3>2, <3>3, Zenon DEF IsText
    <2>5. Done(u)
      <3> HIDE DEF Done
      <3> QED BY <1>2, <2>3, <2>4
    <2>6. PICK line \in Seq(S) :
             EndsIn(line, kind, u) /\ Stands(format, s \o u, line, text, P)
      BY <2>5, Zenon
    <2>7. s \o u \in Seq(S) /\ Append(s \o u, x) = s \o t
      <3>1. s \o u \in Seq(S)
        BY ConcatProperties
      <3>2. s \o Append(u, x) = Append(s \o u, x)
        BY ConcatAppend
      <3> QED BY <2>2, <3>1, <3>2, Zenon
    <2>8. AbsorbLine(format, Acc(line, text)) = text
      BY <1>0, <2>4, <2>6, EndAbsorbed
    <2>9. CASE StartsLine(x)
      <3>1. x \in {EVENT, DATA}
        BY <2>9 DEF StartsLine
      <3>2. Stands(format, Append(s \o u, x), <<x>>, text, P)
        BY <2>6, <2>7, <2>8, <3>1, StandsMark
      <3>3. ~Legible(t)
        BY <2>2, <2>9, LegibleAppend
      <3>4. <<x>> \in Seq(S) /\ Dead(<<x>>)
        BY DeadMark
      <3> DEFINE l == <<x>>
      <3> HIDE DEF l
      <3>5. l \in Seq(S) /\ EndsIn(l, kind, t) /\ Stands(format, s \o t, l, text, P)
        BY <2>7, <3>2, <3>3, <3>4, Zenon DEF EndsIn, l
      <3> QED BY <3>5, Zenon
    <2>10. CASE ~StartsLine(x)
      <3>1. x \notin {NL, EVENT, DATA} /\ x.tok # "open"
        BY <2>4, <2>10 DEF NL, StartsLine
      <3> DEFINE l == Append(line, x)
      <3>2. l \in Seq(S) /\ EndsIn(l, kind, t)
        BY <1>0, <2>2, <2>6, <2>10, <3>1, EndAppend
      <3> HIDE DEF l
      <3>3. AbsorbLine(format, Acc(l, text)) = text
        BY <1>0, <3>2, EndAbsorbed
      <3>4. Stands(format, Append(s \o u, x), l, text, P)
        BY <2>6, <2>7, <3>1, <3>3, StandsOther DEF l
      <3> QED BY <2>7, <3>2, <3>4, Zenon
    <2> QED BY <2>9, <2>10
  <1> HIDE DEF T
  <1>3. \A n \in Nat : n \in T
    BY <1>1, <1>2, Induction
  <1>4. ASSUME NEW t \in Seq(S), IsText(t) PROVE Done(t)
    <2>1. Len(t) \in Nat
      BY LenProperties
    <2> HIDE DEF Done
    <2> QED BY <1>3, <1>4, <2>1 DEF T
  <1> QED BY <1>4, Zenon

Associates(s, t, u) == (s \o t) \o u = s \o (t \o u)

LEMMA ConcatAssociates ==
    ASSUME NEW S, NEW s \in Seq(S), NEW t \in Seq(S), NEW u \in Seq(S)
    PROVE  Associates(s, t, u)
  BY ConcatAssociative DEF Associates

LEMMA AppendTwice ==
    ASSUME NEW S, NEW s \in Seq(S), NEW x \in S, NEW y \in S
    PROVE  s \o <<x, y>> = Append(Append(s, x), y) /\ s \o <<x>> = Append(s, x)
  <1> DEFINE c == <<x>>
  <1>1. /\ c \in Seq(S) /\ <<x, y>> = Append(c, y) /\ s \o c = Append(s, x)
    OBVIOUS
  <1> HIDE DEF c
  <1>2. s \o Append(c, y) = Append(s \o c, y)
    BY <1>1, ConcatAppend
  <1> QED BY <1>1, <1>2, Zenon DEF c

\* A frame, token by token.
IsFramed(s, kind, t) ==
    s \o Frame(kind, t) =
        Append(Append(Append(Append(Append(s, DATA), Open(kind)) \o t, CLOSE), NL), NL)

LEMMA FrameTokens ==
    ASSUME NEW S, Marks \subseteq S, NEW s \in Seq(S), NEW kind, Open(kind) \in S,
           NEW t \in Seq(S)
    PROVE  IsFramed(s, kind, t)
  <1> DEFINE d == <<DATA>>
  <1> DEFINE o == <<Open(kind)>>
  <1> DEFINE c == <<CLOSE>>
  <1> DEFINE n == <<NL, NL>>
  <1> DEFINE e == Append(Append(s, DATA), Open(kind))
  <1>0. NL \in S /\ CLOSE \in S /\ DATA \in S
    BY DEF Marks
  <1>1. d \in Seq(S) /\ o \in Seq(S) /\ c \in Seq(S) /\ n \in Seq(S)
    BY <1>0
  <1>2. /\ s \o d = Append(s, DATA) /\ Append(s, DATA) \in Seq(S)
    BY <1>0, AppendTwice, AppendProperties
  <1>3. Append(s, DATA) \o o = e
    BY <1>0, <1>2, AppendTwice
  <1>4. e \in Seq(S)
    BY <1>2, AppendProperties
  <1>5. Frame(kind, t) = (d \o ((o \o t) \o c)) \o n
    BY Zenon DEF Frame, Document
  <1> HIDE DEF d, o, e
  <1>6. o \o t \in Seq(S)
    BY <1>1, ConcatProperties
  <1> DEFINE p == o \o t
  <1> DEFINE q == p \o c
  <1>7. p \in Seq(S) /\ q \in Seq(S)
    BY <1>1, <1>6, ConcatProperties
  <1> HIDE DEF p, q, c, n
  <1>8. d \o q \in Seq(S)
    BY <1>1, <1>7, ConcatProperties
  <1>9. Associates(s, d \o q, n) /\ Associates(s, d, q)
    BY <1>1, <1>7, <1>8, ConcatAssociates
  <1>10. s \o ((d \o q) \o n) = ((s \o d) \o q) \o n
    BY <1>9, Zenon DEF Associates
  <1>11. s \o d \in Seq(S)
    BY <1>2
  <1>12. (s \o d) \o q = ((s \o d) \o p) \o c
    <2>1. Associates(s \o d, p, c)
      BY <1>1, <1>7, <1>11, ConcatAssociates
    <2> QED BY <2>1, Zenon DEF Associates, q
  <1>13. (s \o d) \o p = e \o t
    <2>1. Associates(s \o d, o, t)
      BY <1>1, <1>11, ConcatAssociates
    <2> QED BY <1>2, <1>3, <2>1, Zenon DEF Associates, p
  <1>14. s \o Frame(kind, t) = ((e \o t) \o c) \o n
    <2>1. Frame(kind, t) = (d \o q) \o n
      BY <1>5, Zenon DEF q, p
    <2> QED BY <1>10, <1>12, <1>13, <2>1, Zenon
  <1>15. e \o t \in Seq(S)
    BY <1>4, ConcatProperties
  <1> DEFINE g == e \o t
  <1>16. g \in Seq(S)
    BY <1>15
  <1> HIDE DEF g
  <1>17. g \o c = Append(g, CLOSE) /\ Append(g, CLOSE) \in Seq(S)
    BY <1>0, <1>16, AppendTwice, AppendProperties DEF c
  <1>18. Append(g, CLOSE) \o n = Append(Append(Append(g, CLOSE), NL), NL)
    BY <1>0, <1>17, AppendTwice DEF n
  <1> QED BY <1>14, <1>17, <1>18, Zenon DEF IsFramed, g, e

\* The text after a frame: a document with a mark in its text is lost.
After(format, text, kind, t) == IF Legible(t) THEN Absorb(format, text, kind, t) ELSE text

\* A frame ends where a line starts, and what it says is absorbed or lost.
LEMMA StandsFrame ==
    ASSUME NEW format, NEW S, Marks \subseteq S, NEW s \in Seq(S), NEW P,
           NEW line, NEW before, Stands(format, s, line, before, P),
           NEW text \in P, AbsorbLine(format, Acc(line, before)) = text,
           NEW kind \in Kinds, NEW t \in Seq(S), IsText(t),
           NEW then \in P, After(format, text, kind, t) = then
    PROVE  /\ s \o Frame(kind, t) \in Seq(S)
           /\ Stands(format, s \o Frame(kind, t), <<>>, then, P)
  <1> DEFINE a == Append(s, DATA)
  <1> DEFINE b == Append(a, Open(kind))
  <1> DEFINE c == b \o t
  <1> DEFINE d == Append(c, CLOSE)
  <1> DEFINE e == Append(d, NL)
  <1> DEFINE o == Open(kind)
  <1>0. NL \in S /\ CLOSE \in S /\ DATA \in S /\ o \in S
    BY DEF Marks
  <1>1. s \o Frame(kind, t) = Append(e, NL)
    <2>1. IsFramed(s, kind, t)
      BY <1>0, FrameTokens
    <2> QED BY <2>1, Zenon DEF IsFramed
  <1>2. a \in Seq(S) /\ Stands(format, a, <<DATA>>, text, P)
    BY <1>0, StandsMark
  <1> HIDE DEF a
  <1>3. b \in Seq(S) /\ Stands(format, b, DataLine(Opened(kind, <<>>)), text, P)
    <2>1. o \notin {NL, EVENT, DATA}
      BY DEF Open, NL, EVENT, DATA
    <2>2. Append(<<DATA>>, o) = DataLine(Opened(kind, <<>>))
      <3>1. <<o>> \o <<>> = <<o>>
        BY <1>0, ConcatEmptySeq
      <3>2. <<DATA>> \o <<o>> = Append(<<DATA>>, o)
        BY <1>0
      <3> QED BY <3>1, <3>2, Zenon DEF DataLine, Opened
    <2>3. AbsorbLine(format, Acc(DataLine(Opened(kind, <<>>)), text)) \in P
      <3> DEFINE w == <<>>
      <3>1. w \in Seq(S) /\ IsText(w)
        BY DEF IsText
      <3>2. Open(kind) \in S
        BY <1>0
      <3> HIDE DEF w
      <3>3. AbsorbLine(format, Acc(DataLine(Opened(kind, w)), text)) = text
        BY <1>0, <3>1, <3>2, OpenedAbsorbed
      <3> QED BY <3>3 DEF w
    <2> HIDE DEF o
    <2>4. b = Append(a, o)
      BY DEF o
    <2> HIDE DEF b
    <2> QED BY <1>0, <1>2, <2>1, <2>2, <2>3, <2>4, StandsOther
  <1> HIDE DEF b
  <1>4. c \in Seq(S)
        /\ \E last \in Seq(S) : EndsIn(last, kind, t) /\ Stands(format, c, last, text, P)
    <2>1. Open(kind) \in S
      BY <1>0
    <2> HIDE DEF o
    <2>2. c \in Seq(S)
      BY <1>3, ConcatProperties
    <2>3. \A u \in Seq(S) : IsText(u) =>
            \E last \in Seq(S) : EndsIn(last, kind, u) /\ Stands(format, b \o u, last, text, P)
      BY <1>3, <2>1, StandsText
    <2> QED BY <2>2, <2>3, Zenon
  <1> HIDE DEF c
  <1>10. PICK last \in Seq(S) : EndsIn(last, kind, t) /\ Stands(format, c, last, text, P)
    BY <1>4
  <1> DEFINE l == Append(last, CLOSE)
  <1>5. AbsorbLine(format, Acc(l, text)) = then
    <2>1. CASE Legible(t)
      <3>1. last = DataLine(Opened(kind, t)) /\ Absorb(format, text, kind, t) = then
        BY <1>10, <2>1, Zenon DEF EndsIn, After
      <3>2. Opened(kind, t) \in Seq(S) /\ <<DATA>> \in Seq(S)
        BY <1>0, OpenedParts
      <3>3. <<DATA>> \o Append(Opened(kind, t), CLOSE)
              = Append(<<DATA>> \o Opened(kind, t), CLOSE)
        BY <1>0, <3>2, ConcatAppend
      <3>4. l = DataLine(Append(Opened(kind, t), CLOSE))
        BY <3>1, <3>3, Zenon DEF DataLine
      <3>5. AbsorbLine(format, Acc(DataLine(Append(Opened(kind, t), CLOSE)), text)) = then
        BY <1>0, <3>1, ClosedAbsorbed
      <3> HIDE DEF l
      <3> QED BY <3>4, <3>5, Zenon
    <2>2. CASE ~Legible(t)
      <3>1. Dead(last) /\ text = then
        BY <1>10, <2>2, Zenon DEF EndsIn, After
      <3>2. CLOSE.tok # "open"
        BY DEF CLOSE
      <3>3. l \in Seq(S) /\ Dead(l)
        BY <1>0, <3>1, <3>2, DeadAppend
      <3> HIDE DEF l
      <3> QED BY <3>1, <3>3, DeadLine
    <2> QED BY <2>1, <2>2
  <1>6. d \in Seq(S) /\ Stands(format, d, l, text, P)
    <2>1. CLOSE \notin {NL, EVENT, DATA}
      BY DEF CLOSE, NL, EVENT, DATA
    <2> QED BY <1>0, <1>4, <1>10, <1>5, <2>1, StandsOther
  <1> HIDE DEF d, l
  <1>7. e \in Seq(S) /\ Stands(format, e, <<>>, then, P)
    BY <1>0, <1>5, <1>6, StandsBreak
  <1> HIDE DEF e
  <1>8. AbsorbLine(format, Acc(<<>>, then)) = then
    BY PlainLine
  <1>9. Append(e, NL) \in Seq(S) /\ Stands(format, Append(e, NL), <<>>, then, P)
    BY <1>0, <1>7, <1>8, StandsBreak
  <1> QED BY <1>1, <1>9

LEMMA FrameSeq ==
    ASSUME NEW S, Marks \subseteq S, NEW kind \in Kinds, NEW t \in Seq(S)
    PROVE  Frame(kind, t) \in Seq(S)
  <1> DEFINE d == <<DATA>>
  <1> DEFINE o == <<Open(kind)>>
  <1> DEFINE c == <<CLOSE>>
  <1> DEFINE n == <<NL, NL>>
  <1> DEFINE f == Frame(kind, t)
  <1>0. {NL, DATA, CLOSE, Open(kind)} \subseteq S
    BY DEF Marks
  <1>1. d \in Seq(S) /\ o \in Seq(S) /\ c \in Seq(S) /\ n \in Seq(S)
    BY <1>0
  <1>2. f = (d \o ((o \o t) \o c)) \o n
    BY Zenon DEF Frame, Document
  <1> HIDE DEF f, d, o, c, n
  <1>3. o \o t \in Seq(S)
    BY <1>1, ConcatProperties
  <1>4. (o \o t) \o c \in Seq(S)
    BY <1>1, <1>3, ConcatProperties
  <1>5. d \o ((o \o t) \o c) \in Seq(S)
    BY <1>1, <1>4, ConcatProperties
  <1>6. f \in Seq(S)
    BY <1>1, <1>2, <1>5, ConcatProperties
  <1> QED BY <1>6 DEF f

LEMMA HandedSeq ==
    ASSUME NEW S, Marks \subseteq S, NEW kind \in Kinds, NEW t \in Seq(S), NEW s \in Seq(S)
    PROVE  s \o Handed(kind, t) \in Seq(S)
  <1> DEFINE f == Frame(kind, t)
  <1> DEFINE e == <<EVENT>>
  <1> DEFINE n == <<EVENT, NL>>
  <1>1. f \in Seq(S)
    BY FrameSeq
  <1>2. e \in Seq(S) /\ n \in Seq(S)
    BY DEF Marks
  <1>3. Handed(kind, t) \in {f, e \o f, n \o f}
    BY Zenon DEF Handed, NamedFrame
  <1> HIDE DEF f, e, n
  <1>4. e \o f \in Seq(S) /\ n \o f \in Seq(S)
    BY <1>1, <1>2, ConcatProperties
  <1>5. Handed(kind, t) \in Seq(S)
    BY <1>1, <1>3, <1>4
  <1> QED BY <1>5, ConcatProperties

\* So does a frame the way the host hands it over.
LEMMA StandsHanded ==
    ASSUME NEW S, Marks \subseteq S, NEW s \in Seq(S), NEW P, NEW text \in P,
           Stands(Format(asked), s, <<>>, text, P),
           NEW kind \in Kinds, NEW t \in Seq(S), IsText(t),
           NEW then \in P, After(Format(asked), text, kind, t) = then
    PROVE  /\ s \o Handed(kind, t) \in Seq(S)
           /\ Stands(Format(asked), s \o Handed(kind, t), <<>>, then, P)
  <1> DEFINE format == Format(asked)
  <1> DEFINE f == Frame(kind, t)
  <1>0. {EVENT, NL, DATA, CLOSE, Open(kind)} \subseteq S
    BY DEF Marks
  <1>1. AbsorbLine(format, Acc(<<>>, text)) = text
    BY PlainLine
  <1>2. AbsorbLine(format, Acc(<<EVENT>>, text)) = text
    BY PlainLine
  <1>3. Append(s, EVENT) \in Seq(S) /\ Stands(format, Append(s, EVENT), <<EVENT>>, text, P)
    BY <1>0, <1>1, StandsMark
  <1>4. CASE Handed(kind, t) = f
    BY <1>1, <1>4, StandsFrame
  <1>5. f \in Seq(S)
    BY FrameSeq
  <1>6. CASE Handed(kind, t) = <<EVENT>> \o f
    <2>1. s \o Handed(kind, t) = Append(s, EVENT) \o f
      <3>1. <<EVENT>> \in Seq(S) /\ s \o <<EVENT>> = Append(s, EVENT)
        BY <1>0
      <3> HIDE DEF f
      <3>2. Associates(s, <<EVENT>>, f)
        BY <1>5, <3>1, ConcatAssociates
      <3> QED BY <1>6, <3>1, <3>2, Zenon DEF Associates
    <2>2. /\ Append(s, EVENT) \o f \in Seq(S)
          /\ Stands(format, Append(s, EVENT) \o f, <<>>, then, P)
      BY <1>2, <1>3, StandsFrame
    <2> QED BY <2>1, <2>2
  <1>7. CASE Handed(kind, t) = <<EVENT, NL>> \o f
    <2> DEFINE r == Append(Append(s, EVENT), NL)
    <2>1. s \o Handed(kind, t) = r \o f
      <3>1. <<EVENT, NL>> \in Seq(S) /\ s \o <<EVENT, NL>> = r
        BY <1>0, AppendTwice
      <3> HIDE DEF f, r
      <3>2. Associates(s, <<EVENT, NL>>, f)
        BY <1>5, <3>1, ConcatAssociates
      <3> QED BY <1>7, <3>1, <3>2, Zenon DEF Associates
    <2>2. r \in Seq(S) /\ Stands(format, r, <<>>, text, P)
      BY <1>0, <1>2, <1>3, StandsBreak
    <2> HIDE DEF r
    <2>3. r \o f \in Seq(S) /\ Stands(format, r \o f, <<>>, then, P)
      BY <1>1, <2>2, StandsFrame
    <2> QED BY <2>1, <2>3
  <1> QED BY <1>4, <1>6, <1>7, Zenon DEF Handed, NamedFrame

-----------------------------------------------------------------------------
(* Texts found and texts said                                               *)

Texts(S) == {t \in Seq(S) : IsText(t)}

Beginnings(S, u) == {p \in Seq(S) : IsPrefix(p, u)}

LEMMA TextConcat ==
    ASSUME NEW S, NEW s \in Texts(S), NEW t \in Texts(S)
    PROVE  s \o t \in Texts(S)
  <1> DEFINE z == s \o t
  <1>1. s \in Seq(S) /\ t \in Seq(S) /\ IsText(s) /\ IsText(t)
    BY DEF Texts
  <1>2. z \in Seq(S) /\ IsConcat(z, s, t)
    BY <1>1, ConcatParts
  <1>3. /\ Len(s) \in Nat /\ Len(t) \in Nat
        /\ DOMAIN s = 1..Len(s) /\ DOMAIN t = 1..Len(t) /\ DOMAIN z = 1..Len(z)
    BY <1>1, <1>2, LenProperties
  <1> HIDE DEF z
  <1>4. ASSUME NEW i \in 1..Len(z) PROVE z[i].tok \in {"char", "data", "event"}
    <2>1. \/ i \in 1..Len(s) /\ z[i] = s[i]
          \/ i - Len(s) \in 1..Len(t) /\ z[i] = t[i - Len(s)]
      BY <1>2, <1>3, ConcatCases
    <2> QED BY <1>1, <1>3, <2>1, Zenon DEF IsText
  <1>5. IsText(z)
    BY <1>3, <1>4 DEF IsText
  <1> QED BY <1>2, <1>5 DEF Texts, z

LEMMA NothingIsText ==
    ASSUME NEW S
    PROVE  <<>> \in Texts(S)
  BY EmptySeq DEF Texts, IsText

LEMMA SayingMore ==
    ASSUME NEW S, NEW u \in Seq(S), NEW t \in Seq(S)
    PROVE  /\ u \o t \in Beginnings(S, u \o t)
           /\ Beginnings(S, u) \subseteq Beginnings(S, u \o t)
  <1> DEFINE z == u \o t
  <1>1. z \in Seq(S) /\ IsConcat(z, u, t)
    BY ConcatParts
  <1>2. Len(u) \in Nat /\ Len(t) \in Nat
    BY LenProperties
  <1> HIDE DEF z
  <1>3. z \in Beginnings(S, z)
    BY <1>1 DEF Beginnings, IsPrefix
  <1>4. ASSUME NEW p \in Beginnings(S, u) PROVE p \in Beginnings(S, z)
    <2> DEFINE m == Len(p)
    <2>1. p \in Seq(S) /\ m \in Nat /\ m <= Len(u) /\ SubSeq(p, 1, m) = SubSeq(u, 1, m)
      BY LenProperties DEF Beginnings, IsPrefix
    <2>2. Len(z) = Len(u) + Len(t) /\ m <= Len(z)
      BY <1>1, <1>2, <2>1 DEF IsConcat
    <2> HIDE DEF m
    <2>3. \A i \in 1..m : u[i] \in S /\ z[i] \in S /\ z[i] = u[i]
      <3>1. \A i \in 1..m : i \in 1..Len(u) /\ i \in 1..Len(z)
        BY <1>2, <2>1, <2>2
      <3>2. \A i \in 1..m : z[i] = u[i]
        BY <1>1, <3>1 DEF IsConcat
      <3> QED BY <1>1, <3>1, <3>2, ElementOfSeq
    <2>4. /\ SubSeq(u, 1, m) \in Seq(S)
          /\ Len(SubSeq(u, 1, m)) = IF 1 <= m THEN m - 1 + 1 ELSE 0
          /\ \A i \in 1..m - 1 + 1 : SubSeq(u, 1, m)[i] = u[1 + i - 1]
      BY <2>1, <2>3, SubSeqProperties
    <2>5. /\ SubSeq(z, 1, m) \in Seq(S)
          /\ Len(SubSeq(z, 1, m)) = IF 1 <= m THEN m - 1 + 1 ELSE 0
          /\ \A i \in 1..m - 1 + 1 : SubSeq(z, 1, m)[i] = z[1 + i - 1]
      BY <2>1, <2>3, SubSeqProperties
    <2>6. /\ Len(SubSeq(u, 1, m)) = m /\ Len(SubSeq(z, 1, m)) = m
          /\ \A i \in 1..m : i \in 1..m - 1 + 1 /\ 1 + i - 1 = i
      BY <2>1, <2>4, <2>5
    <2>7. \A i \in 1..m : SubSeq(u, 1, m)[i] = SubSeq(z, 1, m)[i]
      BY <2>3, <2>4, <2>5, <2>6
    <2>8. SubSeq(u, 1, m) = SubSeq(z, 1, m)
      BY <2>4, <2>5, <2>6, <2>7, SeqEqual
    <2>9. m <= Len(z) /\ SubSeq(p, 1, m) = SubSeq(z, 1, m)
      BY <2>1, <2>2, <2>8, Zenon
    <2> QED BY <2>1, <2>9 DEF Beginnings, IsPrefix, m
  <1> QED BY <1>3, <1>4 DEF z

LEMMA StandsWider ==
    ASSUME NEW format, NEW s, NEW line, NEW text, NEW P, NEW Q, P \subseteq Q,
           Stands(format, s, line, text, P)
    PROVE  Stands(format, s, line, text, Q)
  BY Zenon DEF Stands, Finds

LEMMA AbsorbedText ==
    ASSUME NEW format, NEW S, NEW text \in Texts(S), NEW kind, NEW t \in Texts(S)
    PROVE  Absorb(format, text, kind, t) \in Texts(S)
  <1>1. text \o t \in Texts(S)
    BY TextConcat
  <1> DEFINE z == text \o t
  <1> DEFINE T == Texts(S)
  <1>2. z \in T /\ text \in T /\ t \in T
    BY <1>1
  <1> HIDE DEF z, T
  <1>3. Absorb(format, text, kind, t) \in {z, t, text}
    BY DEF Absorb, z
  <1> QED BY <1>2, <1>3 DEF T

LEMMA AbsorbLineText ==
    ASSUME NEW format, NEW S, NEW line \in Seq(S), NEW text \in Texts(S)
    PROVE  AbsorbLine(format, Acc(line, text)) \in Texts(S)
  <1> DEFINE d == Tail(line)
  <1> DEFINE x == SubSeq(d, 2, Len(d) - 1)
  <1>1. Acc(line, text).line = line /\ Acc(line, text).text = text
    BY DEF Acc
  <1>2. CASE line # <<>> /\ IsDocument(d)
    <2>1. d \in Seq(S) /\ Len(d) \in Nat
      BY <1>2, HeadTailProperties, LenProperties
    <2> HIDE DEF d
    <2>2. \A i \in 2..Len(d) - 1 : d[i] \in S
      BY <2>1, ElementOfSeq
    <2>3. x \in Seq(S)
      BY <2>1, <2>2, SubSeqProperties
    <2>4. x \in Texts(S)
      BY <1>2, <2>3 DEF IsDocument, Texts
    <2> HIDE DEF x
    <2>5. Absorb(format, text, Head(d).kind, x) \in Texts(S)
      BY <2>4, AbsorbedText
    <2>6. AbsorbLine(format, Acc(line, text))
            \in {Absorb(format, text, Head(d).kind, x), text}
      BY <1>1 DEF AbsorbLine, d, x
    <2> QED BY <2>5, <2>6
  <1>3. CASE ~(line # <<>> /\ IsDocument(d))
    <2>1. AbsorbLine(format, Acc(line, text)) = text
      BY <1>1, <1>3 DEF AbsorbLine
    <2> QED BY <2>1
  <1> QED BY <1>2, <1>3

\* Whatever a stream says, what is found in it is a text.
LEMMA FoundText ==
    ASSUME NEW format, NEW S
    PROVE  \A s \in Seq(S) : Finds(format, s, Texts(S))
  <1> DEFINE Done(s) == \E line \in Seq(S), text \in Texts(S) :
                          Stands(format, s, line, text, Texts(S))
  <1> DEFINE T == {n \in Nat : \A s \in Seq(S) : Len(s) = n => Done(s)}
  <1>1. 0 \in T
    <2> SUFFICES ASSUME NEW s \in Seq(S), Len(s) = 0 PROVE Done(s)
      <3> HIDE DEF Done
      <3> QED OBVIOUS
    <2>1. s = <<>>
      BY EmptySeq
    <2> DEFINE e == <<>>
    <2>2. e \in Seq(S) /\ e \in Texts(S)
      BY NothingIsText
    <2>3. Stands(format, s, e, e, Texts(S))
      BY <2>1, <2>2, StandsAtStart
    <2> HIDE DEF e
    <2> QED BY <2>2, <2>3, Zenon
  <1>2. ASSUME NEW n \in Nat, n \in T PROVE n + 1 \in T
    <2> SUFFICES ASSUME NEW s \in Seq(S), Len(s) = n + 1 PROVE Done(s)
      <3> HIDE DEF Done
      <3> QED OBVIOUS
    <2>1. s # <<>>
      BY EmptySeq
    <2>2. PICK r \in Seq(S), x \in S : s = Append(r, x)
      BY <2>1, SequenceEmptyOrAppend
    <2>3. Len(r) = n
      BY <2>2, AppendProperties, LenProperties
    <2>4. Done(r)
      <3> HIDE DEF Done
      <3> QED BY <1>2, <2>3
    <2>5. PICK line \in Seq(S), text \in Texts(S) : Stands(format, r, line, text, Texts(S))
      BY <2>4, Zenon
    <2>6. AbsorbLine(format, Acc(line, text)) \in Texts(S)
      BY AbsorbLineText
    <2>7. \E line2 \in Seq(S), text2 \in Texts(S) :
             ScanStep(format, Acc(line, text), x) = Acc(line2, text2)
      <3> DEFINE u == AbsorbLine(format, Acc(line, text))
      <3> DEFINE T2 == Texts(S)
      <3>1. u \in T2 /\ text \in T2 /\ <<>> \in Seq(S) /\ <<x>> \in Seq(S)
            /\ Append(line, x) \in Seq(S)
        BY <2>6, AppendProperties
      <3> DEFINE l == Append(line, x)
      <3>2. l \in Seq(S)
        BY <3>1
      <3>3. /\ Acc(line, text).line = line /\ Acc(line, text).text = text
        BY DEF Acc
      <3> HIDE DEF u, T2, l
      <3>4. ScanStep(format, Acc(line, text), x) \in {Acc(<<>>, u), Acc(<<x>>, u), Acc(l, text)}
        <4> DEFINE a == Acc(line, text)
        <4>1. a.line = line /\ a.text = text /\ AbsorbLine(format, a) = u
          BY <3>3 DEF u
        <4> HIDE DEF a
        <4> QED BY <4>1 DEF ScanStep, Acc, l, a
      <3> QED BY <3>1, <3>2, <3>4 DEF T2
    <2>8. PICK line2 \in Seq(S), text2 \in Texts(S) :
             ScanStep(format, Acc(line, text), x) = Acc(line2, text2)
      BY <2>7, Zenon
    <2>9. AbsorbLine(format, Acc(line2, text2)) \in Texts(S)
      BY AbsorbLineText
    <2>10. Stands(format, s, line2, text2, Texts(S))
      BY <2>2, <2>5, <2>8, <2>9, StandsAppend
    <2> QED BY <2>10, Zenon
  <1> HIDE DEF T
  <1>3. \A n \in Nat : n \in T
    BY <1>1, <1>2, Induction
  <1>4. ASSUME NEW s \in Seq(S) PROVE Finds(format, s, Texts(S))
    <2>1. Len(s) \in Nat
      BY LenProperties
    <2>2. Done(s)
      <3> HIDE DEF Done
      <3> QED BY <1>3, <2>1 DEF T
    <2> QED BY <2>2, Zenon DEF Stands
  <1> QED BY <1>4, Zenon

-----------------------------------------------------------------------------
(* The stream                                                               *)

Tokens == Marks \cup {Char("{")} \cup UNION {Range(t) : t \in Piece}

\* What a scan of the stream s has found when its deltas said u, those with
\* marks left out: it ends where a line starts; but for deltas of something
\* else, what it found is u, and never more than how u begins; a response object
\* that can be read sets it to u anyway.
StreamSays(format, s, u, repeated, other) ==
    /\ \E text \in Texts(Tokens) :
          /\ Stands(format, s, <<>>, text, Texts(Tokens))
          /\ repeated => text = u
    /\ ~other => Stands(format, s, <<>>, u, Beginnings(Tokens, u))

LEMMA FormatIs ==
    ASSUME NEW b
    PROVE  Format(b) \in {"chat_completions", "responses"}
  BY DEF Format

LEMMA TokensAre ==
    /\ Marks \subseteq Tokens
    /\ <<Char("{")>> \in Texts(Tokens) /\ Legible(<<Char("{")>>)
    /\ \A t \in Piece : t \in Texts(Tokens)
  <1>1. Marks \subseteq Tokens /\ Char("{") \in Tokens
    BY DEF Tokens
  <1>2. ASSUME NEW t \in Piece PROVE t \in Texts(Tokens)
    <2>1. t \in Seq(Range(t)) /\ IsText(t)
      BY ProbeReplayAssumption DEF IsSeq
    <2>2. Range(t) \subseteq Tokens
      BY DEF Tokens
    <2>3. t \in Seq(Tokens)
      BY <2>1, <2>2, SeqMonotonic
    <2> QED BY <2>1, <2>3 DEF Texts
  <1> DEFINE x == Char("{")
  <1>3. x.tok = "char" /\ ~StartsLine(x) /\ x \in Tokens
    BY <1>1 DEF Char, DATA, EVENT, StartsLine
  <1> HIDE DEF x
  <1>4. <<x>> \in Seq(Tokens) /\ DOMAIN <<x>> = 1..1 /\ <<x>>[1] = x
    BY <1>3
  <1>5. \A i \in DOMAIN <<x>> : <<x>>[i] = x
    BY <1>4
  <1>6. IsText(<<x>>) /\ Legible(<<x>>)
    BY <1>3, <1>5, Zenon DEF IsText, Legible
  <1> QED BY <1>1, <1>2, <1>4, <1>6 DEF Texts, x

LEMMA StreamSaysAtStart ==
    ASSUME NEW format
    PROVE  StreamSays(format, <<>>, <<>>, FALSE, FALSE)
  <1> DEFINE e == <<>>
  <1>1. e \in Texts(Tokens) /\ e \in Seq(Tokens)
    BY NothingIsText, EmptySeq
  <1>2. e \in Beginnings(Tokens, e)
    BY <1>1 DEF Beginnings, IsPrefix
  <1> HIDE DEF e
  <1>3. Stands(format, e, e, e, Texts(Tokens)) /\ Stands(format, e, e, e, Beginnings(Tokens, e))
    BY <1>1, <1>2, StandsAtStart DEF e
  <1> QED BY <1>1, <1>3 DEF StreamSays, e

LEMMA SaysText ==
    ASSUME NEW s \in Seq(Tokens), NEW u \in Texts(Tokens), NEW other \in BOOLEAN,
           StreamSays(Format(asked), s, u, FALSE, other),
           NEW t \in Texts(Tokens), Legible(t),
           NEW kind, kind = IF Format(asked) = "responses" THEN "text_delta" ELSE "content"
    PROVE  StreamSays(Format(asked), s \o Handed(kind, t), u \o t, FALSE, other)
  <1> DEFINE format == Format(asked)
  <1> DEFINE P == Texts(Tokens)
  <1> DEFINE v == u \o t
  <1> DEFINE B == Beginnings(Tokens, v)
  <1>1. kind \in Kinds /\ Marks \subseteq Tokens
    BY TokensAre DEF Kinds
  <1>2. t \in Seq(Tokens) /\ IsText(t) /\ u \in Seq(Tokens)
    BY DEF Texts
  <1>3. \A text : After(format, text, kind, t) = text \o t
    BY FormatIs DEF Absorb, After
  <1>4. PICK text \in P : Stands(format, s, <<>>, text, P)
    BY Zenon DEF StreamSays
  <1>5. text \o t \in P
    BY TextConcat
  <1>6. Stands(format, s \o Handed(kind, t), <<>>, text \o t, P)
    BY <1>1, <1>2, <1>3, <1>4, <1>5, StandsHanded
  <1>7. ASSUME ~other PROVE Stands(format, s \o Handed(kind, t), <<>>, v, B)
    <2>1. v \in B /\ Beginnings(Tokens, u) \subseteq B
      BY <1>2, SayingMore
    <2>2. u \in Beginnings(Tokens, u)
      BY <1>2 DEF Beginnings, IsPrefix
    <2>3. Stands(format, s, <<>>, u, Beginnings(Tokens, u))
      BY <1>7, Zenon DEF StreamSays
    <2>4. Stands(format, s, <<>>, u, B)
      BY <2>1, <2>3, StandsWider
    <2>5. u \in B /\ After(format, u, kind, t) = v
      BY <1>3, <2>1, <2>2
    <2> HIDE DEF B, v
    <2> QED BY <1>1, <1>2, <2>1, <2>4, <2>5, StandsHanded
  <1> QED BY <1>5, <1>6, <1>7, Zenon DEF StreamSays

\* A frame that leaves the text found as it is.
LEMMA SaysNoMore ==
    ASSUME NEW s \in Seq(Tokens), NEW u \in Texts(Tokens), NEW other \in BOOLEAN,
           StreamSays(Format(asked), s, u, FALSE, other),
           NEW kind \in Kinds, NEW t \in Texts(Tokens),
           \A text : After(Format(asked), text, kind, t) = text
    PROVE  StreamSays(Format(asked), s \o Handed(kind, t), u, FALSE, other)
  <1> DEFINE format == Format(asked)
  <1> DEFINE P == Texts(Tokens)
  <1> DEFINE B == Beginnings(Tokens, u)
  <1>1. Marks \subseteq Tokens
    BY TokensAre
  <1>2. t \in Seq(Tokens) /\ IsText(t) /\ u \in Seq(Tokens)
    BY DEF Texts
  <1>3. PICK text \in P : Stands(format, s, <<>>, text, P)
    BY Zenon DEF StreamSays
  <1>4. Stands(format, s \o Handed(kind, t), <<>>, text, P)
    BY <1>1, <1>2, <1>3, StandsHanded
  <1>5. ASSUME ~other PROVE Stands(format, s \o Handed(kind, t), <<>>, u, B)
    <2>1. u \in B
      BY <1>2 DEF Beginnings, IsPrefix
    <2>2. Stands(format, s, <<>>, u, B)
      BY <1>5, Zenon DEF StreamSays
    <2> HIDE DEF B
    <2> QED BY <1>1, <1>2, <2>1, <2>2, StandsHanded
  <1> QED BY <1>4, <1>5, Zenon DEF StreamSays

\* A delta, or a response object, with a mark in it.
LEMMA SaysUnread ==
    ASSUME NEW s \in Seq(Tokens), NEW u \in Texts(Tokens), NEW other \in BOOLEAN,
           StreamSays(Format(asked), s, u, FALSE, other),
           NEW kind \in Kinds, NEW t \in Texts(Tokens), ~Legible(t)
    PROVE  StreamSays(Format(asked), s \o Handed(kind, t), u, FALSE, other)
  <1>1. \A text : After(Format(asked), text, kind, t) = text
    BY DEF After
  <1> QED BY <1>1, SaysNoMore

\* A delta of something else.
LEMMA SaysOther ==
    ASSUME NEW s \in Seq(Tokens), NEW u \in Texts(Tokens), NEW other \in BOOLEAN,
           StreamSays(Format(asked), s, u, FALSE, other),
           NEW t \in Texts(Tokens), Legible(t), Format(asked) = "responses"
    PROVE  StreamSays(Format(asked), s \o Handed("other_delta", t), u, FALSE, TRUE)
  <1> DEFINE format == Format(asked)
  <1> DEFINE P == Texts(Tokens)
  <1>1. "other_delta" \in Kinds /\ Marks \subseteq Tokens
    BY TokensAre DEF Kinds
  <1>2. t \in Seq(Tokens) /\ IsText(t)
    BY DEF Texts
  <1>3. \A text : After(format, text, "other_delta", t) = text \o t
    BY DEF Absorb, After
  <1>4. PICK text \in P : Stands(format, s, <<>>, text, P)
    BY Zenon DEF StreamSays
  <1>5. text \o t \in P
    BY TextConcat
  <1>6. Stands(format, s \o Handed("other_delta", t), <<>>, text \o t, P)
    BY <1>1, <1>2, <1>3, <1>4, <1>5, StandsHanded
  <1> QED BY <1>5, <1>6, Zenon DEF StreamSays

\* An event that says nothing.
LEMMA SaysNothing ==
    ASSUME NEW s \in Seq(Tokens), NEW u \in Texts(Tokens), NEW other \in BOOLEAN,
           StreamSays(Format(asked), s, u, FALSE, other),
           NEW kind \in {"no_content", "response"}
    PROVE  StreamSays(Format(asked), s \o Handed(kind, <<>>), u, FALSE, other)
  <1> DEFINE e == <<>>
  <1>1. kind \in Kinds
    BY DEF Kinds
  <1>2. e \in Texts(Tokens)
    BY NothingIsText
  <1>3. \A text : After(Format(asked), text, kind, e) = text
    BY DEF Absorb, After
  <1> HIDE DEF e
  <1>4. StreamSays(Format(asked), s \o Handed(kind, e), u, FALSE, other)
    BY <1>1, <1>2, <1>3, SaysNoMore
  <1> QED BY <1>4 DEF e

\* The response object at the end says it all, when it can be read.
LEMMA SaysAll ==
    ASSUME NEW s \in Seq(Tokens), NEW u \in Texts(Tokens), NEW other \in BOOLEAN,
           StreamSays(Format(asked), s, u, FALSE, other),
           Legible(u), u # <<>>, Format(asked) = "responses"
    PROVE  StreamSays(Format(asked), s \o Handed("response", u), u, TRUE, other)
  <1> DEFINE format == Format(asked)
  <1> DEFINE P == Texts(Tokens)
  <1> DEFINE B == Beginnings(Tokens, u)
  <1>1. "response" \in Kinds /\ Marks \subseteq Tokens
    BY TokensAre DEF Kinds
  <1>2. u \in Seq(Tokens) /\ IsText(u)
    BY DEF Texts
  <1>3. \A text : After(format, text, "response", u) = u
    BY DEF Absorb, After
  <1>4. PICK text \in P : Stands(format, s, <<>>, text, P)
    BY Zenon DEF StreamSays
  <1>5. Stands(format, s \o Handed("response", u), <<>>, u, P)
    BY <1>1, <1>2, <1>3, <1>4, StandsHanded
  <1>6. ASSUME ~other PROVE Stands(format, s \o Handed("response", u), <<>>, u, B)
    <2>1. u \in B
      BY <1>2 DEF Beginnings, IsPrefix
    <2>2. Stands(format, s, <<>>, u, B)
      BY <1>6, Zenon DEF StreamSays
    <2> HIDE DEF B
    <2> QED BY <1>1, <1>2, <1>3, <2>1, <2>2, StandsHanded
  <1> QED BY <1>5, <1>6, Zenon DEF StreamSays

\* The text read of the first n tokens.
LEMMA ReadOfStream ==
    ASSUME NEW format, NEW s \in Seq(Tokens), NEW u \in Texts(Tokens),
           NEW repeated, NEW other \in BOOLEAN,
           StreamSays(format, s, u, repeated, other), NEW n \in 0..Len(s)
    PROVE  /\ ~other => /\ IsPrefix(TextOfFirst(format, s, n), u)
                        /\ n = Len(s) => TextOfFirst(format, s, n) = u
           /\ repeated /\ n = Len(s) => TextOfFirst(format, s, n) = u
  <1>1. \A text, P : Stands(format, s, <<>>, text, P) /\ n = Len(s) =>
          TextOfFirst(format, s, n) = text
    <2> SUFFICES ASSUME NEW text, NEW P, Stands(format, s, <<>>, text, P), n = Len(s)
                 PROVE  TextOfFirst(format, s, n) = text
      BY Zenon
    <2>1. ScanAt(format, s, n) = Acc(<<>>, text)
      BY DEF Stands, Scanned
    <2>2. AbsorbLine(format, Acc(<<>>, text)) = text
      BY PlainLine
    <2> QED BY <2>1, <2>2, TextIsScan
  <1>2. ASSUME ~other
        PROVE  /\ IsPrefix(TextOfFirst(format, s, n), u)
               /\ n = Len(s) => TextOfFirst(format, s, n) = u
    <2>1. Stands(format, s, <<>>, u, Beginnings(Tokens, u))
      BY <1>2, Zenon DEF StreamSays
    <2>2. TextOfFirst(format, s, n) \in Beginnings(Tokens, u)
      BY <2>1, Zenon DEF Stands, Finds
    <2> QED BY <1>1, <2>1, <2>2, Zenon DEF Beginnings
  <1>3. ASSUME repeated, n = Len(s) PROVE TextOfFirst(format, s, n) = u
    BY <1>1, <1>3, Zenon DEF StreamSays
  <1> QED BY <1>2, <1>3, Zenon

-----------------------------------------------------------------------------
(* The invariant                                                            *)

\* What the upstream says.
UpstreamOK ==
    /\ asked \in Body /\ stage \in Stages
    /\ spaced \in BOOLEAN /\ extra \in BOOLEAN /\ cut \in BOOLEAN
    /\ stream \in Seq(Tokens) /\ said \in Texts(Tokens) /\ plain \in Texts(Tokens)
    /\ asked.stream /\ Legible(said) => plain = said

\* What a scan of the stream finds.
StreamOK ==
    asked.stream => StreamSays(Format(asked), stream, plain, Repeated, extra)

\* What the response object says.
ObjectOK ==
    /\ object # None => ~asked.stream
    /\ ~asked.stream /\ stage # "asked" => ExtractOutputText(Format(asked), object) = said
    /\ ~asked.stream /\ stage = "asked" => object = None

\* What was collected.
SampleOK ==
    /\ stage \in {"asked", "completed"} => sample = None
    /\ sample # None =>
          /\ Fits(sample.text) /\ sample.text \in Texts(Tokens)
          /\ sample.hash = InputHash(asked)
          /\ ExtractOutputText(Format(asked), sample.raw) = sample.text
          /\ ~asked.stream => sample.text = said
          /\ asked.stream /\ ~extra =>
                IF cut THEN IsPrefix(sample.text, plain) ELSE sample.text = plain

\* What was answered.
AnswerOK ==
    /\ stage # "answered" => again = None /\ replay = None
    /\ stage = "answered" =>
          /\ sample # None /\ again \in Body
          /\ replay = IF Eligible(again) /\ InputHash(again) = sample.hash
                      THEN FormatResponse(sample.text, again.stream, Format(again)) ELSE None

SampleInv == UpstreamOK /\ StreamOK /\ ObjectOK /\ SampleOK /\ AnswerOK

LEMMA InitInv == Init => SampleInv
  <1> SUFFICES ASSUME Init PROVE SampleInv
    OBVIOUS
  <1>1. UpstreamOK
    BY NothingIsText DEF Init, UpstreamOK, Stages, Texts
  <1>2. StreamOK
    <2>1. StreamSays(Format(asked), <<>>, <<>>, FALSE, FALSE)
      BY StreamSaysAtStart
    <2>2. stream = <<>> /\ plain = <<>> /\ extra = FALSE /\ Repeated = FALSE
      BY DEF Init, Repeated
    <2> QED BY <2>1, <2>2 DEF StreamOK
  <1>3. ObjectOK /\ SampleOK /\ AnswerOK
    BY DEF Init, ObjectOK, SampleOK, AnswerOK
  <1> QED BY <1>1, <1>2, <1>3 DEF SampleInv

\* What the actions of the upstream have in common.
LEMMA EmitInv ==
    ASSUME UpstreamOK, NEW kind \in Kinds, NEW t \in Seq(Tokens), Emit(kind, t)
    PROVE  stream' \in Seq(Tokens) /\ asked.stream /\ stage = "asked"
  BY HandedSeq, TokensAre DEF UpstreamOK, Emit

LEMMA NotRepeated ==
    ASSUME stage = "asked"
    PROVE  Repeated = FALSE
  BY DEF Repeated

LEMMA SayInv ==
    ASSUME SampleInv, NEW t \in Piece, Say(t)
    PROVE  SampleInv'
  <1> DEFINE kind == IF Format(asked) = "responses" THEN "text_delta" ELSE "content"
  <1>0. UpstreamOK /\ StreamOK /\ ObjectOK /\ SampleOK /\ AnswerOK
    BY DEF SampleInv
  <1>1. kind \in Kinds /\ t \in Texts(Tokens) /\ t \in Seq(Tokens)
    BY TokensAre DEF Kinds, Texts
  <1>2. /\ Emit(kind, t) /\ said' = said \o t
        /\ plain' = IF Legible(t) THEN plain \o t ELSE plain
        /\ UNCHANGED <<asked, stage, spaced, object, extra, cut, sample, again, replay>>
    BY Zenon DEF Say
  <1>3. stream' \in Seq(Tokens) /\ asked.stream /\ stage = "asked"
    BY <1>0, <1>1, <1>2, EmitInv
  <1>4. stream' = stream \o Handed(kind, t)
    BY <1>2 DEF Emit
  <1> HIDE DEF kind
  <1>5. UpstreamOK'
    <2>1. said' \in Texts(Tokens) /\ plain \o t \in Texts(Tokens)
      BY <1>0, <1>1, <1>2, TextConcat DEF UpstreamOK
    <2>2. ASSUME Legible(said') PROVE plain' = said'
      <3>1. said \in Seq(Tokens)
        BY <1>0 DEF UpstreamOK, Texts
      <3>2. Legible(said) /\ Legible(t)
        BY <1>1, <1>2, <2>2, <3>1, LegibleConcat
      <3>3. plain = said
        BY <1>0, <1>3, <3>2 DEF UpstreamOK
      <3> QED BY <1>2, <3>2, <3>3
    <2>3. plain' \in Texts(Tokens)
      <3> DEFINE z == plain \o t
      <3>1. plain' \in {z, plain} /\ z \in Texts(Tokens) /\ plain \in Texts(Tokens)
        BY <1>0, <1>2, <2>1 DEF UpstreamOK
      <3> HIDE DEF z
      <3> QED BY <3>1
    <2> QED BY <1>0, <1>2, <1>3, <2>1, <2>2, <2>3 DEF UpstreamOK
  <1>6. StreamOK'
    <2>1. StreamSays(Format(asked), stream, plain, FALSE, extra)
      BY <1>0, <1>3, NotRepeated DEF StreamOK
    <2>2. StreamSays(Format(asked), stream \o Handed(kind, t), plain', FALSE, extra)
      <3>1. kind = IF Format(asked) = "responses" THEN "text_delta" ELSE "content"
        BY DEF kind
      <3>2. stream \in Seq(Tokens) /\ plain \in Texts(Tokens) /\ extra \in BOOLEAN
        BY <1>0 DEF UpstreamOK
      <3>3. CASE Legible(t)
        <4>1. StreamSays(Format(asked), stream \o Handed(kind, t), plain \o t, FALSE, extra)
          BY <1>1, <2>1, <3>1, <3>2, <3>3, SaysText
        <4> QED BY <1>2, <3>3, <4>1
      <3>4. CASE ~Legible(t)
        <4>1. StreamSays(Format(asked), stream \o Handed(kind, t), plain, FALSE, extra)
          BY <1>1, <2>1, <3>2, <3>4, SaysUnread
        <4> QED BY <1>2, <3>4, <4>1
      <3> QED BY <3>3, <3>4
    <2>3. Repeated' = FALSE
      BY <1>2, <1>3 DEF Repeated
    <2> QED BY <1>2, <1>4, <2>2, <2>3 DEF StreamOK
  <1>7. ObjectOK' /\ SampleOK' /\ AnswerOK'
    BY <1>0, <1>2, <1>3 DEF ObjectOK, SampleOK, AnswerOK
  <1> QED BY <1>5, <1>6, <1>7 DEF SampleInv

LEMMA SayNothingInv ==
    ASSUME SampleInv, SayNothing
    PROVE  SampleInv'
  <1>0. UpstreamOK /\ StreamOK /\ ObjectOK /\ SampleOK /\ AnswerOK
    BY DEF SampleInv
  <1> DEFINE e == <<>>
  <1> DEFINE c == <<Char("{")>>
  <1>1. e \in Seq(Tokens) /\ c \in Seq(Tokens) /\ c \in Texts(Tokens) /\ Legible(c)
    <2>1. c \in Texts(Tokens) /\ Legible(c)
      BY TokensAre
    <2> HIDE DEF c
    <2> QED BY <2>1 DEF Texts
  <1>2. UNCHANGED <<asked, stage, spaced, object, said, plain, cut, sample, again, replay>>
    BY DEF SayNothing
  <1>3. \/ Format(asked) = "chat_completions" /\ Emit("no_content", e) /\ extra' = extra
        \/ Format(asked) = "responses" /\ Emit("other_delta", c) /\ extra' = TRUE
        \/ Format(asked) = "responses" /\ Emit("response", e) /\ extra' = extra
    BY Zenon DEF SayNothing
  <1>4. {"no_content", "other_delta", "response"} \subseteq Kinds
    BY DEF Kinds
  <1> HIDE DEF e, c
  <1>5. stream' \in Seq(Tokens) /\ asked.stream /\ stage = "asked"
    BY <1>0, <1>1, <1>3, <1>4, EmitInv
  <1>6. UpstreamOK'
    BY <1>0, <1>2, <1>3, <1>5 DEF UpstreamOK
  <1>7. StreamOK'
    <2> SUFFICES StreamSays(Format(asked), stream', plain, FALSE, extra')
      <3>1. Repeated' = FALSE
        BY <1>2, <1>5 DEF Repeated
      <3> QED BY <1>2, <3>1 DEF StreamOK
    <2>1. StreamSays(Format(asked), stream, plain, FALSE, extra)
      BY <1>0, <1>5, NotRepeated DEF StreamOK
    <2>2. stream \in Seq(Tokens) /\ plain \in Texts(Tokens) /\ extra \in BOOLEAN
      BY <1>0 DEF UpstreamOK
    <2>3. CASE Emit("no_content", e) /\ extra' = extra
      <3>1. StreamSays(Format(asked), stream \o Handed("no_content", e), plain, FALSE, extra)
        BY <2>1, <2>2, SaysNothing DEF e
      <3> QED BY <2>3, <3>1 DEF Emit
    <2>4. CASE Format(asked) = "responses" /\ Emit("other_delta", c) /\ extra' = TRUE
      <3>1. StreamSays(Format(asked), stream \o Handed("other_delta", c), plain, FALSE, TRUE)
        BY <1>1, <2>1, <2>2, <2>4, SaysOther
      <3> QED BY <2>4, <3>1 DEF Emit
    <2>5. CASE Emit("response", e) /\ extra' = extra
      <3>1. StreamSays(Format(asked), stream \o Handed("response", e), plain, FALSE, extra)
        BY <2>1, <2>2, SaysNothing DEF e
      <3> QED BY <2>5, <3>1 DEF Emit
    <2> QED BY <1>3, <2>3, <2>4, <2>5
  <1>8. ObjectOK' /\ SampleOK' /\ AnswerOK'
    BY <1>0, <1>2, <1>5 DEF ObjectOK, SampleOK, AnswerOK
  <1> QED BY <1>6, <1>7, <1>8 DEF SampleInv

LEMMA CompleteInv ==
    ASSUME SampleInv, Complete
    PROVE  SampleInv'
  <1>0. UpstreamOK /\ StreamOK /\ ObjectOK /\ SampleOK /\ AnswerOK
    BY DEF SampleInv
  <1>1. /\ Format(asked) = "responses" /\ Emit("response", said) /\ stage' = "completed"
        /\ UNCHANGED <<asked, spaced, object, said, plain, extra, cut, sample, again, replay>>
    BY Zenon DEF Complete
  <1>2. "response" \in Kinds /\ said \in Seq(Tokens) /\ said \in Texts(Tokens)
    BY <1>0 DEF Kinds, UpstreamOK, Texts
  <1>3. stream' \in Seq(Tokens) /\ asked.stream /\ stage = "asked"
    BY <1>0, <1>1, <1>2, EmitInv
  <1>4. UpstreamOK'
    BY <1>0, <1>1, <1>3 DEF UpstreamOK, Stages
  <1>5. StreamOK'
    <2>1. StreamSays(Format(asked), stream, plain, FALSE, extra)
      BY <1>0, <1>3, NotRepeated DEF StreamOK
    <2>2. stream \in Seq(Tokens) /\ plain \in Texts(Tokens) /\ extra \in BOOLEAN
      BY <1>0 DEF UpstreamOK
    <2> DEFINE now == stream \o Handed("response", said)
    <2>3. stream' = now
      BY <1>1 DEF Emit
    <2> HIDE DEF now
    <2>4. CASE Legible(said) /\ said # <<>>
      <3>1. plain = said
        BY <1>0, <1>3, <2>4 DEF UpstreamOK
      <3>2. StreamSays(Format(asked), now, plain, TRUE, extra)
        BY <1>1, <1>2, <2>1, <2>2, <2>4, <3>1, SaysAll DEF now
      <3>3. Repeated' = TRUE
        BY <1>1, <2>4 DEF Repeated
      <3> QED BY <1>1, <2>3, <3>2, <3>3 DEF StreamOK
    <2>5. CASE ~(Legible(said) /\ said # <<>>)
      <3>1. StreamSays(Format(asked), now, plain, FALSE, extra)
        <4>1. CASE Legible(said)
          <5>1. StreamSays(Format(asked), stream \o Handed("response", <<>>), plain, FALSE, extra)
            BY <2>1, <2>2, SaysNothing
          <5>2. said = <<>>
            BY <2>5, <4>1
          <5> QED BY <5>1, <5>2 DEF now
        <4>2. CASE ~Legible(said)
          BY <1>2, <2>1, <2>2, <4>2, SaysUnread DEF now
        <4> QED BY <4>1, <4>2
      <3>2. Repeated' = FALSE
        BY <1>1, <2>5 DEF Repeated
      <3> QED BY <1>1, <2>3, <3>1, <3>2 DEF StreamOK
    <2> QED BY <2>4, <2>5
  <1>6. ObjectOK' /\ SampleOK' /\ AnswerOK'
    BY <1>0, <1>1, <1>3 DEF ObjectOK, SampleOK, AnswerOK
  <1> QED BY <1>4, <1>5, <1>6 DEF SampleInv

LEMMA JoinedTexts ==
    ASSUME NEW k \in Nat, NEW texts \in [1..k -> Piece]
    PROVE  /\ texts # <<>> => texts[1] \in Texts(Tokens)
           /\ Joined(texts) \in Texts(Tokens)
  <1> DEFINE S == {x \in Tokens : x.tok \in {"char", "data", "event"}}
  <1>1. \A t \in Texts(Tokens) : t \in Seq(S)
    <2> SUFFICES ASSUME NEW t \in Texts(Tokens) PROVE t \in Seq(S)
      OBVIOUS
    <2> DEFINE n == Len(t)
    <2>1. n \in Nat /\ t \in [1..n -> Tokens] /\ \A i \in 1..n : t[i].tok \in {"char", "data", "event"}
      BY LenProperties DEF Texts, IsText
    <2>2. \A i \in 1..n : t[i] \in S
      BY <2>1
    <2> HIDE DEF n, S
    <2>3. t \in [1..n -> S]
      BY <2>1, <2>2
    <2> QED BY <2>1, <2>3
  <1>2. \A t \in Seq(S) : t \in Texts(Tokens)
    <2> SUFFICES ASSUME NEW t \in Seq(S) PROVE t \in Texts(Tokens)
      OBVIOUS
    <2>1. t \in Seq(Tokens)
      BY SeqMonotonic
    <2>2. \A i \in 1..Len(t) : t[i] \in S
      BY ElementOfSeq
    <2>3. DOMAIN t = 1..Len(t)
      BY LenProperties
    <2>4. IsText(t)
      BY <2>2, <2>3 DEF IsText
    <2> QED BY <2>1, <2>4 DEF Texts
  <1> HIDE DEF S
  <1> DEFINE B == Seq(S)
  <1>3. \A t \in Piece : t \in B
    BY <1>1, TokensAre
  <1> HIDE DEF B
  <1>4. texts \in [1..k -> B]
    BY <1>3
  <1>5. texts \in Seq(B)
    BY <1>4
  <1>6. texts \in Seq(Seq(S))
    BY <1>5 DEF B
  <1>7. Joined(texts) \in Texts(Tokens)
    BY <1>2, <1>6, JoinedText
  <1>8. ASSUME texts # <<>> PROVE texts[1] \in Texts(Tokens)
    <2>1. Len(texts) \in Nat \ {0}
      BY <1>6, <1>8, EmptySeq
    <2>2. 1 \in 1..Len(texts)
      BY <2>1
    <2>3. texts[1] \in Seq(S)
      BY <1>6, <2>2, ElementOfSeq
    <2> QED BY <1>2, <2>3
  <1> QED BY <1>7, <1>8

LEMMA RespondInv ==
    ASSUME SampleInv, NEW k \in 0..MaxPieces, NEW texts \in [1..k -> Piece], Respond(texts)
    PROVE  SampleInv'
  <1>0. UpstreamOK /\ StreamOK /\ ObjectOK /\ SampleOK /\ AnswerOK
    BY DEF SampleInv
  <1> DEFINE o == Object(Format(asked), texts)
  <1> DEFINE u == IF texts = <<>> THEN <<>>
                  ELSE IF Format(asked) = "responses" THEN Joined(texts) ELSE texts[1]
  <1>1. /\ stage = "asked" /\ asked.stream = FALSE /\ object' = o /\ said' = u
        /\ stage' = "completed"
        /\ UNCHANGED <<asked, spaced, stream, plain, extra, cut, sample, again, replay>>
    <2>1. asked.stream \in BOOLEAN
      BY <1>0, ProbeReplayAssumption DEF UpstreamOK, WellFormed
    <2> QED BY <2>1, Zenon DEF Respond
  <1>2. o.texts = texts
        /\ o.is = IF Format(asked) = "chat_completions" THEN "choices" ELSE "output"
    BY DEF Object
  <1>3. k \in Nat
    BY ProbeReplayAssumption
  <1>4. u \in Texts(Tokens)
    <2> DEFINE j == Joined(texts)
    <2> DEFINE t == texts[1]
    <2> DEFINE e == <<>>
    <2>1. e \in Texts(Tokens) /\ j \in Texts(Tokens) /\ (texts # e => t \in Texts(Tokens))
      BY <1>3, JoinedTexts, NothingIsText
    <2>2. u = IF texts = e THEN e ELSE IF Format(asked) = "responses" THEN j ELSE t
      OBVIOUS
    <2> HIDE DEF u, j, t, e
    <2> QED BY <2>1, <2>2
  <1>5. ExtractOutputText(Format(asked), o) = u
    <2> HIDE DEF o
    <2>1. CASE texts = <<>>
      BY <1>2, <2>1, FormatIs, JoinedNothing DEF ExtractOutputText
    <2>2. CASE texts # <<>>
      <3> DEFINE j == Joined(texts)
      <3> DEFINE t == texts[1]
      <3>1. u = IF Format(asked) = "responses" THEN j ELSE t
        BY <2>2
      <3>2. ExtractOutputText(Format(asked), o) = IF Format(asked) = "responses" THEN j ELSE t
        BY <1>2, <2>2, FormatIs DEF ExtractOutputText
      <3> QED BY <3>1, <3>2, Zenon
    <2> QED BY <2>1, <2>2
  <1> HIDE DEF o, u
  <1>6. UpstreamOK'
    BY <1>0, <1>1, <1>4 DEF UpstreamOK, Stages
  <1>7. StreamOK'
    BY <1>1 DEF StreamOK
  <1>8. ObjectOK'
    BY <1>0, <1>1, <1>5 DEF ObjectOK
  <1>9. SampleOK' /\ AnswerOK'
    BY <1>0, <1>1 DEF SampleOK, AnswerOK
  <1> QED BY <1>6, <1>7, <1>8, <1>9 DEF SampleInv

\* A sample of a text.
LEMMA SampleOfText ==
    ASSUME NEW t, NEW r
    PROVE  SampleOf(t, r) # None =>
             /\ Eligible(asked) /\ Fits(SampleOf(t, r).text) /\ SampleOf(t, r).text = t
             /\ SampleOf(t, r).hash = InputHash(asked) /\ SampleOf(t, r).raw = r
  <1> DEFINE x == [hash |-> InputHash(asked), text |-> t, raw |-> r]
  <1>1. x.text = t /\ x.raw = r /\ x.hash = InputHash(asked)
    OBVIOUS
  <1> HIDE DEF x
  <1>2. SampleOf(t, r) = IF Eligible(asked) /\ Fits(t) THEN x ELSE None
    BY DEF SampleOf, x
  <1> QED BY <1>1, <1>2, Zenon

\* The raw response made up for a stream says its text.
LEMMA RawSays ==
    ASSUME NEW b, NEW t
    PROVE  ExtractOutputText(Format(b), SynthesizeRawResponse(Format(b), t)) = t
  <1> DEFINE o == SynthesizeRawResponse(Format(b), t)
  <1> DEFINE l == <<t>>
  <1>1. /\ o.texts = l
        /\ o.is = IF Format(b) = "chat_completions" THEN "choices" ELSE "output"
    BY DEF SynthesizeRawResponse, Object
  <1>2. l # <<>> /\ l[1] = t
    OBVIOUS
  <1>3. Joined(l) = t
    BY JoinedOne
  <1> HIDE DEF o, l
  <1> QED BY <1>1, <1>2, <1>3, FormatIs DEF ExtractOutputText, o

LEMMA CollectStreamInv ==
    ASSUME SampleInv, NEW n \in 0..Len(stream), CollectStream(n)
    PROVE  SampleInv'
  <1>0. UpstreamOK /\ StreamOK /\ ObjectOK /\ SampleOK /\ AnswerOK
    BY DEF SampleInv
  <1> DEFINE t == TextOfFirst(Format(asked), stream, n)
  <1> DEFINE r == SynthesizeRawResponse(Format(asked), t)
  <1>1. /\ stage \in {"asked", "completed"} /\ asked.stream
        /\ sample' = SampleOf(t, r) /\ cut' = (n < Len(stream)) /\ stage' = "collected"
        /\ UNCHANGED <<asked, spaced, stream, object, said, plain, extra, again, replay>>
    BY Zenon DEF CollectStream
  <1>2. stream \in Seq(Tokens) /\ plain \in Texts(Tokens) /\ extra \in BOOLEAN
    BY <1>0 DEF UpstreamOK
  <1>3. t \in Texts(Tokens)
    <2>1. Finds(Format(asked), stream, Texts(Tokens))
      BY <1>2, FoundText
    <2> QED BY <2>1, Zenon DEF Finds
  <1>4. ExtractOutputText(Format(asked), r) = t
    BY RawSays
  <1>5. ASSUME ~extra
        PROVE  IsPrefix(t, plain) /\ (n = Len(stream) => t = plain)
    <2>1. StreamSays(Format(asked), stream, plain, Repeated, extra)
      BY <1>0, <1>1 DEF StreamOK
    <2> HIDE DEF t
    <2> QED BY <1>2, <1>5, <2>1, ReadOfStream DEF t
  <1>6. Len(stream) \in Nat /\ (n < Len(stream)) \in BOOLEAN
    BY <1>2, LenProperties
  <1>7. ~(n < Len(stream)) => n = Len(stream)
    BY <1>6
  <1> HIDE DEF t, r
  <1>8. UpstreamOK'
    BY <1>0, <1>1, <1>6 DEF UpstreamOK, Stages
  <1>9. StreamOK'
    <2>1. StreamSays(Format(asked), stream, plain, Repeated, extra)
      BY <1>0, <1>1 DEF StreamOK
    <2>2. StreamSays(Format(asked), stream, plain, FALSE, extra)
      BY <2>1, Zenon DEF StreamSays
    <2>3. Repeated' = FALSE
      BY <1>1 DEF Repeated
    <2> QED BY <1>1, <2>2, <2>3 DEF StreamOK
  <1>10. ObjectOK'
    BY <1>0, <1>1 DEF ObjectOK
  <1>11. SampleOK'
    <2> SUFFICES ASSUME sample' # None
                 PROVE  /\ Fits(sample'.text) /\ sample'.text \in Texts(Tokens)
                        /\ sample'.hash = InputHash(asked)
                        /\ ExtractOutputText(Format(asked), sample'.raw) = sample'.text
                        /\ ~extra =>
                              IF cut' THEN IsPrefix(sample'.text, plain)
                              ELSE sample'.text = plain
      BY <1>1 DEF SampleOK
    <2>1. /\ Fits(sample'.text) /\ sample'.text = t
          /\ sample'.hash = InputHash(asked) /\ sample'.raw = r
      BY <1>1, SampleOfText
    <2>2. ~extra => IF cut' THEN IsPrefix(t, plain) ELSE t = plain
      BY <1>1, <1>5, <1>7, Zenon
    <2> QED BY <1>3, <1>4, <2>1, <2>2, Zenon
  <1>12. AnswerOK'
    BY <1>0, <1>1 DEF AnswerOK
  <1> QED BY <1>8, <1>9, <1>10, <1>11, <1>12 DEF SampleInv

LEMMA CollectResponseInv ==
    ASSUME SampleInv, CollectResponse
    PROVE  SampleInv'
  <1>0. UpstreamOK /\ StreamOK /\ ObjectOK /\ SampleOK /\ AnswerOK
    BY DEF SampleInv
  <1> DEFINE t == ExtractOutputText(Format(asked), object)
  <1>1. /\ stage = "completed" /\ ~asked.stream
        /\ sample' = SampleOf(t, object) /\ stage' = "collected"
        /\ UNCHANGED <<asked, spaced, stream, object, said, plain, extra, cut, again, replay>>
    BY Zenon DEF CollectResponse
  <1>2. t = said
    BY <1>0, <1>1 DEF ObjectOK
  <1>3. t \in Texts(Tokens)
    BY <1>0, <1>2 DEF UpstreamOK
  <1>5. ExtractOutputText(Format(asked), object) = t
    OBVIOUS
  <1> HIDE DEF t
  <1>6. UpstreamOK'
    BY <1>0, <1>1 DEF UpstreamOK, Stages
  <1>7. StreamOK' /\ ObjectOK' /\ AnswerOK'
    BY <1>0, <1>1 DEF StreamOK, ObjectOK, AnswerOK
  <1>8. SampleOK'
    <2> SUFFICES ASSUME sample' # None
                 PROVE  /\ Fits(sample'.text) /\ sample'.text \in Texts(Tokens)
                        /\ sample'.hash = InputHash(asked)
                        /\ ExtractOutputText(Format(asked), sample'.raw) = sample'.text
                        /\ sample'.text = said
      BY <1>1 DEF SampleOK
    <2>1. /\ Fits(sample'.text) /\ sample'.text = t
          /\ sample'.hash = InputHash(asked) /\ sample'.raw = object
      BY <1>1, SampleOfText
    <2> QED BY <1>2, <1>3, <1>5, <2>1, Zenon
  <1> QED BY <1>6, <1>7, <1>8 DEF SampleInv

LEMMA AskAgainInv ==
    ASSUME SampleInv, NEW b \in Body, AskAgain(b)
    PROVE  SampleInv'
  <1>0. UpstreamOK /\ StreamOK /\ ObjectOK /\ SampleOK /\ AnswerOK
    BY DEF SampleInv
  <1> DEFINE f == FormatResponse(sample.text, b.stream, Format(b))
  <1>1. /\ stage = "collected" /\ sample # None /\ again' = b /\ stage' = "answered"
        /\ replay' = IF Eligible(b) /\ InputHash(b) = sample.hash THEN f ELSE None
        /\ UNCHANGED <<asked, spaced, stream, object, said, plain, extra, cut, sample>>
    BY Zenon DEF AskAgain
  <1>2. UpstreamOK'
    BY <1>0, <1>1 DEF UpstreamOK, Stages
  <1>3. StreamOK'
    <2>1. Repeated = FALSE /\ Repeated' = FALSE
      BY <1>1 DEF Repeated
    <2> QED BY <1>0, <1>1, <2>1 DEF StreamOK
  <1>4. ObjectOK' /\ SampleOK'
    BY <1>0, <1>1 DEF ObjectOK, SampleOK
  <1>5. AnswerOK'
    BY <1>1 DEF AnswerOK
  <1> QED BY <1>2, <1>3, <1>4, <1>5 DEF SampleInv

LEMMA NextInv ==
    ASSUME SampleInv, [Next]_vars
    PROVE  SampleInv'
  <1>1. CASE \E t \in Piece : Say(t)
    BY <1>1, SayInv
  <1>2. CASE \E k \in 0..MaxPieces : \E texts \in [1..k -> Piece] : Respond(texts)
    BY <1>2, RespondInv
  <1>3. CASE \E n \in 0..Len(stream) : CollectStream(n)
    BY <1>3, CollectStreamInv
  <1>4. CASE \E b \in Body : AskAgain(b)
    BY <1>4, AskAgainInv
  <1>5. CASE UNCHANGED vars
    BY <1>5 DEF vars, SampleInv, UpstreamOK, StreamOK, ObjectOK, SampleOK, AnswerOK, Repeated
  <1> QED BY <1>1, <1>2, <1>3, <1>4, <1>5, SayNothingInv, CompleteInv, CollectResponseInv
          DEF Next

\* The stream, the object, the sample and the answer agree with what was said
\* and asked, in every reachable state: the inductive invariant of the module.
THEOREM AlwaysSampleInv == Spec => []SampleInv
  BY InitInv, NextInv, PTL DEF Spec

-----------------------------------------------------------------------------
(* What the runs check                                                      *)

\* Every variable has its type, and a sample is as long as the pool allows.
THEOREM TypeCorrect == Spec => []TypeOK
  <1>1. SampleInv => TypeOK
    BY Zenon DEF SampleInv, UpstreamOK, SampleOK, AnswerOK, TypeOK, Fits, Texts
  <1> QED BY <1>1, AlwaysSampleInv, PTL

\* Whatever the protocol, the framing and the texts, what is read from a response
\* object is its text; what is read from a whole stream of text is the text of
\* its deltas, each once and in order, without those that hold "data:" or
\* "event:", which are lost; what is read of a stream cut anywhere is how that
\* begins; and the raw response of a sample says the sample's text.
THEOREM ReadsAlwaysWhatWasSaid == Spec => []ReadsWhatWasSaid
  <1>1. ASSUME SampleInv PROVE ReadsWhatWasSaid
    <2>0. UpstreamOK /\ StreamOK /\ ObjectOK /\ SampleOK
      BY <1>1 DEF SampleInv
    <2> DEFINE format == Format(asked)
    <2>1. ASSUME object # None, stage \in {"asked", "completed"}
          PROVE  ~asked.stream /\ ExtractOutputText(format, object) = said
      BY <2>0, <2>1 DEF ObjectOK
    <2>2. ASSUME asked.stream, TextOnly
          PROVE  ExtractStreamText(format, stream) = plain
      <3> DEFINE n == Len(stream)
      <3>1. StreamSays(format, stream, plain, Repeated, extra) /\ (~extra \/ Repeated)
        BY <2>0, <2>2, Zenon DEF StreamOK, TextOnly
      <3>2. stream \in Seq(Tokens) /\ plain \in Texts(Tokens) /\ extra \in BOOLEAN
        BY <2>0 DEF UpstreamOK
      <3>3. n \in 0..Len(stream)
        BY <3>2, LenProperties
      <3> HIDE DEF format, n
      <3>4. /\ ~extra => /\ IsPrefix(TextOfFirst(format, stream, n), plain)
                         /\ n = Len(stream) => TextOfFirst(format, stream, n) = plain
            /\ Repeated /\ n = Len(stream) => TextOfFirst(format, stream, n) = plain
        BY <3>1, <3>2, <3>3, ReadOfStream
      <3>5. TextOfFirst(format, stream, n) = plain
        BY <3>1, <3>4, Zenon DEF n
      <3> QED BY <3>5, Zenon DEF ExtractStreamText, format, n
    <2>3. ASSUME sample # None
          PROVE  /\ ExtractOutputText(format, sample.raw) = sample.text
                 /\ ~asked.stream => sample.text = said
                 /\ asked.stream /\ ~extra =>
                      IF cut THEN IsPrefix(sample.text, plain) ELSE sample.text = plain
      BY <2>0, <2>3, Zenon DEF SampleOK
    <2> DEFINE s == ExtractStreamText(format, stream)
    <2> DEFINE o == ExtractOutputText(format, object)
    <2> HIDE DEF s, o
    <2>4. /\ object # None /\ stage \in {"asked", "completed"} => ~asked.stream /\ o = said
          /\ asked.stream /\ TextOnly => s = plain
      BY <2>1, <2>2, Zenon DEF s, o
    <2> QED BY <2>3, <2>4, Zenon DEF ReadsWhatWasSaid, s, o
  <1> QED BY <1>1, AlwaysSampleInv, PTL

LEMMA AnswersAreSome ==
    ASSUME NEW t, NEW streamed, NEW format
    PROVE  FormatResponse(t, streamed, format) # None
  <1>1. "stream" \in DOMAIN FormatResponse(t, streamed, format)
    BY DEF FormatResponse
  <1>2. "stream" \notin DOMAIN None
    BY DEF None
  <1> QED BY <1>1, <1>2

\* A request is answered from a sample exactly when it asks the same question,
\* in either protocol, streamed or not, and its client reads the sample's text.
THEOREM AlwaysAnswersTheQuestion == Spec => []ReplayAnswersTheQuestion
  <1>1. ASSUME SampleInv PROVE ReplayAnswersTheQuestion
    <2> SUFFICES ASSUME stage = "answered"
                 PROVE  /\ TextBody(asked) /\ TextBody(again) =>
                             (replay # None <=>
                                Eligible(again) /\ Question(again) = Question(asked))
                        /\ replay # None =>
                              ClientReads(replay) = sample.text /\ replay.stream = again.stream
      BY Zenon DEF ReplayAnswersTheQuestion
    <2> DEFINE f == FormatResponse(sample.text, again.stream, Format(again))
    <2>1. /\ asked \in Body /\ again \in Body
          /\ sample.hash = InputHash(asked) /\ sample.text \in Texts(Tokens)
          /\ replay = IF Eligible(again) /\ InputHash(again) = sample.hash THEN f ELSE None
      BY <1>1 DEF SampleInv, UpstreamOK, SampleOK, AnswerOK
    <2>2. WellFormed(asked) /\ WellFormed(again) /\ again.stream \in BOOLEAN
      BY <2>1, ProbeReplayAssumption DEF WellFormed
    <2>3. f # None
      BY AnswersAreSome
    <2>4. ClientReads(f) = sample.text /\ f.stream = again.stream
      <3>1. sample.text \in Seq(Tokens) /\ IsText(sample.text)
        BY <2>1 DEF Texts
      <3> DEFINE t == sample.text
      <3> DEFINE b == again.stream
      <3> DEFINE format == Format(again)
      <3>2. t \in Seq(Tokens) /\ IsText(t) /\ b \in BOOLEAN
        BY <2>2, <3>1
      <3> HIDE DEF t, b, format
      <3>3. /\ ClientReads(FormatResponse(t, b, format)) = t
            /\ FormatResponse(t, b, format).stream = b
        <4>1. Marks \subseteq Tokens
          BY TokensAre
        <4> QED BY <3>2, <4>1, AnswerReads
      <3> QED BY <3>3, Zenon DEF t, b, format
    <2> HIDE DEF f
    <2>5. ASSUME TextBody(asked), TextBody(again)
          PROVE  InputHash(again) = InputHash(asked) <=> Question(again) = Question(asked)
      BY <2>2, <2>5, HashTellsQuestion
    <2> QED BY <2>1, <2>3, <2>4, <2>5, Zenon
  <1> QED BY <1>1, AlwaysSampleInv, PTL
=============================================================================

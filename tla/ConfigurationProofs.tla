-------------------------- MODULE ConfigurationProofs --------------------------
(***************************************************************************)
(* Proofs about the administration of an installation: the default         *)
(* currency, the catalogue with its tags, fields and countries and the     *)
(* cached list of bundles, the groups and roles of a user, the seeding of  *)
(* permissions, the default flags, the files, and the exchange of data     *)
(* with other installations.  Each invariant says of its own scene what    *)
(* the requests under way are, and of the other scenes that they leave its *)
(* variables alone.                                                        *)
(***************************************************************************)
EXTENDS Configuration, FiniteSetTheorems, SequenceTheorems, WellFoundedInduction, TLAPS

\* A set of natural numbers has a least one.
LEMMA LeastNumber ==
    ASSUME NEW T \in SUBSET Nat, T # {}
    PROVE  \E m \in T : \A n \in T : m <= n
<1> DEFINE R == {ss \in Nat \X Nat : ss[1] < ss[2]}
<1>1. OpToRel(<, Nat) = R
    BY Zenon DEF OpToRel
<1>2. IsWellFoundedOn(R, Nat)
    BY <1>1, NatLessThanWellFounded, Zenon
<1>3. \E m \in T : \A n \in T : ~(<<n, m>> \in R)
    BY <1>2, WFMin, Zenon
<1>4. \A m, n \in Nat : (<<n, m>> \in R) <=> n < m
    OBVIOUS
<1> HIDE DEF R
<1>5. PICK m \in T : \A n \in T : ~(<<n, m>> \in R)
    BY <1>3
<1>6. \A n \in T : ~(n < m)
    BY <1>4, <1>5
<1> QED BY <1>6

\* The greatest of a set of numbers.
LEMMA MaxIsGreatest ==
    ASSUME NEW n \in Nat, NEW T \in SUBSET (0 .. n), T # {}
    PROVE  Max(T) \in T /\ \A i \in T : Max(T) >= i
<1> DEFINE U == {m \in 0 .. n : n - m \in T}
<1>1. U \in SUBSET Nat /\ U # {}
  <2>1. PICK i \in T : TRUE
    OBVIOUS
  <2>2. n - i \in 0 .. n /\ n - (n - i) = i
    OBVIOUS
  <2> QED BY <2>2
<1>2. PICK m \in U : \A k \in U : m <= k
    BY <1>1, LeastNumber
<1>3. n - m \in T
    OBVIOUS
<1>4. \A i \in T : n - m >= i
  <2> SUFFICES ASSUME NEW i \in T PROVE n - m >= i
    OBVIOUS
  <2>1. i \in 0 .. n /\ n - i \in 0 .. n /\ n - (n - i) = i
    OBVIOUS
  <2>2. n - i \in U
    BY <2>1
  <2>3. m <= n - i /\ m \in 0 .. n
    BY <1>2, <2>2
  <2> QED BY <2>1, <2>3
<1> QED BY <1>3, <1>4 DEF Max

-----------------------------------------------------------------------------
(***************************************************************************)
(* Sequences joined one after the other, which is a function of how many   *)
(* of them are joined.                                                     *)
(***************************************************************************)
IsJoin(g, s, n) == g = [i \in 1 .. n |-> IF i = 1 THEN s[i] ELSE g[i - 1] \o s[i]]

\* What holds of the first and is handed on holds of all.
LEMMA LeastIndex ==
    ASSUME NEW n \in Nat, NEW T \in SUBSET (1 .. n), T # {}
    PROVE  \E i \in T : i = 1 \/ (i - 1 \in 1 .. n /\ i - 1 \notin T)
<1>1. T \in SUBSET Nat
    OBVIOUS
<1>2. PICK i \in T : \A j \in T : i <= j
    BY <1>1, LeastNumber
<1>3. i \in 1 .. n
    OBVIOUS
<1>4. i # 1 => i - 1 \in 1 .. n /\ i - 1 \notin T
    BY <1>2, <1>3
<1> QED BY <1>4

LEMMA JoinExists ==
    ASSUME NEW s, NEW n \in Nat
    PROVE  \E g : IsJoin(g, s, n)
<1> DEFINE T == {m \in Nat : ~\E g : IsJoin(g, s, m)}
<1> SUFFICES ASSUME T # {} PROVE FALSE
    OBVIOUS
<1>1. PICK m \in T : \A k \in T : m <= k
  <2>1. T \in SUBSET Nat
    OBVIOUS
  <2> HIDE DEF T
  <2> QED BY <2>1, LeastNumber
<1>2. m # 0
  <2>1. IsJoin([i \in 1 .. 0 |-> 0], s, 0)
    BY DEF IsJoin
  <2> QED BY <2>1
<1>3. PICK g : IsJoin(g, s, m - 1)
    BY <1>1, <1>2
<1> DEFINE h == [i \in 1 .. m |-> IF i < m THEN g[i]
                                  ELSE IF i = 1 THEN s[i] ELSE g[i - 1] \o s[i]]
<1>4. ASSUME NEW i \in 1 .. m
      PROVE  h[i] = IF i = 1 THEN s[i] ELSE h[i - 1] \o s[i]
  <2>1. \A j \in 1 .. m - 1 : g[j] = IF j = 1 THEN s[j] ELSE g[j - 1] \o s[j]
    BY <1>3 DEF IsJoin
  <2>2. CASE i < m
    <3>1. i \in 1 .. m - 1
      BY <2>2
    <3>2. h[i] = g[i]
      BY <2>2
    <3>3. i # 1 => h[i - 1] = g[i - 1]
      BY <2>2
    <3> HIDE DEF h
    <3> QED BY <2>1, <3>1, <3>2, <3>3
  <2>3. CASE i = m
    <3>1. i # 1 => h[i - 1] = g[i - 1]
      BY <2>3
    <3>2. h[i] = IF i = 1 THEN s[i] ELSE g[i - 1] \o s[i]
      BY <2>3
    <3> HIDE DEF h
    <3> QED BY <3>1, <3>2
  <2> QED BY <2>2, <2>3
<1>5. IsJoin(h, s, m)
  <2>1. DOMAIN h = 1 .. m /\ h = [i \in 1 .. m |-> h[i]]
    OBVIOUS
  <2> HIDE DEF h
  <2> QED BY <1>4, <2>1 DEF IsJoin
<1> QED BY <1>5

\* What two sequences have in common, and what one consists of.
Agree(s, t, D) == \A i \in D : s[i] = t[i]
Consists(s, n, S) == \A i \in 1 .. n : s[i] \in Seq(S)

LEMMA JoinStep ==
    ASSUME NEW s, NEW n \in Nat, NEW g, IsJoin(g, s, n), NEW i \in 1 .. n
    PROVE  g[i] = IF i = 1 THEN s[i] ELSE g[i - 1] \o s[i]
BY DEF IsJoin

LEMMA JoinType ==
    ASSUME NEW S, NEW s, NEW n \in Nat, NEW g, IsJoin(g, s, n), Consists(s, n, S)
    PROVE  Consists(g, n, S)
<1> DEFINE T == {i \in 1 .. n : g[i] \notin Seq(S)}
<1> SUFFICES ASSUME T # {} PROVE FALSE
    BY DEF Consists
<1>1. PICK i \in T : i = 1 \/ (i - 1 \in 1 .. n /\ i - 1 \notin T)
  <2> HIDE DEF T
  <2>1. T \in SUBSET (1 .. n)
    BY DEF T
  <2> QED BY <2>1, LeastIndex
<1>2. g[i] = IF i = 1 THEN s[i] ELSE g[i - 1] \o s[i]
    BY JoinStep
<1>3. s[i] \in Seq(S)
    BY DEF Consists
<1>4. i # 1 => g[i - 1] \in Seq(S)
    BY <1>1
<1>5. g[i] \in Seq(S)
    BY <1>2, <1>3, <1>4
<1> QED BY <1>5

LEMMA FlattenIsJoin ==
    ASSUME NEW s, NEW n \in Nat \ {0}, Len(s) = n
    PROVE  \E g : IsJoin(g, s, n) /\ FlattenSeq(s) = g[n]
<1> DEFINE g == CHOOSE h : IsJoin(h, s, n)
<1>1. IsJoin(g, s, n)
  <2>1. n \in Nat
    OBVIOUS
  <2>2. \E h : IsJoin(h, s, n)
    BY <2>1, JoinExists
  <2> QED BY <2>2, Zenon
<1>2. Len(s) # 0
    OBVIOUS
<1>3. FlattenSeq(s) = g[n]
    BY <1>2, Zenon DEF FlattenSeq, IsJoin
<1> QED BY <1>1, <1>3, Zenon

\* What is joined to the same is the same, as far as the sequences are.
LEMMA JoinsAgreeBefore ==
    ASSUME NEW s, NEW t, NEW n \in Nat, NEW g, NEW h, IsJoin(g, s, n), IsJoin(h, t, n),
           NEW p \in 1 .. n, Agree(s, t, 1 .. p - 1)
    PROVE  Agree(g, h, 1 .. p - 1)
<1> DEFINE T == {i \in 1 .. n : i \in 1 .. p - 1 /\ g[i] # h[i]}
<1> SUFFICES ASSUME T # {} PROVE FALSE
    BY DEF Agree
<1>1. PICK i \in T : i = 1 \/ (i - 1 \in 1 .. n /\ i - 1 \notin T)
  <2> HIDE DEF T
  <2>1. T \in SUBSET (1 .. n)
    BY DEF T
  <2> QED BY <2>1, LeastIndex
<1>2. /\ g[i] = IF i = 1 THEN s[i] ELSE g[i - 1] \o s[i]
      /\ h[i] = IF i = 1 THEN t[i] ELSE h[i - 1] \o t[i]
    BY JoinStep
<1>3. i # 1 => g[i - 1] = h[i - 1]
    BY <1>1
<1>4. s[i] = t[i]
    BY DEF Agree
<1>5. g[i] = h[i]
    BY <1>2, <1>3, <1>4
<1> QED BY <1>5

LEMMA JoinsAgreeAfter ==
    ASSUME NEW s, NEW t, NEW n \in Nat, NEW g, NEW h, IsJoin(g, s, n), IsJoin(h, t, n),
           NEW p \in 1 .. n, g[p] = h[p], Agree(s, t, p + 1 .. n)
    PROVE  Agree(g, h, p + 1 .. n)
<1> DEFINE T == {i \in 1 .. n : i \in p + 1 .. n /\ g[i] # h[i]}
<1> SUFFICES ASSUME T # {} PROVE FALSE
    BY DEF Agree
<1>1. PICK i \in T : i = 1 \/ (i - 1 \in 1 .. n /\ i - 1 \notin T)
  <2> HIDE DEF T
  <2>1. T \in SUBSET (1 .. n)
    BY DEF T
  <2> QED BY <2>1, LeastIndex
<1>2. /\ g[i] = IF i = 1 THEN s[i] ELSE g[i - 1] \o s[i]
      /\ h[i] = IF i = 1 THEN t[i] ELSE h[i - 1] \o t[i]
    BY JoinStep
<1>3. i # 1 => g[i - 1] = h[i - 1]
    BY <1>1
<1>4. s[i] = t[i]
    BY DEF Agree
<1>5. g[i] = h[i]
    BY <1>2, <1>3, <1>4
<1> QED BY <1>5

LEMMA JoinAppend ==
    ASSUME NEW S, NEW s, NEW t, NEW n \in Nat \ {0}, NEW g, NEW h, IsJoin(g, s, n), IsJoin(h, t, n),
           Consists(s, n, S), NEW e \in S,
           Agree(s, t, 1 .. n - 1), t[n] = Append(s[n], e)
    PROVE  h[n] = Append(g[n], e)
<1>1. Agree(g, h, 1 .. n - 1)
  <2>1. n \in 1 .. n
    OBVIOUS
  <2> QED BY <2>1, JoinsAgreeBefore
<1>2. n \in 1 .. n
    OBVIOUS
<1>3. /\ g[n] = IF n = 1 THEN s[n] ELSE g[n - 1] \o s[n]
      /\ h[n] = IF n = 1 THEN t[n] ELSE h[n - 1] \o t[n]
    BY <1>2 DEF IsJoin
<1>4. PICK b \in Seq(S) : b = s[n]
    BY <1>2 DEF Consists
<1>5. CASE n = 1
    BY <1>3, <1>5
<1>6. CASE n # 1
  <2>1. n - 1 \in 1 .. n - 1 /\ n - 1 \in 1 .. n
    BY <1>6
  <2>2. PICK a \in Seq(S) : a = g[n - 1]
    BY <2>1, JoinType DEF Consists
  <2>3. a \o Append(b, e) = Append(a \o b, e)
    OBVIOUS
  <2>4. g[n] = a \o b /\ h[n] = a \o Append(b, e)
    BY <1>1, <1>3, <1>4, <1>6, <2>1, <2>2 DEF Agree
  <2> QED BY <2>3, <2>4
<1> QED BY <1>5, <1>6

LEMMA JoinMoved ==
    ASSUME NEW S, NEW s, NEW t, NEW n \in Nat, NEW g, NEW h, IsJoin(g, s, n), IsJoin(h, t, n),
           Consists(s, n, S),
           NEW p \in 1 .. n - 1, s[p] = <<>>, t[p] = s[p + 1], t[p + 1] = <<>>,
           \A i \in 1 .. n : i # p /\ i # p + 1 => t[i] = s[i]
    PROVE  h[n] = g[n]
<1>1. Agree(g, h, 1 .. p - 1)
  <2>1. p \in 1 .. n /\ Agree(s, t, 1 .. p - 1)
    BY DEF Agree
  <2> QED BY <2>1, JoinsAgreeBefore
<1>2. p \in 1 .. n /\ p + 1 \in 1 .. n /\ p + 1 # 1 /\ (p + 1) - 1 = p
    OBVIOUS
<1>3. PICK c \in Seq(S) : c = s[p + 1]
    BY <1>2 DEF Consists
<1>4. /\ g[p] = IF p = 1 THEN <<>> ELSE g[p - 1] \o <<>>
      /\ h[p] = IF p = 1 THEN c ELSE h[p - 1] \o c
    BY <1>2, <1>3 DEF IsJoin
<1>5. g[p + 1] = g[p] \o c /\ h[p + 1] = h[p] \o <<>>
    BY <1>2, <1>3 DEF IsJoin
<1>6. g[p + 1] = h[p + 1]
  <2>1. CASE p = 1
    <3>1. <<>> \o c = c /\ c \o <<>> = c
      BY ConcatEmptySeq
    <3> QED BY <1>4, <1>5, <2>1, <3>1
  <2>2. CASE p # 1
    <3>1. p - 1 \in 1 .. n /\ p - 1 \in 1 .. p - 1
      BY <2>2
    <3>2. PICK a \in Seq(S) : a = g[p - 1] /\ a = h[p - 1]
      BY <1>1, <3>1, JoinType DEF Consists, Agree
    <3>3. a \o <<>> = a /\ (a \o c) \o <<>> = a \o c
      <4>1. a \o c \in Seq(S)
        BY ConcatProperties
      <4> QED BY <4>1, ConcatEmptySeq
    <3> QED BY <1>4, <1>5, <2>2, <3>2, <3>3
  <2> QED BY <2>1, <2>2
<1>7. \A i \in (p + 1) + 1 .. n : g[i] = h[i]
  <2>1. PICK q \in 1 .. n : q = p + 1
    BY <1>2
  <2>2. g[q] = h[q] /\ Agree(s, t, q + 1 .. n)
    BY <1>6, <2>1 DEF Agree
  <2>3. Agree(g, h, q + 1 .. n)
    BY <2>2, JoinsAgreeAfter
  <2> QED BY <2>1, <2>3 DEF Agree
<1>8. n = p + 1 \/ n \in (p + 1) + 1 .. n
    OBVIOUS
<1> QED BY <1>6, <1>7, <1>8

LEMMA JoinLength ==
    ASSUME NEW S, NEW s, NEW n \in Nat \ {0}, NEW g, IsJoin(g, s, n), Consists(s, n, S),
           NEW k \in Nat, s[1] = <<>>, \A i \in 2 .. n : Len(s[i]) = k
    PROVE  Len(g[n]) = (n - 1) * k
<1> DEFINE T == {i \in 1 .. n : Len(g[i]) # (i - 1) * k}
<1>1. ASSUME T # {} PROVE FALSE
  <2>1. PICK i \in T : i = 1 \/ (i - 1 \in 1 .. n /\ i - 1 \notin T)
    <3>1. T \in SUBSET (1 .. n)
      OBVIOUS
    <3> HIDE DEF T
    <3> QED BY <1>1, <3>1, LeastIndex
  <2>2. g[i] = IF i = 1 THEN s[i] ELSE g[i - 1] \o s[i]
    BY JoinStep
  <2>3. CASE i = 1
    <3>1. Len(g[i]) = 0 /\ (i - 1) * k = 0
      BY <2>2, <2>3
    <3> QED BY <3>1
  <2>4. CASE i # 1
    <3>1. i - 1 \in 1 .. n /\ i - 1 \notin T /\ i \in 2 .. n
      BY <2>1, <2>4
    <3>2. PICK a \in Seq(S) : a = g[i - 1]
      BY <3>1, JoinType DEF Consists
    <3>3. PICK c \in Seq(S) : c = s[i]
      BY <3>1 DEF Consists
    <3>4. PICK m \in Nat : m = i - 2 /\ i = m + 2
      <4>1. i - 2 \in Nat /\ i = (i - 2) + 2
        BY <3>1
      <4> QED BY <4>1
    <3>5. Len(a) = m * k /\ Len(c) = k
      <4>1. Len(g[i - 1]) = ((i - 1) - 1) * k
        BY <3>1
      <4>2. (i - 1) - 1 = m
        BY <3>4
      <4> QED BY <3>1, <3>2, <3>3, <4>1, <4>2
    <3>6. g[i] = a \o c
      BY <2>2, <2>4, <3>2, <3>3
    <3>7. Len(g[i]) = m * k + k
      <4>1. Len(a \o c) = Len(a) + Len(c)
        BY ConcatProperties
      <4> QED BY <3>5, <3>6, <4>1
    <3>8. m * k + k = (m + 1) * k
      OBVIOUS
    <3>9. i - 1 = m + 1
      BY <3>4
    <3>10. Len(g[i]) = (i - 1) * k
      BY <3>7, <3>8, <3>9
    <3> QED BY <3>10
  <2> QED BY <2>3, <2>4
<1>2. n \in 1 .. n
    OBVIOUS
<1>3. Len(g[n]) = (n - 1) * k
    BY <1>1, <1>2
<1> QED BY <1>3

\* So much for how many are joined; of all of them: an element at the end of the
\* last one is at the end of all,
LEMMA FlattenAppend ==
    ASSUME NEW S, NEW s, NEW t, NEW n \in Nat \ {0}, Len(s) = n, Len(t) = n, Consists(s, n, S),
           NEW e \in S, Agree(s, t, 1 .. n - 1), t[n] = Append(s[n], e)
    PROVE  FlattenSeq(t) = Append(FlattenSeq(s), e)
<1>1. PICK g : IsJoin(g, s, n) /\ FlattenSeq(s) = g[n]
    BY FlattenIsJoin
<1>2. PICK h : IsJoin(h, t, n) /\ FlattenSeq(t) = h[n]
    BY FlattenIsJoin
<1> QED BY <1>1, <1>2, JoinAppend

\* without the first one, the rest is left,
LEMMA FlattenWithoutFirst ==
    ASSUME NEW S, NEW s, NEW t, NEW n \in Nat \ {0}, Len(s) = n, Len(t) = n, Consists(s, n, S),
           t[1] = <<>>, Agree(s, t, 2 .. n)
    PROVE  FlattenSeq(s) = s[1] \o FlattenSeq(t)
<1>1. PICK g : IsJoin(g, s, n) /\ FlattenSeq(s) = g[n]
    BY FlattenIsJoin
<1>2. PICK h : IsJoin(h, t, n) /\ FlattenSeq(t) = h[n]
    BY FlattenIsJoin
<1>3. PICK a \in Seq(S) : a = s[1]
    BY DEF Consists
<1>4. Consists(t, n, S)
  <2>1. ASSUME NEW i \in 1 .. n PROVE t[i] \in Seq(S)
    <3>1. <<>> \in Seq(S) /\ (i = 1 \/ i \in 2 .. n)
      OBVIOUS
    <3> QED BY <3>1 DEF Consists, Agree
  <2> QED BY <2>1 DEF Consists
<1> DEFINE T == {i \in 1 .. n : g[i] # a \o h[i]}
<1>5. ASSUME T # {} PROVE FALSE
  <2>1. PICK i \in T : i = 1 \/ (i - 1 \in 1 .. n /\ i - 1 \notin T)
    <3>1. T \in SUBSET (1 .. n)
      OBVIOUS
    <3> HIDE DEF T
    <3> QED BY <1>5, <3>1, LeastIndex
  <2>2. /\ g[i] = IF i = 1 THEN s[i] ELSE g[i - 1] \o s[i]
        /\ h[i] = IF i = 1 THEN t[i] ELSE h[i - 1] \o t[i]
    BY <1>1, <1>2, JoinStep
  <2>3. CASE i = 1
    <3>1. g[i] = a /\ h[i] = <<>>
      BY <1>3, <2>2, <2>3
    <3>2. a \o <<>> = a
      BY ConcatEmptySeq
    <3>3. g[i] = a \o h[i]
      BY <3>1, <3>2
    <3> QED BY <3>3
  <2>4. CASE i # 1
    <3>1. i - 1 \in 1 .. n /\ i - 1 \notin T
      BY <2>1, <2>4
    <3>2. PICK b \in Seq(S) : b = h[i - 1]
      BY <1>4, <1>2, <3>1, JoinType DEF Consists
    <3>3. i \in 2 .. n
      BY <2>4
    <3>4. PICK c \in Seq(S) : c = s[i] /\ c = t[i]
      BY <3>3 DEF Consists, Agree
    <3>5. g[i - 1] = a \o b
      BY <3>1, <3>2
    <3>6. g[i] = (a \o b) \o c /\ h[i] = b \o c
      BY <2>2, <2>4, <3>2, <3>4, <3>5
    <3>7. (a \o b) \o c = a \o (b \o c)
      <4> HIDE DEF T
      <4> QED BY ConcatAssociative, SMTT(60)
    <3>8. g[i] = a \o h[i]
      BY <3>6, <3>7
    <3> QED BY <3>8
  <2> QED BY <2>3, <2>4
<1>6. n \in 1 .. n
    OBVIOUS
<1> QED BY <1>3, <1>5, <1>6, <1>1, <1>2

\* one that moves to an empty place before it leaves the join as it is,
LEMMA FlattenMoved ==
    ASSUME NEW S, NEW s, NEW t, NEW n \in Nat \ {0}, Len(s) = n, Len(t) = n, Consists(s, n, S),
           NEW p \in 1 .. n - 1, s[p] = <<>>, t[p] = s[p + 1], t[p + 1] = <<>>,
           \A i \in 1 .. n : i # p /\ i # p + 1 => t[i] = s[i]
    PROVE  FlattenSeq(t) = FlattenSeq(s)
<1>1. PICK g : IsJoin(g, s, n) /\ FlattenSeq(s) = g[n]
    BY FlattenIsJoin
<1>2. PICK h : IsJoin(h, t, n) /\ FlattenSeq(t) = h[n]
    BY FlattenIsJoin
<1> QED BY <1>1, <1>2, JoinMoved

LEMMA FlattenType ==
    ASSUME NEW S, NEW s, NEW n \in Nat \ {0}, Len(s) = n, Consists(s, n, S)
    PROVE  FlattenSeq(s) \in Seq(S)
<1>1. PICK g : IsJoin(g, s, n) /\ FlattenSeq(s) = g[n]
    BY FlattenIsJoin
<1> QED BY <1>1, JoinType DEF Consists

\* and after an empty one, sequences of one length make a multiple of it.
LEMMA FlattenLength ==
    ASSUME NEW S, NEW s, NEW n \in Nat \ {0}, Len(s) = n, Consists(s, n, S),
           NEW k \in Nat, s[1] = <<>>, \A i \in 2 .. n : Len(s[i]) = k
    PROVE  Len(FlattenSeq(s)) = (n - 1) * k
<1>1. PICK g : IsJoin(g, s, n) /\ FlattenSeq(s) = g[n]
    BY FlattenIsJoin
<1> QED BY <1>1, JoinLength

-----------------------------------------------------------------------------
(***************************************************************************)
(* The default currency.  A settings file that is about to replace the     *)
(* other was validated as a whole.                                         *)
(***************************************************************************)
ValidSettings == {s \in Settings : s.default \in s.active}

CurrencyRequest ==
         [pc : {"idle"}]
    \cup [pc : {"delete"}, code : Codes]
    \cup [pc : {"rate"}, code : Codes, late : BOOLEAN]
    \cup [pc : {"partial"}, origin : {"edit", "rebase"}, late : BOOLEAN, part : Partials]
    \cup [pc : {"write"}, origin : {"edit", "rebase"}, late : BOOLEAN, file : ValidSettings]
    \cup [pc : {"rebase"}, code : Codes, by : Rates \cup {None}, todo : SUBSET Codes,
          before : [Codes -> Rates \cup {None}], late : BOOLEAN]

SettingsInv ==
    /\ settings \in ValidSettings /\ rate \in [Codes -> Rates \cup {None}]
    /\ scene = "currencies" => job \in [Workers -> CurrencyRequest]

\* Being overtaken leaves a request what it is.
LEMMA OverlappedIsRequest ==
    ASSUME job \in [Workers -> CurrencyRequest]
    PROVE  Overlapped \in [Workers -> CurrencyRequest]
<1> SUFFICES ASSUME NEW w \in Workers
             PROVE  (IF Rebasing(w) \/ IsAt(w, "rate") THEN [job[w] EXCEPT !.late = TRUE] ELSE job[w])
                        \in CurrencyRequest
    BY DEF Overlapped
<1>1. CASE ~(Rebasing(w) \/ IsAt(w, "rate"))
    BY <1>1
<1>2. CASE job[w].pc = "rate"
    BY <1>2 DEF CurrencyRequest
<1>3. CASE job[w].pc = "rebase"
    BY <1>3 DEF CurrencyRequest
<1>4. CASE job[w].pc = "partial"
    BY <1>4 DEF CurrencyRequest
<1>5. CASE job[w].pc = "write"
    BY <1>5 DEF CurrencyRequest
<1> QED BY <1>1, <1>2, <1>3, <1>4, <1>5 DEF Rebasing, IsAt

\* A merge that was validated as a whole is a valid file.
LEMMA MergeIsValid ==
    ASSUME settings \in ValidSettings, NEW p \in Partials, DefaultIsListed(p, settings)
    PROVE  Over(p, settings) \in ValidSettings
BY DEF ValidSettings, Settings, Partials, DefaultIsListed, Over

LEMMA CurrencyStep ==
    ASSUME SettingsInv, scene = "currencies", UNCHANGED scene, CurrenciesNext
    PROVE  SettingsInv'
<1> USE DEF SettingsInv
<1>o. Overlapped \in [Workers -> CurrencyRequest]
    BY OverlappedIsRequest
<1>i. Idle \in CurrencyRequest
    BY DEF Idle, CurrencyRequest
<1>1. CASE ImportRates
    BY <1>1, <1>o DEF ImportRates
<1>2. ASSUME NEW c \in Codes, CreateCurrency(c) PROVE SettingsInv'
    BY <1>2, <1>o DEF CreateCurrency
<1>3. ASSUME NEW w \in Workers, DeleteCurrency(w) PROVE SettingsInv'
    BY <1>3, <1>o, <1>i DEF DeleteCurrency
<1>4. ASSUME NEW w \in Workers, UpdateRate(w) PROVE SettingsInv'
    BY <1>4, <1>o, <1>i DEF UpdateRate, Done
<1>5. ASSUME NEW w \in Workers, PutSettings(w) PROVE SettingsInv'
  <2>1. PICK p \in Partials :
           /\ DefaultIsListed(p, settings)
           /\ Begin(w, [pc |-> "write", origin |-> "edit", late |-> FALSE,
                        file |-> Over(p, settings)])
    BY <1>5 DEF PutSettings
  <2>2. Over(p, settings) \in ValidSettings
    BY <2>1, MergeIsValid
  <2>3. [pc |-> "write", origin |-> "edit", late |-> FALSE, file |-> Over(p, settings)]
            \in CurrencyRequest
    BY <2>2 DEF CurrencyRequest
  <2> QED BY <1>5, <2>1, <2>3 DEF PutSettings, Begin, currencyVars
<1>6. ASSUME NEW w \in Workers, MergeSettings(w) PROVE SettingsInv'
  <2>1. job[w] \in [pc : {"partial"}, origin : {"edit", "rebase"}, late : BOOLEAN, part : Partials]
    BY <1>6 DEF MergeSettings, IsAt, CurrencyRequest
  <2>2. CASE ValidPart(job[w].part) /\ DefaultIsListed(job[w].part, settings)
    <3>1. Over(job[w].part, settings) \in ValidSettings
      BY <2>1, <2>2, MergeIsValid
    <3>2. [pc |-> "write", origin |-> job[w].origin, late |-> job[w].late,
           file |-> Over(job[w].part, settings)] \in CurrencyRequest
      BY <2>1, <3>1 DEF CurrencyRequest
    <3> QED BY <1>6, <2>2, <3>2 DEF MergeSettings, Go
  <2>3. CASE ~(ValidPart(job[w].part) /\ DefaultIsListed(job[w].part, settings))
    BY <1>6, <2>3, <1>i DEF MergeSettings, Done
  <2> QED BY <2>2, <2>3
<1>7. ASSUME NEW w \in Workers, WriteSettings(w) PROVE SettingsInv'
  <2>1. job[w].file \in ValidSettings
    BY <1>7 DEF WriteSettings, IsAt, CurrencyRequest
  <2> QED BY <1>7, <1>o, <1>i, <2>1 DEF WriteSettings
<1>8. ASSUME NEW w \in Workers, Rebased(w) PROVE SettingsInv'
  <2>1. job[w].code \in Codes /\ job[w].late \in BOOLEAN
    BY <1>8 DEF Rebased, IsAt, CurrencyRequest
  <2>2. [Part("rebase", job[w].code, None) EXCEPT !.late = job[w].late] \in CurrencyRequest
    BY <2>1 DEF CurrencyRequest, Part, Partials
  <2> QED BY <1>8, <2>2 DEF Rebased, Go, currencyVars
<1>9. ASSUME NEW w \in Workers, RebaseFails(w) \/ CrashEditing(w) PROVE SettingsInv'
    BY <1>9, <1>i DEF RebaseFails, CrashEditing, Done
<1>10. ASSUME NEW w \in Workers, NEW c \in Codes, CheckDelete(w, c) \/ CheckRate(w, c)
       PROVE  SettingsInv'
  <2>1. /\ [pc |-> "delete", code |-> c] \in CurrencyRequest
        /\ [pc |-> "rate", code |-> c, late |-> FALSE] \in CurrencyRequest
    BY DEF CurrencyRequest
  <2> QED BY <1>10, <2>1 DEF CheckDelete, CheckRate, Begin, currencyVars
<1>11. ASSUME NEW w \in Workers, NEW c \in Codes, SetActive(w, c) PROVE SettingsInv'
  <2>1. /\ Part("edit", None, settings.active \cup {c}) \in CurrencyRequest
        /\ Part("edit", None, settings.active \ {c}) \in CurrencyRequest
    BY DEF CurrencyRequest, Part, Partials, ValidSettings, Settings
  <2> QED BY <1>11, <2>1 DEF SetActive, Begin, currencyVars
<1>12. ASSUME NEW w \in Workers, NEW c \in Codes, SetDefault(w, c) PROVE SettingsInv'
  <2>1. [pc |-> "rebase", code |-> c, by |-> rate[c], todo |-> Catalog, before |-> rate,
         late |-> FALSE] \in CurrencyRequest
    BY DEF CurrencyRequest, Catalog
  <2> QED BY <1>12, <2>1 DEF SetDefault, Begin, currencyVars
<1>13. ASSUME NEW w \in Workers, NEW c \in Codes, RebaseRow(w, c) PROVE SettingsInv'
  <2>1. [job[w] EXCEPT !.todo = @ \ {c}] \in CurrencyRequest
    BY <1>13 DEF RebaseRow, IsAt, CurrencyRequest
  <2>2. rate' \in [Codes -> Rates \cup {None}]
    BY <1>13 DEF RebaseRow
  <2> QED BY <1>13, <1>o, <2>1, <2>2 DEF RebaseRow
<1> QED
    BY <1>1, <1>2, <1>3, <1>4, <1>5, <1>6, <1>7, <1>8, <1>9, <1>10, <1>11, <1>12, <1>13
    DEF CurrenciesNext

\* No interleaving of requests, deaths and imports leaves a default currency
\* that is not active (update_core_settings, CurrencyService).
THEOREM DefaultStaysActive == Spec => []DefaultIsActive
<1>1. Init => SettingsInv
    BY CurrencyAssumption
    DEF Init, CurrenciesInit, SettingsInv, ValidSettings, Settings, CurrencyRequest, Idle
<1>2. SettingsInv /\ [Next]_vars => SettingsInv'
  <2> SUFFICES ASSUME SettingsInv, [Next]_vars PROVE SettingsInv'
    OBVIOUS
  <2>1. CASE UNCHANGED vars
    BY <2>1 DEF vars, currencyVars, SettingsInv
  <2>2. CASE Next /\ scene = "currencies"
    BY <2>2, CurrencyStep DEF Next
  <2>3. CASE Next /\ scene # "currencies"
    BY <2>3 DEF Next, currencyVars, SettingsInv
  <2> QED BY <2>1, <2>2, <2>3
<1>3. SettingsInv => DefaultIsActive
    BY DEF SettingsInv, ValidSettings, DefaultIsActive
<1> QED BY <1>1, <1>2, <1>3, PTL DEF Spec

-----------------------------------------------------------------------------
(***************************************************************************)
(* The rates.  What a request that nobody passed can still count on: the   *)
(* rows a rebase has done are divided and the others are as it found them; *)
(* a default about to be written has the rate 1; and a rate about to be    *)
(* changed is not the default's.                                           *)
(***************************************************************************)
NewDefault(r) == r.pc = "rebase" \/ (r.pc \in {"partial", "write"} /\ r.origin = "rebase")

Sound(r, rates, file) ==
    /\ r.pc = "rate" /\ ~r.late => r.code # file.default
    /\ r.pc = "rebase" /\ ~r.late =>
          /\ rates[r.code] # None /\ r.by = r.before[r.code]
          /\ \A d \in Codes : rates[d] # None =>
                /\ r.before[d] # None
                /\ rates[d] = IF d \in r.todo THEN r.before[d]
                              ELSE IF d = r.code THEN 0 ELSE r.before[d] - r.by
    /\ r.pc = "partial" /\ r.origin = "rebase" /\ ~r.late =>
          r.part.default \in Codes /\ rates[r.part.default] = 0
    /\ r.pc = "write" /\ r.origin = "rebase" /\ ~r.late => rates[r.file.default] = 0

RatesInv ==
    /\ SettingsInv
    /\ exact \in BOOLEAN
    /\ scene = "currencies" =>
          /\ \A w \in Workers : Sound(job[w], rate, settings)
          /\ exact /\ (\A w \in Workers : ~NewDefault(job[w])) => rate[settings.default] = 0

\* Requests that were overtaken count on nothing.
LEMMA OverlappedIsSound ==
    ASSUME job \in [Workers -> CurrencyRequest], NEW rates, NEW file, NEW w \in Workers
    PROVE  /\ Sound(Overlapped[w], rates, file)
           /\ NewDefault(Overlapped[w]) = NewDefault(job[w])
<1> DEFINE r == IF Rebasing(w) \/ IsAt(w, "rate") THEN [job[w] EXCEPT !.late = TRUE] ELSE job[w]
<1>1. Overlapped[w] = r
    BY DEF Overlapped
<1>2. CASE job[w].pc = "rate"
  <2>1. r = [job[w] EXCEPT !.late = TRUE] /\ r.pc = "rate" /\ r.late
    BY <1>2 DEF CurrencyRequest, IsAt
  <2> HIDE DEF r
  <2> QED BY <1>1, <1>2, <2>1 DEF Sound, NewDefault
<1>3. CASE job[w].pc = "rebase"
  <2>1. r = [job[w] EXCEPT !.late = TRUE] /\ r.pc = "rebase" /\ r.late
    BY <1>3 DEF CurrencyRequest, IsAt, Rebasing
  <2> HIDE DEF r
  <2> QED BY <1>1, <1>3, <2>1 DEF Sound, NewDefault
<1>4. CASE job[w].pc \in {"partial", "write"} /\ job[w].origin = "rebase"
  <2>1. /\ r = [job[w] EXCEPT !.late = TRUE] /\ r.late
        /\ r.pc \in {"partial", "write"} /\ r.origin = "rebase"
    BY <1>4 DEF CurrencyRequest, IsAt, Rebasing
  <2> HIDE DEF r
  <2> QED BY <1>1, <1>4, <2>1 DEF Sound, NewDefault
<1>5. CASE /\ job[w].pc \notin {"rate", "rebase"}
           /\ ~(job[w].pc \in {"partial", "write"} /\ job[w].origin = "rebase")
  <2>1. r = job[w]
    BY <1>5 DEF IsAt, Rebasing
  <2> HIDE DEF r
  <2> QED BY <1>1, <1>5, <2>1 DEF Sound, NewDefault
<1> QED BY <1>2, <1>3, <1>4, <1>5

\* A request that begins, goes on or ends and commits nothing.
LEMMA OneRequestMoves ==
    ASSUME RatesInv, scene = "currencies", UNCHANGED scene, CurrenciesNext, UNCHANGED <<rate, settings>>,
           NEW w \in Workers, NEW r, job' = [job EXCEPT ![w] = r], Sound(r, rate, settings),
           exact' \in BOOLEAN, exact' => exact,
           exact' /\ NewDefault(job[w]) => NewDefault(r)
    PROVE  RatesInv'
<1>1. SettingsInv' /\ job \in [Workers -> CurrencyRequest]
    BY CurrencyStep DEF RatesInv, SettingsInv
<1>2. \A v \in Workers : job'[v] = IF v = w THEN r ELSE job[v]
    BY <1>1
<1>3. \A v \in Workers : Sound(job'[v], rate', settings')
    BY <1>2 DEF RatesInv
<1>4. ASSUME exact', \A v \in Workers : ~NewDefault(job'[v]) PROVE rate'[settings'.default] = 0
  <2>1. \A v \in Workers : ~NewDefault(job[v])
    BY <1>2, <1>4
  <2> QED BY <1>4, <2>1 DEF RatesInv
<1> QED BY <1>1, <1>3, <1>4 DEF RatesInv

\* A request that commits overtakes the others.
LEMMA OneRequestCommits ==
    ASSUME RatesInv, scene = "currencies", UNCHANGED scene, CurrenciesNext,
           NEW w \in Workers, NEW r, job' = [Overlapped EXCEPT ![w] = r],
           Sound(r, rate', settings'), exact' \in BOOLEAN,
           exact' /\ ~NewDefault(r) /\ (\A v \in Workers \ {w} : ~NewDefault(job[v]))
               => rate'[settings'.default] = 0
    PROVE  RatesInv'
<1>1. SettingsInv' /\ job \in [Workers -> CurrencyRequest]
    BY CurrencyStep DEF RatesInv, SettingsInv
<1>2. Overlapped \in [Workers -> CurrencyRequest]
    BY <1>1, OverlappedIsRequest
<1>3. \A v \in Workers : job'[v] = IF v = w THEN r ELSE Overlapped[v]
    BY <1>2
<1>4. \A v \in Workers : Sound(job'[v], rate', settings')
    BY <1>1, <1>3, OverlappedIsSound
<1>5. ASSUME exact', \A v \in Workers : ~NewDefault(job'[v]) PROVE rate'[settings'.default] = 0
  <2>1. \A v \in Workers \ {w} : ~NewDefault(job[v])
    BY <1>1, <1>3, <1>5, OverlappedIsSound
  <2> QED BY <1>3, <1>5, <2>1
<1> QED BY <1>1, <1>4, <1>5 DEF RatesInv

LEMMA RatesStep ==
    ASSUME RatesInv, scene = "currencies", UNCHANGED scene, CurrenciesNext
    PROVE  RatesInv'
<1>t. /\ settings \in ValidSettings /\ rate \in [Codes -> Rates \cup {None}]
      /\ job \in [Workers -> CurrencyRequest] /\ exact \in BOOLEAN
      /\ \A w \in Workers : Sound(job[w], rate, settings)
    BY DEF RatesInv, SettingsInv
<1>n. None \notin Codes /\ None \notin Rates
    BY CurrencyAssumption
<1>i. \A rates, file : Sound(Idle, rates, file) /\ ~NewDefault(Idle)
    BY DEF Idle, Sound, NewDefault
<1>r. \A w \in Workers : Rebasing(w) <=> NewDefault(job[w])
    BY DEF Rebasing, NewDefault, IsAt
<1>1. CASE ImportRates \/ \E c \in Codes : CreateCurrency(c)
  <2>1. SettingsInv' /\ job' = Overlapped
    BY <1>1, CurrencyStep DEF RatesInv, ImportRates, CreateCurrency
  <2>2. \A w \in Workers : Sound(job'[w], rate', settings')
    BY <1>t, <2>1, OverlappedIsSound
  <2>3. exact' \in BOOLEAN
    BY <1>1, <1>t DEF ImportRates, CreateCurrency
  <2>4. ASSUME exact', \A w \in Workers : ~NewDefault(job'[w]) PROVE rate'[settings'.default] = 0
    <3>1. \A w \in Workers : ~NewDefault(job[w])
      BY <1>t, <2>1, <2>4, OverlappedIsSound
    <3>2. CASE ImportRates
      <4>1. exact /\ rate'[settings.default] = rate[settings.default] /\ settings' = settings
        BY <2>4, <3>2 DEF ImportRates
      <4> QED BY <3>1, <4>1 DEF RatesInv
    <3>3. ASSUME NEW c \in Codes, CreateCurrency(c) PROVE rate'[settings'.default] = 0
      <4>1. exact /\ settings' = settings
        BY <2>4, <3>3 DEF CreateCurrency
      <4>2. rate[settings.default] = 0
        BY <3>1, <4>1 DEF RatesInv
      <4>3. settings.default # c
        BY <1>n, <3>3, <4>2, CurrencyAssumption DEF CreateCurrency, Rates
      <4> QED BY <1>t, <3>3, <4>1, <4>2, <4>3 DEF CreateCurrency
    <3> QED BY <1>1, <3>2, <3>3
  <2> QED BY <2>1, <2>2, <2>3, <2>4 DEF RatesInv
<1>2. ASSUME NEW w \in Workers, DeleteCurrency(w) PROVE RatesInv'
  <2>1. /\ job[w].code \in Codes /\ settings' = settings
        /\ rate' = [rate EXCEPT ![job[w].code] = None]
        /\ exact' = (exact /\ job[w].code # settings.default)
        /\ job' = [Overlapped EXCEPT ![w] = Idle] /\ job[w].pc = "delete"
    BY <1>2, <1>t DEF DeleteCurrency, IsAt, CurrencyRequest
  <2>2. ~NewDefault(job[w])
    BY <2>1 DEF NewDefault
  <2>3. ASSUME exact', \A v \in Workers \ {w} : ~NewDefault(job[v]) PROVE rate'[settings'.default] = 0
    <3>1. exact /\ job[w].code # settings.default
      BY <2>1, <2>3
    <3>2. rate[settings.default] = 0
      BY <2>2, <2>3, <3>1 DEF RatesInv
    <3> QED BY <1>t, <2>1, <3>1, <3>2
  <2> QED BY <1>i, <1>t, <2>1, <2>3, OneRequestCommits
<1>3. ASSUME NEW w \in Workers, UpdateRate(w) PROVE RatesInv'
  <2>1. /\ job[w].code \in Codes /\ job[w].late \in BOOLEAN /\ settings' = settings
        /\ job[w].pc = "rate" /\ (~job[w].late => job[w].code # settings.default)
    BY <1>3, <1>t DEF UpdateRate, IsAt, CurrencyRequest, Sound
  <2>2. ~NewDefault(job[w])
    BY <2>1 DEF NewDefault
  <2>3. CASE job[w].code \in Catalog
    <3>1. PICK r \in Rates : rate' = [rate EXCEPT ![job[w].code] = r]
      BY <1>3, <2>3 DEF UpdateRate
    <3>2. /\ job' = [Overlapped EXCEPT ![w] = Idle]
          /\ exact' = (exact /\ (job[w].code = settings.default => ~job[w].late))
      BY <1>3, <2>3 DEF UpdateRate
    <3>3. ASSUME exact', \A v \in Workers \ {w} : ~NewDefault(job[v]) PROVE rate'[settings'.default] = 0
      <4>1. exact /\ job[w].code # settings.default
        BY <2>1, <3>2, <3>3
      <4>2. rate[settings.default] = 0
        BY <2>2, <3>3, <4>1 DEF RatesInv
      <4> QED BY <1>t, <2>1, <3>1, <4>1, <4>2
    <3>4. exact' \in BOOLEAN
      BY <1>t, <3>2
    <3> QED BY <1>i, <3>2, <3>3, <3>4, OneRequestCommits
  <2>4. CASE job[w].code \notin Catalog
    <3>1. job' = [job EXCEPT ![w] = Idle] /\ UNCHANGED <<rate, exact, settings>>
      BY <1>3, <2>4 DEF UpdateRate, Done
    <3> QED BY <1>i, <1>t, <2>2, <3>1, OneRequestMoves
  <2> QED BY <2>3, <2>4
<1>4. ASSUME NEW w \in Workers, NEW c \in Codes, CheckDelete(w, c) \/ CheckRate(w, c) \/ SetActive(w, c)
      PROVE  RatesInv'
  <2>1. PICK r : /\ job' = [job EXCEPT ![w] = r] /\ job[w].pc = "idle"
                 /\ \/ r = [pc |-> "delete", code |-> c]
                    \/ r = [pc |-> "rate", code |-> c, late |-> FALSE] /\ c # settings.default
                    \/ \E active : r = Part("edit", None, active)
                 /\ UNCHANGED <<rate, settings, exact>>
    BY <1>4 DEF CheckDelete, CheckRate, SetActive, Begin, IsAt, currencyVars
  <2>2. Sound(r, rate, settings) /\ ~NewDefault(job[w])
    BY <2>1 DEF Sound, NewDefault, Part
  <2> QED BY <1>t, <2>1, <2>2, OneRequestMoves
<1>5. ASSUME NEW w \in Workers, PutSettings(w) PROVE RatesInv'
  <2>1. PICK p : /\ job' = [job EXCEPT ![w] = [pc |-> "write", origin |-> "edit", late |-> FALSE,
                                               file |-> Over(p, settings)]]
                 /\ job[w].pc = "idle" /\ UNCHANGED currencyVars
    BY <1>5 DEF PutSettings, Begin, IsAt
  <2>2. /\ ~NewDefault(job[w])
        /\ Sound([pc |-> "write", origin |-> "edit", late |-> FALSE, file |-> Over(p, settings)],
                 rate, settings)
    BY <2>1 DEF Sound, NewDefault
  <2> QED BY <1>t, <2>1, <2>2, OneRequestMoves DEF currencyVars
<1>6. ASSUME NEW w \in Workers, MergeSettings(w) PROVE RatesInv'
  <2>1. /\ job[w].pc = "partial" /\ job[w].origin \in {"edit", "rebase"} /\ job[w].late \in BOOLEAN
        /\ job[w].part \in Partials /\ UNCHANGED <<rate, settings>>
    BY <1>6, <1>t DEF MergeSettings, IsAt, CurrencyRequest
  <2>2. CASE ValidPart(job[w].part) /\ DefaultIsListed(job[w].part, settings)
    <3> DEFINE r == [pc |-> "write", origin |-> job[w].origin, late |-> job[w].late,
                     file |-> Over(job[w].part, settings)]
    <3>1. job' = [job EXCEPT ![w] = r] /\ exact' = exact
      BY <1>6, <2>2 DEF MergeSettings, Go
    <3>2. NewDefault(job[w]) => NewDefault(r)
      BY <2>1 DEF NewDefault
    <3>3. ASSUME job[w].origin = "rebase", ~job[w].late PROVE rate[Over(job[w].part, settings).default] = 0
      <4>1. job[w].part.default \in Codes /\ rate[job[w].part.default] = 0
        BY <1>t, <2>1, <3>3 DEF Sound
      <4> QED BY <1>n, <4>1 DEF Over
    <3>4. Sound(r, rate, settings)
      BY <3>3 DEF Sound
    <3> HIDE DEF r
    <3> QED BY <1>t, <2>1, <3>1, <3>2, <3>4, OneRequestMoves
  <2>3. CASE ~(ValidPart(job[w].part) /\ DefaultIsListed(job[w].part, settings))
    <3>1. job' = [job EXCEPT ![w] = Idle] /\ exact' = (exact /\ job[w].origin # "rebase")
      BY <1>6, <2>3 DEF MergeSettings, Done
    <3>2. exact' => ~NewDefault(job[w])
      BY <2>1, <3>1 DEF NewDefault
    <3> QED BY <1>i, <1>t, <2>1, <3>1, <3>2, OneRequestMoves
  <2> QED BY <2>2, <2>3
<1>7. ASSUME NEW w \in Workers, WriteSettings(w) PROVE RatesInv'
  <2>1. /\ job[w].pc = "write" /\ job[w].origin \in {"edit", "rebase"} /\ job[w].late \in BOOLEAN
        /\ settings' = job[w].file /\ rate' = rate
        /\ job' = [Overlapped EXCEPT ![w] = Idle]
        /\ exact' = IF job[w].origin = "rebase" THEN ~job[w].late
                    ELSE exact /\ job[w].file.default = settings.default
    BY <1>7, <1>t DEF WriteSettings, IsAt, CurrencyRequest
  <2>2. ASSUME exact', \A v \in Workers \ {w} : ~NewDefault(job[v]) PROVE rate'[settings'.default] = 0
    <3>1. CASE job[w].origin = "rebase"
      BY <1>t, <2>1, <2>2, <3>1 DEF Sound
    <3>2. CASE job[w].origin = "edit"
      <4>1. exact /\ settings'.default = settings.default /\ ~NewDefault(job[w])
        BY <2>1, <2>2, <3>2 DEF NewDefault
      <4> QED BY <2>1, <2>2, <4>1 DEF RatesInv
    <3> QED BY <2>1, <3>1, <3>2
  <2>3. exact' \in BOOLEAN
    BY <1>t, <2>1
  <2> QED BY <1>i, <2>1, <2>2, <2>3, OneRequestCommits
<1>8. ASSUME NEW w \in Workers, NEW c \in Codes, SetDefault(w, c) PROVE RatesInv'
  <2> DEFINE r == [pc |-> "rebase", code |-> c, by |-> rate[c], todo |-> Catalog, before |-> rate,
                   late |-> FALSE]
  <2>1. /\ job' = [job EXCEPT ![w] = r] /\ UNCHANGED currencyVars
        /\ job[w].pc = "idle" /\ rate[c] # None
    BY <1>8 DEF SetDefault, Begin, IsAt, Catalog
  <2>2. Sound(r, rate, settings) /\ ~NewDefault(job[w])
    BY <2>1 DEF Sound, NewDefault, Catalog
  <2> HIDE DEF r
  <2> QED BY <1>t, <2>1, <2>2, OneRequestMoves DEF currencyVars
<1>9. ASSUME NEW w \in Workers, NEW d \in Codes, RebaseRow(w, d) PROVE RatesInv'
  <2>1. /\ job[w].pc = "rebase" /\ job[w].late \in BOOLEAN /\ job[w].code \in Codes
        /\ job[w] \in [pc : {"rebase"}, code : Codes, by : Rates \cup {None}, todo : SUBSET Codes,
                       before : [Codes -> Rates \cup {None}], late : BOOLEAN]
        /\ d \in job[w].todo /\ rate[d] # None
        /\ rate' = [rate EXCEPT ![d] = IF d = job[w].code THEN 0 ELSE @ - job[w].by]
        /\ rate'[d] # None
        /\ job' = [Overlapped EXCEPT ![w] = [job[w] EXCEPT !.todo = @ \ {d}]]
        /\ UNCHANGED <<settings, exact>>
    BY <1>9, <1>t, <1>n DEF RebaseRow, IsAt, CurrencyRequest, Catalog
  <2> DEFINE r == [job[w] EXCEPT !.todo = job[w].todo \ {d}]
  <2>2. /\ r.pc = "rebase" /\ r.late = job[w].late /\ r.code = job[w].code /\ r.by = job[w].by
        /\ r.before = job[w].before /\ r.todo = job[w].todo \ {d}
    BY <2>1
  <2>3. job' = [Overlapped EXCEPT ![w] = r]
    BY <2>1
  <2> HIDE DEF r
  <2>4. ASSUME ~job[w].late
        PROVE  /\ rate'[r.code] # None /\ r.by = r.before[r.code]
               /\ \A e \in Codes : rate'[e] # None =>
                     /\ r.before[e] # None
                     /\ rate'[e] = IF e \in r.todo THEN r.before[e]
                                   ELSE IF e = r.code THEN 0 ELSE r.before[e] - r.by
    <3>1. /\ rate[job[w].code] # None /\ job[w].by = job[w].before[job[w].code]
          /\ \A e \in Codes : rate[e] # None =>
                /\ job[w].before[e] # None
                /\ rate[e] = IF e \in job[w].todo THEN job[w].before[e]
                             ELSE IF e = job[w].code THEN 0 ELSE job[w].before[e] - job[w].by
      BY <1>t, <2>1, <2>4 DEF Sound
    <3>2. \A e \in Codes : rate'[e] = IF e = d THEN (IF d = job[w].code THEN 0 ELSE rate[d] - job[w].by)
                                      ELSE rate[e]
      BY <1>t, <2>1
    <3>3. rate'[d] # None /\ rate[d] # None /\ d \in job[w].todo /\ job[w].code \in Codes
      BY <2>1
    <3> QED BY <2>2, <3>1, <3>2, <3>3
  <2>5. Sound(r, rate', settings') /\ NewDefault(r)
    BY <2>2, <2>4 DEF Sound, NewDefault
  <2> QED BY <1>t, <2>1, <2>3, <2>5, OneRequestCommits
<1>10. ASSUME NEW w \in Workers, Rebased(w) PROVE RatesInv'
  <2> DEFINE r == [Part("rebase", job[w].code, None) EXCEPT !.late = job[w].late]
  <2>1. /\ job[w].pc = "rebase" /\ job[w].todo = {} /\ job[w].code \in Codes /\ job[w].late \in BOOLEAN
        /\ job' = [job EXCEPT ![w] = r] /\ UNCHANGED currencyVars
    BY <1>10, <1>t DEF Rebased, IsAt, CurrencyRequest, Go
  <2>2. /\ r.pc = "partial" /\ r.origin = "rebase" /\ r.late = job[w].late
        /\ r.part.default = job[w].code
    BY DEF Part
  <2> HIDE DEF r
  <2>3. ~job[w].late => rate[job[w].code] = 0
    BY <1>t, <2>1 DEF Sound
  <2>4. Sound(r, rate, settings) /\ NewDefault(r)
    BY <2>1, <2>2, <2>3 DEF Sound, NewDefault
  <2> QED BY <1>t, <2>1, <2>4, OneRequestMoves DEF currencyVars
<1>11. ASSUME NEW w \in Workers, RebaseFails(w) \/ CrashEditing(w) PROVE RatesInv'
  <2>1. job' = [job EXCEPT ![w] = Idle] /\ UNCHANGED <<rate, settings>>
    BY <1>11 DEF RebaseFails, CrashEditing, Done
  <2>2. exact' \in BOOLEAN /\ (exact' => exact /\ ~NewDefault(job[w]))
    BY <1>11, <1>t, <1>r DEF RebaseFails, CrashEditing
  <2> QED BY <1>i, <2>1, <2>2, OneRequestMoves
<1> QED
    BY <1>1, <1>2, <1>3, <1>4, <1>5, <1>6, <1>7, <1>8, <1>9, <1>10, <1>11 DEF CurrenciesNext

LEMMA RatesKept == Spec => []RatesInv
<1>1. Init => RatesInv
  <2> SUFFICES ASSUME Init PROVE RatesInv
    OBVIOUS
  <2>1. SettingsInv
    BY CurrencyAssumption
    DEF Init, CurrenciesInit, SettingsInv, ValidSettings, Settings, CurrencyRequest, Idle
  <2>2. \A w \in Workers : Sound(job[w], rate, settings)
    BY DEF Init, Idle, Sound
  <2>3. rate[settings.default] = 0 /\ exact = TRUE
    BY DEF Init, CurrenciesInit
  <2> QED BY <2>1, <2>2, <2>3 DEF RatesInv
<1>2. RatesInv /\ [Next]_vars => RatesInv'
  <2> SUFFICES ASSUME RatesInv, [Next]_vars PROVE RatesInv'
    OBVIOUS
  <2>1. CASE UNCHANGED vars
    BY <2>1 DEF vars, currencyVars, RatesInv, SettingsInv
  <2>2. CASE Next /\ scene = "currencies"
    BY <2>2, RatesStep DEF Next
  <2>3. CASE Next /\ scene # "currencies"
    BY <2>3 DEF Next, currencyVars, RatesInv, SettingsInv
  <2> QED BY <2>1, <2>2, <2>3
<1> QED BY <1>1, <1>2, PTL DEF Spec

\* A whole rebase keeps every price, and the default's rate is 1 between
\* requests, whoever else edits rates and settings (CurrencyService).
THEOREM RatesStayExact == Spec => [](scene = "currencies" => RatesAreExact)
<1>1. RatesInv => (scene = "currencies" => RatesAreExact)
  <2> SUFFICES ASSUME RatesInv, scene = "currencies" PROVE RatesAreExact
    OBVIOUS
  <2>1. ASSUME NEW w \in Workers, IsAt(w, "rebase"), job[w].todo = {}, ~job[w].late,
               NEW c \in Catalog, NEW d \in Catalog
        PROVE  Quote(rate, c, d) = Quote(job[w].before, c, d)
    <3>1. job[w] \in [pc : {"rebase"}, code : Codes, by : Rates \cup {None}, todo : SUBSET Codes,
                      before : [Codes -> Rates \cup {None}], late : BOOLEAN]
      BY <2>1 DEF RatesInv, SettingsInv, IsAt, CurrencyRequest
    <3>2. /\ rate[job[w].code] # None /\ job[w].by = job[w].before[job[w].code]
          /\ \A e \in Codes : rate[e] # None =>
                /\ job[w].before[e] # None
                /\ rate[e] = IF e = job[w].code THEN 0 ELSE job[w].before[e] - job[w].by
      BY <2>1, <3>1 DEF RatesInv, Sound
    <3>3. \A e \in Codes : rate[e] # None => job[w].before[e] \in Int
      BY <3>1, <3>2, CurrencyAssumption DEF Rates
    <3>4. \A e \in Codes : rate[e] # None =>
             /\ job[w].by \in Int /\ rate[e] = job[w].before[e] - job[w].by
      BY <3>1, <3>2, <3>3
    <3>5. c \in Codes /\ d \in Codes /\ rate[c] # None /\ rate[d] # None
      BY DEF Catalog
    <3> QED BY <3>3, <3>4, <3>5 DEF Quote
  <2>2. ASSUME exact, \A w \in Workers : ~Rebasing(w) PROVE rate[settings.default] = 0
    <3>1. \A w \in Workers : ~NewDefault(job[w])
      BY <2>2 DEF NewDefault, Rebasing, IsAt
    <3> QED BY <2>2, <3>1 DEF RatesInv
  <2> QED BY <2>1, <2>2 DEF RatesAreExact
<1> QED BY <1>1, RatesKept, PTL

\* The default stays active and the prices stay what they are, whoever edits
\* the currencies, the rates and the settings (CurrencyService).
THEOREM CurrenciesStayRight == Spec => [](scene = "currencies" => CurrenciesAgree)
<1>1. DefaultIsActive /\ (scene = "currencies" => RatesAreExact)
      => (scene = "currencies" => CurrenciesAgree)
  BY DEF CurrenciesAgree
<1> QED BY <1>1, DefaultStaysActive, RatesStayExact, PTL

-----------------------------------------------------------------------------
(***************************************************************************)
(* The cached list of bundles.  What a reader is about to store is the     *)
(* current list, unless a write passed it.                                 *)
(***************************************************************************)
BundleRequest ==
    [pc : {"idle", "clear"}] \cup [pc : {"fill"}, body : Offers, late : BOOLEAN]

CacheInv ==
    /\ CacheIsCurrent \/ scene # "bundles"
    /\ excused \in BOOLEAN /\ offer \in Offers
    /\ scene # "bundles" => cache = None
    /\ scene = "bundles" =>
          /\ job \in [Workers -> BundleRequest]
          /\ \A w \in Workers : IsAt(w, "fill") /\ ~job[w].late => job[w].body = offer

LEMMA PassedIsRequest ==
    ASSUME job \in [Workers -> BundleRequest]
    PROVE  /\ Overtaken({"fill"}) \in [Workers -> BundleRequest]
           /\ \A w \in Workers : /\ Overtaken({"fill"})[w].pc = job[w].pc
                                 /\ job[w].pc = "fill" => Overtaken({"fill"})[w].late
<1> SUFFICES ASSUME NEW w \in Workers
             PROVE  LET r == IF job[w].pc \in {"fill"} THEN [job[w] EXCEPT !.late = TRUE] ELSE job[w] IN
                    r \in BundleRequest /\ r.pc = job[w].pc /\ (job[w].pc = "fill" => r.late)
    BY DEF Overtaken
<1>1. CASE job[w].pc = "fill"
    BY <1>1 DEF BundleRequest
<1>2. CASE job[w].pc # "fill"
    BY <1>2
<1> QED BY <1>1, <1>2

LEMMA BundleStep ==
    ASSUME CacheInv, scene = "bundles", UNCHANGED scene, CatalogueNext
    PROVE  CacheInv'
<1> USE DEF CacheInv
<1>o. /\ Overtaken({"fill"}) \in [Workers -> BundleRequest]
      /\ \A w \in Workers : /\ Overtaken({"fill"})[w].pc = job[w].pc
                            /\ job[w].pc = "fill" => Overtaken({"fill"})[w].late
    BY PassedIsRequest
<1>i. Idle \in BundleRequest /\ Idle.pc = "idle"
    BY DEF Idle, BundleRequest
<1>1. ASSUME NEW v \in Offers, ImportBundles(v) PROVE CacheInv'
    BY <1>1, <1>o DEF ImportBundles, Bundles, CacheIsCurrent, IsAt
<1>2. ASSUME NEW v \in Offers, NEW w \in Workers, Write(w, v) PROVE CacheInv'
  <2>1. [pc |-> "clear"] \in BundleRequest
    BY DEF BundleRequest
  <2>2. job' \in [Workers -> BundleRequest] /\ job'[w].pc = "clear"
    BY <1>2, <1>o, <2>1 DEF Write
  <2> QED BY <1>2, <1>o, <2>2 DEF Write, Bundles, CacheIsCurrent, IsAt
<1>3. ASSUME NEW w \in Workers, ClearCache(w) PROVE CacheInv'
    BY <1>3, <1>i DEF ClearCache, Bundles, Done, CacheIsCurrent, IsAt
<1>4. ASSUME NEW w \in Workers, ClearFails(w) PROVE CacheInv'
    BY <1>4, <1>i DEF ClearFails, Bundles, Done, CacheIsCurrent, IsAt
<1>5. ASSUME NEW w \in Workers, ReadBundles(w) PROVE CacheInv'
  <2>1. [pc |-> "fill", body |-> offer, late |-> FALSE] \in BundleRequest
    BY DEF BundleRequest
  <2> QED BY <1>5, <2>1 DEF ReadBundles, Bundles, bundleVars, Begin, CacheIsCurrent, IsAt
<1>6. ASSUME NEW w \in Workers, FillCache(w) PROVE CacheInv'
  <2>1. job[w].late \in BOOLEAN /\ (job[w].late \/ job[w].body = offer)
    BY <1>6 DEF FillCache, IsAt, BundleRequest
  <2> QED BY <1>6, <1>i, <2>1 DEF FillCache, Bundles, Done, CacheIsCurrent, IsAt
<1>7. ASSUME NEW w \in Workers, FillFails(w) PROVE CacheInv'
    BY <1>7, <1>i DEF FillFails, Bundles, bundleVars, Done, CacheIsCurrent, IsAt
<1>8. CASE CacheExpires
    BY <1>8 DEF CacheExpires, Bundles, CacheIsCurrent, IsAt
<1>9. ASSUME NEW w \in Workers, CrashCatalogue(w) PROVE CacheInv'
    BY <1>9, <1>i DEF CrashCatalogue, Done, CacheIsCurrent, IsAt
<1>10. \/ CacheExpires
       \/ \E v \in Offers : ImportBundles(v) \/ \E w \in Workers : Write(w, v)
       \/ \E w \in Workers : \/ ClearCache(w) \/ ClearFails(w) \/ ReadBundles(w)
                             \/ FillCache(w) \/ FillFails(w) \/ CrashCatalogue(w)
  <2>1. ~Methods /\ ~Connections /\ ~Tags /\ ~Fields /\ ~Countries
    BY DEF Methods, Connections, Tags, Fields, Countries, On
  <2> QED
    BY <2>1 DEF CatalogueNext, ImportMethods, ImportConnections, ReorderCountries, CreateMethod,
       UpdateMethod, CreateConnection, UpdateConnection, DeleteConnection, CreateTag, DeleteTag,
       CreateDef, UpdateDef, DeleteDef, EnableCountry, DisableCountry, CommitDefault,
       DeactivateMethod, DeleteMethod, BeginSetActive, FlipOff, FlipOn, BeginSetTags, DetachTags,
       AttachTags, SetFields, CommitFields, ClearDefaults, CheckNotDefault, SetOneActive,
       BeginMakeDefault, EnsureTag
<1> QED BY <1>1, <1>2, <1>3, <1>4, <1>5, <1>6, <1>7, <1>8, <1>9, <1>10

\* In the other scenes nobody caches anything.
LEMMA BundlesRest ==
    ASSUME CacheInv, scene # "bundles", UNCHANGED scene, CatalogueNext
    PROVE  CacheInv'
<1>1. CASE UNCHANGED bundleVars
    BY <1>1 DEF bundleVars, CacheInv, CacheIsCurrent
<1>2. ASSUME NEW w \in Workers, CrashCatalogue(w) PROVE CacheInv'
    BY <1>2 DEF CrashCatalogue, CacheInv
<1>3. ~Bundles
    BY DEF Bundles, On
<1>4. Methods \/ Connections \/ Tags \/ Fields \/ Countries => UNCHANGED bundleVars
    BY DEF Methods, Connections, Tags, Fields, Countries
<1>5. \/ Methods \/ Connections \/ Tags \/ Fields \/ Countries
      \/ \E w \in Workers : CrashCatalogue(w)
    BY <1>3 DEF CatalogueNext, ImportMethods, ImportConnections, ReorderCountries, CreateMethod,
       UpdateMethod, CreateConnection, UpdateConnection, DeleteConnection, CreateTag, DeleteTag,
       CreateDef, UpdateDef, DeleteDef, EnableCountry, DisableCountry, CommitDefault,
       DeactivateMethod, DeleteMethod, BeginSetActive, FlipOff, FlipOn, BeginSetTags, DetachTags,
       AttachTags, SetFields, CommitFields, ClearDefaults, CheckNotDefault, SetOneActive,
       BeginMakeDefault, EnsureTag, Write, ImportBundles, ClearCache, ClearFails, ReadBundles,
       FillCache, FillFails, CacheExpires
<1> QED BY <1>1, <1>2, <1>4, <1>5

\* The shop is never served a list that is not current, but for the cases
\* CacheIsCurrent names (cached_response, invalidate_token_bundle_cache).
THEOREM CacheStaysCurrent == Spec => []CacheIsCurrent
<1>1. Init => CacheInv
  <2> SUFFICES ASSUME Init PROVE CacheInv
    OBVIOUS
  <2>1. job \in [Workers -> BundleRequest] /\ \A w \in Workers : job[w].pc = "idle"
    BY DEF Init, Idle, BundleRequest
  <2>2. offer \in Offers /\ cache = None /\ excused = FALSE
    BY DEF Init, CatalogueInit
  <2> QED BY <2>1, <2>2 DEF CacheInv, CacheIsCurrent, IsAt
<1>2. CacheInv /\ [Next]_vars => CacheInv'
  <2> SUFFICES ASSUME CacheInv, [Next]_vars PROVE CacheInv'
    OBVIOUS
  <2>1. CASE UNCHANGED vars
    BY <2>1 DEF vars, catalogueVars, bundleVars, CacheInv, CacheIsCurrent, IsAt
  <2>2. CASE UNCHANGED <<catalogueVars, scene>> /\ scene # "bundles"
    BY <2>2 DEF catalogueVars, bundleVars, CacheInv, CacheIsCurrent
  <2>3. CASE UNCHANGED scene /\ CatalogueNext
    BY <2>3, BundleStep, BundlesRest
  <2> QED BY <2>1, <2>2, <2>3 DEF Next
<1>3. CacheInv => CacheIsCurrent
    BY DEF CacheInv, CacheIsCurrent
<1> QED BY <1>1, <1>2, <1>3, PTL DEF Spec

-----------------------------------------------------------------------------
(***************************************************************************)
(* The groups of a user.  A replacement that nobody passed has loaded the  *)
(* groups the user is still in.                                            *)
(***************************************************************************)
GroupRequest ==
    [pc : {"idle"}]
    \cup [pc : {"groups"}, loaded : SUBSET Groups, want : SUBSET Groups, late : BOOLEAN]

GroupsInv ==
    /\ members \subseteq groups /\ groups \subseteq Groups
    /\ must \subseteq members /\ members \subseteq may
    /\ scene = "group" =>
          /\ job \in [Workers -> GroupRequest]
          /\ \A w \in Workers : IsAt(w, "groups") /\ ~job[w].late => job[w].loaded = members

LEMMA OutrunIsRequest ==
    ASSUME job \in [Workers -> GroupRequest]
    PROVE  /\ Outrun \in [Workers -> GroupRequest]
           /\ \A w \in Workers : /\ Outrun[w].pc = job[w].pc
                                 /\ job[w].pc = "groups" => Outrun[w].late
<1> SUFFICES ASSUME NEW w \in Workers
             PROVE  LET r == IF job[w].pc \in {"seed", "groups"} THEN [job[w] EXCEPT !.late = TRUE]
                             ELSE job[w] IN
                    r \in GroupRequest /\ r.pc = job[w].pc /\ (job[w].pc = "groups" => r.late)
    BY DEF Outrun, Overtaken
<1>1. CASE job[w].pc = "groups"
    BY <1>1 DEF GroupRequest
<1>2. CASE job[w].pc # "groups"
    BY <1>2 DEF GroupRequest
<1> QED BY <1>1, <1>2

LEMMA GroupStep ==
    ASSUME GroupsInv, scene = "group", UNCHANGED scene, AccessNext
    PROVE  GroupsInv'
<1> USE DEF GroupsInv
<1>o. /\ Outrun \in [Workers -> GroupRequest]
      /\ \A w \in Workers : /\ Outrun[w].pc = job[w].pc
                            /\ job[w].pc = "groups" => Outrun[w].late
    BY OutrunIsRequest
<1>i. Idle \in GroupRequest /\ Idle.pc = "idle"
    BY DEF Idle, GroupRequest
<1>1. ASSUME NEW g \in Groups, CreateGroup(g) PROVE GroupsInv'
    BY <1>1 DEF CreateGroup, IsAt
<1>2. ASSUME NEW g \in Groups, DeleteGroup(g) \/ AddMember(g) \/ RemoveMember(g) PROVE GroupsInv'
    BY <1>2, <1>o DEF DeleteGroup, AddMember, RemoveMember, IsAt
<1>3. ASSUME NEW g \in Groups, NEW h \in Groups, RenameGroup(g, h) PROVE GroupsInv'
    BY <1>3 DEF RenameGroup, IsAt
<1>4. ASSUME NEW w \in Workers, ReadGroups(w) PROVE GroupsInv'
  <2>1. PICK want \in SUBSET Groups :
           Begin(w, [pc |-> "groups", loaded |-> members, want |-> want, late |-> FALSE])
    BY <1>4 DEF ReadGroups
  <2>2. [pc |-> "groups", loaded |-> members, want |-> want, late |-> FALSE] \in GroupRequest
    BY DEF GroupRequest
  <2> QED BY <1>4, <2>1, <2>2 DEF ReadGroups, grouping, Begin, IsAt
<1>5. ASSUME NEW w \in Workers, SetGroups(w) PROVE GroupsInv'
  <2>1. /\ job[w].want \subseteq Groups /\ job[w].loaded \subseteq Groups
        /\ job[w].late \in BOOLEAN
        /\ job[w].late \/ job[w].loaded = members
    BY <1>5 DEF SetGroups, IsAt, GroupRequest
  <2>2. /\ members' \subseteq groups' /\ groups' \subseteq Groups
    BY <1>5, <2>1 DEF SetGroups, Replaced
  <2>3. must' \subseteq members' /\ members' \subseteq may'
    <3>1. CASE job[w].late
      BY <1>5, <2>1, <3>1 DEF SetGroups, Replaced, Asked
    <3>2. CASE ~job[w].late
      BY <1>5, <2>1, <3>2 DEF SetGroups, Replaced, Asked
    <3> QED BY <2>1, <3>1, <3>2
  <2>4. /\ job' \in [Workers -> GroupRequest]
        /\ \A v \in Workers : IsAt(v, "groups")' => job'[v].late
    BY <1>5, <1>o, <1>i DEF SetGroups, IsAt
  <2> QED BY <1>5, <2>2, <2>3, <2>4 DEF SetGroups
<1>6. \/ \E g \in Groups : CreateGroup(g) \/ DeleteGroup(g) \/ AddMember(g) \/ RemoveMember(g)
      \/ \E g, h \in Groups : RenameGroup(g, h)
      \/ \E w \in Workers : ReadGroups(w) \/ SetGroups(w)
  <2>1. ~RolesOrLevels
    BY DEF RolesOrLevels
  <2> QED
    BY <2>1 DEF AccessNext, CreateLevel, DeleteLevel, EnablePlugin, PlanGrants, LoadLevel,
       UpdateLevel, UpdateRefused, SeedRead, SeedCommit, SeedFails
<1> QED BY <1>1, <1>2, <1>3, <1>4, <1>5, <1>6

LEMMA GroupsKept == Spec => []GroupsInv
<1>1. Init => GroupsInv
  <2> SUFFICES ASSUME Init PROVE GroupsInv
    OBVIOUS
  <2>1. job \in [Workers -> GroupRequest] /\ \A w \in Workers : job[w].pc = "idle"
    BY DEF Init, Idle, GroupRequest
  <2> QED BY <2>1 DEF Init, AccessInit, GroupsInv, IsAt
<1>2. GroupsInv /\ [Next]_vars => GroupsInv'
  <2> SUFFICES ASSUME GroupsInv, [Next]_vars PROVE GroupsInv'
    OBVIOUS
  <2>1. CASE UNCHANGED vars
    BY <2>1 DEF vars, accessVars, grouping, GroupsInv, IsAt
  <2>2. CASE UNCHANGED <<accessVars, scene>> /\ scene # "group"
    BY <2>2 DEF accessVars, grouping, GroupsInv
  <2>3. CASE UNCHANGED scene /\ AccessNext /\ scene = "group"
    BY <2>3, GroupStep
  <2>4. CASE UNCHANGED scene /\ AccessNext /\ scene # "group"
    <3>1. ~OfGroups
      BY <2>4 DEF OfGroups, On
    <3>2. RolesOrLevels
      BY <2>4, <3>1 DEF AccessNext, CreateGroup, DeleteGroup, AddMember, RemoveMember, RenameGroup,
         ReadGroups, SetGroups, CreateLevel, DeleteLevel, EnablePlugin, PlanGrants, LoadLevel,
         UpdateLevel, UpdateRefused, SeedRead, SeedCommit, SeedFails
    <3> QED BY <2>4, <3>2 DEF RolesOrLevels, grouping, GroupsInv
  <2> QED BY <2>1, <2>2, <2>3, <2>4 DEF Next
<1> QED BY <1>1, <1>2, PTL DEF Spec

\* Between requests the user's groups are those the last replacement asked
\* for, and lie between all and any of those that met
\* (DefaultUserGroupMembership.set_user_groups).
THEOREM MembershipIsBetween == Spec => []MembershipBetween
<1>1. GroupsInv => MembershipBetween
    BY DEF GroupsInv, MembershipBetween
<1> QED BY <1>1, GroupsKept, PTL

-----------------------------------------------------------------------------
(***************************************************************************)
(* Seedings.  Rows are well typed whatever meets, so that what a seeding   *)
(* stores is the row of the moment and what it lacked.                     *)
(***************************************************************************)
LevelRequest ==
         [pc : {"idle"}]
    \cup [pc : {"edit"}, row : Levels, loaded : SUBSET Permissions]
    \cup [pc : {"seed"}, row : Levels \cup {None}, late : BOOLEAN, catalog : SUBSET Permissions,
          want : SUBSET Permissions, loaded : SUBSET Permissions]

LevelsInv ==
    /\ known \subseteq Permissions
    /\ level \in [Levels -> Level \cup {NoLevel}]
    /\ scene \in {"role", "level"} => job \in [Workers -> LevelRequest]

LEMMA OutrunIsLevelRequest ==
    ASSUME job \in [Workers -> LevelRequest]
    PROVE  Outrun \in [Workers -> LevelRequest]
<1> SUFFICES ASSUME NEW w \in Workers
             PROVE  (IF job[w].pc \in {"seed", "groups"} THEN [job[w] EXCEPT !.late = TRUE]
                     ELSE job[w]) \in LevelRequest
    BY DEF Outrun, Overtaken
<1>1. CASE job[w].pc = "seed"
    BY <1>1 DEF LevelRequest
<1>2. CASE job[w].pc # "seed"
    BY <1>2 DEF LevelRequest
<1> QED BY <1>1, <1>2

\* A stored row has the fields of one, and a set of permissions.
LEMMA GrantsArePermissions ==
    ASSUME LevelsInv, NEW r \in Levels
    PROVE  level[r].grants \subseteq Permissions
BY DEF LevelsInv, Level, NoLevel

\* What a seeding stores where is a row, which has what was there before.
LEMMA SeedTargetsAreRows ==
    ASSUME LevelsInv, scene \in {"role", "level"}, NEW w \in Workers, IsAt(w, "seed"), SeedFits(w),
           NEW t \in SeedTargets(w)
    PROVE  /\ t[1] \in Levels /\ t[2] \in Level
           /\ Present(t[1]) => /\ level[t[1]].grants \subseteq t[2].grants
                               /\ level[t[1]].system \/ t[2] = level[t[1]]
<1>1. job[w] \in [pc : {"seed"}, row : Levels \cup {None}, late : BOOLEAN,
                  catalog : SUBSET Permissions, want : SUBSET Permissions, loaded : SUBSET Permissions]
    BY DEF LevelsInv, LevelRequest, IsAt
<1>2. CASE job[w].row = None
  <2>1. PICK r \in Levels : Fresh(r) /\ t = <<r, New(job[w].want)>>
    BY <1>2 DEF SeedTargets
  <2>2. New(job[w].want) \in Level
    BY <1>1 DEF New, Level, Names
  <2> QED BY <2>1, <2>2 DEF Fresh
<1>3. CASE job[w].row # None
  <2> DEFINE r == job[w].row
  <2>1. r \in Levels /\ Present(r) /\ level[r] \in Level
    BY <1>1, <1>3 DEF SeedFits, Present, LevelsInv
  <2>2. t = <<r, Seeded(r, job[w].want \ job[w].loaded)>>
    BY <1>3 DEF SeedTargets
  <2>3. /\ Seeded(r, job[w].want \ job[w].loaded) \in Level
        /\ level[r].grants \subseteq Seeded(r, job[w].want \ job[w].loaded).grants
        /\ level[r].system \/ Seeded(r, job[w].want \ job[w].loaded) = level[r]
    <3> SUFFICES ASSUME NEW missing \in SUBSET Permissions
                 PROVE  /\ Seeded(r, missing) \in Level
                        /\ level[r].grants \subseteq Seeded(r, missing).grants
                        /\ level[r].system \/ Seeded(r, missing) = level[r]
      BY <1>1
    <3>1. CASE ~level[r].system
      BY <2>1, <3>1 DEF Seeded
    <3>2. CASE level[r].system
      <4>1. Seeded(r, missing) =
              [level[r] EXCEPT !.name = IF scene = "role" THEN "default" ELSE level[r].name,
                               !.grants = level[r].grants \cup missing]
        BY <3>2 DEF Seeded
      <4> QED BY <2>1, <3>2, <4>1 DEF Level, Names
    <3> QED BY <3>1, <3>2
  <2> QED BY <2>1, <2>2, <2>3
<1> QED BY <1>2, <1>3

LEMMA LevelStep ==
    ASSUME LevelsInv, scene \in {"role", "level"}, UNCHANGED scene, AccessNext
    PROVE  LevelsInv'
<1> USE DEF LevelsInv
<1>o. Outrun \in [Workers -> LevelRequest]
    BY OutrunIsLevelRequest
<1>i. Idle \in LevelRequest
    BY DEF Idle, LevelRequest
<1>1. ASSUME NEW r \in Levels, CreateLevel(r) PROVE LevelsInv'
  <2>1. PICK v \in Level : level' = [level EXCEPT ![r] = v] /\ known' = known \cup v.grants
    BY <1>1 DEF CreateLevel
  <2>2. v.grants \subseteq Permissions
    BY DEF Level
  <2> QED BY <1>1, <1>o, <2>1, <2>2 DEF CreateLevel
<1>2. ASSUME NEW r \in Levels, DeleteLevel(r) PROVE LevelsInv'
    BY <1>2, <1>o DEF DeleteLevel
<1>3. CASE EnablePlugin
    BY <1>3, <1>o DEF EnablePlugin
<1>4. CASE PlanGrants
  <2>1. PICK r \in Levels, grants \in SUBSET known :
           LET same == [level[r] EXCEPT !.name = IF scene = "role" THEN @ ELSE "other",
                                        !.grants = grants]
               new == [slug |-> "other", name |-> "other", system |-> TRUE, grants |-> grants]
               v == IF Managed(r) THEN same ELSE new IN
           /\ Managed(r) \/ Fresh(r)
           /\ level' = [level EXCEPT ![r] = v]
    BY <1>4 DEF PlanGrants
  <2>2. CASE Managed(r)
    <3>1. level[r] \in Level
      BY <2>2, AccessConstants DEF Managed, NoLevel, Names
    <3>2. level' = [level EXCEPT ![r] =
                       [level[r] EXCEPT !.name = IF scene = "role" THEN level[r].name ELSE "other",
                                        !.grants = grants]]
      BY <2>1, <2>2
    <3>3. level' \in [Levels -> Level \cup {NoLevel}]
      BY <3>1, <3>2 DEF Level, Names
    <3> QED BY <1>4, <1>o, <3>3 DEF PlanGrants
  <2>3. CASE ~Managed(r)
    <3>1. [slug |-> "other", name |-> "other", system |-> TRUE, grants |-> grants] \in Level
      BY DEF Level, Names
    <3>2. level' \in [Levels -> Level \cup {NoLevel}]
      BY <2>1, <2>3, <3>1
    <3> QED BY <1>4, <1>o, <3>2 DEF PlanGrants
  <2> QED BY <2>2, <2>3
<1>5. ASSUME NEW w \in Workers, NEW r \in Levels, LoadLevel(w, r) PROVE LevelsInv'
  <2>1. [pc |-> "edit", row |-> r, loaded |-> level[r].grants] \in LevelRequest
    BY GrantsArePermissions DEF LevelRequest
  <2> QED BY <1>5, <2>1 DEF LoadLevel, rbac, Begin
<1>6. ASSUME NEW w \in Workers, UpdateLevel(w) PROVE LevelsInv'
  <2> DEFINE r == job[w].row
  <2>1. r \in Levels /\ job[w].loaded \subseteq Permissions /\ level[r] \in Level
    BY <1>6 DEF UpdateLevel, IsAt, LevelRequest, Present
  <2>2. PICK slug \in Names, name \in Names, new \in SUBSET Permissions :
           /\ level' = [level EXCEPT ![r] = [level[r] EXCEPT !.slug = slug, !.name = name,
                                              !.grants = Merged(r, job[w].loaded, new)]]
           /\ known' = known \cup new
    BY <1>6 DEF UpdateLevel
  <2>3. Merged(r, job[w].loaded, new) \subseteq Permissions
    BY <2>1, GrantsArePermissions DEF Merged
  <2>4. level' \in [Levels -> Level \cup {NoLevel}]
    BY <2>1, <2>2, <2>3 DEF Level
  <2> QED BY <1>6, <1>o, <1>i, <2>2, <2>4 DEF UpdateLevel
<1>7. ASSUME NEW w \in Workers, UpdateRefused(w) \/ SeedFails(w) PROVE LevelsInv'
    BY <1>7, <1>i DEF UpdateRefused, SeedFails, rbac, Done
<1>8. ASSUME NEW w \in Workers, SeedRead(w) PROVE LevelsInv'
  <2>1. PICK r \in Levels \cup {None} :
           /\ Begin(w, [pc |-> "seed", row |-> r, late |-> FALSE, catalog |-> Declared,
                        want |-> DefaultGrants \cap (known \cup Declared),
                        loaded |-> IF r = None THEN {} ELSE level[r].grants])
    BY <1>8 DEF SeedRead, DefaultLevel
  <2>2. (IF r = None THEN {} ELSE level[r].grants) \subseteq Permissions
    BY GrantsArePermissions
  <2>3. Declared \subseteq Permissions /\ DefaultGrants \subseteq Permissions
    BY DEF Declared, DefaultGrants, Permissions
  <2>4. [pc |-> "seed", row |-> r, late |-> FALSE, catalog |-> Declared,
         want |-> DefaultGrants \cap (known \cup Declared),
         loaded |-> IF r = None THEN {} ELSE level[r].grants] \in LevelRequest
    BY <2>2, <2>3 DEF LevelRequest
  <2> QED BY <1>8, <2>1, <2>4 DEF SeedRead, rbac, Begin
<1>9. ASSUME NEW w \in Workers, SeedCommit(w) PROVE LevelsInv'
  <2>1. PICK t \in SeedTargets(w) : level' = [level EXCEPT ![t[1]] = t[2]]
    BY <1>9 DEF SeedCommit
  <2>2. t[1] \in Levels /\ t[2] \in Level
    BY <1>9, SeedTargetsAreRows DEF SeedCommit
  <2>3. job[w].catalog \subseteq Permissions
    BY <1>9 DEF SeedCommit, IsAt, LevelRequest
  <2> QED BY <1>9, <1>o, <1>i, <2>1, <2>2, <2>3 DEF SeedCommit
<1>10. \/ \E r \in Levels : CreateLevel(r) \/ DeleteLevel(r)
       \/ EnablePlugin \/ PlanGrants
       \/ \E w \in Workers : \/ \E r \in Levels : LoadLevel(w, r)
                             \/ UpdateLevel(w) \/ UpdateRefused(w)
                             \/ SeedRead(w) \/ SeedCommit(w) \/ SeedFails(w)
  <2>1. ~OfGroups
    BY DEF OfGroups, On
  <2> QED
    BY <2>1 DEF AccessNext, CreateGroup, DeleteGroup, AddMember, RemoveMember, RenameGroup,
       ReadGroups, SetGroups
<1> QED BY <1>1, <1>2, <1>3, <1>4, <1>5, <1>6, <1>7, <1>8, <1>9, <1>10

\* A step in a scene of neither roles nor levels.
LEMMA OtherStepsAreOfGroups ==
    ASSUME AccessNext, scene \notin {"role", "level"}
    PROVE  OfGroups
<1>1. ~RolesOrLevels
    BY DEF RolesOrLevels
<1> QED
    BY <1>1, Zenon DEF AccessNext, CreateGroup, DeleteGroup, AddMember, RemoveMember, RenameGroup,
       ReadGroups, SetGroups, CreateLevel, DeleteLevel, EnablePlugin, PlanGrants, LoadLevel,
       UpdateLevel, UpdateRefused, SeedRead, SeedCommit, SeedFails

LEMMA LevelsKept == Spec => []LevelsInv
<1>1. Init => LevelsInv
    BY DEF Init, AccessInit, LevelsInv, LevelRequest, Idle
<1>2. LevelsInv /\ [Next]_vars => LevelsInv'
  <2> SUFFICES ASSUME LevelsInv, [Next]_vars PROVE LevelsInv'
    OBVIOUS
  <2>1. CASE UNCHANGED vars
    BY <2>1 DEF vars, accessVars, rbac, LevelsInv
  <2>2. CASE UNCHANGED <<accessVars, scene>> /\ scene \notin {"role", "level"}
    BY <2>2 DEF accessVars, rbac, LevelsInv
  <2>3. CASE UNCHANGED scene /\ AccessNext /\ scene \in {"role", "level"}
    BY <2>3, LevelStep
  <2>4. CASE UNCHANGED scene /\ AccessNext /\ scene \notin {"role", "level"}
    <3>1. OfGroups
      BY <2>4, OtherStepsAreOfGroups
    <3> QED BY <2>4, <3>1 DEF OfGroups, rbac, LevelsInv
  <2> QED BY <2>1, <2>2, <2>3, <2>4 DEF Next
<1> QED BY <1>1, <1>2, PTL DEF Spec

\* Whatever is committed between its reads and its own commit, a seeding takes
\* nothing away and leaves an operator's row alone (seed_default_rbac).
THEOREM SeedingOnlyAdds == Spec => SeedingAdds
<1>1. ASSUME LevelsInv, NEW w \in Workers, SeedCommit(w), NEW r \in Levels, Present(r)
      PROVE  /\ level[r].grants \subseteq level'[r].grants
             /\ level[r].system \/ level'[r] = level[r]
  <2>1. scene \in {"role", "level"} /\ IsAt(w, "seed") /\ SeedFits(w)
    BY <1>1 DEF SeedCommit, RolesOrLevels
  <2>2. PICK t \in SeedTargets(w) : level' = [level EXCEPT ![t[1]] = t[2]]
    BY <1>1 DEF SeedCommit
  <2>3. /\ t[1] \in Levels
        /\ Present(t[1]) => /\ level[t[1]].grants \subseteq t[2].grants
                            /\ level[t[1]].system \/ t[2] = level[t[1]]
    BY <1>1, <2>1, SeedTargetsAreRows
  <2> QED BY <1>1, <2>2, <2>3 DEF LevelsInv
<1>2. LevelsInv /\ [Next]_vars =>
         [\A w \in Workers : SeedCommit(w) =>
             \A r \in Levels : Present(r) =>
                /\ level[r].grants \subseteq level'[r].grants
                /\ level[r].system \/ level'[r] = level[r]]_<<accessVars, job>>
    BY <1>1
<1> QED BY <1>2, LevelsKept, PTL DEF Spec, SeedingAdds

-----------------------------------------------------------------------------
(***************************************************************************)
(* The default payment method and the default connection.  Who sets one,   *)
(* and was not passed, knows every other that may be the default.          *)
(***************************************************************************)
FlagRequest ==
         [pc : {"idle"}]
    \cup [pc : {"default"}, row : Rows, create : BOOLEAN, active : BOOLEAN, cleared : SUBSET Rows,
          late : BOOLEAN]
    \cup [pc : {"deactivate", "delete"}, row : Rows]
    \cup [pc : {"activate"}, todo : SUBSET Rows, active : BOOLEAN]
    \cup [pc : {"off"}, row : Rows, previous : Rows, late : BOOLEAN]
    \cup [pc : {"on"}, row : Rows, previous : Rows \cup {None}, late : BOOLEAN]

OneDefault == \A m, n \in Rows : entry[m].default /\ entry[n].default => m = n

Foreseen(w) ==
    /\ IsAt(w, "default") => scene = "methods" /\ (~job[w].late => Defaults \subseteq job[w].cleared)
    /\ IsAt(w, "off") => /\ scene = "connections"
                         /\ ~doubtful /\ ~job[w].late => Defaults \subseteq {job[w].previous}
    /\ IsAt(w, "on") => /\ scene = "connections"
                        /\ ~doubtful /\ ~job[w].late => Defaults \subseteq {job[w].row}

FlagsInv ==
    /\ entry \in [Rows -> Flags \cup {NoRow}] /\ doubtful \in BOOLEAN
    /\ ~doubtful => OneDefault
    /\ scene \in {"methods", "connections"} =>
          /\ job \in [Workers -> FlagRequest]
          /\ \A w \in Workers : Foreseen(w)

\* Being passed leaves a request what it is, and tells one that sets a default.
LEMMA PassedSettersKnow ==
    ASSUME job \in [Workers -> FlagRequest]
    PROVE  /\ Passed \in [Workers -> FlagRequest]
           /\ \A w \in Workers : /\ Passed[w].pc = job[w].pc
                                 /\ job[w].pc \in {"default", "off", "on"} => Passed[w].late
<1> SUFFICES ASSUME NEW w \in Workers
             PROVE  LET r == IF job[w].pc \in {"default", "off", "on"}
                             THEN [job[w] EXCEPT !.late = TRUE] ELSE job[w] IN
                    /\ r \in FlagRequest /\ r.pc = job[w].pc
                    /\ job[w].pc \in {"default", "off", "on"} => r.late
    BY DEF Passed, Overtaken
<1>1. CASE job[w].pc = "default"
    BY <1>1 DEF FlagRequest
<1>2. CASE job[w].pc = "off"
  <2>1. job[w] \in [pc : {"off"}, row : Rows, previous : Rows, late : BOOLEAN]
    BY <1>2 DEF FlagRequest
  <2>2. [job[w] EXCEPT !.late = TRUE] \in [pc : {"off"}, row : Rows, previous : Rows, late : BOOLEAN]
    BY <2>1
  <2>3. [job[w] EXCEPT !.late = TRUE] \in FlagRequest
    BY <2>2 DEF FlagRequest
  <2>4. [job[w] EXCEPT !.late = TRUE].pc = "off" /\ [job[w] EXCEPT !.late = TRUE].late = TRUE
    BY <2>1
  <2> QED BY <1>2, <2>3, <2>4
<1>3. CASE job[w].pc = "on"
  <2>1. job[w] \in [pc : {"on"}, row : Rows, previous : Rows \cup {None}, late : BOOLEAN]
    BY <1>3 DEF FlagRequest
  <2>2. [job[w] EXCEPT !.late = TRUE]
            \in [pc : {"on"}, row : Rows, previous : Rows \cup {None}, late : BOOLEAN]
    BY <2>1
  <2>3. [job[w] EXCEPT !.late = TRUE] \in FlagRequest
    BY <2>2 DEF FlagRequest
  <2>4. [job[w] EXCEPT !.late = TRUE].pc = "on" /\ [job[w] EXCEPT !.late = TRUE].late = TRUE
    BY <2>1
  <2> QED BY <1>3, <2>3, <2>4
<1>4. CASE job[w].pc \notin {"default", "off", "on"}
    BY <1>4
<1> QED BY <1>1, <1>2, <1>3, <1>4

\* Steps that make no row the default: requests go on, are told that they were
\* passed, or are at none of the steps that set one.
LEMMA NoNewDefault ==
    ASSUME FlagsInv, scene \in {"methods", "connections"}, UNCHANGED <<scene, doubtful>>,
           entry' \in [Rows -> Flags \cup {NoRow}], Defaults' \subseteq Defaults,
           job' \in [Workers -> FlagRequest],
           \A w \in Workers : job'[w] \in {job[w], Passed[w]} \/ job'[w].pc \notin {"default", "off", "on"}
    PROVE  FlagsInv'
<1>1. /\ Passed \in [Workers -> FlagRequest]
      /\ \A w \in Workers : /\ Passed[w].pc = job[w].pc
                            /\ job[w].pc \in {"default", "off", "on"} => Passed[w].late
    BY PassedSettersKnow DEF FlagsInv
<1>2. ~doubtful => OneDefault'
  <2> SUFFICES ASSUME ~doubtful, NEW m \in Rows, NEW n \in Rows, entry'[m].default, entry'[n].default
               PROVE  m = n
    BY DEF OneDefault
  <2>1. m \in Defaults /\ n \in Defaults
    BY DEF Defaults
  <2> QED BY <2>1 DEF FlagsInv, OneDefault, Defaults
<1>3. ASSUME NEW w \in Workers PROVE Foreseen(w)'
  <2>1. Foreseen(w)
    BY DEF FlagsInv
  <2>2. CASE job'[w] = job[w]
    BY <2>1, <2>2 DEF Foreseen, IsAt
  <2>3. CASE job'[w] = Passed[w]
    BY <1>1, <2>1, <2>3 DEF Foreseen, IsAt
  <2>4. CASE job'[w].pc \notin {"default", "off", "on"}
    BY <2>4 DEF Foreseen, IsAt
  <2> QED BY <2>2, <2>3, <2>4
<1> QED BY <1>2, <1>3 DEF FlagsInv

\* Two defaults are one, if a set of them has at most one member.
LEMMA FewDefaults ==
    /\ OneDefault => Cardinality(Defaults) <= 1
    /\ ~(Cardinality(Defaults) > 1) => OneDefault
<1>1. IsFiniteSet(Defaults) /\ Cardinality(Defaults) \in Nat
    BY CatalogueAssumption, FS_Subset, FS_CardinalityType DEF CatalogueAssumption, Defaults
<1>2. ASSUME OneDefault PROVE Cardinality(Defaults) <= 1
  <2>1. CASE Defaults = {}
    BY <2>1, FS_EmptySet
  <2>2. ASSUME NEW m \in Defaults PROVE Cardinality(Defaults) <= 1
    <3>1. Defaults = {m}
      BY <1>2 DEF OneDefault, Defaults
    <3>2. Cardinality({m}) = 1
      BY FS_Singleton
    <3> QED BY <3>1, <3>2
  <2> QED BY <2>1, <2>2
<1>3. ASSUME ~(Cardinality(Defaults) > 1), NEW m \in Rows, NEW n \in Rows, entry[m].default,
             entry[n].default, m # n
      PROVE  FALSE
  <2>1. {m, n} \subseteq Defaults
    BY <1>3 DEF Defaults
  <2>2. IsFiniteSet({m}) /\ Cardinality({m}) = 1
    BY FS_Singleton
  <2>3. Cardinality({m} \cup {n}) = Cardinality({m}) + 1
    BY <1>3, <2>2, FS_AddElement
  <2>4. {m} \cup {n} = {m, n}
    OBVIOUS
  <2>5. Cardinality({m, n}) = 2
    BY <2>2, <2>3, <2>4
  <2>6. Cardinality({m, n}) <= Cardinality(Defaults)
    BY <1>1, <2>1, FS_Subset
  <2> QED BY <1>1, <1>3, <2>5, <2>6
<1> QED BY <1>2, <1>3 DEF OneDefault

\* The steps of the requests that administer payment methods or connections.
LEMMA FlagsStep ==
    ASSUME FlagsInv, scene \in {"methods", "connections"}, UNCHANGED scene, CatalogueNext
    PROVE  FlagsInv'
<1>t. /\ entry \in [Rows -> Flags \cup {NoRow}] /\ doubtful \in BOOLEAN
      /\ ~doubtful => OneDefault
      /\ job \in [Workers -> FlagRequest] /\ \A w \in Workers : Foreseen(w)
    BY DEF FlagsInv
<1>r. IsFiniteSet(Rows) /\ None \notin Rows
    BY CatalogueAssumption DEF CatalogueAssumption
<1>n. NoRow \in Flags \cup {NoRow} /\ NoRow.default = FALSE
      /\ \A a \in BOOLEAN, d \in BOOLEAN : [active |-> a, default |-> d, stored |-> TRUE] \in Flags
    BY DEF NoRow, Flags
<1>f. \A m \in Rows : /\ entry[m].default \in BOOLEAN /\ entry[m].active \in BOOLEAN
                      /\ Stored(m) \in BOOLEAN /\ (entry[m].default => Stored(m))
                      /\ Stored(m) => entry[m] \in Flags
  <2> SUFFICES ASSUME NEW m \in Rows
               PROVE  /\ entry[m].default \in BOOLEAN /\ entry[m].active \in BOOLEAN
                      /\ entry[m].stored \in BOOLEAN /\ (entry[m].default => entry[m].stored)
                      /\ entry[m].stored => entry[m] \in Flags
    BY DEF Stored
  <2>1. CASE entry[m] \in Flags
    BY <2>1 DEF Flags
  <2>2. CASE entry[m] = NoRow
    BY <2>2 DEF NoRow
  <2> QED BY <1>t, <2>1, <2>2
<1>p. /\ Passed \in [Workers -> FlagRequest]
      /\ \A w \in Workers : /\ Passed[w].pc = job[w].pc
                            /\ job[w].pc \in {"default", "off", "on"} => Passed[w].late
    BY <1>t, PassedSettersKnow
<1>i. Idle \in FlagRequest /\ Idle.pc = "idle"
    BY DEF Idle, FlagRequest
\* Who is passed has nothing to answer for.
<1>l. ASSUME NEW w \in Workers, job'[w] = Passed[w] PROVE Foreseen(w)'
    BY <1>l, <1>p, <1>t DEF Foreseen, IsAt
<1>1. CASE ImportMethods \/ ImportConnections
  <2>1. PICK withFlags \in BOOLEAN : Import(withFlags)
    BY <1>1 DEF ImportMethods, ImportConnections
  <2>2. entry' \in [Rows -> Flags \cup {NoRow}]
    <3>1. PICK named \in SUBSET Rows, active \in BOOLEAN, replace \in BOOLEAN, flagged \in SUBSET Rows :
             entry' = Imported(named, flagged, active, replace, withFlags)
      BY <2>1 DEF Import
    <3>2. entry' = [m \in Rows |->
                 IF m \notin named THEN (IF replace THEN NoRow ELSE entry[m])
                 ELSE IF Stored(m) /\ ~replace
                      THEN [active |-> active, default |-> m \in flagged, stored |-> TRUE]
                      ELSE IF withFlags
                           THEN [active |-> active, default |-> m \in flagged, stored |-> TRUE]
                           ELSE [active |-> FALSE, default |-> FALSE, stored |-> TRUE]]
      BY <3>1 DEF Imported
    <3>3. \A m \in Rows : (m \in flagged) \in BOOLEAN
      OBVIOUS
    <3>4. \A m \in Rows : [active |-> active, default |-> m \in flagged, stored |-> TRUE] \in Flags
      BY <1>n, <3>3
    <3>5. [active |-> FALSE, default |-> FALSE, stored |-> TRUE] \in Flags
      BY <1>n
    <3> HIDE DEF Flags, NoRow
    <3> QED BY <1>n, <1>t, <3>2, <3>4, <3>5
  <2>3. doubtful' = (doubtful \/ Cardinality(Defaults') > 1) /\ job' = Passed
    BY <2>1 DEF Import
  <2>4. ~doubtful' => OneDefault'
    <3>1. (~(Cardinality(Defaults) > 1) => OneDefault)'
      BY FewDefaults, PTL
    <3> QED BY <2>3, <3>1
  <2>5. doubtful' \in BOOLEAN
    BY <2>3
  <2> QED BY <1>l, <1>p, <2>2, <2>3, <2>4, <2>5 DEF FlagsInv
<1>2. ASSUME NEW m \in Rows, CreateMethod(m) \/ CreateConnection(m) PROVE FlagsInv'
  <2>1. PICK a \in BOOLEAN :
           entry' = [entry EXCEPT ![m] = [active |-> a, default |-> FALSE, stored |-> TRUE]]
    BY <1>2 DEF CreateMethod, CreateConnection
  <2>2. entry' \in [Rows -> Flags \cup {NoRow}] /\ Defaults' \subseteq Defaults
    BY <1>n, <1>t, <2>1 DEF Defaults
  <2> QED BY <1>2, <1>t, <2>2, NoNewDefault DEF CreateMethod, CreateConnection
<1>3. ASSUME NEW m \in Rows, UpdateMethod(m) \/ UpdateConnection(m) PROVE FlagsInv'
  <2>1. PICK a \in BOOLEAN : entry' = [entry EXCEPT ![m].active = a]
    BY <1>3 DEF UpdateMethod, UpdateConnection
  <2>2. entry[m] \in Flags
    BY <1>3, <1>f DEF UpdateMethod, UpdateConnection
  <2>3. [entry[m] EXCEPT !.active = a] \in Flags
        /\ [entry[m] EXCEPT !.active = a].default = entry[m].default
    BY <2>2 DEF Flags
  <2>4. entry' \in [Rows -> Flags \cup {NoRow}] /\ Defaults' \subseteq Defaults
    BY <1>t, <2>1, <2>3 DEF Defaults
  <2> QED BY <1>3, <1>t, <2>4, NoNewDefault DEF UpdateMethod, UpdateConnection
<1>4. ASSUME NEW m \in Rows, DeleteConnection(m) PROVE FlagsInv'
  <2>1. entry' \in [Rows -> Flags \cup {NoRow}] /\ Defaults' \subseteq Defaults
    BY <1>4, <1>n, <1>t DEF DeleteConnection, Defaults
  <2> QED BY <1>4, <1>t, <1>p, <2>1, NoNewDefault DEF DeleteConnection
<1>5. ASSUME NEW w \in Workers, NEW m \in Rows, CheckNotDefault(w, m) PROVE FlagsInv'
  <2>1. PICK step \in {"deactivate", "delete"} : Begin(w, [pc |-> step, row |-> m])
    BY <1>5 DEF CheckNotDefault
  <2>2. [pc |-> step, row |-> m] \in FlagRequest
        /\ [pc |-> step, row |-> m].pc \notin {"default", "off", "on"}
    BY DEF FlagRequest
  <2>3. /\ job' \in [Workers -> FlagRequest]
        /\ \A v \in Workers : job'[v] = job[v] \/ job'[v].pc \notin {"default", "off", "on"}
    BY <1>t, <2>1, <2>2 DEF Begin
  <2> QED BY <1>5, <1>t, <2>3, NoNewDefault DEF CheckNotDefault, flagVars, Defaults
<1>6. ASSUME NEW w \in Workers, DeactivateMethod(w) PROVE FlagsInv'
  <2>1. job[w].row \in Rows
    BY <1>6, <1>t DEF DeactivateMethod, IsAt, FlagRequest
  <2>2. Stored(job[w].row) =>
             /\ [entry[job[w].row] EXCEPT !.active = FALSE] \in Flags
             /\ [entry[job[w].row] EXCEPT !.active = FALSE].default = entry[job[w].row].default
    BY <1>f, <2>1 DEF Flags
  <2>3. entry' \in [Rows -> Flags \cup {NoRow}] /\ Defaults' \subseteq Defaults
    BY <1>6, <1>t, <2>1, <2>2 DEF DeactivateMethod, Defaults
  <2> QED BY <1>6, <1>i, <1>t, <2>3, NoNewDefault DEF DeactivateMethod, Done
<1>7. ASSUME NEW w \in Workers, DeleteMethod(w) PROVE FlagsInv'
  <2>1. job[w].row \in Rows
    BY <1>7, <1>t DEF DeleteMethod, IsAt, FlagRequest
  <2>2. entry' \in [Rows -> Flags \cup {NoRow}] /\ Defaults' \subseteq Defaults
    BY <1>7, <1>n, <1>t, <2>1 DEF DeleteMethod, Defaults
  <2> QED BY <1>7, <1>i, <1>t, <1>p, <2>2, NoNewDefault DEF DeleteMethod
<1>8. ASSUME NEW w \in Workers, BeginSetActive(w) PROVE FlagsInv'
  <2>1. PICK ids \in SUBSET Rows, a \in BOOLEAN :
           Begin(w, [pc |-> "activate", todo |-> ids, active |-> a])
    BY <1>8 DEF BeginSetActive
  <2>2. [pc |-> "activate", todo |-> ids, active |-> a] \in FlagRequest
        /\ [pc |-> "activate", todo |-> ids, active |-> a].pc \notin {"default", "off", "on"}
    BY DEF FlagRequest
  <2>3. /\ job' \in [Workers -> FlagRequest]
        /\ \A v \in Workers : job'[v] = job[v] \/ job'[v].pc \notin {"default", "off", "on"}
    BY <1>t, <2>1, <2>2 DEF Begin
  <2> QED BY <1>8, <1>t, <2>3, NoNewDefault DEF BeginSetActive, flagVars, Defaults
<1>9. ASSUME NEW w \in Workers, NEW m \in Rows, SetOneActive(w, m) PROVE FlagsInv'
  <2>1. job[w] \in [pc : {"activate"}, todo : SUBSET Rows, active : BOOLEAN]
    BY <1>9, <1>t DEF SetOneActive, IsAt, FlagRequest
  <2>2. /\ [job[w] EXCEPT !.todo = @ \ {m}] \in FlagRequest
        /\ [job[w] EXCEPT !.todo = @ \ {m}].pc = "activate"
    <3>1. [job[w] EXCEPT !.todo = @ \ {m}] \in [pc : {"activate"}, todo : SUBSET Rows, active : BOOLEAN]
      BY <2>1
    <3> QED BY <3>1 DEF FlagRequest
  <2>3. /\ job' \in [Workers -> FlagRequest]
        /\ \A v \in Workers : job'[v] = Passed[v] \/ job'[v].pc \notin {"default", "off", "on"}
    BY <1>9, <1>i, <1>p, <2>2 DEF SetOneActive
  <2>4. ASSUME Stored(m)
        PROVE  entry' \in [Rows -> Flags \cup {NoRow}] /\ Defaults' \subseteq Defaults
    <3> DEFINE d == entry[m].default /\ job[w].active
               new == [active |-> job[w].active, default |-> d, stored |-> TRUE]
    <3>1. d \in BOOLEAN /\ job[w].active \in BOOLEAN /\ (d => entry[m].default)
      BY <1>f, <2>1
    <3>2. new \in Flags
      BY <1>n, <3>1
    <3>3. entry' = [entry EXCEPT ![m] = new]
      <4>1. entry' = [entry EXCEPT ![m].active = job[w].active, ![m].default = @ /\ job[w].active]
        BY <1>9, <2>4 DEF SetOneActive
      <4>2. entry[m] \in Flags
        BY <1>f, <2>4
      <4>3. entry' = [entry EXCEPT ![m] = [[entry[m] EXCEPT !.active = job[w].active]
                                               EXCEPT !.default = @ /\ job[w].active]]
        BY <1>t, <4>1
      <4>4. [[entry[m] EXCEPT !.active = job[w].active] EXCEPT !.default = @ /\ job[w].active] = new
        <5> DEFINE f == [entry[m] EXCEPT !.active = job[w].active]
        <5>1. f \in Flags /\ f.default = entry[m].default /\ f.active = job[w].active
          BY <3>1, <4>2 DEF Flags
        <5>2. new.active = job[w].active /\ new.default = d
          OBVIOUS
        <5>3. d = (f.default /\ job[w].active)
          BY <5>1
        <5> HIDE DEF f, d, new
        <5>4. [f EXCEPT !.default = d] \in Flags
          BY <3>1, <5>1 DEF Flags
        <5>5. [f EXCEPT !.default = d] = new
          BY <3>2, <5>1, <5>2, <5>4 DEF Flags
        <5> QED BY <5>3, <5>5 DEF f
      <4> HIDE DEF new
      <4> QED BY <4>3, <4>4
    <3> QED BY <1>t, <3>1, <3>2, <3>3 DEF Defaults
  <2>5. ~Stored(m) => UNCHANGED entry
    BY <1>9 DEF SetOneActive
  <2>6. entry' \in [Rows -> Flags \cup {NoRow}] /\ Defaults' \subseteq Defaults
    BY <1>t, <2>4, <2>5 DEF Defaults
  <2> QED BY <1>9, <2>3, <2>6, NoNewDefault DEF SetOneActive
<1>10. ASSUME NEW w \in Workers, CrashCatalogue(w) PROVE FlagsInv'
    BY <1>10, <1>i, <1>t, NoNewDefault DEF CrashCatalogue, Done, flagVars, Defaults
<1>11. ASSUME NEW w \in Workers, NEW m \in Rows, ClearDefaults(w, m) PROVE FlagsInv'
  <2>1. PICK new \in BOOLEAN, a \in BOOLEAN :
           Begin(w, [pc |-> "default", row |-> m, create |-> new, active |-> a,
                     cleared |-> Defaults, late |-> FALSE])
    BY <1>11 DEF ClearDefaults
  <2> DEFINE r == [pc |-> "default", row |-> m, create |-> new, active |-> a,
                   cleared |-> Defaults, late |-> FALSE]
  <2>2. r \in FlagRequest /\ r.pc = "default" /\ r.cleared = Defaults
    BY DEF FlagRequest, Defaults
  <2>3. job' = [job EXCEPT ![w] = r]
    BY <2>1 DEF Begin
  <2> HIDE DEF r
  <2>4. scene = "methods" /\ UNCHANGED <<entry, doubtful, scene>>
    BY <1>11 DEF ClearDefaults, Methods, On, flagVars
  <2>5. ASSUME NEW v \in Workers PROVE Foreseen(v)'
    <3>1. CASE v = w
      BY <1>t, <2>2, <2>3, <2>4, <3>1 DEF Foreseen, IsAt, Defaults
    <3>2. CASE v # w
      BY <1>t, <2>3, <2>4, <3>2 DEF Foreseen, IsAt, Defaults
    <3> QED BY <3>1, <3>2
  <2> QED BY <1>t, <2>2, <2>3, <2>4, <2>5 DEF FlagsInv, OneDefault
<1>12. ASSUME NEW w \in Workers, CommitDefault(w) PROVE FlagsInv'
  <2> DEFINE r == job[w]
             new == [stored |-> TRUE, default |-> TRUE,
                     active |-> IF r.create THEN r.active ELSE entry[r.row].active]
             without == [m \in Rows |-> IF m \in r.cleared THEN [entry[m] EXCEPT !.default = FALSE]
                                        ELSE entry[m]]
  <2>1. /\ r.row \in Rows /\ r.cleared \subseteq Rows /\ r.late \in BOOLEAN
        /\ r.create \in BOOLEAN /\ r.active \in BOOLEAN /\ r.pc = "default"
    BY <1>12, <1>t DEF CommitDefault, IsAt, FlagRequest
  <2>2. CASE Stored(r.row) # r.create
    <3>1. entry' = [without EXCEPT ![r.row] = new]
      BY <1>12, <2>2 DEF CommitDefault
    <3>2. doubtful' = r.late /\ job' = [Passed EXCEPT ![w] = Idle]
      BY <1>12, <2>2 DEF CommitDefault
    <3>3. new \in Flags
      <4>1. (IF r.create THEN r.active ELSE entry[r.row].active) \in BOOLEAN
        BY <1>f, <2>1
      <4> QED BY <4>1 DEF Flags
    <3>4. \A m \in Rows : [entry[m] EXCEPT !.default = FALSE] \in Flags \cup {NoRow}
                          /\ [entry[m] EXCEPT !.default = FALSE].default = FALSE
      <4> SUFFICES ASSUME NEW m \in Rows
                   PROVE  [entry[m] EXCEPT !.default = FALSE] \in Flags \cup {NoRow}
                          /\ [entry[m] EXCEPT !.default = FALSE].default = FALSE
        OBVIOUS
      <4>1. CASE entry[m] \in Flags
        BY <4>1 DEF Flags
      <4>2. CASE entry[m] = NoRow
        <5>1. [NoRow EXCEPT !.default = FALSE] = NoRow
          <6> DEFINE Blank == [active : {FALSE}, default : {FALSE}, stored : {FALSE}]
          <6>1. NoRow \in Blank /\ [NoRow EXCEPT !.default = FALSE] \in Blank
            BY DEF NoRow
          <6> QED BY <6>1
        <5> QED BY <1>n, <4>2, <5>1
      <4> QED BY <1>t, <4>1, <4>2
    <3>5. without \in [Rows -> Flags \cup {NoRow}]
      BY <1>t, <3>4
    <3>6. entry' \in [Rows -> Flags \cup {NoRow}]
      <4> HIDE DEF without, new
      <4> QED BY <3>1, <3>3, <3>5
    <3>7. ~r.late => \A m \in Rows : entry'[m].default => m = r.row
      <4> SUFFICES ASSUME ~r.late, NEW m \in Rows, m # r.row PROVE ~entry'[m].default
        OBVIOUS
      <4>1. entry'[m] = without[m]
        BY <3>1, <3>5
      <4>2. m \notin r.cleared => ~entry[m].default
        BY <1>t, <2>1 DEF Foreseen, IsAt, Defaults
      <4> QED BY <3>4, <4>1, <4>2
    <3>8. ~doubtful' => OneDefault'
      BY <3>2, <3>7 DEF OneDefault
    <3>9. ASSUME NEW v \in Workers PROVE Foreseen(v)'
      <4>1. CASE v = w
        BY <1>i, <1>p, <3>2, <4>1 DEF Foreseen, IsAt
      <4>2. CASE v # w
        BY <1>l, <1>p, <3>2, <4>2
      <4> QED BY <4>1, <4>2
    <3> QED BY <1>i, <1>p, <2>1, <3>2, <3>6, <3>8, <3>9 DEF FlagsInv
  <2>3. CASE ~(Stored(r.row) # r.create)
    <3>1. UNCHANGED <<entry, doubtful>> /\ job' = [job EXCEPT ![w] = Idle]
      BY <1>12, <2>3 DEF CommitDefault, Done, flagVars
    <3> QED BY <1>i, <1>t, <3>1, NoNewDefault DEF Defaults
  <2> QED BY <2>2, <2>3
<1>13. ASSUME NEW w \in Workers, NEW m \in Rows, BeginMakeDefault(w, m) PROVE FlagsInv'
  <2>1. PICK p \in IF Defaults = {} THEN {None} ELSE Defaults :
           Begin(w, [pc |-> IF p \in {None, m} THEN "on" ELSE "off", row |-> m,
                     previous |-> p, late |-> FALSE])
    BY <1>13 DEF BeginMakeDefault
  <2> DEFINE r == [pc |-> IF p \in {None, m} THEN "on" ELSE "off", row |-> m,
                   previous |-> p, late |-> FALSE]
  <2>2. p \in Rows \cup {None} /\ (p \notin {None, m} => p \in Rows)
    BY <2>1 DEF Defaults
  <2>3. r \in FlagRequest
    <3>1. CASE p \in {None, m}
      <4>1. r = [pc |-> "on", row |-> m, previous |-> p, late |-> FALSE]
        BY <3>1
      <4>2. r \in [pc : {"on"}, row : Rows, previous : Rows \cup {None}, late : BOOLEAN]
        BY <2>2, <4>1
      <4> QED BY <4>2 DEF FlagRequest
    <3>2. CASE p \notin {None, m}
      <4>1. r = [pc |-> "off", row |-> m, previous |-> p, late |-> FALSE]
        BY <3>2
      <4>2. r \in [pc : {"off"}, row : Rows, previous : Rows, late : BOOLEAN]
        BY <2>2, <3>2, <4>1
      <4> QED BY <4>2 DEF FlagRequest
    <3> QED BY <3>1, <3>2
  <2>4. r.row = m /\ r.previous = p /\ r.pc = (IF p \in {None, m} THEN "on" ELSE "off")
    OBVIOUS
  <2>5. job' = [job EXCEPT ![w] = r]
    BY <2>1 DEF Begin
  <2> HIDE DEF r
  <2>6. scene = "connections" /\ UNCHANGED <<entry, doubtful, scene>>
    BY <1>13 DEF BeginMakeDefault, Connections, On, flagVars
  <2>7. ~doubtful => Defaults \subseteq {p}
    BY <1>t, <2>1 DEF OneDefault, Defaults
  <2>8. ~doubtful /\ r.pc = "on" => Defaults \subseteq {m}
    <3>1. p = None => Defaults = {}
      BY <1>r, <2>1 DEF Defaults
    <3>2. r.pc = "on" => p = None \/ p = m
      BY <2>4
    <3> QED BY <2>7, <3>1, <3>2
  <2>9. ASSUME NEW v \in Workers PROVE Foreseen(v)'
    <3>1. CASE v = w
      <4>1. job'[v] = r
        BY <1>t, <2>5, <3>1
      <4>2. r.pc \in {"on", "off"}
        BY <2>4
      <4>3. Defaults' = Defaults
        BY <2>6 DEF Defaults
      <4> QED BY <2>4, <2>6, <2>7, <2>8, <4>1, <4>2, <4>3 DEF Foreseen, IsAt
    <3>2. CASE v # w
      BY <1>t, <2>5, <2>6, <3>2 DEF Foreseen, IsAt, Defaults
    <3> QED BY <3>1, <3>2
  <2> QED BY <1>t, <2>3, <2>5, <2>6, <2>9 DEF FlagsInv, OneDefault
<1>14. ASSUME NEW w \in Workers, FlipOff(w) PROVE FlagsInv'
  <2> DEFINE p == job[w].previous
             r == [job[w] EXCEPT !.pc = "on"]
  <2>1. job[w] \in [pc : {"off"}, row : Rows, previous : Rows, late : BOOLEAN]
    BY <1>14, <1>t DEF FlipOff, IsAt, FlagRequest
  <2>2. CASE Stored(p)
    <3>1. /\ entry' = [entry EXCEPT ![p].default = FALSE]
          /\ job' = [Passed EXCEPT ![w] = r] /\ UNCHANGED <<doubtful, scene>>
      BY <1>14, <2>2 DEF FlipOff
    <3>2. r \in [pc : {"on"}, row : Rows, previous : Rows \cup {None}, late : BOOLEAN]
      BY <2>1
    <3>3. r \in FlagRequest /\ r.pc = "on" /\ r.row = job[w].row /\ r.late = job[w].late
      BY <2>1, <3>2 DEF FlagRequest
    <3> HIDE DEF r
    <3>4. [entry[p] EXCEPT !.default = FALSE] \in Flags
          /\ [entry[p] EXCEPT !.default = FALSE].default = FALSE
      BY <1>f, <2>1, <2>2 DEF Flags
    <3>5. p \in Rows
      BY <2>1
    <3> HIDE DEF p
    <3>6. entry' \in [Rows -> Flags \cup {NoRow}] /\ Defaults' = Defaults \ {p}
      BY <1>t, <3>1, <3>4, <3>5 DEF Defaults
    <3>7. scene = "connections" /\ (~doubtful /\ ~job[w].late => Defaults \subseteq {p})
      BY <1>14, <1>t DEF FlipOff, Foreseen, p
    <3>8. ASSUME NEW v \in Workers PROVE Foreseen(v)'
      <4>1. CASE v = w
        <5>1. job'[v] = r
          BY <1>p, <3>1, <4>1
        <5>2. ~doubtful /\ ~r.late => Defaults' = {}
          BY <3>3, <3>6, <3>7
        <5> QED BY <3>1, <3>3, <3>7, <5>1, <5>2 DEF Foreseen, IsAt
      <4>2. CASE v # w
        BY <1>l, <1>p, <3>1, <4>2
      <4> QED BY <4>1, <4>2
    <3>9. ~doubtful => OneDefault'
      BY <1>t, <3>6 DEF OneDefault, Defaults
    <3> QED BY <1>t, <1>p, <3>1, <3>3, <3>6, <3>8, <3>9 DEF FlagsInv
  <2>3. CASE ~Stored(p)
    <3>1. UNCHANGED <<entry, doubtful>> /\ job' = [job EXCEPT ![w] = Idle]
      BY <1>14, <2>3 DEF FlipOff, Done
    <3> QED BY <1>i, <1>t, <3>1, NoNewDefault DEF Defaults
  <2> QED BY <2>2, <2>3
<1>15. ASSUME NEW w \in Workers, FlipOn(w) PROVE FlagsInv'
  <2> DEFINE m == job[w].row
  <2>1. job[w] \in [pc : {"on"}, row : Rows, previous : Rows \cup {None}, late : BOOLEAN]
    BY <1>15, <1>t DEF FlipOn, IsAt, FlagRequest
  <2>2. m \in Rows /\ job[w].late \in BOOLEAN
    BY <2>1
  <2>3. job' = [Passed EXCEPT ![w] = Idle] /\ UNCHANGED scene
    BY <1>15 DEF FlipOn
  <2>4. CASE Stored(m)
    <3>1. /\ entry' = [entry EXCEPT ![m].default = TRUE]
          /\ doubtful' = (doubtful \/ job[w].late)
      BY <1>15, <2>4 DEF FlipOn
    <3>2. [entry[m] EXCEPT !.default = TRUE] \in Flags
      BY <1>f, <2>2, <2>4 DEF Flags
    <3> HIDE DEF m
    <3>3. entry' \in [Rows -> Flags \cup {NoRow}] /\ Defaults' \subseteq Defaults \cup {m}
      BY <1>t, <2>2, <3>1, <3>2 DEF Defaults
    <3>4. ~doubtful /\ ~job[w].late => Defaults \subseteq {m}
      BY <1>15, <1>t DEF FlipOn, Foreseen, m
    <3>5. ~doubtful' => OneDefault'
      BY <3>1, <3>3, <3>4 DEF OneDefault, Defaults
    <3>6. doubtful' \in BOOLEAN
      BY <3>1
    <3>7. ASSUME NEW v \in Workers PROVE Foreseen(v)'
      <4>1. CASE v = w
        BY <1>i, <1>p, <2>3, <4>1 DEF Foreseen, IsAt
      <4>2. CASE v # w
        BY <1>l, <1>p, <2>3, <4>2
      <4> QED BY <4>1, <4>2
    <3> QED BY <1>i, <1>p, <2>3, <3>3, <3>5, <3>6, <3>7 DEF FlagsInv
  <2>5. CASE ~Stored(m)
    <3>1. UNCHANGED <<entry, doubtful>>
      BY <1>15, <2>5 DEF FlipOn, flagVars
    <3> QED BY <1>i, <1>p, <1>t, <2>3, <3>1, NoNewDefault DEF Defaults
  <2> QED BY <2>4, <2>5
<1>16. \/ ImportMethods \/ ImportConnections
       \/ \E m \in Rows : \/ CreateMethod(m) \/ UpdateMethod(m)
                          \/ CreateConnection(m) \/ UpdateConnection(m) \/ DeleteConnection(m)
       \/ \E w \in Workers :
             \/ CommitDefault(w) \/ DeactivateMethod(w) \/ DeleteMethod(w)
             \/ BeginSetActive(w) \/ FlipOff(w) \/ FlipOn(w) \/ CrashCatalogue(w)
             \/ \E m \in Rows : \/ ClearDefaults(w, m) \/ CheckNotDefault(w, m)
                                \/ SetOneActive(w, m) \/ BeginMakeDefault(w, m)
  <2>1. ~Tags /\ ~Fields /\ ~Countries /\ ~Bundles
    BY DEF Tags, Fields, Countries, Bundles, On
  <2> QED
    BY <2>1 DEF CatalogueNext, CreateTag, DeleteTag, CreateDef, UpdateDef, DeleteDef, EnableCountry,
       DisableCountry, ReorderCountries, BeginSetTags, DetachTags, AttachTags, EnsureTag, SetFields,
       CommitFields, ClearCache, ClearFails, ReadBundles, FillCache, FillFails, CacheExpires,
       ImportBundles, Write
<1> QED BY <1>1, <1>2, <1>3, <1>4, <1>5, <1>6, <1>7, <1>8, <1>9, <1>10, <1>11, <1>12, <1>13,
           <1>14, <1>15, <1>16

\* In the other scenes nobody makes anything the default.
LEMMA FlagsRest ==
    ASSUME FlagsInv, scene \notin {"methods", "connections"}, UNCHANGED scene, CatalogueNext
    PROVE  FlagsInv'
<1>1. ~Methods /\ ~Connections
    BY DEF Methods, Connections, On
<1>2. Tags \/ Fields \/ Countries \/ Bundles => UNCHANGED flagVars
    BY DEF Tags, Fields, Countries, Bundles
<1>3. Tags \/ Fields \/ Countries \/ Bundles \/ \E w \in Workers : CrashCatalogue(w)
    BY <1>1 DEF CatalogueNext, ImportMethods, ImportConnections, ReorderCountries, CreateMethod,
       UpdateMethod, CreateConnection, UpdateConnection, DeleteConnection, CreateTag, DeleteTag,
       CreateDef, UpdateDef, DeleteDef, EnableCountry, DisableCountry, CommitDefault,
       DeactivateMethod, DeleteMethod, BeginSetActive, FlipOff, FlipOn, BeginSetTags, DetachTags,
       AttachTags, SetFields, CommitFields, ClearDefaults, CheckNotDefault, SetOneActive,
       BeginMakeDefault, EnsureTag, Write, ImportBundles, ClearCache, ClearFails, ReadBundles,
       FillCache, FillFails, CacheExpires
<1>4. UNCHANGED flagVars
    BY <1>2, <1>3 DEF CrashCatalogue
<1> QED BY <1>4 DEF FlagsInv, OneDefault, flagVars

LEMMA FlagsKept == Spec => []FlagsInv
<1>1. Init => FlagsInv
  <2> SUFFICES ASSUME Init PROVE FlagsInv
    OBVIOUS
  <2>1. job \in [Workers -> FlagRequest] /\ \A w \in Workers : job[w].pc = "idle"
    BY DEF Init, Idle, FlagRequest
  <2>2. entry = [m \in Rows |-> NoRow] /\ doubtful = FALSE
    BY DEF Init, CatalogueInit
  <2> QED BY <2>1, <2>2 DEF FlagsInv, Foreseen, IsAt, OneDefault, NoRow
<1>2. FlagsInv /\ [Next]_vars => FlagsInv'
  <2> SUFFICES ASSUME FlagsInv, [Next]_vars PROVE FlagsInv'
    OBVIOUS
  <2>1. CASE UNCHANGED vars
    BY <2>1 DEF vars, catalogueVars, flagVars, FlagsInv, OneDefault, Foreseen, IsAt, Defaults
  <2>2. CASE UNCHANGED <<catalogueVars, scene>> /\ scene \notin {"methods", "connections"}
    BY <2>2 DEF catalogueVars, flagVars, FlagsInv, OneDefault
  <2>3. CASE UNCHANGED scene /\ CatalogueNext
    BY <2>3, FlagsStep, FlagsRest
  <2> QED BY <2>1, <2>2, <2>3 DEF Next
<1> QED BY <1>1, <1>2, PTL DEF Spec

\* There is at most one default payment method, and at most one default
\* connection, but for the cases AtMostOneDefault names (set_default,
\* LlmConnectionRepository.set_default), for any number of rows and workers.
THEOREM DefaultIsUnique == Spec => []AtMostOneDefault
<1>1. FlagsInv => AtMostOneDefault
    BY FewDefaults DEF FlagsInv, AtMostOneDefault
<1> QED BY <1>1, FlagsKept, PTL

-----------------------------------------------------------------------------
(***************************************************************************)
(* The files.  The segments of a log are joined from the oldest on, so     *)
(* that segment i is at place Backups + 1 - i of the join.                 *)
(***************************************************************************)
Places(seg) == [i \in 1 .. Backups + 1 |-> seg[Backups + 1 - i]]
Logs == [0 .. Backups -> Seq(Workers)]

LEMMA PlacesFacts ==
    ASSUME NEW seg \in Logs
    PROVE  /\ Backups + 1 \in Nat \ {0} /\ Len(Places(seg)) = Backups + 1
           /\ Consists(Places(seg), Backups + 1, Workers)
           /\ Places(seg)[1] = seg[Backups] /\ Places(seg)[Backups + 1] = seg[0]
           /\ \A i \in 1 .. Backups + 1 : Places(seg)[i] = seg[Backups + 1 - i]
<1>1. Backups \in Nat
    BY FileAssumption
<1>2. Places(seg) \in [1 .. Backups + 1 -> Seq(Workers)]
  <2>1. \A i \in 1 .. Backups + 1 : Backups + 1 - i \in 0 .. Backups
    BY <1>1
  <2> QED BY <2>1 DEF Places, Logs
<1>3. Len(Places(seg)) = Backups + 1
    BY <1>1 DEF Places
<1>4. \A i \in 1 .. Backups + 1 : Places(seg)[i] = seg[Backups + 1 - i]
    BY <1>1 DEF Places
<1>5. /\ 1 \in 1 .. Backups + 1 /\ Backups + 1 - 1 = Backups
      /\ Backups + 1 \in 1 .. Backups + 1 /\ Backups + 1 - (Backups + 1) = 0
    BY <1>1
<1> QED BY <1>1, <1>2, <1>3, <1>4, <1>5 DEF Consists

\* A line at the end of segment 0 is at the end of the log.
LEMMA LineIsLast ==
    ASSUME NEW seg \in Logs, NEW w \in Workers
    PROVE  /\ [seg EXCEPT ![0] = Append(@, w)] \in Logs
           /\ FlattenSeq(Places([seg EXCEPT ![0] = Append(@, w)])) = Append(FlattenSeq(Places(seg)), w)
<1> DEFINE new == [seg EXCEPT ![0] = Append(@, w)]
           n == Backups + 1
<1>1. Backups \in Nat
    BY FileAssumption
<1>2. new \in Logs /\ new[0] = Append(seg[0], w) /\ \A i \in 1 .. Backups : new[i] = seg[i]
    BY <1>1 DEF Logs
<1> HIDE DEF new
<1>3. Agree(Places(seg), Places(new), 1 .. n - 1)
  <2>1. \A i \in 1 .. n - 1 : i \in 1 .. Backups + 1 /\ Backups + 1 - i \in 1 .. Backups
    BY <1>1
  <2> QED BY <1>2, <2>1, PlacesFacts DEF Agree
<1>4. Places(new)[n] = Append(Places(seg)[n], w)
    BY <1>2, PlacesFacts
<1>5. /\ n \in Nat \ {0} /\ Len(Places(seg)) = n /\ Len(Places(new)) = n
      /\ Consists(Places(seg), n, Workers)
    BY <1>2, PlacesFacts
<1> HIDE DEF n
<1>6. FlattenSeq(Places(new)) = Append(FlattenSeq(Places(seg)), w)
    BY <1>3, <1>4, <1>5, FlattenAppend
<1> QED BY <1>2, <1>6 DEF new

\* Without the oldest segment the rest of the log is left.
LEMMA OldestIsFirst ==
    ASSUME NEW seg \in Logs
    PROVE  /\ [seg EXCEPT ![Backups] = <<>>] \in Logs
           /\ FlattenSeq(Places(seg)) = seg[Backups] \o FlattenSeq(Places([seg EXCEPT ![Backups] = <<>>]))
<1> DEFINE new == [seg EXCEPT ![Backups] = <<>>]
           n == Backups + 1
<1>1. Backups \in Nat
    BY FileAssumption
<1>2. new \in Logs /\ new[Backups] = <<>> /\ \A i \in 0 .. Backups - 1 : new[i] = seg[i]
  <2>1. <<>> \in Seq(Workers)
    OBVIOUS
  <2> QED BY <1>1, <2>1 DEF Logs
<1> HIDE DEF new
<1>3. Agree(Places(seg), Places(new), 2 .. n)
  <2>1. \A i \in 2 .. n : i \in 1 .. Backups + 1 /\ Backups + 1 - i \in 0 .. Backups - 1
    BY <1>1
  <2> QED BY <1>2, <2>1, PlacesFacts DEF Agree
<1>4. /\ n \in Nat \ {0} /\ Len(Places(seg)) = n /\ Len(Places(new)) = n
      /\ Consists(Places(seg), n, Workers)
    BY <1>2, PlacesFacts
<1>5. Places(new)[1] = <<>> /\ Places(seg)[1] = seg[Backups]
    BY <1>2, PlacesFacts
<1> HIDE DEF n
<1>6. FlattenSeq(Places(seg)) = seg[Backups] \o FlattenSeq(Places(new))
    BY <1>3, <1>4, <1>5, FlattenWithoutFirst
<1> QED BY <1>2, <1>6 DEF new

\* A segment that takes the name of the next, which is empty, moves no line.
LEMMA RenamingIsSilent ==
    ASSUME NEW seg \in Logs, NEW i \in 0 .. Backups - 1, seg[i + 1] = <<>>
    PROVE  /\ [seg EXCEPT ![i + 1] = seg[i], ![i] = <<>>] \in Logs
           /\ FlattenSeq(Places([seg EXCEPT ![i + 1] = seg[i], ![i] = <<>>])) = FlattenSeq(Places(seg))
<1> DEFINE new == [seg EXCEPT ![i + 1] = seg[i], ![i] = <<>>]
           n == Backups + 1
           p == Backups - i
<1>1. Backups \in Nat
    BY FileAssumption
<1>2. /\ new \in Logs /\ new[i + 1] = seg[i] /\ new[i] = <<>>
      /\ \A k \in 0 .. Backups : k # i /\ k # i + 1 => new[k] = seg[k]
  <2>1. <<>> \in Seq(Workers)
    OBVIOUS
  <2> QED BY <1>1, <2>1 DEF Logs
<1> HIDE DEF new
<1>3. /\ p \in 1 .. n - 1 /\ p \in 1 .. Backups + 1 /\ p + 1 \in 1 .. Backups + 1
      /\ Backups + 1 - p = i + 1 /\ Backups + 1 - (p + 1) = i
    BY <1>1
<1>4. /\ Places(seg)[p] = <<>> /\ Places(new)[p] = Places(seg)[p + 1] /\ Places(new)[p + 1] = <<>>
    BY <1>2, <1>3, PlacesFacts
<1>5. \A k \in 1 .. n : k # p /\ k # p + 1 => Places(new)[k] = Places(seg)[k]
  <2> TAKE k \in 1 .. n
  <2>1. Places(new)[k] = new[Backups + 1 - k] /\ Places(seg)[k] = seg[Backups + 1 - k]
    BY <1>2, PlacesFacts
  <2>2. k # p /\ k # p + 1 => Backups + 1 - k \in 0 .. Backups /\ Backups + 1 - k # i /\ Backups + 1 - k # i + 1
    BY <1>1
  <2> QED BY <1>2, <2>1, <2>2
<1>6. /\ n \in Nat \ {0} /\ Len(Places(seg)) = n /\ Len(Places(new)) = n
      /\ Consists(Places(seg), n, Workers)
    BY <1>2, PlacesFacts
<1> HIDE DEF n, p
<1>7. FlattenSeq(Places(new)) = FlattenSeq(Places(seg))
    BY <1>3, <1>4, <1>5, <1>6, FlattenMoved
<1> QED BY <1>2, <1>7 DEF new

\* Behind an oldest segment that is empty, full ones hold the lines that are kept.
LEMMA FullSegmentsKeep ==
    ASSUME NEW seg \in Logs, seg[Backups] = <<>>, \A i \in 0 .. Backups - 1 : Len(seg[i]) = Segment
    PROVE  Len(FlattenSeq(Places(seg))) = Backups * Segment
<1> DEFINE n == Backups + 1
<1>1. Backups \in Nat /\ Segment \in Nat
    BY FileAssumption
<1>2. \A i \in 2 .. n : Len(Places(seg)[i]) = Segment
  <2>1. \A i \in 2 .. n : i \in 1 .. Backups + 1 /\ Backups + 1 - i \in 0 .. Backups - 1
    BY <1>1
  <2> QED BY <2>1, PlacesFacts
<1>3. Places(seg)[1] = <<>> /\ n \in Nat \ {0} /\ Len(Places(seg)) = n /\ Consists(Places(seg), n, Workers)
    BY PlacesFacts
<1>4. Len(FlattenSeq(Places(seg))) = (n - 1) * Segment
    BY <1>1, <1>2, <1>3, FlattenLength
<1>5. n - 1 = Backups
    BY <1>1
<1> QED BY <1>4, <1>5

LEMMA LogIsSequence ==
    ASSUME NEW seg \in Logs
    PROVE  FlattenSeq(Places(seg)) \in Seq(Workers)
BY PlacesFacts, FlattenType

-----------------------------------------------------------------------------
\* What the workers are at in each of the three ways of writing.
AtomicRequest ==
         [pc : {"idle"}]
    \cup [pc : {"replace"}, new : Contents]
    \cup [pc : {"read"}, seen : Contents \cup {None, "torn"}]

InPlaceRequest ==
         [pc : {"idle"}]
    \cup [pc : {"open", "locked", "truncated"}, new : Contents, old : Contents \cup {None}]

Rolling == {"drop", "shift", "roll", "append"}

LogRequest ==
         [pc : {"idle"}]
    \cup [pc : {"wait"}]
    \cup [pc : Rolling, at : 0 .. Backups - 1]

\* Who has the lock is alone, and a file that was truncated is in pieces.
InPlaceInv ==
    /\ job \in [Workers -> InPlaceRequest]
    /\ \A u, v \in Workers :
          job[u].pc \in {"locked", "truncated"} /\ job[v].pc \in {"locked", "truncated"} => u = v
    /\ \A w \in Workers : IsAt(w, "truncated") => disk = "torn"

\* Rolling leaves a hole behind, which moves from the oldest segment to the
\* newest.  Unless a process died there, segments that are rolled are full.
Hole(k) ==
    \E w \in Workers : (IsAt(w, "shift") /\ k = job[w].at + 1) \/ (IsAt(w, "roll") /\ k = 1)

Packed ==
    \A i, k \in 1 .. Backups : segment[i] # <<>> /\ k <= i => Hole(k) \/ Len(segment[k]) = Segment

LogInv ==
    /\ job \in [Workers -> LogRequest]
    /\ \A u, v \in Workers : job[u].pc \in Rolling /\ job[v].pc \in Rolling => u = v
    /\ \A w \in Workers :
          /\ job[w].pc \in {"drop", "shift", "roll"} => Len(segment[0]) = Segment
          /\ IsAt(w, "drop") => job[w].at = Backups - 1
          /\ IsAt(w, "shift") => job[w].at \in 1 .. Backups - 1 /\ segment[job[w].at + 1] = <<>>
          /\ IsAt(w, "roll") => segment[1] = <<>>
          /\ IsAt(w, "append") => Len(segment[0]) < Segment
    /\ torn \/ Packed

FilesInv ==
    /\ disk \in Contents \cup {None, "torn"} /\ got \in [Workers -> Contents \cup {None}]
    /\ segment \in Logs /\ \A i \in 0 .. Backups : Len(segment[i]) <= Segment
    /\ torn \in BOOLEAN
    /\ scene = "atomic" => job \in [Workers -> AtomicRequest]
    /\ scene = "inplace" => InPlaceInv
    /\ scene = "log" => LogInv

LEMMA AtomicStep ==
    ASSUME FilesInv, scene = "atomic", UNCHANGED scene, FilesNext
    PROVE  FilesInv' /\ (Register!Next \/ UNCHANGED Register!vars)
<1>1. /\ job \in [Workers -> AtomicRequest] /\ scene' = "atomic"
      /\ disk \in Contents \cup {None, "torn"} /\ got \in [Workers -> Contents \cup {None}]
      /\ "torn" \notin Contents /\ None # "torn"
    BY FileAssumption DEF FilesInv
<1>2. /\ Content = AsRead(disk) /\ Content' = AsRead(disk')
      /\ LogLines = <<>> /\ LogLines' = <<>>
    BY <1>1 DEF Content, LogLines, AsRead
<1>3. ~InPlace /\ ~Log
    BY DEF InPlace, Log, On
<1>4. SUFFICES /\ job' \in [Workers -> AtomicRequest] /\ disk' \in Contents \cup {None, "torn"}
               /\ got' \in [Workers -> Contents \cup {None}] /\ UNCHANGED segment /\ torn' \in BOOLEAN
               /\ Register!Next \/ UNCHANGED Register!vars
    BY <1>1 DEF FilesInv
<1>5. PICK w \in Workers :
         \/ WriteTemporary(w) \/ Replace(w) \/ ReplaceFails(w) \/ Delete(w)
         \/ OpenReplaced(w) \/ ReadReplaced(w) \/ CrashFiles(w)
    BY <1>3 DEF FilesNext, OpenInPlace, LockFile, Truncate, WriteInPlace, WriteFails, ReadLocked,
       BeginAppend, LockLog, RemoveOldest, ShiftSegment, RollLog, AppendToLog
<1>6. CASE WriteTemporary(w)
  <2>1. PICK v \in Contents :
           /\ job[w].pc = "idle" /\ job' = [job EXCEPT ![w] = [pc |-> "replace", new |-> v]]
           /\ UNCHANGED <<disk, got, segment, torn>>
    BY <1>6 DEF WriteTemporary, Atomic, Begin, IsAt
  <2>2. job' \in [Workers -> AtomicRequest]
    BY <1>1, <2>1 DEF AtomicRequest
  <2>3. UNCHANGED Register!vars
    BY <1>1, <1>2, <2>1 DEF Register!vars, IsAt, AsRead
  <2> QED BY <1>1, <2>1, <2>2, <2>3 DEF FilesInv
<1>7. CASE Replace(w)
  <2>1. /\ job[w].pc = "replace" /\ disk' = job[w].new /\ job' = [job EXCEPT ![w] = [pc |-> "idle"]]
        /\ UNCHANGED <<got, segment, torn>>
    BY <1>7 DEF Replace, Atomic, Done, Idle, IsAt
  <2>2. job' \in [Workers -> AtomicRequest] /\ disk' \in Contents
    BY <1>1, <2>1 DEF AtomicRequest
  <2>3. Register!Write
    BY <1>1, <1>2, <2>1, <2>2 DEF Register!Write, IsAt, AsRead
  <2> QED BY <1>1, <2>1, <2>2, <2>3 DEF FilesInv, Register!Next
<1>8. CASE ReplaceFails(w)
  <2>1. /\ job[w].pc = "replace" /\ job' = [job EXCEPT ![w] = [pc |-> "idle"]]
        /\ UNCHANGED <<disk, got, segment, torn>>
    BY <1>8 DEF ReplaceFails, Atomic, Done, Idle, IsAt
  <2>2. job' \in [Workers -> AtomicRequest]
    BY <1>1, <2>1 DEF AtomicRequest
  <2>3. UNCHANGED Register!vars
    BY <1>1, <1>2, <2>1 DEF Register!vars, IsAt, AsRead
  <2> QED BY <1>1, <2>1, <2>2, <2>3 DEF FilesInv
<1>9. CASE Delete(w)
  <2>1. disk' = None /\ UNCHANGED <<got, job, segment, torn>>
    BY <1>9 DEF Delete, Atomic
  <2>2. Register!Delete
    BY <1>1, <1>2, <2>1 DEF Register!Delete, IsAt, AsRead
  <2> QED BY <1>1, <2>1, <2>2 DEF FilesInv, Register!Next
<1>10. CASE OpenReplaced(w)
  <2>1. job[w].pc = "idle" /\ UNCHANGED <<disk, segment, torn>>
    BY <1>10 DEF OpenReplaced, Atomic, IsAt
  <2>2. CASE disk = None
    <3>1. got' = [got EXCEPT ![w] = None] /\ UNCHANGED job
      BY <1>10, <2>2 DEF OpenReplaced
    <3>2. Register!Read(w)
      BY <1>1, <1>2, <2>1, <2>2, <3>1 DEF Register!Read, IsAt, AsRead
    <3> QED BY <1>1, <2>1, <3>1, <3>2 DEF FilesInv, Register!Next
  <2>3. CASE disk # None
    <3>1. job' = [job EXCEPT ![w] = [pc |-> "read", seen |-> disk]] /\ UNCHANGED got
      BY <1>10, <2>3 DEF OpenReplaced, Begin
    <3>2. job' \in [Workers -> AtomicRequest]
      BY <1>1, <3>1 DEF AtomicRequest
    <3>3. Register!Read(w)
      BY <1>1, <1>2, <2>1, <3>1 DEF Register!Read, IsAt, AsRead
    <3> QED BY <1>1, <2>1, <3>1, <3>2, <3>3 DEF FilesInv, Register!Next
  <2> QED BY <2>2, <2>3
<1>11. CASE ReadReplaced(w)
  <2>1. /\ job[w].pc = "read" /\ got' = [got EXCEPT ![w] = AsRead(job[w].seen)]
        /\ job' = [job EXCEPT ![w] = [pc |-> "idle"]] /\ UNCHANGED <<disk, segment, torn>>
    BY <1>11 DEF ReadReplaced, Atomic, Done, Idle, IsAt
  <2>2. job' \in [Workers -> AtomicRequest] /\ got' \in [Workers -> Contents \cup {None}]
    BY <1>1, <2>1 DEF AtomicRequest, AsRead
  <2>3. UNCHANGED Register!vars
    BY <1>1, <1>2, <2>1 DEF Register!vars, IsAt, AsRead
  <2> QED BY <1>1, <2>1, <2>2, <2>3 DEF FilesInv
<1>12. CASE CrashFiles(w)
  <2>1. /\ job' = [job EXCEPT ![w] = [pc |-> "idle"]] /\ got' = [got EXCEPT ![w] = None]
        /\ torn' = torn /\ UNCHANGED <<disk, segment>>
    BY <1>1, <1>12 DEF CrashFiles, Done, Idle, IsAt, Pieces, AtomicRequest, FilesInv
  <2>2. job' \in [Workers -> AtomicRequest] /\ got' \in [Workers -> Contents \cup {None}]
    BY <1>1, <2>1 DEF AtomicRequest
  <2>3. Register!Forget(w)
    BY <1>1, <1>2, <2>1 DEF Register!Forget, IsAt, AsRead
  <2> QED BY <1>1, <2>1, <2>2, <2>3 DEF FilesInv, Register!Next
<1> QED BY <1>5, <1>6, <1>7, <1>8, <1>9, <1>10, <1>11, <1>12

\* The one worker that truncated the file is the one whose content counts.
LEMMA TheOneAt ==
    ASSUME NEW j, NEW u \in Workers, j[u].pc = "truncated",
           \A v \in Workers : j[v].pc = "truncated" => v = u
    PROVE  (CHOOSE v \in Workers : j[v].pc = "truncated") = u
OBVIOUS

LEMMA InPlaceStep ==
    ASSUME FilesInv, scene = "inplace", UNCHANGED scene, FilesNext
    PROVE  FilesInv' /\ (Register!Next \/ UNCHANGED Register!vars)
<1>1. /\ InPlaceInv /\ scene' = "inplace"
      /\ disk \in Contents \cup {None, "torn"} /\ got \in [Workers -> Contents \cup {None}]
      /\ "torn" \notin Contents /\ None # "torn"
    BY FileAssumption DEF FilesInv
<1>2. LogLines = <<>> /\ LogLines' = <<>>
    BY <1>1 DEF LogLines
<1>3. /\ \A u \in Workers : job[u].pc = "truncated" => Content = job[u].old
      /\ (\A u \in Workers : job[u].pc # "truncated") => Content = AsRead(disk)
  <2>1. ASSUME NEW u \in Workers, job[u].pc = "truncated" PROVE Content = job[u].old
    <3>1. \A v \in Workers : job[v].pc = "truncated" => v = u
      BY <1>1, <2>1 DEF InPlaceInv
    <3>2. (CHOOSE v \in Workers : job[v].pc = "truncated") = u
      BY <2>1, <3>1, TheOneAt
    <3> QED BY <1>1, <2>1, <3>2 DEF Content, IsAt
  <2>2. (\A u \in Workers : job[u].pc # "truncated") => Content = AsRead(disk)
    BY <1>1 DEF Content, IsAt
  <2> QED BY <2>1, <2>2
<1>4. ASSUME InPlaceInv'
      PROVE  /\ \A u \in Workers : job'[u].pc = "truncated" => Content' = job'[u].old
             /\ (\A u \in Workers : job'[u].pc # "truncated") => Content' = AsRead(disk')
  <2>1. ASSUME NEW u \in Workers, job'[u].pc = "truncated" PROVE Content' = job'[u].old
    <3>1. \A v \in Workers : job'[v].pc = "truncated" => v = u
      BY <1>4, <2>1 DEF InPlaceInv
    <3>2. (CHOOSE v \in Workers : job'[v].pc = "truncated") = u
      BY <2>1, <3>1, TheOneAt
    <3> QED BY <1>1, <2>1, <3>2 DEF Content, IsAt
  <2>2. (\A u \in Workers : job'[u].pc # "truncated") => Content' = AsRead(disk')
    BY <1>1 DEF Content, IsAt, AsRead
  <2> QED BY <2>1, <2>2
<1>5. ~Atomic /\ ~Log
    BY DEF Atomic, Log, On
<1>6. SUFFICES /\ InPlaceInv' /\ disk' \in Contents \cup {None, "torn"}
               /\ got' \in [Workers -> Contents \cup {None}] /\ UNCHANGED segment /\ torn' \in BOOLEAN
               /\ Register!Next \/ UNCHANGED Register!vars
    BY <1>1 DEF FilesInv
<1>7. PICK w \in Workers :
         \/ OpenInPlace(w) \/ LockFile(w) \/ Truncate(w) \/ WriteInPlace(w) \/ WriteFails(w)
         \/ ReadLocked(w) \/ CrashFiles(w)
    BY <1>5 DEF FilesNext, WriteTemporary, Replace, ReplaceFails, Delete, OpenReplaced, ReadReplaced,
       BeginAppend, LockLog, RemoveOldest, ShiftSegment, RollLog, AppendToLog
<1>8. CASE OpenInPlace(w)
  <2>1. PICK v \in Contents :
           /\ job[w].pc = "idle" /\ job' = [job EXCEPT ![w] = [pc |-> "open", new |-> v, old |-> None]]
           /\ disk' = (IF disk = None THEN "torn" ELSE disk) /\ UNCHANGED <<got, segment, torn>>
    BY <1>8 DEF OpenInPlace, InPlace, Begin, IsAt
  <2>2. InPlaceInv'
    BY <1>1, <2>1 DEF InPlaceInv, InPlaceRequest, IsAt
  <2>3. Content' = Content
    BY <1>1, <1>3, <1>4, <2>1, <2>2 DEF InPlaceInv, InPlaceRequest, AsRead
  <2>4. UNCHANGED Register!vars
    BY <1>1, <1>2, <2>1, <2>3 DEF Register!vars
  <2> QED BY <1>1, <2>1, <2>2, <2>4 DEF FilesInv
<1>9. CASE LockFile(w)
  <2>1. /\ job[w].pc = "open" /\ job' = [job EXCEPT ![w] = [job[w] EXCEPT !.pc = "locked"]]
        /\ \A u \in Workers : job[u].pc \notin {"locked", "truncated"}
        /\ UNCHANGED <<disk, got, segment, torn>>
    BY <1>9 DEF LockFile, InPlace, Go, IsAt, Locked
  <2>2. job'[w] \in InPlaceRequest /\ job'[w].pc = "locked"
    BY <1>1, <2>1 DEF InPlaceInv, InPlaceRequest
  <2>3. InPlaceInv'
    BY <1>1, <2>1, <2>2 DEF InPlaceInv, IsAt
  <2>4. Content' = Content
    BY <1>1, <1>3, <1>4, <2>1, <2>2, <2>3 DEF InPlaceInv, AsRead
  <2>5. UNCHANGED Register!vars
    BY <1>1, <1>2, <2>1, <2>4 DEF Register!vars
  <2> QED BY <1>1, <2>1, <2>3, <2>5 DEF FilesInv
<1>10. CASE Truncate(w)
  <2>1. /\ job[w].pc = "locked" /\ disk' = "torn"
        /\ job' = [job EXCEPT ![w] = [job[w] EXCEPT !.pc = "truncated", !.old = AsRead(disk)]]
        /\ UNCHANGED <<got, segment, torn>>
    BY <1>10 DEF Truncate, InPlace, Go, IsAt
  <2>2. job'[w] \in InPlaceRequest /\ job'[w].pc = "truncated" /\ job'[w].old = AsRead(disk)
    BY <1>1, <2>1 DEF InPlaceInv, InPlaceRequest, AsRead
  <2>3. InPlaceInv'
    BY <1>1, <2>1, <2>2 DEF InPlaceInv, IsAt
  <2>4. \A u \in Workers : job[u].pc # "truncated"
    BY <1>1, <2>1 DEF InPlaceInv
  <2>5. Content' = Content
    BY <1>3, <1>4, <2>2, <2>3, <2>4
  <2>6. UNCHANGED Register!vars
    BY <1>1, <1>2, <2>1, <2>5 DEF Register!vars
  <2> QED BY <1>1, <2>1, <2>3, <2>6 DEF FilesInv
<1>11. CASE WriteInPlace(w)
  <2>1. /\ job[w].pc = "truncated" /\ disk' = job[w].new
        /\ job' = [job EXCEPT ![w] = [pc |-> "idle"]] /\ UNCHANGED <<got, segment, torn>>
    BY <1>11 DEF WriteInPlace, InPlace, Done, Idle, IsAt
  <2>2. disk' \in Contents /\ \A u \in Workers \ {w} : job[u].pc # "truncated"
    BY <1>1, <2>1 DEF InPlaceInv, InPlaceRequest
  <2>3. InPlaceInv' /\ \A u \in Workers : job'[u].pc # "truncated"
    BY <1>1, <2>1, <2>2 DEF InPlaceInv, InPlaceRequest, IsAt
  <2>4. Content' = disk'
    BY <1>1, <1>4, <2>2, <2>3 DEF AsRead
  <2>5. Register!Write
    BY <1>1, <1>2, <2>1, <2>2, <2>4 DEF Register!Write
  <2> QED BY <1>1, <2>1, <2>2, <2>3, <2>5 DEF FilesInv, Register!Next
<1>12. CASE WriteFails(w)
  <2>1. /\ job[w].pc = "truncated" /\ disk' = disk /\ torn' = TRUE
        /\ job' = [job EXCEPT ![w] = [pc |-> "idle"]] /\ UNCHANGED <<got, segment>>
    BY <1>12 DEF WriteFails, InPlace, Done, Idle, IsAt
  <2>2. disk = "torn" /\ \A u \in Workers \ {w} : job[u].pc # "truncated"
    BY <1>1, <2>1 DEF InPlaceInv, IsAt
  <2>3. InPlaceInv' /\ \A u \in Workers : job'[u].pc # "truncated"
    BY <1>1, <2>1, <2>2 DEF InPlaceInv, InPlaceRequest, IsAt
  <2>4. Content' = None
    BY <1>1, <1>4, <2>1, <2>2, <2>3 DEF AsRead
  <2>5. Register!Tear(w)
    BY <1>1, <1>2, <2>1, <2>4 DEF Register!Tear
  <2> QED BY <1>1, <2>1, <2>3, <2>5 DEF FilesInv, Register!Next
<1>13. CASE ReadLocked(w)
  <2>1. /\ disk = None \/ \A u \in Workers : job[u].pc \notin {"locked", "truncated"}
        /\ got' = [got EXCEPT ![w] = AsRead(disk)] /\ UNCHANGED <<disk, segment, torn, job>>
    BY <1>13 DEF ReadLocked, InPlace, Locked
  <2>2. InPlaceInv'
    BY <1>1, <2>1 DEF InPlaceInv, IsAt
  <2>3. Content = AsRead(disk) /\ Content' = Content
    BY <1>1, <1>3, <1>4, <2>1, <2>2 DEF InPlaceInv, IsAt
  <2>4. Register!Read(w)
    BY <1>1, <1>2, <2>1, <2>3 DEF Register!Read
  <2>5. got' \in [Workers -> Contents \cup {None}]
    BY <1>1, <2>1 DEF AsRead
  <2> QED BY <1>1, <2>1, <2>2, <2>4, <2>5 DEF FilesInv, Register!Next
<1>14. CASE CrashFiles(w)
  <2>1. /\ job' = [job EXCEPT ![w] = [pc |-> "idle"]] /\ got' = [got EXCEPT ![w] = None]
        /\ torn' = (torn \/ job[w].pc \in Pieces) /\ UNCHANGED <<disk, segment>>
    BY <1>14 DEF CrashFiles, Done, Idle, IsAt
  <2>2. InPlaceInv'
    BY <1>1, <2>1 DEF InPlaceInv, InPlaceRequest, IsAt
  <2>3. got' \in [Workers -> Contents \cup {None}] /\ torn' \in BOOLEAN
    BY <1>1, <2>1 DEF FilesInv
  <2>4. CASE job[w].pc = "truncated"
    <3>1. disk = "torn" /\ \A u \in Workers : job'[u].pc # "truncated"
      BY <1>1, <2>1, <2>4 DEF InPlaceInv, IsAt
    <3>2. Content' = None
      BY <1>4, <2>1, <2>2, <3>1 DEF AsRead
    <3>3. torn' = TRUE
      BY <2>1, <2>4 DEF Pieces
    <3>4. Register!Tear(w)
      BY <1>1, <1>2, <2>1, <3>2, <3>3 DEF Register!Tear
    <3> QED BY <1>1, <2>1, <2>2, <2>3, <3>4 DEF FilesInv, Register!Next
  <2>5. CASE job[w].pc # "truncated"
    <3>1. torn' = torn
      BY <1>1, <2>1, <2>5 DEF InPlaceInv, InPlaceRequest, Pieces, FilesInv
    <3>2. Content' = Content
      BY <1>3, <1>4, <2>1, <2>2, <2>5
    <3>3. Register!Forget(w)
      BY <1>1, <1>2, <2>1, <3>1, <3>2 DEF Register!Forget
    <3> QED BY <1>1, <2>1, <2>2, <2>3, <3>1, <3>3 DEF FilesInv, Register!Next
  <2> QED BY <2>4, <2>5
<1> QED BY <1>7, <1>8, <1>9, <1>10, <1>11, <1>12, <1>13, <1>14

LEMMA RestOfJoin ==
    ASSUME NEW S, NEW a \in Seq(S), NEW b \in Seq(S)
    PROVE  SubSeq(a \o b, Len(a) + 1, Len(a \o b)) = b
OBVIOUS

LEMMA LogStep ==
    ASSUME FilesInv, scene = "log", UNCHANGED scene, FilesNext
    PROVE  FilesInv' /\ (Register!Next \/ UNCHANGED Register!vars)
<1>1. /\ LogInv /\ scene' = "log" /\ got \in [Workers -> Contents \cup {None}] /\ segment \in Logs
      /\ \A i \in 0 .. Backups : Len(segment[i]) <= Segment /\ segment[i] \in Seq(Workers)
      /\ Backups \in Nat \ {0} /\ Segment \in Nat \ {0} /\ torn \in BOOLEAN
    BY FileAssumption DEF FilesInv, Logs
<1>2. LogLines = FlattenSeq(Places(segment)) /\ LogLines' = FlattenSeq(Places(segment'))
    BY <1>1 DEF LogLines, Places
<1>3. disk' = disk => Content' = Content
    BY <1>1 DEF Content, AsRead
<1>4. ~Atomic /\ ~InPlace
    BY DEF Atomic, InPlace, On
<1>5. SUFFICES /\ LogInv' /\ disk' = disk /\ torn' \in BOOLEAN
               /\ got' \in [Workers -> Contents \cup {None}]
               /\ segment' \in Logs /\ \A i \in 0 .. Backups : Len(segment'[i]) <= Segment
               /\ Register!Next \/ UNCHANGED Register!vars
    BY <1>1 DEF FilesInv
<1>6. PICK w \in Workers :
         \/ BeginAppend(w) \/ LockLog(w) \/ RemoveOldest(w) \/ ShiftSegment(w) \/ RollLog(w)
         \/ AppendToLog(w) \/ CrashFiles(w)
    BY <1>4 DEF FilesNext, WriteTemporary, Replace, ReplaceFails, Delete, OpenReplaced, ReadReplaced,
       OpenInPlace, LockFile, Truncate, WriteInPlace, WriteFails, ReadLocked
<1>7. job \in [Workers -> LogRequest] /\ job[w] \in LogRequest
    BY <1>1 DEF LogInv
<1>8. CASE BeginAppend(w)
  <2>1. /\ job[w].pc = "idle" /\ job' = [job EXCEPT ![w] = [pc |-> "wait"]]
        /\ UNCHANGED <<disk, got, segment, torn>>
    BY <1>8 DEF BeginAppend, Log, Begin, IsAt
  <2>2. \A k \in 1 .. Backups : Hole(k)' <=> Hole(k)
    BY <1>7, <2>1 DEF Hole, IsAt
  <2>3. LogInv'
    BY <1>1, <1>7, <2>1, <2>2 DEF LogInv, LogRequest, Rolling, Packed, IsAt
  <2>4. UNCHANGED Register!vars
    BY <1>1, <1>2, <1>3, <2>1 DEF Register!vars
  <2> QED BY <1>1, <2>1, <2>3, <2>4
<1>9. CASE LockLog(w)
  <2>1. /\ job[w].pc = "wait"
        /\ \A u \in Workers : job[u].pc \notin {"drop", "shift", "roll", "append"}
        /\ UNCHANGED <<disk, got, segment, torn>>
        /\ job' = [job EXCEPT ![w] = [pc |-> IF Len(segment[0]) >= Segment THEN "drop" ELSE "append",
                                      at |-> Backups - 1]]
    BY <1>9 DEF LockLog, Log, Go, IsAt, LogLocked
  <2>2. \A k \in 1 .. Backups : Hole(k)' <=> Hole(k)
    BY <1>7, <2>1 DEF Hole, IsAt
  <2>3. /\ job'[w] \in LogRequest /\ job'[w].at = Backups - 1
        /\ \/ job'[w].pc = "drop" /\ Len(segment[0]) = Segment
           \/ job'[w].pc = "append" /\ Len(segment[0]) < Segment
    BY <1>1, <1>7, <2>1 DEF LogRequest, Rolling
  <2>4. LogInv'
    BY <1>1, <1>7, <2>1, <2>2, <2>3 DEF LogInv, Rolling, Packed, IsAt
  <2>5. UNCHANGED Register!vars
    BY <1>1, <1>2, <1>3, <2>1 DEF Register!vars
  <2> QED BY <1>1, <2>1, <2>4, <2>5
<1>10. ASSUME job[w].pc \in {"drop", "shift", "roll", "append"}
       PROVE  \A u \in Workers \ {w} : job[u].pc \notin {"drop", "shift", "roll", "append"}
    BY <1>1, <1>10 DEF LogInv, Rolling
<1>11. CASE RemoveOldest(w)
  <2>1. /\ job[w].pc = "drop" /\ segment' = [segment EXCEPT ![Backups] = <<>>]
        /\ job' = [job EXCEPT ![w] = [job[w] EXCEPT !.pc = IF Backups = 1 THEN "roll" ELSE "shift"]]
        /\ UNCHANGED <<disk, got, torn>>
    BY <1>11 DEF RemoveOldest, Log, Go, IsAt
  <2>2. /\ segment'[Backups] = <<>> /\ \A i \in 0 .. Backups - 1 : segment'[i] = segment[i]
        /\ Len(segment[0]) = Segment /\ job[w].at = Backups - 1
    BY <1>1, <2>1 DEF Logs, LogInv, IsAt
  <2>3. /\ segment' \in Logs
        /\ FlattenSeq(Places(segment)) = segment[Backups] \o FlattenSeq(Places(segment'))
    BY <1>1, <2>1, OldestIsFirst
  <2>4. /\ job'[w] \in LogRequest /\ job'[w].at = Backups - 1
        /\ (job'[w].pc = "roll" /\ Backups = 1) \/ (job'[w].pc = "shift" /\ Backups - 1 \in 1 .. Backups - 1)
    BY <1>1, <1>7, <2>1, <2>2 DEF LogRequest, Rolling
  <2>5. \A k \in 1 .. Backups : ~Hole(k)
    BY <1>10, <2>1 DEF Hole, IsAt
  <2>6. torn \/ \A k \in 1 .. Backups : segment[Backups] # <<>> => Len(segment[k]) = Segment
    BY <1>1, <2>5 DEF LogInv, Packed
  <2>7. torn \/ Packed'
    <3> SUFFICES ASSUME ~torn, NEW i \in 1 .. Backups, NEW k \in 1 .. Backups, segment'[i] # <<>>, k <= i
                 PROVE  Len(segment'[k]) = Segment
      BY DEF Packed
    <3>1. i \in 0 .. Backups - 1 /\ k \in 0 .. Backups - 1
      BY <1>1, <2>2
    <3> QED BY <1>1, <2>2, <2>5, <3>1 DEF LogInv, Packed
  <2>8. LogInv'
    BY <1>1, <1>7, <1>10, <2>1, <2>2, <2>4, <2>7 DEF LogInv, Rolling, IsAt
  <2>9. \A i \in 0 .. Backups : Len(segment'[i]) <= Segment
    BY <1>1, <2>2
  <2>10. CASE segment[Backups] = <<>>
    <3>1. segment' = segment
      BY <1>1, <2>1, <2>10 DEF Logs
    <3>2. UNCHANGED Register!vars
      BY <1>1, <1>2, <1>3, <2>1, <3>1 DEF Register!vars
    <3> QED BY <1>1, <2>1, <2>3, <2>8, <2>9, <3>2
  <2>11. CASE segment[Backups] # <<>>
    <3>1. PICK a \in Seq(Workers), b \in Seq(Workers) :
             a = segment[Backups] /\ b = FlattenSeq(Places(segment'))
      BY <1>1, <2>3, LogIsSequence
    <3>2. PICK n \in Nat : n = Len(a) /\ n # 0
      BY <2>11, <3>1
    <3>3. LogLines = a \o b /\ LogLines' = b
      BY <1>2, <2>3, <3>1
    <3>4. b = SubSeq(a \o b, n + 1, Len(a \o b)) /\ n \in 1 .. Len(a \o b)
      <4>1. Len(a \o b) = Len(a) + Len(b)
        BY ConcatProperties
      <4> QED BY <3>2, <4>1, RestOfJoin
    <3>5. torn \/ Len(b) >= Backups * Segment
      <4> SUFFICES ASSUME ~torn PROVE Len(b) >= Backups * Segment
        OBVIOUS
      <4>1. \A i \in 0 .. Backups - 1 : Len(segment'[i]) = Segment
        BY <1>1, <2>2, <2>6, <2>11
      <4>2. Len(b) = Backups * Segment
        BY <2>2, <2>3, <3>1, <4>1, FullSegmentsKeep
      <4>3. Len(b) \in Nat
        OBVIOUS
      <4> QED BY <4>2, <4>3
    <3>6. Register!DropOldest
      BY <1>1, <1>3, <2>1, <3>3, <3>4, <3>5 DEF Register!DropOldest
    <3> QED BY <1>1, <2>1, <2>3, <2>8, <2>9, <3>6 DEF Register!Next
  <2> QED BY <2>10, <2>11
<1>12. CASE ShiftSegment(w)
  <2>i. PICK i \in 1 .. Backups - 1 : i = job[w].at
    BY <1>1, <1>12 DEF LogInv, ShiftSegment, IsAt
  <2>1. /\ job[w].pc = "shift" /\ i = job[w].at /\ UNCHANGED <<disk, got, torn>>
        /\ segment' = IF segment[i] = <<>> THEN segment
                      ELSE [segment EXCEPT ![i + 1] = segment[i], ![i] = <<>>]
        /\ job' = [job EXCEPT ![w] = [job[w] EXCEPT !.at = i - 1, !.pc = IF i = 1 THEN "roll" ELSE "shift"]]
    BY <1>12, <2>i DEF ShiftSegment, Log, Go, IsAt
  <2>2. i \in 1 .. Backups - 1 /\ segment[i + 1] = <<>> /\ Len(segment[0]) = Segment
    BY <1>1, <2>1 DEF LogInv, Rolling, IsAt
  <2>3. /\ segment' \in Logs
        /\ FlattenSeq(Places(segment')) = FlattenSeq(Places(segment))
    <3>1. i \in 0 .. Backups - 1
      BY <1>1
    <3> QED BY <1>1, <2>1, <2>2, <3>1, RenamingIsSilent
  <2>4. /\ segment'[i + 1] = segment[i] /\ segment'[i] = <<>>
        /\ \A k \in 0 .. Backups : k # i /\ k # i + 1 => segment'[k] = segment[k]
    BY <1>1, <2>1, <2>2 DEF Logs
  <2>5. /\ job'[w] \in LogRequest /\ job'[w].at = i - 1
        /\ job'[w].pc = IF i = 1 THEN "roll" ELSE "shift"
    <3>1. job[w] \in [pc : {"drop", "shift", "roll", "append"}, at : 0 .. Backups - 1]
      BY <1>7, <2>1 DEF LogRequest, Rolling
    <3>2. job'[w] = [job[w] EXCEPT !.at = i - 1, !.pc = IF i = 1 THEN "roll" ELSE "shift"]
      BY <1>7, <2>1
    <3>3. i - 1 \in 0 .. Backups - 1
      BY <1>1
    <3>4. /\ job'[w] \in [pc : {"drop", "shift", "roll", "append"}, at : 0 .. Backups - 1]
          /\ job'[w].at = i - 1 /\ job'[w].pc = IF i = 1 THEN "roll" ELSE "shift"
      BY <3>1, <3>2, <3>3
    <3> QED BY <3>4 DEF LogRequest, Rolling
  <2>6. \A k \in 1 .. Backups : (Hole(k) <=> k = i + 1) /\ (Hole(k)' <=> k = i)
    <3>1. job[w].pc \in {"drop", "shift", "roll", "append"}
      BY <2>1
    <3>2. \A u \in Workers \ {w} : job'[u] = job[u] /\ job[u].pc \notin {"shift", "roll"}
      BY <1>7, <1>10, <2>1, <3>1
    <3>3. (i - 1) + 1 = i
      BY <2>2
    <3> QED BY <2>1, <2>5, <3>2, <3>3 DEF Hole, IsAt
  <2>7. torn \/ Packed'
    <3> SUFFICES ASSUME ~torn, NEW m \in 1 .. Backups, NEW k \in 1 .. Backups, segment'[m] # <<>>, k <= m, k # i
                 PROVE  Len(segment'[k]) = Segment
      BY <2>6 DEF Packed
    <3>1. \A p, q \in 1 .. Backups : segment[p] # <<>> /\ q <= p => q = i + 1 \/ Len(segment[q]) = Segment
      BY <1>1, <2>6 DEF LogInv, Packed
    <3>2. m # i
      BY <2>4
    <3>3. CASE m = i + 1
      <4>1. segment[i] # <<>>
        BY <2>4, <3>3
      <4>2. k = i + 1 => Len(segment[i]) = Segment
        BY <1>1, <2>2, <3>1, <4>1
      <4>3. k # i + 1 => Len(segment[k]) = Segment
        BY <1>1, <2>2, <3>1, <3>3, <4>1
      <4> QED BY <2>4, <4>2, <4>3
    <3>4. CASE m # i + 1
      <4>1. segment[m] # <<>>
        BY <2>4, <3>2, <3>4
      <4>2. k = i + 1 => Len(segment[i]) = Segment
        BY <1>1, <2>2, <3>1, <4>1
      <4>3. k # i + 1 => Len(segment[k]) = Segment
        BY <1>1, <2>2, <3>1, <4>1
      <4> QED BY <2>4, <4>2, <4>3
    <3> QED BY <3>3, <3>4
  <2>8. LogInv'
    <3>1. Len(segment'[0]) = Segment
      BY <1>1, <2>2, <2>4
    <3>2. i = 1 => segment'[1] = <<>>
      BY <2>4
    <3>3. i # 1 => i - 1 \in 1 .. Backups - 1 /\ segment'[(i - 1) + 1] = <<>>
      <4>1. (i - 1) + 1 = i
        BY <2>2
      <4> QED BY <1>1, <2>2, <2>4, <4>1
    <3>4. job' \in [Workers -> LogRequest] /\ \A u \in Workers \ {w} : job'[u] = job[u]
      BY <1>7, <2>1, <2>5
    <3> QED BY <1>1, <1>10, <2>1, <2>5, <2>7, <3>1, <3>2, <3>3, <3>4 DEF LogInv, Rolling, IsAt
  <2>9. \A k \in 0 .. Backups : Len(segment'[k]) <= Segment
    BY <1>1, <2>2, <2>4
  <2>10. UNCHANGED Register!vars
    BY <1>1, <1>2, <1>3, <2>1, <2>3 DEF Register!vars
  <2> QED BY <1>1, <2>1, <2>3, <2>8, <2>9, <2>10
<1>13. CASE RollLog(w)
  <2>1. /\ job[w].pc = "roll" /\ UNCHANGED <<disk, got, torn>>
        /\ segment' = [segment EXCEPT ![1] = segment[0], ![0] = <<>>]
        /\ job' = [job EXCEPT ![w] = [job[w] EXCEPT !.pc = "append"]]
    BY <1>13 DEF RollLog, Log, Go, IsAt
  <2>2. segment[1] = <<>> /\ Len(segment[0]) = Segment
    BY <1>1, <2>1 DEF LogInv, Rolling, IsAt
  <2>3. /\ segment' \in Logs
        /\ FlattenSeq(Places(segment')) = FlattenSeq(Places(segment))
    <3>1. 0 \in 0 .. Backups - 1 /\ 0 + 1 = 1
      BY <1>1
    <3>2. segment[0 + 1] = <<>>
      BY <2>2, <3>1
    <3>3. segment' = [segment EXCEPT ![0 + 1] = segment[0], ![0] = <<>>]
      BY <2>1, <3>1
    <3> QED BY <1>1, <3>1, <3>2, <3>3, RenamingIsSilent
  <2>4. /\ segment'[1] = segment[0] /\ segment'[0] = <<>>
        /\ \A k \in 2 .. Backups : segment'[k] = segment[k]
    BY <1>1, <2>1 DEF Logs
  <2>5. job'[w] \in LogRequest /\ job'[w].pc = "append"
    BY <1>7, <2>1 DEF LogRequest, Rolling
  <2>6. \A k \in 1 .. Backups : Hole(k) <=> k = 1
    BY <1>7, <1>10, <2>1 DEF Hole, IsAt
  <2>7. torn \/ Packed'
    <3> SUFFICES ASSUME ~torn, NEW m \in 1 .. Backups, NEW k \in 1 .. Backups, segment'[m] # <<>>, k <= m
                 PROVE  Len(segment'[k]) = Segment
      BY DEF Packed
    <3>1. CASE k = 1
      BY <2>2, <2>4, <3>1
    <3>2. CASE k # 1
      <4>1. m \in 2 .. Backups /\ k \in 2 .. Backups
        BY <3>2
      <4> QED BY <1>1, <2>4, <2>6, <3>2, <4>1 DEF LogInv, Packed
    <3> QED BY <3>1, <3>2
  <2>8. LogInv'
    BY <1>1, <1>7, <1>10, <2>1, <2>4, <2>5, <2>7 DEF LogInv, Rolling, IsAt
  <2>9. \A k \in 0 .. Backups : Len(segment'[k]) <= Segment
    <3>1. \A k \in 0 .. Backups : k = 0 \/ k = 1 \/ k \in 2 .. Backups
      BY <1>1
    <3> QED BY <1>1, <2>2, <2>4, <3>1
  <2>10. UNCHANGED Register!vars
    BY <1>1, <1>2, <1>3, <2>1, <2>3 DEF Register!vars
  <2> QED BY <1>1, <2>1, <2>3, <2>8, <2>9, <2>10
<1>14. CASE AppendToLog(w)
  <2>1. /\ job[w].pc = "append" /\ UNCHANGED <<disk, got, torn>>
        /\ segment' = [segment EXCEPT ![0] = Append(@, w)]
        /\ job' = [job EXCEPT ![w] = [pc |-> "idle"]]
    BY <1>14 DEF AppendToLog, Log, Done, Idle, IsAt
  <2>2. Len(segment[0]) < Segment
    BY <1>1, <2>1 DEF LogInv, Rolling, IsAt
  <2>3. /\ segment' \in Logs
        /\ FlattenSeq(Places(segment')) = Append(FlattenSeq(Places(segment)), w)
    BY <1>1, <2>1, LineIsLast
  <2>4. /\ segment'[0] = Append(segment[0], w) /\ Len(segment'[0]) = Len(segment[0]) + 1
        /\ \A k \in 1 .. Backups : segment'[k] = segment[k]
    BY <1>1, <2>1 DEF Logs
  <2>5. \A k \in 1 .. Backups : ~Hole(k)
    BY <1>10, <2>1 DEF Hole, IsAt
  <2>6. torn \/ Packed'
    BY <1>1, <2>4, <2>5 DEF LogInv, Packed
  <2>7. LogInv'
    <3>1. /\ job' \in [Workers -> LogRequest]
          /\ \A u \in Workers : job'[u].pc \notin {"drop", "shift", "roll", "append"}
      BY <1>7, <1>10, <2>1 DEF LogRequest, Rolling
    <3> QED BY <2>1, <2>6, <3>1 DEF LogInv, Rolling, IsAt
  <2>8. \A k \in 0 .. Backups : Len(segment'[k]) <= Segment
    BY <1>1, <2>2, <2>4
  <2>9. Register!AppendLine
    BY <1>1, <1>2, <1>3, <2>1, <2>3 DEF Register!AppendLine
  <2> QED BY <1>1, <2>1, <2>3, <2>7, <2>8, <2>9 DEF Register!Next
<1>15. CASE CrashFiles(w)
  <2>1. /\ job' = [job EXCEPT ![w] = [pc |-> "idle"]] /\ got' = [got EXCEPT ![w] = None]
        /\ torn' = (torn \/ job[w].pc \in Pieces) /\ UNCHANGED <<disk, segment>>
    BY <1>15 DEF CrashFiles, Done, Idle, IsAt
  <2>2. got' \in [Workers -> Contents \cup {None}] /\ torn' \in BOOLEAN
    BY <1>1, <2>1
  <2>3. job[w].pc \notin Pieces => \A k \in 1 .. Backups : Hole(k) => Hole(k)'
    BY <1>7, <2>1 DEF Hole, IsAt, Pieces
  <2>4. torn' \/ Packed'
    BY <1>1, <2>1, <2>3 DEF LogInv, Packed
  <2>5. LogInv'
    <3>1. /\ job' \in [Workers -> LogRequest] /\ job'[w].pc = "idle"
          /\ \A u \in Workers \ {w} : job'[u] = job[u]
      BY <1>7, <2>1 DEF LogRequest, Rolling
    <3>2. UNCHANGED segment
      BY <2>1
    <3>3. \A u, v \in Workers :
             job'[u].pc \in Rolling /\ job'[v].pc \in Rolling => u = v
      BY <1>1, <3>1 DEF LogInv, Rolling
    <3>4. \A u \in Workers \ {w} :
             /\ job'[u].pc \in {"drop", "shift", "roll"} => Len(segment'[0]) = Segment
             /\ IsAt(u, "drop")' => job'[u].at = Backups - 1
             /\ IsAt(u, "shift")' => job'[u].at \in 1 .. Backups - 1 /\ segment'[job'[u].at + 1] = <<>>
             /\ IsAt(u, "roll")' => segment'[1] = <<>>
             /\ IsAt(u, "append")' => Len(segment'[0]) < Segment
      BY <1>1, <3>1, <3>2 DEF LogInv, Rolling, IsAt
    <3> QED BY <2>4, <3>1, <3>3, <3>4 DEF LogInv, Rolling, IsAt
  <2>6. Content' = Content /\ LogLines' = LogLines
    BY <1>2, <1>3, <2>1
  <2>7. CASE job[w].pc \in Pieces
    <3>1. Register!Tear(w)
      BY <1>1, <2>1, <2>6, <2>7 DEF Register!Tear
    <3> QED BY <1>1, <2>1, <2>2, <2>5, <3>1 DEF Register!Next
  <2>8. CASE job[w].pc \notin Pieces
    <3>1. Register!Forget(w)
      BY <1>1, <2>1, <2>6, <2>8 DEF Register!Forget
    <3> QED BY <1>1, <2>1, <2>2, <2>5, <3>1 DEF Register!Next
  <2> QED BY <2>7, <2>8
<1> QED BY <1>6, <1>8, <1>9, <1>11, <1>12, <1>13, <1>14, <1>15

LEMMA FilesStart ==
    ASSUME Init
    PROVE  FilesInv /\ Register!Init
<1>1. /\ disk = None /\ got = [w \in Workers |-> None] /\ torn = FALSE
      /\ segment = [i \in 0 .. Backups |-> <<>>] /\ job = [w \in Workers |-> [pc |-> "idle"]]
    BY DEF Init, FilesInit, Idle
<1>2. Backups \in Nat \ {0} /\ Segment \in Nat \ {0} /\ <<>> \in Seq(Workers)
    BY FileAssumption
<1>3. segment \in Logs /\ \A i \in 0 .. Backups : Len(segment[i]) = 0 /\ segment[i] = <<>>
    BY <1>1, <1>2 DEF Logs
<1>4. FilesInv
  <2>1. job \in [Workers -> AtomicRequest] /\ job \in [Workers -> InPlaceRequest] /\ job \in [Workers -> LogRequest]
    BY <1>1 DEF AtomicRequest, InPlaceRequest, LogRequest
  <2>2. InPlaceInv
    BY <1>1, <2>1 DEF InPlaceInv, IsAt
  <2>3. Packed
    BY <1>2, <1>3 DEF Packed
  <2>4. LogInv
    BY <1>1, <2>1, <2>3 DEF LogInv, Rolling, IsAt
  <2> QED BY <1>1, <1>2, <1>3, <2>1, <2>2, <2>4 DEF FilesInv
<1>5. Content = None
    BY <1>1 DEF Content, AsRead, IsAt
<1>6. LogLines = <<>>
  <2>1. FlattenSeq(Places(segment)) = <<>>
    <3> DEFINE n == Backups + 1
    <3>1. \A i \in 2 .. n : Len(Places(segment)[i]) = 0
      <4>1. \A i \in 2 .. n : i \in 1 .. Backups + 1 /\ Backups + 1 - i \in 0 .. Backups
        BY <1>2
      <4> QED BY <1>3, <4>1, PlacesFacts
    <3>2. /\ Places(segment)[1] = <<>> /\ n \in Nat \ {0} /\ Len(Places(segment)) = n
          /\ Consists(Places(segment), n, Workers)
      BY <1>2, <1>3, PlacesFacts
    <3>3. 0 \in Nat /\ (n - 1) * 0 = 0
      BY <3>2
    <3> HIDE DEF n
    <3>4. Len(FlattenSeq(Places(segment))) = 0
      BY <3>1, <3>2, <3>3, FlattenLength
    <3>5. FlattenSeq(Places(segment)) \in Seq(Workers)
      BY <1>3, LogIsSequence
    <3> QED BY <3>4, <3>5
  <2> QED BY <2>1 DEF LogLines, Places
<1>7. Register!Init
    BY <1>1, <1>5, <1>6 DEF Register!Init, IsAt
<1> QED BY <1>4, <1>7

\* Every step keeps the invariant, and is one of the register or none.
LEMMA FilesStep ==
    ASSUME FilesInv, [Next]_vars
    PROVE  FilesInv' /\ [Register!Next]_(Register!vars)
<1>1. CASE UNCHANGED vars
  <2>1. UNCHANGED <<disk, got, segment, torn, scene, job>>
    BY <1>1 DEF vars, fileVars
  <2>2. FilesInv'
    BY <2>1 DEF FilesInv, InPlaceInv, LogInv, Packed, Hole, IsAt, Rolling, AtomicRequest,
       InPlaceRequest, LogRequest
  <2>3. Content' = Content /\ LogLines' = LogLines
    BY <2>1 DEF Content, LogLines, AsRead, IsAt
  <2> QED BY <2>1, <2>2, <2>3 DEF Register!vars, IsAt
<1>2. CASE UNCHANGED <<fileVars, scene>> /\ scene \notin {"atomic", "inplace", "log"}
  <2>1. UNCHANGED <<disk, got, segment, torn, scene>>
    BY <1>2 DEF fileVars
  <2>2. FilesInv'
    BY <1>2, <2>1 DEF FilesInv
  <2>3. Content' = Content /\ LogLines' = LogLines
    BY <1>2, <2>1 DEF Content, LogLines, AsRead
  <2> QED BY <1>2, <2>1, <2>2, <2>3 DEF Register!vars
<1>3. CASE UNCHANGED scene /\ scene \in {"atomic", "inplace", "log"} /\ FilesNext
  BY <1>3, AtomicStep, InPlaceStep, LogStep
<1> QED BY <1>1, <1>2, <1>3 DEF Next

LEMMA FilesKept == Spec => []FilesInv
<1>1. FilesInv /\ [Next]_vars => FilesInv'
    BY FilesStep
<1> QED BY <1>1, FilesStart, PTL DEF Spec

\* The files implement the register (LocalFilesystemManager's read_bytes,
\* _write_atomic, _write_inplace_locked and append_with_rotation; the register
\* is what the in-memory manager of the tests gives), for any number of
\* processes, backups and lines, wherever processes die.
THEOREM FilesAreRegister == Spec => FileIsRegister
<1>1. FilesInv /\ [Next]_vars => [Register!Next]_(Register!vars)
    BY FilesStep
<1> QED BY <1>1, FilesKept, FilesStart, PTL DEF Spec, FileIsRegister, Register!Spec

-----------------------------------------------------------------------------
(***************************************************************************)
(* The data exchange.  An import has written, in its session, the rows of  *)
(* the table it is at that it has been through, the last one apart, and    *)
(* nothing of the other tables that an exception rolls back.  An export    *)
(* has sent the rows up to the last key, those that lasted among them.     *)
(***************************************************************************)
ImportRequest ==
         [pc : {"idle", "over"}]
    \cup [pc : {"entity"}, left : SUBSET Entities, replace : BOOLEAN, dry : BOOLEAN]
    \cup [pc : {"rows"}, left : SUBSET Entities, entity : Entities, file : [Keys -> Lines],
          replace : BOOLEAN, dry : BOOLEAN, todo : SUBSET Keys,
          unsent : SUBSET [key : Keys, exists : BOOLEAN], errors : SUBSET Keys]

Unsent(k) == \E u \in request.unsent : u.key = k

\* A table of which the session holds nothing.
Clean(e) == \A k \in Keys : session[e][k] = "keep"

\* The rows of the file, those it has been through, and those it will report.
RowsAreRight ==
    LET e == request.entity IN
    /\ \A k \in request.todo : request.file[k] # "none" /\ k \notin request.errors
    /\ \A k \in request.errors : request.file[k] # "none"
    /\ \A u, v \in request.unsent : u = v
    /\ e \in RolledBack /\ ~request.dry =>
         \A k \in Keys :
            IF request.file[k] # "none" /\ k \notin request.todo \cup request.errors
            THEN session[e][k] = "new" \/ Unsent(k)
            ELSE /\ ~Unsent(k)
                 /\ session[e][k] = "keep" \/ (request.replace /\ session[e][k] = None)

ImportInv ==
    /\ table \in [Entities -> [Keys -> {"old", "new", None}]]
    /\ session \in [Entities -> [Keys -> {"keep", "new", None}]]
    /\ broken \in BOOLEAN
    /\ scene = "import" =>
         /\ request \in ImportRequest
         /\ \A e \in Entities \cap RolledBack :
               (request.pc = "rows" /\ request.entity = e) \/ Clean(e)
         /\ request.pc = "rows" => RowsAreRight

LEMMA NothingIsClean ==
    /\ Nothing \in [Entities -> [Keys -> {"keep", "new", None}]]
    /\ \A e \in Entities, k \in Keys : Nothing[e][k] = "keep"
BY DEF Nothing

\* What has been sent of a table: the row that waited is new.
LEMMA SentFacts ==
    ASSUME session \in [Entities -> [Keys -> {"keep", "new", None}]], request.entity \in Entities
    PROVE  /\ Sent \in [Entities -> [Keys -> {"keep", "new", None}]]
           /\ \A e \in Entities \ {request.entity} : Sent[e] = session[e]
           /\ \A k \in Keys : Sent[request.entity][k] =
                                 IF Unsent(k) THEN "new" ELSE session[request.entity][k]
<1> DEFINE row == [k \in Keys |-> IF \E u \in request.unsent : u.key = k THEN "new"
                                  ELSE session[request.entity][k]]
<1>1. row \in [Keys -> {"keep", "new", None}]
    OBVIOUS
<1>2. Sent = [session EXCEPT ![request.entity] = row]
    BY DEF Sent
<1> QED BY <1>1, <1>2 DEF Unsent

\* The step between two tables.
LEMMA BetweenTables ==
    ASSUME ImportInv, scene = "import", UNCHANGED scene, request.pc = "rows", request' = EndEntity,
           table' \in [Entities -> [Keys -> {"old", "new", None}]],
           session' \in [Entities -> [Keys -> {"keep", "new", None}]], broken' \in BOOLEAN,
           \A e \in Entities \cap RolledBack, k \in Keys : session'[e][k] = "keep"
    PROVE  ImportInv'
<1>1. request \in [pc : {"rows"}, left : SUBSET Entities, entity : Entities, file : [Keys -> Lines],
          replace : BOOLEAN, dry : BOOLEAN, todo : SUBSET Keys,
          unsent : SUBSET [key : Keys, exists : BOOLEAN], errors : SUBSET Keys]
    BY DEF ImportInv, ImportRequest
<1>2. request' \in [pc : {"entity"}, left : SUBSET Entities, replace : BOOLEAN, dry : BOOLEAN]
    BY <1>1 DEF EndEntity
<1>3. request' \in ImportRequest /\ request'.pc # "rows"
    BY <1>2 DEF ImportRequest
<1> QED BY <1>3 DEF ImportInv, Clean

LEMMA RowsRequest ==
    ASSUME ImportInv, scene = "import", request.pc = "rows"
    PROVE  request \in [pc : {"rows"}, left : SUBSET Entities, entity : Entities,
              file : [Keys -> Lines], replace : BOOLEAN, dry : BOOLEAN, todo : SUBSET Keys,
              unsent : SUBSET [key : Keys, exists : BOOLEAN], errors : SUBSET Keys]
BY DEF ImportInv, ImportRequest

LEMMA BeginEntityKeeps ==
    ASSUME ImportInv, scene = "import", NEW e \in Entities, BeginEntity(e)
    PROVE  ImportInv'
<1>1. PICK file \in [Keys -> Lines] :
         request' = [pc |-> "rows", left |-> request.left \ {e}, entity |-> e, file |-> file,
                     replace |-> request.replace, dry |-> request.dry,
                     todo |-> {k \in Keys : file[k] # "none"}, unsent |-> {}, errors |-> {}]
    BY DEF BeginEntity
<1>2. request \in [pc : {"entity"}, left : SUBSET Entities, replace : BOOLEAN, dry : BOOLEAN]
    BY DEF BeginEntity, ImportInv, ImportRequest
<1>3. request' \in ImportRequest /\ request'.pc = "rows" /\ request'.entity = e
      /\ request'.unsent = {} /\ request'.errors = {} /\ request'.todo = {k \in Keys : file[k] # "none"}
      /\ request'.file = file /\ request'.replace = request.replace
    <2>1. request' \in [pc : {"rows"}, left : SUBSET Entities, entity : Entities,
              file : [Keys -> Lines], replace : BOOLEAN, dry : BOOLEAN, todo : SUBSET Keys,
              unsent : SUBSET [key : Keys, exists : BOOLEAN], errors : SUBSET Keys]
      BY <1>1, <1>2
    <2> QED BY <1>1, <2>1 DEF ImportRequest
<1>4. /\ \A d \in Entities \cap RolledBack, k \in Keys : session[d][k] = "keep"
      /\ session \in [Entities -> [Keys -> {"keep", "new", None}]]
    BY <1>2 DEF ImportInv, Clean
<1>5. /\ session' \in [Entities -> [Keys -> {"keep", "new", None}]]
      /\ \A d \in Entities \ {e} : session'[d] = session[d]
      /\ e \in RolledBack => \A k \in Keys :
            session'[e][k] = "keep" \/ (request.replace /\ session'[e][k] = None)
  <2>1. CASE e = "catalog" /\ request.replace /\ ~request.dry /\ ~broken
    <3> DEFINE row == [k \in Keys |-> IF View(e, k) = None THEN session[e][k] ELSE None]
    <3>1. session' = [session EXCEPT ![e] = row]
      BY <2>1 DEF BeginEntity
    <3>2. row \in [Keys -> {"keep", "new", None}]
      BY <1>4
    <3>3. e \in RolledBack => \A k \in Keys : row[k] \in {"keep", None}
      BY <1>4
    <3> HIDE DEF row
    <3> QED BY <1>4, <2>1, <3>1, <3>2, <3>3
  <2>2. CASE ~(e = "catalog" /\ request.replace /\ ~request.dry /\ ~broken)
    <3>1. session' = session
      BY <2>2 DEF BeginEntity
    <3> QED BY <1>4, <3>1
  <2> QED BY <2>1, <2>2
<1>6. RowsAreRight'
    BY <1>3, <1>5 DEF RowsAreRight, Unsent
<1>7. UNCHANGED <<scene, table, broken>>
    BY DEF BeginEntity, Importing, On
<1>8. \A d \in Entities \cap RolledBack : request'.entity = d \/ Clean(d)'
    BY <1>3, <1>4, <1>5 DEF Clean
<1> QED BY <1>3, <1>5, <1>6, <1>7, <1>8 DEF ImportInv

LEMMA ApplyTemplateKeeps ==
    ASSUME ImportInv, scene = "import", NEW k \in Keys, ApplyTemplate(k)
    PROVE  ImportInv'
<1>1. request.pc = "rows" /\ k \in request.todo /\ request.entity = "templates"
      /\ request' = [request EXCEPT !.todo = @ \ {k}] /\ UNCHANGED <<scene, session, broken>>
    BY DEF ApplyTemplate, Importing, On
<1>2. request \in [pc : {"rows"}, left : SUBSET Entities, entity : Entities,
              file : [Keys -> Lines], replace : BOOLEAN, dry : BOOLEAN, todo : SUBSET Keys,
              unsent : SUBSET [key : Keys, exists : BOOLEAN], errors : SUBSET Keys]
    BY <1>1, RowsRequest
<1>3. /\ request' \in [pc : {"rows"}, left : SUBSET Entities, entity : Entities,
              file : [Keys -> Lines], replace : BOOLEAN, dry : BOOLEAN, todo : SUBSET Keys,
              unsent : SUBSET [key : Keys, exists : BOOLEAN], errors : SUBSET Keys]
      /\ request'.pc = "rows" /\ request'.entity = "templates" /\ request'.todo \subseteq request.todo
      /\ request'.file = request.file /\ request'.errors = request.errors
      /\ request'.unsent = request.unsent
    BY <1>1, <1>2
<1>4. table' \in [Entities -> [Keys -> {"old", "new", None}]]
    BY <1>1, <1>2 DEF ApplyTemplate, ImportInv
<1>5. RowsAreRight'
    BY <1>1, <1>3 DEF ImportInv, RowsAreRight, RolledBack
<1>6. \A e \in Entities \cap RolledBack : Clean(e)'
    BY <1>1 DEF ImportInv, Clean, RolledBack
<1>7. request' \in ImportRequest
    BY <1>3 DEF ImportRequest
<1> QED BY <1>1, <1>4, <1>5, <1>6, <1>7 DEF ImportInv

LEMMA ApplyRowKeeps ==
    ASSUME ImportInv, scene = "import", NEW k \in Keys, ApplyRow(k)
    PROVE  ImportInv'
<1> DEFINE e == request.entity
<1>1. request.pc = "rows" /\ k \in request.todo /\ UNCHANGED <<scene, table, broken>>
    BY DEF ApplyRow, Importing, On
<1>2. request \in [pc : {"rows"}, left : SUBSET Entities, entity : Entities,
              file : [Keys -> Lines], replace : BOOLEAN, dry : BOOLEAN, todo : SUBSET Keys,
              unsent : SUBSET [key : Keys, exists : BOOLEAN], errors : SUBSET Keys]
    BY <1>1, RowsRequest
<1>3. RowsAreRight /\ session \in [Entities -> [Keys -> {"keep", "new", None}]]
    BY <1>1 DEF ImportInv
<1>4. PICK exists \in BOOLEAN : exists = (View(e, k) # None)
    OBVIOUS
<1>5. PICK writes \in BOOLEAN : writes = (~(e = "users" /\ ~exists) /\ ~(e = "catalog" /\ request.dry))
    OBVIOUS
<1>6. PICK atOnce \in BOOLEAN : atOnce = (e = "countries" /\ exists)
    OBVIOUS
<1>7. PICK unsent \in SUBSET [key : Keys, exists : BOOLEAN] :
         unsent = IF writes /\ ~atOnce THEN {[key |-> k, exists |-> exists]} ELSE {}
  <2>1. [key |-> k, exists |-> exists] \in [key : Keys, exists : BOOLEAN]
    OBVIOUS
  <2>2. CASE writes /\ ~atOnce
    BY <2>1, <2>2
  <2>3. CASE ~(writes /\ ~atOnce)
    BY <2>3
  <2> QED BY <2>2, <2>3
<1>8. PICK errors \in SUBSET Keys :
         errors = IF e = "users" /\ ~exists THEN request.errors \cup {k} ELSE request.errors
    BY <1>2
<1>9. /\ session' = IF atOnce THEN [Sent EXCEPT ![e][k] = "new"] ELSE Sent
      /\ request' = [request EXCEPT !.todo = @ \ {k}, !.unsent = unsent, !.errors = errors]
  <2>1. /\ session' = IF atOnce THEN [Sent EXCEPT ![e][k] = "new"] ELSE Sent
        /\ request' = [request EXCEPT
                     !.todo = @ \ {k},
                     !.unsent = IF writes /\ ~atOnce THEN {[key |-> k, exists |-> exists]} ELSE {},
                     !.errors = IF e = "users" /\ ~exists THEN @ \cup {k} ELSE @]
    BY <1>4, <1>5, <1>6 DEF ApplyRow
  <2>2. request' = [request EXCEPT !.todo = request.todo \ {k},
                     !.unsent = IF writes /\ ~atOnce THEN {[key |-> k, exists |-> exists]} ELSE {},
                     !.errors = IF e = "users" /\ ~exists THEN request.errors \cup {k}
                                ELSE request.errors]
    BY <1>2, <2>1
  <2> QED BY <1>7, <1>8, <2>1, <2>2
<1>10. /\ request' \in [pc : {"rows"}, left : SUBSET Entities, entity : Entities,
              file : [Keys -> Lines], replace : BOOLEAN, dry : BOOLEAN, todo : SUBSET Keys,
              unsent : SUBSET [key : Keys, exists : BOOLEAN], errors : SUBSET Keys]
       /\ request'.pc = "rows" /\ request'.entity = e /\ request'.todo = request.todo \ {k}
       /\ request'.file = request.file /\ request'.errors = errors /\ request'.unsent = unsent
       /\ request'.dry = request.dry /\ request'.replace = request.replace
    BY <1>2, <1>9
<1>11. /\ Sent \in [Entities -> [Keys -> {"keep", "new", None}]]
       /\ \A d \in Entities \ {e} : Sent[d] = session[d]
       /\ \A q \in Keys : Sent[e][q] = IF Unsent(q) THEN "new" ELSE session[e][q]
    BY <1>2, <1>3, SentFacts
<1>12. /\ session' \in [Entities -> [Keys -> {"keep", "new", None}]]
       /\ \A d \in Entities \ {e} : session'[d] = session[d]
       /\ e \in RolledBack =>
            \A q \in Keys : session'[e][q] = IF Unsent(q) THEN "new" ELSE session[e][q]
  <2>1. CASE atOnce
    <3>1. e = "countries" /\ session' = [Sent EXCEPT ![e][k] = "new"]
      BY <1>6, <1>9, <2>1
    <3>2. /\ session' \in [Entities -> [Keys -> {"keep", "new", None}]]
          /\ \A d \in Entities \ {e} : session'[d] = Sent[d]
      BY <1>2, <1>11, <3>1
    <3> QED BY <1>11, <3>1, <3>2 DEF RolledBack
  <2>2. CASE ~atOnce
    BY <1>9, <1>11, <2>2
  <2> QED BY <2>1, <2>2
<1>13. \A d \in Entities \cap RolledBack : request'.entity = d \/ Clean(d)'
    BY <1>1, <1>10, <1>12 DEF ImportInv, Clean
<1>14. \A q \in Keys : Unsent(q)' <=> writes /\ ~atOnce /\ q = k
  <2>1. CASE writes /\ ~atOnce
    <3>1. request'.unsent = {[key |-> k, exists |-> exists]}
      BY <1>7, <1>10, <2>1
    <3> QED BY <2>1, <3>1 DEF Unsent
  <2>2. CASE ~(writes /\ ~atOnce)
    BY <1>7, <1>10, <2>2 DEF Unsent
  <2> QED BY <2>1, <2>2
<1>15. RowsAreRight'
  <2>1. \A q \in request'.todo : request'.file[q] # "none" /\ q \notin request'.errors
    BY <1>3, <1>8, <1>10 DEF RowsAreRight
  <2>2. \A q \in request'.errors : request'.file[q] # "none"
    BY <1>1, <1>3, <1>8, <1>10 DEF RowsAreRight
  <2>3. \A u, v \in request'.unsent : u = v
    BY <1>7, <1>10
  <2>4. ASSUME e \in RolledBack, ~request.dry, NEW q \in Keys
        PROVE  IF request.file[q] # "none" /\ q \notin (request.todo \ {k}) \cup errors
               THEN session'[e][q] = "new" \/ Unsent(q)'
               ELSE /\ ~Unsent(q)'
                    /\ session'[e][q] = "keep" \/ (request.replace /\ session'[e][q] = None)
    <3>1. /\ ~atOnce
          /\ IF request.file[q] # "none" /\ q \notin request.todo \cup request.errors
             THEN session[e][q] = "new" \/ Unsent(q)
             ELSE /\ ~Unsent(q)
                  /\ session[e][q] = "keep" \/ (request.replace /\ session[e][q] = None)
      BY <1>3, <1>6, <2>4 DEF RowsAreRight, RolledBack
    <3>2. session'[e][q] = IF Unsent(q) THEN "new" ELSE session[e][q]
      BY <1>12, <2>4
    <3>3. CASE q = k
      <4>1. request.file[k] # "none" /\ k \notin request.errors
        BY <1>1, <1>3 DEF RowsAreRight
      <4>2. k \in errors <=> ~writes
        BY <1>5, <1>8, <2>4, <4>1
      <4> QED BY <1>1, <1>14, <3>1, <3>2, <3>3, <4>1, <4>2
    <3>4. CASE q # k
      <4>1. q \in (request.todo \ {k}) \cup errors <=> q \in request.todo \cup request.errors
        BY <1>8, <3>4
      <4> QED BY <1>14, <3>1, <3>2, <3>4, <4>1
    <3> QED BY <3>3, <3>4
  <2> QED BY <1>10, <2>1, <2>2, <2>3, <2>4 DEF RowsAreRight
<1>16. request' \in ImportRequest
    BY <1>10 DEF ImportRequest
<1>17. UNCHANGED <<scene, table, broken>> /\ request'.pc = "rows"
    BY <1>1, <1>10
<1> QED BY <1>12, <1>13, <1>15, <1>16, <1>17 DEF ImportInv

LEMMA FailEntityKeeps ==
    ASSUME ImportInv, scene = "import", NEW k \in Keys, FailEntity(k)
    PROVE  ImportInv'
<1>1. request.pc = "rows" /\ request' = EndEntity /\ UNCHANGED <<scene, table>> /\ broken' \in BOOLEAN
    BY DEF FailEntity, RowFails, Importing, On
<1>2. request.entity \in Entities
    BY <1>1, RowsRequest
<1>3. /\ session' \in [Entities -> [Keys -> {"keep", "new", None}]]
      /\ \A e \in Entities \cap RolledBack, q \in Keys : session'[e][q] = "keep"
  <2>1. CASE session' = Nothing
    BY <2>1, NothingIsClean
  <2>2. CASE session' # Nothing
    <3>1. session' = Sent /\ request.entity \notin RolledBack
      BY <2>2 DEF FailEntity
    <3>2. /\ Sent \in [Entities -> [Keys -> {"keep", "new", None}]]
          /\ \A e \in Entities \ {request.entity} : Sent[e] = session[e]
      BY <1>2, SentFacts DEF ImportInv
    <3>3. \A e \in Entities \cap RolledBack, q \in Keys : session[e][q] = "keep"
      BY <1>1, <3>1 DEF ImportInv, Clean
    <3> QED BY <3>1, <3>2, <3>3
  <2> QED BY <2>1, <2>2
<1>4. table' \in [Entities -> [Keys -> {"old", "new", None}]]
    BY <1>1 DEF ImportInv
<1> QED BY <1>1, <1>3, <1>4, BetweenTables

LEMMA CommitEntityKeeps ==
    ASSUME ImportInv, scene = "import", CommitEntity
    PROVE  ImportInv'
<1>1. request.pc = "rows" /\ request' = EndEntity /\ session' = Nothing /\ UNCHANGED scene
    BY DEF CommitEntity, Importing, On
<1>2. broken' \in BOOLEAN
    BY DEF CommitEntity, ImportInv
<1>3. /\ Sent \in [Entities -> [Keys -> {"keep", "new", None}]]
      /\ table \in [Entities -> [Keys -> {"old", "new", None}]]
    BY <1>1, RowsRequest, SentFacts DEF ImportInv
<1>4. table' \in [Entities -> [Keys -> {"old", "new", None}]]
  <2> HIDE DEF Sent
  <2>1. CASE table' = table
    BY <1>3, <2>1
  <2>2. CASE table' # table
    <3>1. table' = [e \in Entities |-> [q \in Keys |->
                      IF Sent[e][q] = "keep" THEN table[e][q] ELSE Sent[e][q]]]
      BY <2>2 DEF CommitEntity
    <3>2. ASSUME NEW e \in Entities, NEW q \in Keys
          PROVE  (IF Sent[e][q] = "keep" THEN table[e][q] ELSE Sent[e][q]) \in {"old", "new", None}
      BY <1>3, <3>2
    <3> QED BY <3>1, <3>2
  <2> QED BY <2>1, <2>2
<1> QED BY <1>1, <1>2, <1>4, NothingIsClean, BetweenTables

LEMMA OtherImportSteps ==
    ASSUME ImportInv, scene = "import", UNCHANGED scene,
           \/ BeginImport \/ EndTemplates \/ EndImport
           \/ \E e \in Entities : SkipEntity(e)
           \/ \E k \in Keys : EditRow(k)
    PROVE  ImportInv'
<1>1. CASE BeginImport
  <2>1. request'.pc = "entity" /\ request' \in ImportRequest
    BY <1>1 DEF BeginImport, ImportRequest
  <2> QED BY <1>1, <2>1 DEF BeginImport, ImportInv, Clean
<1>2. CASE EndTemplates
  <2>1. \A e \in Entities \cap RolledBack, k \in Keys : session'[e][k] = "keep"
    BY <1>2 DEF EndTemplates, ImportInv, Clean, RolledBack
  <2> QED BY <1>2, <2>1, BetweenTables DEF EndTemplates, ImportInv
<1>3. CASE EndImport
  <2>1. request'.pc = "over" /\ request' \in ImportRequest
    BY <1>3 DEF EndImport, ImportRequest
  <2> QED BY <1>3, <2>1, NothingIsClean DEF EndImport, ImportInv, Clean
<1>4. ASSUME NEW e \in Entities, SkipEntity(e) PROVE ImportInv'
  <2>1. request \in [pc : {"entity"}, left : SUBSET Entities, replace : BOOLEAN, dry : BOOLEAN]
    BY <1>4 DEF SkipEntity, ImportInv, ImportRequest
  <2>2. request' \in [pc : {"entity"}, left : SUBSET Entities, replace : BOOLEAN, dry : BOOLEAN]
    BY <1>4, <2>1 DEF SkipEntity
  <2> QED BY <1>4, <2>1, <2>2 DEF SkipEntity, ImportInv, ImportRequest, Clean
<1>5. ASSUME NEW k \in Keys, EditRow(k) PROVE ImportInv'
  <2>1. UNCHANGED <<session, broken, request>> /\ request.entity \in Entities
    BY <1>5, RowsRequest DEF EditRow
  <2>2. table' \in [Entities -> [Keys -> {"old", "new", None}]]
    BY <1>5, <2>1 DEF EditRow, ImportInv
  <2> QED BY <2>1, <2>2 DEF ImportInv, Clean, RowsAreRight, Unsent
<1> QED BY <1>1, <1>2, <1>3, <1>4, <1>5

\* A table is committed as a whole.
LEMMA CommitIsWhole ==
    ASSUME ImportInv, scene = "import", CommitEntity, NEW e \in Entities \cap RolledBack,
           table'[e] # table[e]
    PROVE  /\ request.entity = e /\ ~request.dry
           /\ \A k \in Keys :
                 IF request.file[k] # "none" /\ k \notin request.errors THEN table'[e][k] = "new"
                 ELSE table'[e][k] = table[e][k] \/ (request.replace /\ table'[e][k] = None)
<1>1. request.pc = "rows" /\ request.todo = {} /\ request.entity \in Entities
    BY RowsRequest DEF CommitEntity
<1>2. /\ session \in [Entities -> [Keys -> {"keep", "new", None}]]
      /\ table \in [Entities -> [Keys -> {"old", "new", None}]] /\ RowsAreRight
    BY <1>1 DEF ImportInv
<1>3. /\ \A d \in Entities \ {request.entity} : Sent[d] = session[d]
      /\ \A k \in Keys : Sent[request.entity][k] =
                             IF Unsent(k) THEN "new" ELSE session[request.entity][k]
    BY <1>1, <1>2, SentFacts
<1>4. ~request.dry /\ table' = [d \in Entities |-> [k \in Keys |->
                        IF Sent[d][k] = "keep" THEN table[d][k] ELSE Sent[d][k]]]
    BY DEF CommitEntity
<1>5. \A k \in Keys : table'[e][k] = IF Sent[e][k] = "keep" THEN table[e][k] ELSE Sent[e][k]
    BY <1>4
<1>6. request.entity = e
  <2> SUFFICES ASSUME request.entity # e PROVE FALSE
    OBVIOUS
  <2>1. \A k \in Keys : Sent[e][k] = "keep"
    BY <1>3 DEF ImportInv, Clean
  <2>2. table'[e] = [k \in Keys |-> IF Sent[e][k] = "keep" THEN table[e][k] ELSE Sent[e][k]]
    BY <1>4
  <2>3. table[e] \in [Keys -> {"old", "new", None}]
    BY <1>2
  <2> QED BY <2>1, <2>2, <2>3
<1>7. ASSUME NEW k \in Keys
      PROVE  IF request.file[k] # "none" /\ k \notin request.errors THEN table'[e][k] = "new"
             ELSE table'[e][k] = table[e][k] \/ (request.replace /\ table'[e][k] = None)
  <2>1. IF request.file[k] # "none" /\ k \notin request.todo \cup request.errors
        THEN session[e][k] = "new" \/ Unsent(k)
        ELSE /\ ~Unsent(k)
             /\ session[e][k] = "keep" \/ (request.replace /\ session[e][k] = None)
    BY <1>2, <1>4, <1>6 DEF RowsAreRight
  <2>2. Sent[e][k] = IF Unsent(k) THEN "new" ELSE session[e][k]
    BY <1>3, <1>6
  <2> QED BY <1>1, <1>5, <2>1, <2>2
<1> QED BY <1>4, <1>6, <1>7

LEMMA ImportStep ==
    ASSUME ImportInv, scene = "import", UNCHANGED scene, ExchangeNext
    PROVE  ImportInv' /\ ImportAllOrNothing
<1>1. ASSUME UNCHANGED table \/ request' = request PROVE ImportAllOrNothing
    BY <1>1 DEF ImportAllOrNothing
<1>2. ASSUME NEW e \in Entities, BeginEntity(e) PROVE ImportInv' /\ ImportAllOrNothing
    BY <1>1, <1>2, BeginEntityKeeps DEF BeginEntity
<1>3. ASSUME NEW k \in Keys, ApplyTemplate(k) PROVE ImportInv' /\ ImportAllOrNothing
  <2>1. \A e \in Entities \cap RolledBack : table'[e] = table[e]
    BY <1>3 DEF ApplyTemplate, RolledBack, ImportInv
  <2> QED BY <1>3, <2>1, ApplyTemplateKeeps DEF ImportAllOrNothing
<1>4. ASSUME NEW k \in Keys, ApplyRow(k) PROVE ImportInv' /\ ImportAllOrNothing
    BY <1>1, <1>4, ApplyRowKeeps DEF ApplyRow
<1>5. ASSUME NEW k \in Keys, FailEntity(k) PROVE ImportInv' /\ ImportAllOrNothing
    BY <1>1, <1>5, FailEntityKeeps DEF FailEntity
<1>6. CASE CommitEntity
    BY <1>6, CommitEntityKeeps, CommitIsWhole DEF ImportAllOrNothing
<1>7. CASE \/ BeginImport \/ EndTemplates \/ EndImport
           \/ \E e \in Entities : SkipEntity(e)
           \/ \E k \in Keys : EditRow(k)
    BY <1>1, <1>7, OtherImportSteps DEF BeginImport, EndTemplates, EndImport, SkipEntity, EditRow
<1>8. ~Exporting
    BY DEF Exporting, On
<1> QED BY <1>2, <1>3, <1>4, <1>5, <1>6, <1>7, <1>8
    DEF ExchangeNext, BeginExport, NextPage, InsertRow, DropRow

-----------------------------------------------------------------------------
Ascends(s) == \A i, j \in 1 .. Len(s) : i < j => s[i] < s[j]

ExportRequest ==
         [pc : {"idle", "refused"}]
    \cup [pc : {"done"}, sent : Seq(Ids)]
    \cup [pc : {"page"}, last : Nat, sent : Seq(Ids)]

ExportInv ==
    /\ present \subseteq Ids /\ lasting \subseteq present
    /\ scene = "export" =>
         /\ request \in ExportRequest
         /\ request.pc = "page" =>
              /\ Ascends(request.sent) /\ \A i \in 1 .. Len(request.sent) : request.sent[i] <= request.last
              /\ \A x \in lasting : x <= request.last => x \in Range(request.sent)
         /\ ExportIsComplete

\* A sequence that ascends has no element twice.
LEMMA AscentIsInjective ==
    ASSUME NEW s \in Seq(Ids), Ascends(s)
    PROVE  IsInjective(s)
<1> SUFFICES ASSUME NEW a \in DOMAIN s, NEW b \in DOMAIN s, s[a] = s[b] PROVE a = b
    BY DEF IsInjective
<1>1. a \in 1 .. Len(s) /\ b \in 1 .. Len(s)
    OBVIOUS
<1>2. s[a] \in Ids /\ s[b] \in Ids
    BY <1>1
<1>3. s[a] \in Nat /\ s[b] \in Nat
    BY <1>2, ExchangeAssumption
<1>4. ~(a < b) /\ ~(b < a)
    BY <1>1, <1>3 DEF Ascends
<1> QED BY <1>1, <1>4

\* A page holds the lowest identifiers of a set, and is empty only if that is.
LEMMA PageFacts ==
    ASSUME NEW ids \in SUBSET Ids, NEW page \in Pages(PageSize, ids)
    PROVE  /\ page \in Seq(Ids) /\ Ascends(page) /\ \A i \in 1 .. Len(page) : page[i] \in ids
           /\ \A x \in ids \ Range(page) :
                 Len(page) = PageSize /\ \A i \in 1 .. Len(page) : page[i] < x
<1>1. PICK k \in 0 .. PageSize : page \in [1 .. k -> ids]
    BY DEF Pages
<1>2. k \in Nat
    BY ExchangeAssumption
<1>3. page \in Seq(ids) /\ Len(page) = k /\ DOMAIN page = 1 .. Len(page)
    BY <1>1, <1>2
<1> QED BY <1>3 DEF Pages, Ascends

LEMMA NextPageKeeps ==
    ASSUME ExportInv, scene = "export", NextPage
    PROVE  ExportInv'
<1> DEFINE ids == {i \in present : i > request.last}
<1>1. /\ request.pc = "page" /\ UNCHANGED <<scene, present, lasting>>
      /\ \E page \in Pages(PageSize, ids) : Emit(page)
    BY DEF NextPage, Exporting, On
<1>2. PICK page \in Pages(PageSize, ids) : Emit(page)
    BY <1>1
<1>3. request \in [pc : {"page"}, last : Nat, sent : Seq(Ids)]
    BY <1>1 DEF ExportInv, ExportRequest
<1>4. ids \in SUBSET Ids /\ \A x \in ids : x \in Nat /\ x > request.last
    BY ExchangeAssumption DEF ExportInv
<1> HIDE DEF ids
<1>5. /\ page \in Seq(Ids) /\ Ascends(page) /\ \A i \in 1 .. Len(page) : page[i] \in ids
      /\ \A x \in ids \ Range(page) :
            Len(page) = PageSize /\ \A i \in 1 .. Len(page) : page[i] < x
    BY <1>2, <1>4, PageFacts
<1>6. PICK s \in Seq(Ids), last \in Nat : s = request.sent /\ last = request.last
    BY <1>3
<1>7. /\ Ascends(s) /\ \A i \in 1 .. Len(s) : s[i] <= last
      /\ \A x \in lasting : x <= last => x \in Range(s)
    BY <1>1, <1>6 DEF ExportInv
<1>8. \A x \in lasting : x \in Nat /\ (x > last => x \in ids)
    BY <1>6, ExchangeAssumption DEF ExportInv, ids
<1>9. CASE page = <<>>
  <2>1. request' = [pc |-> "done", sent |-> s]
    BY <1>2, <1>6, <1>9 DEF Emit
  <2>2. \A x \in ids : FALSE
    <3> SUFFICES ASSUME NEW x \in ids PROVE FALSE
      OBVIOUS
    <3>1. Len(page) = 0 /\ Range(page) = {}
      BY <1>9, EmptySeq DEF Range
    <3>2. PageSize # 0
      BY ExchangeAssumption
    <3> QED BY <1>5, <3>1, <3>2
  <2>3. \A x \in lasting : x \in Range(s)
    BY <1>7, <1>8, <2>2
  <2>4. IsInjective(s)
    BY <1>7, AscentIsInjective
  <2>5. request' \in ExportRequest /\ request'.pc = "done" /\ request'.sent = s
    BY <2>1 DEF ExportRequest
  <2> QED BY <1>1, <2>3, <2>4, <2>5 DEF ExportInv, ExportIsComplete
<1>10. CASE page # <<>> /\ Len(s \o page) > RowCap
  <2>1. request' = [pc |-> "refused"]
    BY <1>2, <1>6, <1>10 DEF Emit
  <2>2. request' \in ExportRequest /\ request'.pc = "refused"
    BY <2>1 DEF ExportRequest
  <2> QED BY <1>1, <2>2 DEF ExportInv, ExportIsComplete
<1>11. CASE page # <<>> /\ ~(Len(s \o page) > RowCap)
  <2>1. PICK n \in Nat, k \in Nat : n = Len(s) /\ k = Len(page)
    BY <1>5
  <2>2. k # 0
    BY <1>5, <1>11, <2>1, EmptySeq
  <2>3. PICK top : top = page[k]
    OBVIOUS
  <2>4. k \in 1 .. Len(page) /\ top \in ids /\ top \in Nat /\ Last(page) = top
    BY <1>4, <1>5, <2>1, <2>2, <2>3 DEF Last
  <2>5. PICK z \in Seq(Ids) : z = s \o page
    BY <1>5, ConcatProperties
  <2>6. request' = [pc |-> "page", last |-> top, sent |-> z]
    <3>1. request' = [request EXCEPT !.sent = z, !.last = top]
      BY <1>2, <1>6, <1>11, <2>4, <2>5 DEF Emit
    <3> QED BY <1>3, <3>1
  <2>7. Len(z) = n + k /\ \A i \in 1 .. n + k : z[i] = IF i <= n THEN s[i] ELSE page[i - n]
    BY <1>5, <2>1, <2>5, ConcatProperties
  <2>8. \A i \in 1 .. k : page[i] \in Nat /\ page[i] > last /\ page[i] <= top
    <3> SUFFICES ASSUME NEW i \in 1 .. k PROVE page[i] \in Nat /\ page[i] > last /\ page[i] <= top
      OBVIOUS
    <3>1. page[i] \in Nat /\ page[i] > last
      BY <1>4, <1>5, <1>6, <2>1
    <3>2. CASE i = k
      BY <2>3, <2>4, <3>1, <3>2
    <3>3. CASE i # k
      <4>1. i < k
        BY <3>3
      <4>2. page[i] < page[k]
        BY <1>5, <2>1, <2>4, <4>1 DEF Ascends
      <4> QED BY <2>3, <2>4, <3>1, <4>2
    <3> QED BY <3>2, <3>3
  <2>9. \A i \in 1 .. n : s[i] \in Nat /\ s[i] <= last
    <3>1. \A i \in 1 .. n : s[i] \in Ids
      BY <2>1
    <3> QED BY <1>7, <2>1, <3>1, ExchangeAssumption
  <2>10. \A i \in 1 .. n + k : \/ i \in 1 .. n /\ z[i] = s[i]
                               \/ i - n \in 1 .. k /\ z[i] = page[i - n]
    BY <2>7
  <2>11. last <= top
    BY <1>4, <1>6, <2>4
  <2>12. \A i \in 1 .. Len(z) : z[i] <= top
    <3> SUFFICES ASSUME NEW i \in 1 .. n + k PROVE z[i] <= top
      BY <2>7
    <3>1. CASE i \in 1 .. n /\ z[i] = s[i]
      BY <2>4, <2>9, <2>11, <3>1
    <3>2. CASE i - n \in 1 .. k /\ z[i] = page[i - n]
      BY <2>8, <3>2
    <3> QED BY <2>10, <3>1, <3>2
  <2>13. Ascends(z)
    <3> SUFFICES ASSUME NEW i \in 1 .. n + k, NEW j \in 1 .. n + k, i < j PROVE z[i] < z[j]
      BY <2>7 DEF Ascends
    <3>1. CASE j \in 1 .. n /\ z[j] = s[j]
      <4>1. i \in 1 .. n /\ z[i] = s[i]
        BY <2>7, <3>1
      <4> QED BY <1>7, <2>1, <3>1, <4>1 DEF Ascends
    <3>2. CASE i \in 1 .. n /\ z[i] = s[i] /\ j - n \in 1 .. k /\ z[j] = page[j - n]
      BY <2>8, <2>9, <3>2
    <3>3. CASE i - n \in 1 .. k /\ z[i] = page[i - n] /\ j - n \in 1 .. k /\ z[j] = page[j - n]
      <4>1. i - n < j - n
        OBVIOUS
      <4> QED BY <1>5, <2>1, <3>3, <4>1 DEF Ascends
    <3> QED BY <2>10, <3>1, <3>2, <3>3
  <2>14. Range(s) \subseteq Range(z) /\ Range(page) \subseteq Range(z)
    <3>1. \A i \in 1 .. n : i \in 1 .. n + k /\ z[i] = s[i]
      BY <2>7
    <3>2. \A i \in 1 .. k : n + i \in 1 .. n + k /\ z[n + i] = page[i]
      <4> SUFFICES ASSUME NEW i \in 1 .. k PROVE n + i \in 1 .. n + k /\ z[n + i] = page[i]
        OBVIOUS
      <4>1. n + i \in 1 .. n + k /\ ~(n + i <= n) /\ (n + i) - n = i
        OBVIOUS
      <4> QED BY <2>7, <4>1
    <3>3. DOMAIN z = 1 .. n + k /\ DOMAIN s = 1 .. n /\ DOMAIN page = 1 .. k
      BY <1>5, <2>1, <2>7
    <3> QED BY <3>1, <3>2, <3>3 DEF Range
  <2>15. \A x \in lasting : x <= top => x \in Range(z)
    <3> SUFFICES ASSUME NEW x \in lasting, x <= top PROVE x \in Range(z)
      OBVIOUS
    <3>1. CASE x <= last
      BY <1>7, <2>14, <3>1
    <3>2. CASE ~(x <= last)
      <4>1. x \in Nat /\ x \in ids
        BY <1>8, <3>2
      <4>2. x \notin Range(page) => top < x
        BY <1>5, <2>3, <2>4, <4>1
      <4> QED BY <2>4, <2>14, <4>1, <4>2
    <3> QED BY <3>1, <3>2
  <2>16. request' \in ExportRequest /\ request'.pc = "page" /\ request'.last = top /\ request'.sent = z
    BY <2>4, <2>6 DEF ExportRequest
  <2> QED BY <1>1, <2>12, <2>13, <2>15, <2>16 DEF ExportInv, ExportIsComplete
<1> QED BY <1>9, <1>10, <1>11

LEMMA ExportStep ==
    ASSUME ExportInv, scene = "export", UNCHANGED scene, ExchangeNext
    PROVE  ExportInv' /\ UNCHANGED table
<1>1. CASE BeginExport
  <2>1. /\ UNCHANGED <<scene, table, present>> /\ lasting' = present
        /\ request' = [pc |-> "page", last |-> 0, sent |-> <<>>]
    BY <1>1 DEF BeginExport, Exporting, On
  <2>2. request' \in ExportRequest /\ request'.pc = "page" /\ request'.last = 0 /\ request'.sent = <<>>
    BY <2>1 DEF ExportRequest
  <2>3. Len(<<>>) = 0
    BY EmptySeq
  <2>4. \A x \in present : x \in Nat \ {0}
    BY ExchangeAssumption DEF ExportInv
  <2> QED BY <2>1, <2>2, <2>3, <2>4 DEF ExportInv, Ascends, ExportIsComplete
<1>2. CASE NextPage
    BY <1>2, NextPageKeeps DEF NextPage, Exporting
<1>3. ASSUME NEW i \in Ids, InsertRow(i) \/ DropRow(i) PROVE ExportInv' /\ UNCHANGED table
  <2>1. /\ UNCHANGED <<scene, table, request>>
        /\ present' \subseteq Ids /\ lasting' \subseteq present' /\ lasting' \subseteq lasting
    BY <1>3 DEF InsertRow, DropRow, Exporting, On, ExportInv
  <2> QED BY <2>1 DEF ExportInv, ExportIsComplete
<1>4. ~Importing
    BY DEF Importing, On
<1> QED BY <1>1, <1>2, <1>3, <1>4
    DEF ExchangeNext, BeginImport, CommitEntity, EndTemplates, EndImport, BeginEntity, SkipEntity,
        ApplyTemplate, ApplyRow, FailEntity, EditRow

\* Both scenes of the exchange, and the others, where nobody asks for anything.
ExchangeInv == ImportInv /\ ExportInv /\ (scene \in {"import", "export"} \/ request = NoRequest)

LEMMA ExchangeStep ==
    ASSUME ExchangeInv, [Next]_vars
    PROVE  ExchangeInv' /\ (UNCHANGED exchangeVars \/ (ImportAllOrNothing /\ ExportIsComplete'))
<1>1. CASE scene = "import" /\ UNCHANGED scene /\ ExchangeNext
  <2>1. ImportInv' /\ ImportAllOrNothing
    BY <1>1, ImportStep DEF ExchangeInv
  <2>2. UNCHANGED <<present, lasting>>
    BY <1>1 DEF ExchangeNext, BeginImport, CommitEntity, EndTemplates, EndImport, BeginEntity,
       SkipEntity, ApplyTemplate, ApplyRow, FailEntity, EditRow, Importing, Exporting, On,
       BeginExport, NextPage, InsertRow, DropRow
  <2>3. request'.pc # "done"
    BY <1>1, <2>1 DEF ImportInv, ImportRequest
  <2> QED BY <1>1, <2>1, <2>2, <2>3 DEF ExchangeInv, ExportInv, ExportIsComplete
<1>2. CASE scene = "export" /\ UNCHANGED scene /\ ExchangeNext
  <2>1. ExportInv' /\ UNCHANGED table
    BY <1>2, ExportStep DEF ExchangeInv
  <2>2. UNCHANGED <<session, broken>>
    BY <1>2 DEF ExchangeNext, BeginImport, CommitEntity, EndTemplates, EndImport, BeginEntity,
       SkipEntity, ApplyTemplate, ApplyRow, FailEntity, EditRow, Importing, Exporting, On,
       BeginExport, NextPage, InsertRow, DropRow
  <2>3. ImportInv' /\ ImportAllOrNothing
    BY <1>2, <2>1, <2>2 DEF ExchangeInv, ImportInv, ImportAllOrNothing
  <2> QED BY <1>2, <2>1, <2>3 DEF ExchangeInv, ExportInv
<1>3. CASE UNCHANGED <<scene, exchangeVars>>
    BY <1>3 DEF ExchangeInv, ImportInv, ExportInv, exchangeVars, ExportIsComplete, RowsAreRight,
       Clean, Unsent
<1>4. UNCHANGED scene
    BY DEF Next, vars
<1> QED BY <1>1, <1>2, <1>3, <1>4 DEF Next, vars

LEMMA ExchangeStart == Init => ExchangeInv
<1> SUFFICES ASSUME Init PROVE ExchangeInv
    OBVIOUS
<1>1. /\ session = Nothing /\ broken = FALSE /\ request = NoRequest /\ lasting = {}
      /\ table \in [Entities -> [Keys -> {"old", "new", None}]] /\ present \subseteq Ids
    BY DEF Init, ExchangeInit
<1>2. request.pc = "idle" /\ request \in ImportRequest /\ request \in ExportRequest
    BY <1>1 DEF NoRequest, ImportRequest, ExportRequest
<1> QED BY <1>1, <1>2, NothingIsClean
    DEF ExchangeInv, ImportInv, ExportInv, Clean, ExportIsComplete

LEMMA ExchangeKept == Spec => []ExchangeInv
<1>1. ExchangeInv /\ [Next]_vars => ExchangeInv'
    BY ExchangeStep
<1> QED BY <1>1, ExchangeStart, PTL DEF Spec

\* A step of an import changes no table but the one it is about, and that one
\* as a whole and never in a dry run; and an export that ends has sent no row
\* twice, and every row that was there throughout (base_model_exchanger.py,
\* core_exchangers.py, routes/admin/data_exchange.py).
THEOREM ExchangesStayFaithful == Spec => ExchangeIsFaithful
<1>1. ExchangeInv /\ [Next]_vars => [ImportAllOrNothing /\ ExportIsComplete']_exchangeVars
    BY ExchangeStep
<1> QED BY <1>1, ExchangeKept, PTL DEF Spec, ExchangeIsFaithful

-----------------------------------------------------------------------------
(***************************************************************************)
(* The other tables of the catalog: tags, custom fields and countries.     *)
(***************************************************************************)
TagRequest ==
         [pc : {"idle"}]
    \cup [pc : {"tags"}, want : SUBSET Rows, missing : SUBSET Rows]
    \cup [pc : {"attach"}, want : SUBSET Rows, seen : SUBSET Rows]

FieldRequest == [pc : {"idle"}] \cup [pc : {"values"}, keys : SUBSET Rows, new : Types \cup {None}]

TagsInv ==
    /\ attached \subseteq tags /\ tags \subseteq Rows
    /\ scene = "tags" => job \in [Workers -> TagRequest]

FieldsInv ==
    /\ defs \in [Rows -> Types \cup {None}] /\ values \in [Rows -> Types \cup {None}]
    /\ scene = "fields" => job \in [Workers -> FieldRequest]

PositionsAreRight == position \in [Rows -> 0 .. MaxPosition \cup {Disabled}]

\* A step of the catalog is about the tables of its scene.
LEMMA CatalogueParts ==
    ASSUME CatalogueNext
    PROVE  \/ Methods \/ Connections \/ Tags \/ Fields \/ Countries \/ Bundles
           \/ \E w \in Workers : CrashCatalogue(w)
BY DEF CatalogueNext, ImportMethods, ImportConnections, ReorderCountries, CacheExpires,
   ImportBundles, Write, CreateMethod, UpdateMethod, CreateConnection, UpdateConnection,
   DeleteConnection, CreateTag, DeleteTag, CreateDef, UpdateDef, DeleteDef, EnableCountry,
   DisableCountry, CommitDefault, DeactivateMethod, DeleteMethod, BeginSetActive, FlipOff, FlipOn,
   BeginSetTags, DetachTags, AttachTags, SetFields, CommitFields, ClearCache, ClearFails,
   ReadBundles, FillCache, FillFails, ClearDefaults, CheckNotDefault, SetOneActive,
   BeginMakeDefault, EnsureTag

LEMMA CatalogueRests ==
    ASSUME CatalogueNext
    PROVE  /\ scene # "tags" => UNCHANGED tagVars
           /\ scene # "fields" => UNCHANGED fieldVars
           /\ scene # "countries" => UNCHANGED position
<1>1. \A w \in Workers : CrashCatalogue(w) => UNCHANGED <<tagVars, fieldVars, position>>
    BY DEF CrashCatalogue
<1> QED BY <1>1, CatalogueParts
    DEF Methods, Connections, Tags, Fields, Countries, Bundles, On, tagVars, fieldVars

LEMMA TagStep ==
    ASSUME TagsInv, scene = "tags", UNCHANGED scene, CatalogueNext
    PROVE  TagsInv'
<1> USE DEF TagsInv
<1>i. Idle \in TagRequest
    BY DEF Idle, TagRequest
<1>1. ASSUME NEW s \in Rows, CreateTag(s) \/ DeleteTag(s) PROVE TagsInv'
    BY <1>1 DEF CreateTag, DeleteTag
<1>2. ASSUME NEW w \in Workers, BeginSetTags(w) PROVE TagsInv'
  <2>1. PICK want \in SUBSET Rows :
           Begin(w, [pc |-> "tags", want |-> want, missing |-> want \ tags])
    BY <1>2 DEF BeginSetTags
  <2>2. [pc |-> "tags", want |-> want, missing |-> want \ tags] \in TagRequest
    BY DEF TagRequest
  <2> QED BY <1>2, <2>1, <2>2 DEF BeginSetTags, tagVars, Begin
<1>3. ASSUME NEW w \in Workers, NEW s \in Rows, EnsureTag(w, s) PROVE TagsInv'
  <2>1. job[w] \in [pc : {"tags"}, want : SUBSET Rows, missing : SUBSET Rows]
    BY <1>3 DEF EnsureTag, IsAt, TagRequest
  <2>2. [job[w] EXCEPT !.missing = @ \ {s}] \in TagRequest
    BY <2>1 DEF TagRequest
  <2> QED BY <1>3, <1>i, <2>2 DEF EnsureTag, Done, Go
<1>4. ASSUME NEW w \in Workers, DetachTags(w) PROVE TagsInv'
  <2>1. job[w] \in [pc : {"tags"}, want : SUBSET Rows, missing : SUBSET Rows]
    BY <1>4 DEF DetachTags, IsAt, TagRequest
  <2>2. [pc |-> "attach", want |-> job[w].want, seen |-> attached] \in TagRequest
    BY <2>1 DEF TagRequest
  <2> QED BY <1>4, <2>2 DEF DetachTags, tagVars, Go
<1>5. ASSUME NEW w \in Workers, AttachTags(w) PROVE TagsInv'
    BY <1>5, <1>i DEF AttachTags, Done
<1>6. ASSUME NEW w \in Workers, CrashCatalogue(w) PROVE TagsInv'
    BY <1>6, <1>i DEF CrashCatalogue, tagVars, Done
<1>7. ~Methods /\ ~Connections /\ ~Fields /\ ~Countries /\ ~Bundles
    BY DEF Methods, Connections, Fields, Countries, Bundles, On
<1>8. \/ \E s \in Rows : CreateTag(s) \/ DeleteTag(s)
      \/ \E w \in Workers : \/ BeginSetTags(w) \/ DetachTags(w) \/ AttachTags(w) \/ CrashCatalogue(w)
                            \/ \E s \in Rows : EnsureTag(w, s)
    BY <1>7 DEF CatalogueNext, ImportMethods, ImportConnections, ReorderCountries, CacheExpires,
       ImportBundles, Write, CreateMethod, UpdateMethod, CreateConnection, UpdateConnection,
       DeleteConnection, CreateDef, UpdateDef, DeleteDef, EnableCountry,
       DisableCountry, CommitDefault, DeactivateMethod, DeleteMethod, BeginSetActive, FlipOff, FlipOn,
       SetFields, CommitFields, ClearCache, ClearFails, ReadBundles, FillCache, FillFails,
       ClearDefaults, CheckNotDefault, SetOneActive, BeginMakeDefault
<1> QED BY <1>1, <1>2, <1>3, <1>4, <1>5, <1>6, <1>8

LEMMA FieldStep ==
    ASSUME FieldsInv, scene = "fields", UNCHANGED scene, CatalogueNext
    PROVE  FieldsInv'
<1> USE DEF FieldsInv
<1>i. Idle \in FieldRequest
    BY DEF Idle, FieldRequest
<1>1. ASSUME NEW k \in Rows, CreateDef(k) \/ UpdateDef(k) \/ DeleteDef(k) PROVE FieldsInv'
    BY <1>1 DEF CreateDef, UpdateDef, DeleteDef
<1>2. ASSUME NEW w \in Workers, SetFields(w) PROVE FieldsInv'
  <2>1. PICK keys \in SUBSET Rows, t \in Types \cup {None} :
           Begin(w, [pc |-> "values", keys |-> keys, new |-> t])
    BY <1>2 DEF SetFields
  <2>2. [pc |-> "values", keys |-> keys, new |-> t] \in FieldRequest
    BY DEF FieldRequest
  <2> QED BY <1>2, <2>1, <2>2 DEF SetFields, fieldVars, Begin
<1>3. ASSUME NEW w \in Workers, CommitFields(w) PROVE FieldsInv'
  <2>1. job[w] \in [pc : {"values"}, keys : SUBSET Rows, new : Types \cup {None}]
    BY <1>3 DEF CommitFields, IsAt, FieldRequest
  <2> QED BY <1>3, <1>i, <2>1 DEF CommitFields, Done
<1>4. ASSUME NEW w \in Workers, CrashCatalogue(w) PROVE FieldsInv'
    BY <1>4, <1>i DEF CrashCatalogue, fieldVars, Done
<1>5. ~Methods /\ ~Connections /\ ~Tags /\ ~Countries /\ ~Bundles
    BY DEF Methods, Connections, Tags, Countries, Bundles, On
<1>6. \/ \E k \in Rows : CreateDef(k) \/ UpdateDef(k) \/ DeleteDef(k)
      \/ \E w \in Workers : SetFields(w) \/ CommitFields(w) \/ CrashCatalogue(w)
    BY <1>5 DEF CatalogueNext, ImportMethods, ImportConnections, ReorderCountries, CacheExpires,
       ImportBundles, Write, CreateMethod, UpdateMethod, CreateConnection, UpdateConnection,
       DeleteConnection, CreateTag, DeleteTag, EnableCountry,
       DisableCountry, CommitDefault, DeactivateMethod, DeleteMethod, BeginSetActive, FlipOff, FlipOn,
       BeginSetTags, DetachTags, AttachTags, ClearCache, ClearFails,
       ReadBundles, FillCache, FillFails, ClearDefaults, CheckNotDefault, SetOneActive,
       BeginMakeDefault, EnsureTag
<1> QED BY <1>1, <1>2, <1>3, <1>4, <1>6

\* The place of a country that is enabled is one after a place, or the first.
LEMMA CountryStep ==
    ASSUME PositionsAreRight, scene = "countries", UNCHANGED scene, CatalogueNext
    PROVE  PositionsAreRight'
<1> USE DEF PositionsAreRight
<1>1. ASSUME NEW c \in Rows, EnableCountry(c) PROVE PositionsAreRight'
  <2> DEFINE places == {position[d] : d \in Enabled} \cup {0}
  <2>1. places \in SUBSET (0 .. MaxPosition) /\ places # {}
    BY CatalogueAssumption DEF Enabled
  <2>2. PICK highest \in Nat : highest = Max(places)
    <3> HIDE DEF places
    <3>1. MaxPosition \in Nat
      BY CatalogueAssumption
    <3>2. Max(places) \in places
      BY <2>1, <3>1, MaxIsGreatest
    <3>3. Max(places) \in 0 .. MaxPosition
      BY <2>1, <3>2
    <3>4. Max(places) \in Nat
      BY <3>1, <3>3
    <3> QED BY <3>4
  <2>3. PICK n \in Nat : n = IF highest = 0 THEN 0 ELSE highest + 1
    OBVIOUS
  <2>4. position' = [position EXCEPT ![c] = n] /\ position'[c] <= MaxPosition
    BY <1>1, <2>2, <2>3 DEF EnableCountry
  <2>5. n \in 0 .. MaxPosition
    BY <2>4, CatalogueAssumption
  <2> QED BY <2>4, <2>5
<1>2. ASSUME NEW c \in Rows, DisableCountry(c) PROVE PositionsAreRight'
    BY <1>2 DEF DisableCountry
<1>3. CASE ReorderCountries
  <2>1. PICK place \in [Rows -> 0 .. Cardinality(Rows) - 1], named \in SUBSET Enabled :
           position' = [c \in Rows |-> IF c \in named THEN place[c] ELSE position[c]]
    BY <1>3 DEF ReorderCountries
  <2>2. Cardinality(Rows) \in Nat
    BY CatalogueAssumption, FS_CardinalityType
  <2>3. \A c \in Rows : place[c] \in 0 .. MaxPosition
    BY <2>2, CatalogueAssumption
  <2> QED BY <2>1, <2>3
<1>4. ASSUME NEW w \in Workers, CrashCatalogue(w) PROVE PositionsAreRight'
    BY <1>4 DEF CrashCatalogue
<1>5. ~Methods /\ ~Connections /\ ~Tags /\ ~Fields /\ ~Bundles
    BY DEF Methods, Connections, Tags, Fields, Bundles, On
<1>6. \/ ReorderCountries \/ \E c \in Rows : EnableCountry(c) \/ DisableCountry(c)
      \/ \E w \in Workers : CrashCatalogue(w)
    BY <1>5 DEF CatalogueNext, ImportMethods, ImportConnections, CacheExpires,
       ImportBundles, Write, CreateMethod, UpdateMethod, CreateConnection, UpdateConnection,
       DeleteConnection, CreateTag, DeleteTag, CreateDef, UpdateDef, DeleteDef,
       CommitDefault, DeactivateMethod, DeleteMethod, BeginSetActive, FlipOff, FlipOn,
       BeginSetTags, DetachTags, AttachTags, SetFields, CommitFields, ClearCache, ClearFails,
       ReadBundles, FillCache, FillFails, ClearDefaults, CheckNotDefault, SetOneActive,
       BeginMakeDefault, EnsureTag
<1> QED BY <1>1, <1>2, <1>3, <1>4, <1>6

TablesInv == TagsInv /\ FieldsInv /\ PositionsAreRight

LEMMA TablesKept == Spec => []TablesInv
<1>1. Init => TablesInv
    BY CatalogueAssumption
    DEF Init, CatalogueInit, TablesInv, TagsInv, FieldsInv, PositionsAreRight, TagRequest,
        FieldRequest, Idle
<1>2. TablesInv /\ [Next]_vars => TablesInv'
  <2> SUFFICES ASSUME TablesInv, [Next]_vars PROVE TablesInv'
    OBVIOUS
  <2>1. CASE UNCHANGED vars
    BY <2>1 DEF vars, catalogueVars, tagVars, fieldVars, TablesInv, TagsInv, FieldsInv,
       PositionsAreRight
  <2>2. CASE UNCHANGED <<catalogueVars, scene>> /\ scene \notin {"tags", "fields"}
    BY <2>2 DEF catalogueVars, tagVars, fieldVars, TablesInv, TagsInv, FieldsInv, PositionsAreRight
  <2>3. CASE UNCHANGED scene /\ CatalogueNext
    <3>1. TagsInv'
      BY <2>3, TagStep, CatalogueRests DEF TablesInv, TagsInv, tagVars
    <3>2. FieldsInv'
      BY <2>3, FieldStep, CatalogueRests DEF TablesInv, FieldsInv, fieldVars
    <3>3. PositionsAreRight'
      BY <2>3, CountryStep, CatalogueRests DEF TablesInv, PositionsAreRight
    <3> QED BY <3>1, <3>2, <3>3 DEF TablesInv
  <2> QED BY <2>1, <2>2, <2>3 DEF Next
<1> QED BY <1>1, <1>2, PTL DEF Spec

-----------------------------------------------------------------------------
(***************************************************************************)
(* Roles and levels.  A row is stored where no other has its slug or its   *)
(* name, with permissions that exist by then; those a seeding wants exist, *)
(* or are in the catalog it is about to store.                             *)
(***************************************************************************)
Distinct ==
    \A r, q \in Levels : Present(r) /\ Present(q) /\ r # q =>
        level[r].slug # level[q].slug /\ level[r].name # level[q].name
Granted == \A r \in Levels : level[r].grants \subseteq known
Wanting ==
    scene \in {"role", "level"} =>
        \A w \in Workers : IsAt(w, "seed") => job[w].want \subseteq known \cup job[w].catalog

RolesInv == LevelsInv /\ Distinct /\ Granted /\ Wanting

LEMMA RowIsSaved ==
    ASSUME LevelsInv, Distinct, Granted, NEW r \in Levels, NEW v,
           v = NoLevel \/ Unique(r, v), level' = [level EXCEPT ![r] = v],
           known \subseteq known', v.grants \subseteq known'
    PROVE  Distinct' /\ Granted'
<1>1. level'[r] = v /\ \A q \in Levels \ {r} : level'[q] = level[q]
    BY DEF LevelsInv
<1>2. ASSUME NEW q \in Levels \ {r}, Present(r)', Present(q)'
      PROVE  level'[r].slug # level'[q].slug /\ level'[r].name # level'[q].name
  <2>1. Unique(r, v) /\ Present(q) /\ level'[q] = level[q]
    BY <1>1, <1>2 DEF Present
  <2> QED BY <1>1, <2>1 DEF Unique
<1>3. ASSUME NEW p \in Levels \ {r}, NEW q \in Levels \ {r}, Present(p)', Present(q)', p # q
      PROVE  level'[p].slug # level'[q].slug /\ level'[p].name # level'[q].name
    BY <1>1, <1>3 DEF Present, Distinct
<1>4. Distinct'
    BY <1>2, <1>3 DEF Distinct
<1>5. ASSUME NEW q \in Levels PROVE level'[q].grants \subseteq known'
    BY <1>1 DEF Granted
<1> QED BY <1>4, <1>5 DEF Granted

\* Who is outrun wants what it wanted.
LEMMA OutrunStillWants ==
    ASSUME LevelsInv, Wanting, scene \in {"role", "level"}, UNCHANGED scene,
           known \subseteq known',
           \A w \in Workers : job'[w] \in {Outrun[w], job[w]} \/ job'[w].pc # "seed"
    PROVE  Wanting'
<1> SUFFICES ASSUME NEW w \in Workers, job'[w].pc = "seed"
             PROVE  job'[w].want \subseteq known' \cup job'[w].catalog
    BY DEF Wanting, IsAt
<1>1. job[w] \in LevelRequest
    BY DEF LevelsInv
<1>2. CASE job'[w] = job[w]
    BY <1>2 DEF Wanting, IsAt
<1>3. CASE job'[w] = Outrun[w] /\ job'[w] # job[w]
  <2>1. job'[w] = [job[w] EXCEPT !.late = TRUE] /\ job[w].pc \in {"seed", "groups"}
    BY <1>3 DEF Outrun, Overtaken
  <2>2. job[w] \in [pc : {"seed"}, row : Levels \cup {None}, late : BOOLEAN,
            catalog : SUBSET Permissions, want : SUBSET Permissions, loaded : SUBSET Permissions]
    BY <1>1, <2>1 DEF LevelRequest
  <2>3. job'[w].want = job[w].want /\ job'[w].catalog = job[w].catalog
    BY <2>1, <2>2
  <2> QED BY <2>2, <2>3 DEF Wanting, IsAt
<1> QED BY <1>2, <1>3

\* A commit, which outruns the others.
LEMMA RowIsCommitted ==
    ASSUME RolesInv, LevelsInv', scene \in {"role", "level"}, UNCHANGED scene, known \subseteq known',
           NEW r \in Levels, NEW v, v = NoLevel \/ Unique(r, v), level' = [level EXCEPT ![r] = v],
           v.grants \subseteq known',
           \A w \in Workers : job'[w] \in {Outrun[w], job[w]} \/ job'[w].pc # "seed"
    PROVE  RolesInv'
BY RowIsSaved, OutrunStillWants DEF RolesInv

\* Nothing is stored.
LEMMA NothingIsSaved ==
    ASSUME RolesInv, LevelsInv', scene \in {"role", "level"}, UNCHANGED <<scene, level, known>>,
           \A w \in Workers : job'[w] \in {Outrun[w], job[w]} \/ job'[w].pc # "seed"
    PROVE  RolesInv'
<1>1. Distinct' /\ Granted'
    BY DEF RolesInv, Distinct, Granted, Present
<1> QED BY <1>1, OutrunStillWants DEF RolesInv

\* One request moves, or one ends and outruns the others.
LEMMA OneMoves ==
    ASSUME LevelsInv, scene \in {"role", "level"}, NEW w \in Workers, NEW x,
           job' = [job EXCEPT ![w] = x] \/ job' = [Outrun EXCEPT ![w] = x], x.pc # "seed"
    PROVE  \A v \in Workers : job'[v] \in {Outrun[v], job[v]} \/ job'[v].pc # "seed"
<1>1. job \in [Workers -> LevelRequest] /\ Outrun \in [Workers -> LevelRequest]
    BY OutrunIsLevelRequest DEF LevelsInv
<1> QED BY <1>1

LEMMA RolesStep ==
    ASSUME RolesInv, scene \in {"role", "level"}, UNCHANGED scene, AccessNext
    PROVE  RolesInv'
<1>t. LevelsInv /\ LevelsInv' /\ Distinct /\ Granted /\ Wanting
    BY LevelStep DEF RolesInv
<1>i. Idle.pc # "seed"
    BY DEF Idle
<1>1. ASSUME NEW r \in Levels, CreateLevel(r) PROVE RolesInv'
  <2>1. PICK v \in Level : /\ Unique(r, v) /\ level' = [level EXCEPT ![r] = v]
                           /\ known' = known \cup v.grants
    BY <1>1 DEF CreateLevel
  <2>2. job' = Outrun
    BY <1>1 DEF CreateLevel
  <2> QED BY <1>t, <2>1, <2>2, RowIsCommitted
<1>2. ASSUME NEW r \in Levels, DeleteLevel(r) PROVE RolesInv'
  <2>1. level' = [level EXCEPT ![r] = NoLevel] /\ known' = known /\ job' = Outrun
    BY <1>2 DEF DeleteLevel
  <2>2. NoLevel.grants \subseteq known'
    BY DEF NoLevel
  <2> QED BY <1>t, <2>1, <2>2, RowIsCommitted
<1>3. CASE EnablePlugin
    BY <1>t, <1>3, NothingIsSaved DEF EnablePlugin
<1>4. CASE PlanGrants
  <2>1. PICK r \in Levels, grants \in SUBSET known :
           LET same == [level[r] EXCEPT !.name = IF scene = "role" THEN @ ELSE "other",
                                        !.grants = grants]
               new == [slug |-> "other", name |-> "other", system |-> TRUE, grants |-> grants]
               v == IF Managed(r) THEN same ELSE new IN
           Unique(r, v) /\ level' = [level EXCEPT ![r] = v]
    BY <1>4 DEF PlanGrants
  <2>2. PICK v : /\ v = IF Managed(r)
                        THEN [level[r] EXCEPT !.name = IF scene = "role" THEN @ ELSE "other",
                                              !.grants = grants]
                        ELSE [slug |-> "other", name |-> "other", system |-> TRUE, grants |-> grants]
                 /\ Unique(r, v) /\ level' = [level EXCEPT ![r] = v]
    BY <2>1
  <2>3. v.grants = grants
    <3>1. level[r] \in Level \cup {NoLevel}
      BY <1>t DEF LevelsInv
    <3>2. PICK name : name = IF scene = "role" THEN level[r].name ELSE "other"
      OBVIOUS
    <3>3. CASE Managed(r)
      <4>1. v = [level[r] EXCEPT !.name = name, !.grants = grants]
        BY <2>2, <3>2, <3>3
      <4> QED BY <3>1, <4>1 DEF Level, NoLevel
    <3>4. CASE ~Managed(r)
      BY <2>2, <3>4
    <3> QED BY <3>3, <3>4
  <2>4. known' = known /\ job' = Outrun
    BY <1>4 DEF PlanGrants
  <2> QED BY <1>t, <2>2, <2>3, <2>4, RowIsCommitted
<1>5. ASSUME NEW w \in Workers, NEW r \in Levels, LoadLevel(w, r) PROVE RolesInv'
  <2>1. job' = [job EXCEPT ![w] = [pc |-> "edit", row |-> r, loaded |-> level[r].grants]]
        /\ UNCHANGED <<level, known>>
    BY <1>5 DEF LoadLevel, rbac, Begin
  <2> QED BY <1>t, <2>1, OneMoves, NothingIsSaved
<1>6. ASSUME NEW w \in Workers, UpdateLevel(w) PROVE RolesInv'
  <2> DEFINE r == job[w].row
  <2>1. r \in Levels /\ level[r] \in Level
    BY <1>t, <1>6 DEF UpdateLevel, IsAt, LevelRequest, Present, LevelsInv
  <2>2. PICK slug \in Names, name \in Names, new \in SUBSET Permissions :
           LET v == [level[r] EXCEPT !.slug = slug, !.name = name,
                                     !.grants = Merged(r, job[w].loaded, new)] IN
           Unique(r, v) /\ level' = [level EXCEPT ![r] = v] /\ known' = known \cup new
    BY <1>6 DEF UpdateLevel
  <2>3. PICK grants : grants = Merged(r, job[w].loaded, new)
    OBVIOUS
  <2>4. PICK v : /\ v = [level[r] EXCEPT !.slug = slug, !.name = name, !.grants = grants]
                 /\ Unique(r, v) /\ level' = [level EXCEPT ![r] = v]
    BY <2>2, <2>3
  <2>5. v.grants = grants
    BY <2>1, <2>4 DEF Level
  <2>6. grants \subseteq known'
    BY <1>t, <2>1, <2>2, <2>3 DEF Merged, Granted
  <2>7. job' = [Outrun EXCEPT ![w] = Idle]
    BY <1>6 DEF UpdateLevel
  <2> QED BY <1>t, <1>i, <2>1, <2>2, <2>4, <2>5, <2>6, <2>7, OneMoves, RowIsCommitted
<1>7. ASSUME NEW w \in Workers, UpdateRefused(w) \/ SeedFails(w) PROVE RolesInv'
  <2>1. job' = [job EXCEPT ![w] = Idle] /\ UNCHANGED <<level, known>>
    BY <1>7 DEF UpdateRefused, SeedFails, rbac, Done
  <2> QED BY <1>t, <1>i, <2>1, OneMoves, NothingIsSaved
<1>8. ASSUME NEW w \in Workers, SeedRead(w) PROVE RolesInv'
  <2>1. PICK r \in Levels \cup {None} :
           Begin(w, [pc |-> "seed", row |-> r, late |-> FALSE, catalog |-> Declared,
                     want |-> DefaultGrants \cap (known \cup Declared),
                     loaded |-> IF r = None THEN {} ELSE level[r].grants])
    BY <1>8 DEF SeedRead, DefaultLevel
  <2>2. PICK x : /\ x.want = DefaultGrants \cap (known \cup Declared) /\ x.catalog = Declared
                 /\ job' = [job EXCEPT ![w] = x]
    <3>1. PICK want, loaded : /\ want = DefaultGrants \cap (known \cup Declared)
                              /\ loaded = IF r = None THEN {} ELSE level[r].grants
      OBVIOUS
    <3>2. PICK x : /\ x = [pc |-> "seed", row |-> r, late |-> FALSE, catalog |-> Declared,
                           want |-> want, loaded |-> loaded]
                   /\ job' = [job EXCEPT ![w] = x]
      BY <2>1, <3>1 DEF Begin
    <3>3. x.want = want /\ x.catalog = Declared
      BY <3>2
    <3> QED BY <3>1, <3>2, <3>3
  <2>3. /\ UNCHANGED <<level, known>> /\ job \in [Workers -> LevelRequest]
    BY <1>t, <1>8 DEF SeedRead, rbac, LevelsInv
  <2>4. Distinct' /\ Granted'
    BY <1>t, <2>3 DEF Distinct, Granted, Present
  <2>5. ASSUME NEW v \in Workers, job'[v].pc = "seed"
        PROVE  job'[v].want \subseteq known' \cup job'[v].catalog
    <3>1. CASE v = w
      BY <2>2, <2>3, <3>1
    <3>2. CASE v # w
      <4>1. job'[v] = job[v]
        BY <2>2, <2>3, <3>2
      <4> QED BY <1>t, <2>3, <2>5, <4>1 DEF Wanting, IsAt
    <3> QED BY <3>1, <3>2
  <2>6. Wanting'
    BY <2>5 DEF Wanting, IsAt
  <2> QED BY <1>t, <2>4, <2>6 DEF RolesInv
<1>9. ASSUME NEW w \in Workers, SeedCommit(w) PROVE RolesInv'
  <2>1. PICK t \in SeedTargets(w) : level' = [level EXCEPT ![t[1]] = t[2]]
    BY <1>9 DEF SeedCommit
  <2>2. t[1] \in Levels /\ Unique(t[1], t[2])
    BY <1>9, <1>t, SeedTargetsAreRows DEF SeedCommit, SeedFits
  <2>3. known' = known \cup job[w].catalog /\ job' = [Outrun EXCEPT ![w] = Idle]
    BY <1>9 DEF SeedCommit
  <2>4. job[w].want \subseteq known'
    BY <1>t, <1>9, <2>3 DEF Wanting, SeedCommit
  <2>5. t[2].grants \subseteq known'
    <3>1. CASE job[w].row = None
      <4>1. t[2] = New(job[w].want)
        BY <3>1 DEF SeedTargets
      <4> QED BY <2>4, <4>1 DEF New
    <3>2. CASE job[w].row # None
      <4>1. PICK missing : missing = job[w].want \ job[w].loaded
        OBVIOUS
      <4>2. t = <<job[w].row, Seeded(job[w].row, missing)>>
        BY <3>2, <4>1 DEF SeedTargets
      <4>3. PICK r \in Levels : r = job[w].row /\ t[2] = Seeded(r, missing)
        BY <2>2, <4>2
      <4>4. level[r] \in Level \cup {NoLevel} /\ level[r].grants \subseteq known
        BY <1>t DEF LevelsInv, Granted
      <4>5. CASE ~level[r].system
        BY <2>3, <4>3, <4>4, <4>5 DEF Seeded
      <4>6. CASE level[r].system
        <5>1. PICK name, grants : /\ name = IF scene = "role" THEN "default" ELSE level[r].name
                                  /\ grants = level[r].grants \cup missing
          OBVIOUS
        <5>2. t[2] = [level[r] EXCEPT !.name = name, !.grants = grants]
          BY <4>3, <4>6, <5>1 DEF Seeded
        <5>3. t[2].grants = grants
          BY <4>4, <5>2 DEF Level, NoLevel
        <5> QED BY <2>3, <2>4, <4>1, <4>4, <5>1, <5>3
      <4> QED BY <4>5, <4>6
    <3> QED BY <3>1, <3>2
  <2> QED BY <1>t, <1>i, <2>1, <2>2, <2>3, <2>5, OneMoves, RowIsCommitted
<1>10. ~OfGroups
    BY DEF OfGroups, On
<1> QED
    BY <1>1, <1>2, <1>3, <1>4, <1>5, <1>6, <1>7, <1>8, <1>9, <1>10 DEF AccessNext, CreateGroup,
       DeleteGroup, AddMember, RemoveMember, RenameGroup, ReadGroups, SetGroups

\* The rows are as they were while groups are administered.
LEMMA RolesKept == Spec => []RolesInv
<1>1. Init => RolesInv
  <2> SUFFICES ASSUME Init PROVE RolesInv
    OBVIOUS
  <2>1. LevelsInv
    BY DEF Init, AccessInit, LevelsInv, LevelRequest, Idle
  <2>2. /\ level = [r \in Levels |-> NoLevel] /\ known = {}
        /\ \A w \in Workers : job[w].pc = "idle"
    BY DEF Init, AccessInit, Idle
  <2>3. Distinct /\ Granted
    BY <2>2 DEF Distinct, Granted, Present, NoLevel
  <2> QED BY <2>1, <2>2, <2>3 DEF RolesInv, Wanting, IsAt
<1>2. RolesInv /\ [Next]_vars => RolesInv'
  <2> SUFFICES ASSUME RolesInv, [Next]_vars PROVE RolesInv'
    OBVIOUS
  <2>1. CASE UNCHANGED vars
    BY <2>1 DEF vars, accessVars, rbac, RolesInv, LevelsInv, Distinct, Granted, Present, Wanting, IsAt
  <2>2. CASE UNCHANGED <<level, known, scene>> /\ scene \notin {"role", "level"}
    BY <2>2 DEF RolesInv, LevelsInv, Distinct, Granted, Present, Wanting
  <2>3. CASE UNCHANGED scene /\ AccessNext /\ scene \in {"role", "level"}
    BY <2>3, RolesStep
  <2>4. CASE UNCHANGED scene /\ AccessNext /\ scene \notin {"role", "level"}
    <3>1. OfGroups
      BY <2>4, OtherStepsAreOfGroups
    <3> QED BY <2>2, <2>4, <3>1 DEF OfGroups, rbac
  <2>5. CASE UNCHANGED <<accessVars, scene>> /\ scene \notin {"role", "level"}
    BY <2>2, <2>5 DEF accessVars, rbac
  <2> QED BY <2>1, <2>3, <2>4, <2>5 DEF Next
<1> QED BY <1>1, <1>2, PTL DEF Spec

-----------------------------------------------------------------------------
(***************************************************************************)
(* Seeding again.  As long as nobody commits, a seeding knows what is      *)
(* there; and after a seeding that nobody overtook, nothing is missing.    *)
(***************************************************************************)
UpToDate(seeding) ==
    /\ seeding.catalog = Declared
    /\ seeding.want = DefaultGrants \cap (known \cup Declared)
    /\ \/ seeding.row = None /\ DefaultLevel = {}
       \/ seeding.row \in DefaultLevel /\ seeding.loaded = level[seeding.row].grants
Current ==
    scene \in {"role", "level"} =>
        \A w \in Workers : IsAt(w, "seed") /\ ~job[w].late => UpToDate(job[w])
Complete(r) ==
    level[r].system => /\ DefaultGrants \cap known \subseteq level[r].grants
                       /\ scene = "role" => level[r].name = "default"
Reseeded ==
    reseeding => /\ Declared \subseteq known /\ DefaultLevel # {}
                 /\ \A r \in DefaultLevel : Complete(r)

SeedingInv == RolesInv /\ Current /\ Reseeded

\* Whoever commits overtakes the seedings under way.
LEMMA CommitIsSeen ==
    ASSUME LevelsInv, scene \in {"role", "level"}, UNCHANGED scene,
           \A w \in Workers : job'[w] = Outrun[w] \/ job'[w].pc # "seed"
    PROVE  Current'
<1>1. ASSUME NEW w \in Workers, job'[w].pc = "seed" PROVE job'[w].late
  <2>1. job'[w] = Outrun[w] /\ job[w] \in LevelRequest
    BY <1>1 DEF LevelsInv
  <2>2. CASE job[w].pc \in {"seed", "groups"}
    <3>1. job'[w] = [job[w] EXCEPT !.late = TRUE]
      BY <2>1, <2>2 DEF Outrun, Overtaken
    <3> QED BY <2>1, <2>2, <3>1 DEF LevelRequest
  <2>3. CASE job[w].pc \notin {"seed", "groups"}
    BY <1>1, <2>1, <2>3 DEF Outrun, Overtaken
  <2> QED BY <2>2, <2>3
<1> QED BY <1>1 DEF Current, IsAt

\* Nothing is committed, and who begins a seeding is up to date.
LEMMA NothingIsCommitted ==
    ASSUME Current, Reseeded, UNCHANGED <<scene, level, known, plugin, reseeding>>,
           \A w \in Workers : job'[w] = job[w] \/ job'[w].pc # "seed" \/ UpToDate(job'[w])
    PROVE  Current' /\ Reseeded'
<1>1. UNCHANGED <<Declared, DefaultLevel>>
    BY DEF Declared, DefaultLevel
<1>2. \A w \in Workers : UpToDate(job'[w]) => UpToDate(job[w])'
    BY <1>1 DEF UpToDate
<1>3. \A w \in Workers : UpToDate(job[w]) /\ job'[w] = job[w] => UpToDate(job[w])'
    BY <1>1 DEF UpToDate
<1>4. Current'
    BY <1>2, <1>3 DEF Current, IsAt
<1>5. Reseeded'
    BY <1>1 DEF Reseeded, Complete
<1> QED BY <1>4, <1>5

\* What an up to date seeding stores.
LEMMA SeedingIsComplete ==
    ASSUME RolesInv, RolesInv', scene \in {"role", "level"}, NEW w \in Workers, SeedCommit(w),
           ~job[w].late, Current
    PROVE  /\ Declared \subseteq known' /\ UNCHANGED <<Declared, scene>> /\ DefaultLevel' # {}
           /\ \A r \in DefaultLevel' : Complete(r)'
<1>1. /\ IsAt(w, "seed") /\ SeedFits(w) /\ UNCHANGED <<scene, plugin>>
      /\ known' = known \cup job[w].catalog
    BY DEF SeedCommit, RolesOrLevels
<1>2. UpToDate(job[w])
    BY <1>1 DEF Current
<1>3. known' = known \cup Declared /\ job[w].want = DefaultGrants \cap known'
    BY <1>1, <1>2 DEF UpToDate
<1>4. PICK t \in SeedTargets(w) : level' = [level EXCEPT ![t[1]] = t[2]]
    BY DEF SeedCommit
<1>5. t[1] \in Levels /\ t[2] \in Level /\ level'[t[1]] = t[2]
    BY <1>1, <1>4, SeedTargetsAreRows DEF RolesInv, LevelsInv
<1>6. /\ t[2].slug = "default"
      /\ t[2].system => /\ job[w].want \subseteq t[2].grants
                        /\ scene = "role" => t[2].name = "default"
  <2>1. CASE job[w].row = None
    <3>1. t[2] = New(job[w].want)
      BY <2>1 DEF SeedTargets
    <3> QED BY <3>1 DEF New
  <2>2. CASE job[w].row # None
    <3>1. PICK missing : missing = job[w].want \ job[w].loaded
      OBVIOUS
    <3>2. t = <<job[w].row, Seeded(job[w].row, missing)>>
      BY <2>2, <3>1 DEF SeedTargets
    <3>3. PICK r \in Levels : r = job[w].row /\ t[2] = Seeded(r, missing)
      BY <1>5, <3>2
    <3>4. level[r].slug = "default" /\ job[w].loaded = level[r].grants
      BY <1>2, <2>2, <3>3 DEF UpToDate, DefaultLevel
    <3>5. level[r] \in Level
      BY <3>4, AccessConstants DEF RolesInv, LevelsInv, NoLevel, Names
    <3>6. CASE ~level[r].system
      BY <3>3, <3>4, <3>6 DEF Seeded
    <3>7. CASE level[r].system
      <4>1. PICK name, grants : /\ name = IF scene = "role" THEN "default" ELSE level[r].name
                                /\ grants = level[r].grants \cup missing
        OBVIOUS
      <4>2. t[2] = [level[r] EXCEPT !.name = name, !.grants = grants]
        BY <3>3, <3>7, <4>1 DEF Seeded
      <4>3. t[2].slug = level[r].slug /\ t[2].name = name /\ t[2].grants = grants
        BY <3>5, <4>2 DEF Level
      <4> QED BY <3>1, <3>4, <4>1, <4>3
    <3> QED BY <3>6, <3>7
  <2> QED BY <2>1, <2>2
<1>7. \A r \in DefaultLevel' : r = t[1]
  <2>1. ASSUME NEW r \in Levels, level'[r].slug = "default", r # t[1] PROVE FALSE
    <3>1. Present(r)' /\ Present(t[1])'
      BY <1>5, <1>6, <2>1, AccessConstants DEF Present, NoLevel, Names
    <3> QED BY <1>5, <1>6, <2>1, <3>1 DEF RolesInv, Distinct
  <2> QED BY <2>1 DEF DefaultLevel
<1>8. t[1] \in DefaultLevel'
    BY <1>5, <1>6 DEF DefaultLevel
<1>9. Complete(t[1])'
    BY <1>1, <1>3, <1>5, <1>6 DEF Complete
<1> QED BY <1>1, <1>3, <1>7, <1>8, <1>9 DEF Declared

\* One that nobody overtook since the last one stores what is there.
LEMMA SeedingAgain ==
    ASSUME SeedingInv, scene \in {"role", "level"}, NEW w \in Workers, SeedCommit(w),
           reseeding, ~job[w].late
    PROVE  UNCHANGED rbac
<1>1. IsAt(w, "seed") /\ known' = known \cup job[w].catalog /\ UNCHANGED <<plugin, gone>>
    BY DEF SeedCommit
<1>2. UpToDate(job[w]) /\ Reseeded
    BY <1>1 DEF SeedingInv, Current
<1>3. PICK r \in DefaultLevel : r = job[w].row
    BY <1>2 DEF UpToDate, Reseeded
<1>4. r \in Levels /\ level[r].slug = "default" /\ r # None
    BY <1>3, AccessConstants DEF DefaultLevel
<1>5. level[r] \in Level
    BY <1>4, AccessConstants DEF SeedingInv, RolesInv, LevelsInv, NoLevel, Names
<1>6. known' = known /\ job[w].want = DefaultGrants \cap known /\ job[w].loaded = level[r].grants
  <2>1. Declared \subseteq known /\ job[w].catalog = Declared
    BY <1>2 DEF UpToDate, Reseeded
  <2>2. job[w].want = DefaultGrants \cap (known \cup Declared)
    BY <1>2 DEF UpToDate
  <2>3. job[w].loaded = level[r].grants
    BY <1>2, <1>3, <1>4 DEF UpToDate
  <2> QED BY <1>1, <2>1, <2>2, <2>3
<1>7. PICK missing : missing = job[w].want \ job[w].loaded
    OBVIOUS
<1>8. level' = [level EXCEPT ![r] = Seeded(r, missing)]
  <2>1. PICK t \in SeedTargets(w) : level' = [level EXCEPT ![t[1]] = t[2]]
    BY DEF SeedCommit
  <2>2. t = <<r, Seeded(r, missing)>>
    BY <1>3, <1>4, <1>7 DEF SeedTargets
  <2>3. t[1] = r /\ t[2] = Seeded(r, missing)
    BY <2>2
  <2> QED BY <2>1, <2>3
<1>9. Seeded(r, missing) = level[r]
  <2>1. CASE ~level[r].system
    BY <2>1 DEF Seeded
  <2>2. CASE level[r].system
    <3>1. missing = {} /\ (scene = "role" => level[r].name = "default")
      BY <1>2, <1>3, <1>6, <1>7, <2>2 DEF Reseeded, Complete
    <3>2. PICK name, grants : /\ name = IF scene = "role" THEN "default" ELSE level[r].name
                              /\ grants = level[r].grants \cup missing
      OBVIOUS
    <3>3. name = level[r].name /\ grants = level[r].grants
      BY <3>1, <3>2
    <3>4. Seeded(r, missing) = [level[r] EXCEPT !.name = name, !.grants = grants]
      BY <2>2, <3>2 DEF Seeded
    <3> QED BY <1>5, <3>3, <3>4 DEF Level
  <2> QED BY <2>1, <2>2
<1>10. level' = level
    BY <1>4, <1>8, <1>9 DEF SeedingInv, RolesInv, LevelsInv
<1> QED BY <1>1, <1>6, <1>10 DEF rbac

LEMMA SeedingStep ==
    ASSUME SeedingInv, scene \in {"role", "level"}, UNCHANGED scene, AccessNext
    PROVE  SeedingInv'
<1>t. RolesInv /\ RolesInv' /\ LevelsInv /\ Current /\ Reseeded
    BY RolesStep DEF SeedingInv, RolesInv
<1>j. job \in [Workers -> LevelRequest] /\ Outrun \in [Workers -> LevelRequest]
    BY <1>t, OutrunIsLevelRequest DEF LevelsInv
<1>i. Idle.pc # "seed"
    BY DEF Idle
<1>1. CASE EnablePlugin \/ PlanGrants \/ \E r \in Levels : CreateLevel(r) \/ DeleteLevel(r)
  <2>1. job' = Outrun /\ ~reseeding'
    <3>1. EnablePlugin => job' = Outrun /\ reseeding' = FALSE
      BY DEF EnablePlugin
    <3>2. PlanGrants => job' = Outrun /\ reseeding' = FALSE
      BY Zenon DEF PlanGrants
    <3>3. ASSUME NEW r \in Levels, CreateLevel(r) \/ DeleteLevel(r)
          PROVE  job' = Outrun /\ reseeding' = FALSE
      BY <3>3, Zenon DEF CreateLevel, DeleteLevel
    <3> QED BY <1>1, <3>1, <3>2, <3>3
  <2>2. \A v \in Workers : job'[v] = Outrun[v] \/ job'[v].pc # "seed"
    BY <2>1
  <2> QED BY <1>t, <2>1, <2>2, CommitIsSeen DEF SeedingInv, Reseeded
<1>2. ASSUME NEW w \in Workers, UpdateLevel(w) PROVE SeedingInv'
  <2>1. job' = [Outrun EXCEPT ![w] = Idle] /\ ~reseeding'
    BY <1>2 DEF UpdateLevel
  <2>2. \A v \in Workers : job'[v] = Outrun[v] \/ job'[v].pc # "seed"
    BY <1>i, <1>j, <2>1
  <2> QED BY <1>t, <2>1, <2>2, CommitIsSeen DEF SeedingInv, Reseeded
<1>3. ASSUME NEW w \in Workers, NEW r \in Levels, LoadLevel(w, r) PROVE SeedingInv'
  <2>1. job' = [job EXCEPT ![w] = [pc |-> "edit", row |-> r, loaded |-> level[r].grants]]
        /\ UNCHANGED <<level, known, plugin, reseeding>>
    BY <1>3 DEF LoadLevel, rbac, Begin
  <2>2. \A v \in Workers : job'[v] = job[v] \/ job'[v].pc # "seed"
    BY <1>j, <2>1
  <2> QED BY <1>t, <2>1, <2>2, NothingIsCommitted DEF SeedingInv
<1>4. ASSUME NEW w \in Workers, UpdateRefused(w) \/ SeedFails(w) PROVE SeedingInv'
  <2>1. job' = [job EXCEPT ![w] = Idle] /\ UNCHANGED <<level, known, plugin, reseeding>>
    BY <1>4 DEF UpdateRefused, SeedFails, rbac, Done
  <2>2. \A v \in Workers : job'[v] = job[v] \/ job'[v].pc # "seed"
    BY <1>i, <1>j, <2>1
  <2> QED BY <1>t, <2>1, <2>2, NothingIsCommitted DEF SeedingInv
<1>5. ASSUME NEW w \in Workers, SeedRead(w) PROVE SeedingInv'
  <2>1. PICK r \in (IF DefaultLevel = {} THEN {None} ELSE DefaultLevel) :
           Begin(w, [pc |-> "seed", row |-> r, late |-> FALSE, catalog |-> Declared,
                     want |-> DefaultGrants \cap (known \cup Declared),
                     loaded |-> IF r = None THEN {} ELSE level[r].grants])
    BY <1>5 DEF SeedRead
  <2>2. PICK want, loaded, declared :
           /\ want = DefaultGrants \cap (known \cup Declared)
           /\ loaded = IF r = None THEN {} ELSE level[r].grants
           /\ declared = Declared
    OBVIOUS
  <2>3. PICK x : /\ x = [pc |-> "seed", row |-> r, late |-> FALSE, catalog |-> declared,
                         want |-> want, loaded |-> loaded]
                 /\ job' = [job EXCEPT ![w] = x]
    BY <2>1, <2>2 DEF Begin
  <2>4. x.row = r /\ x.catalog = declared /\ x.want = want /\ x.loaded = loaded
    BY <2>3
  <2>5. \/ r = None /\ DefaultLevel = {}
        \/ r \in DefaultLevel /\ loaded = level[r].grants
    BY <2>1, <2>2, AccessConstants DEF DefaultLevel
  <2>6. UpToDate(x)
    BY <2>2, <2>4, <2>5 DEF UpToDate
  <2>7. \A v \in Workers : job'[v] = job[v] \/ UpToDate(job'[v])
    BY <1>j, <2>3, <2>6
  <2>8. UNCHANGED <<level, known, plugin, reseeding>>
    BY <1>5 DEF SeedRead, rbac
  <2> QED BY <1>t, <2>7, <2>8, NothingIsCommitted DEF SeedingInv
<1>6. ASSUME NEW w \in Workers, SeedCommit(w) PROVE SeedingInv'
  <2>1. job' = [Outrun EXCEPT ![w] = Idle] /\ reseeding' = ~job[w].late
    BY <1>6 DEF SeedCommit
  <2>2. \A v \in Workers : job'[v] = Outrun[v] \/ job'[v].pc # "seed"
    BY <1>i, <1>j, <2>1
  <2>3. CASE job[w].late
    BY <1>t, <2>1, <2>2, <2>3, CommitIsSeen DEF SeedingInv, Reseeded
  <2>4. CASE ~job[w].late
    <3>1. Reseeded'
      BY <1>6, <1>t, <2>4, SeedingIsComplete DEF Reseeded
    <3>2. Current'
      BY <1>t, <2>2, CommitIsSeen
    <3> QED BY <1>t, <3>1, <3>2 DEF SeedingInv
  <2> QED BY <2>3, <2>4
<1>7. ~OfGroups
    BY DEF OfGroups, On
<1> QED
    BY <1>1, <1>2, <1>3, <1>4, <1>5, <1>6, <1>7 DEF AccessNext, CreateGroup, DeleteGroup, AddMember,
       RemoveMember, RenameGroup, ReadGroups, SetGroups

LEMMA SeedingKept == Spec => []SeedingInv
<1>1. RolesInv /\ Init => SeedingInv
  <2>1. ASSUME Init PROVE ~reseeding /\ \A w \in Workers : job[w].pc = "idle"
    BY <2>1 DEF Init, AccessInit, Idle
  <2> QED BY <2>1 DEF SeedingInv, Current, Reseeded, IsAt
<1>2. RolesInv' /\ SeedingInv /\ [Next]_vars => SeedingInv'
  <2> SUFFICES ASSUME RolesInv', SeedingInv, [Next]_vars PROVE SeedingInv'
    OBVIOUS
  <2>1. CASE UNCHANGED <<level, known, plugin, reseeding, scene>> /\
             (scene \notin {"role", "level"} \/ UNCHANGED job)
    <3>1. UNCHANGED <<Declared, DefaultLevel>>
      BY <2>1 DEF Declared, DefaultLevel
    <3>2. Reseeded'
      BY <2>1, <3>1 DEF SeedingInv, Reseeded, Complete
    <3>3. Current'
      BY <2>1, <3>1 DEF SeedingInv, Current, UpToDate, IsAt
    <3> QED BY <3>2, <3>3 DEF SeedingInv
  <2>2. CASE UNCHANGED vars
    BY <2>1, <2>2 DEF vars, accessVars, rbac
  <2>3. CASE UNCHANGED scene /\ AccessNext /\ scene \in {"role", "level"}
    BY <2>3, SeedingStep
  <2>4. CASE UNCHANGED scene /\ AccessNext /\ scene \notin {"role", "level"}
    <3>1. OfGroups
      BY <2>4, OtherStepsAreOfGroups
    <3> QED BY <2>1, <2>4, <3>1 DEF OfGroups, rbac
  <2>5. CASE UNCHANGED <<accessVars, scene>> /\ scene \notin {"role", "level"}
    BY <2>1, <2>5 DEF accessVars, rbac
  <2> QED BY <2>2, <2>3, <2>4, <2>5 DEF Next
<1> QED BY <1>1, <1>2, RolesKept, PTL DEF Spec

\* A seeding that begins after another one has committed, and commits before
\* anybody else does, finds its permissions, its default row, the row's name
\* and its grants in place, and changes nothing (seed_default_rbac).
THEOREM SeedingTwiceChangesNothing == Spec => SeedingIsIdempotent
<1>1. ASSUME SeedingInv, NEW w \in Workers, SeedCommit(w), reseeding, ~job[w].late
      PROVE  UNCHANGED rbac
    BY <1>1, SeedingAgain DEF SeedCommit, RolesOrLevels
<1>2. SeedingInv /\ [Next]_vars =>
         [\A w \in Workers : SeedCommit(w) /\ reseeding /\ ~job[w].late => UNCHANGED rbac]_<<accessVars, job>>
    BY <1>1
<1> QED BY <1>2, SeedingKept, PTL DEF Spec, SeedingIsIdempotent

-----------------------------------------------------------------------------
\* Who asked for what: an import has at most one statement it has not sent.
LEMMA ExchangeIsTyped ==
    ASSUME ExchangeInv
    PROVE  ExchangeTypeOK
<1>1. ASSUME request.pc = "rows"
      PROVE  /\ request.todo \subseteq Keys /\ request.errors \subseteq Keys
             /\ Cardinality(request.unsent) <= 1
  <2>1. scene = "import"
    BY <1>1 DEF ExchangeInv, ExportInv, ExportRequest, NoRequest
  <2>2. RowsAreRight /\ request.todo \subseteq Keys /\ request.errors \subseteq Keys
    BY <1>1, <2>1, RowsRequest DEF ExchangeInv, ImportInv
  <2>3. request.unsent = {} \/ \E u : request.unsent = {u}
    BY <2>2 DEF RowsAreRight
  <2>4. Cardinality(request.unsent) <= 1
    <3>1. CASE request.unsent = {}
      BY <3>1, FS_EmptySet
    <3>2. ASSUME NEW u, request.unsent = {u} PROVE Cardinality(request.unsent) = 1
      BY <3>2, FS_Singleton
    <3> QED BY <2>3, <3>1, <3>2
  <2> QED BY <2>2, <2>4
<1> QED BY <1>1 DEF ExchangeTypeOK, ExchangeInv, ImportInv, ExportInv

\* Rows, files, histories and requests keep their shape: among other things no
\* two roles or levels have a slug or a name in common and their permissions
\* exist (AccessControl's unique keys and flushes), a tag that is attached
\* exists, and no segment of a log is overfull.
THEOREM TypeCorrect == Spec => []TypeOK
<1>1. RatesInv => CurrenciesTypeOK
    BY DEF RatesInv, SettingsInv, ValidSettings, CurrenciesTypeOK
<1>2. FlagsInv /\ TablesInv => CatalogueTypeOK
    BY DEF FlagsInv, TablesInv, TagsInv, FieldsInv, PositionsAreRight, CatalogueTypeOK
<1>3. ExchangeInv => ExchangeTypeOK
    BY ExchangeIsTyped
<1>4. FilesInv => FilesTypeOK
    BY DEF FilesInv, FilesTypeOK
<1>5. RolesInv /\ GroupsInv => AccessTypeOK
    BY DEF RolesInv, LevelsInv, Distinct, Granted, GroupsInv, AccessTypeOK
<1>6. RatesInv /\ FlagsInv /\ TablesInv /\ ExchangeInv /\ FilesInv /\ RolesInv /\ GroupsInv => TypeOK
    BY <1>1, <1>2, <1>3, <1>4, <1>5 DEF TypeOK
<1> QED BY <1>6, RatesKept, FlagsKept, TablesKept, ExchangeKept, FilesKept, RolesKept, GroupsKept, PTL
================================================================================

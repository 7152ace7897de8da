--------------------------- MODULE SequenceFacts ---------------------------
(***************************************************************************)
(* Facts about numbers, sequences and induction over them that the proofs  *)
(* of several modules need.  Induction is over a set of numbers instead of *)
(* a predicate, so that it needs no operator as a parameter.               *)
(***************************************************************************)
EXTENDS Selected, SequencesExt, SequenceTheorems, WellFoundedInduction, TLAPS

\* Quotient and remainder.
LEMMA Division ==
  ASSUME NEW n \in Nat, NEW d \in Nat \ {0}
  PROVE  /\ n \div d \in Nat /\ n % d \in 0 .. d - 1
         /\ n = d * (n \div d) + (n % d)
  OBVIOUS

\* A number below the divisor is its own remainder, and the divisor has none.
LEMMA SmallDivision ==
  ASSUME NEW n \in Nat, NEW d \in Nat \ {0}, n < d
  PROVE  n % d = n
  BY Division

\* The divisor has no remainder.
LEMMA Wraps ==
  ASSUME NEW d \in Nat \ {0}
  PROVE  d % d = 0
  BY Division

\* A set of natural numbers that is not empty has a least element.
LEMMA LeastNumber ==
  ASSUME NEW T \in SUBSET Nat, T # {}
  PROVE  \E m \in T : \A k \in T : m <= k
<1> DEFINE R == OpToRel(<, Nat)
<1>1. IsWellFoundedOn(R, Nat)
  BY NatLessThanWellFounded
<1> HIDE DEF R
<1>2. PICK m \in T : \A k \in T : <<k, m>> \notin R
  BY <1>1, WFMin
<1>3. \A k \in T : ~(k < m)
  BY <1>2 DEF R, OpToRel
<1> QED
  BY <1>2, <1>3

\* A set that has zero, and n + 1 whenever it has n, has every natural number.
LEMMA SetInduction ==
  ASSUME NEW T, 0 \in T, \A n \in Nat : n \in T => n + 1 \in T
  PROVE  Nat \subseteq T
<1> SUFFICES ASSUME Nat \ T # {} PROVE FALSE
  OBVIOUS
<1>1. PICK m \in Nat \ T : \A k \in Nat \ T : m <= k
  BY LeastNumber
<1>2. m # 0 /\ m - 1 \in Nat /\ m - 1 \notin Nat \ T
  BY <1>1
<1> QED
  BY <1>1, <1>2

----------------------------------------------------------------------------
\* A sequence that begins as one and goes on as another is their concatenation.
LEMMA ConcatIs ==
  ASSUME NEW U, NEW a \in Seq(U), NEW b \in Seq(U), NEW c \in Seq(U),
         Len(c) = Len(a) + Len(b),
         \A i \in 1 .. Len(a) : c[i] = a[i],
         \A i \in 1 .. Len(b) : c[Len(a) + i] = b[i]
  PROVE  c = a \o b
<1>1. /\ a \o b \in Seq(U) /\ Len(a \o b) = Len(a) + Len(b)
      /\ Len(a) \in Nat /\ Len(b) \in Nat
  BY ConcatProperties
<1>2. ASSUME NEW i \in 1 .. Len(c) PROVE c[i] = (a \o b)[i]
  <2>1. CASE i <= Len(a)
    BY <2>1
  <2>2. CASE ~(i <= Len(a))
    <3>1. i - Len(a) \in 1 .. Len(b) /\ Len(a) + (i - Len(a)) = i
      BY <1>1, <2>2
    <3>2. c[i] = b[i - Len(a)]
      BY <3>1
    <3> QED
      BY <1>1, <2>2, <3>1, <3>2
  <2> QED
    BY <2>1, <2>2
<1> QED
  BY <1>1, <1>2, SeqEqual

\* A sequence is its first element and the rest.
LEMMA FirstAndRest ==
  ASSUME NEW U, NEW s \in Seq(U), s # <<>>
  PROVE  /\ Head(s) = s[1] /\ s[1] \in U /\ Tail(s) \in Seq(U)
         /\ Len(s) \in Nat /\ Len(s) >= 1 /\ Len(Tail(s)) = Len(s) - 1
         /\ Len(s) = 1 <=> Tail(s) = <<>>
<1>1. /\ Head(s) = s[1] /\ s[1] \in U /\ Tail(s) \in Seq(U)
      /\ Len(s) \in Nat /\ Len(s) >= 1 /\ Len(Tail(s)) = Len(s) - 1
  OBVIOUS
<1>2. Len(Tail(s)) = 0 <=> Tail(s) = <<>>
  <2> DEFINE t == Tail(s)
  <2>1. t \in Seq(U)
    BY <1>1
  <2> HIDE DEF t
  <2>2. Len(t) = 0 <=> t = <<>>
    BY <2>1
  <2> QED
    BY <2>2 DEF t
<1>3. Len(s) = 1 <=> Len(Tail(s)) = 0
  BY <1>1
<1> QED
  BY <1>1, <1>2, <1>3, Zenon

\* A function on the first numbers is a sequence.
LEMMA FunctionSeq ==
  ASSUME NEW S, NEW n \in Nat, NEW f \in [1 .. n -> S]
  PROVE  f \in Seq(S)
  OBVIOUS

----------------------------------------------------------------------------
(* Only                                                                    *)

Picks(s, S, f, n) ==
  f = [i \in 0 .. n |->
         IF i = 0 THEN <<>>
         ELSE IF s[i] \in S THEN Append(f[i - 1], s[i]) ELSE f[i - 1]]

\* The filtering that Only computes exists for any number of elements.
LEMMA PicksExist ==
  ASSUME NEW s, NEW S
  PROVE  \A n \in Nat : \E f : Picks(s, S, f, n)
<1> DEFINE T == {n \in Nat : \E f : Picks(s, S, f, n)}
<1>1. 0 \in T
  <2> DEFINE f == [i \in 0 .. 0 |-> <<>>]
  <2>1. Picks(s, S, f, 0)
    BY DEF Picks
  <2> QED
    BY <2>1
<1>2. ASSUME NEW n \in Nat, n \in T PROVE n + 1 \in T
  <2>1. PICK f : Picks(s, S, f, n)
    BY <1>2
  <2> DEFINE g == [i \in 0 .. n + 1 |->
                     IF i = n + 1
                     THEN IF s[n + 1] \in S THEN Append(f[n], s[n + 1]) ELSE f[n]
                     ELSE f[i]]
  <2>2. \A i \in 0 .. n : g[i] = f[i]
    OBVIOUS
  <2>3. \A i \in 0 .. n + 1 :
          g[i] = IF i = 0 THEN <<>>
                 ELSE IF s[i] \in S THEN Append(g[i - 1], s[i]) ELSE g[i - 1]
    <3> SUFFICES ASSUME NEW i \in 0 .. n + 1
                 PROVE  g[i] = IF i = 0 THEN <<>>
                               ELSE IF s[i] \in S THEN Append(g[i - 1], s[i]) ELSE g[i - 1]
      OBVIOUS
    <3>1. CASE i = n + 1
      BY <2>2, <3>1
    <3>2. CASE i # n + 1
      <4>1. i \in 0 .. n /\ (i # 0 => i - 1 \in 0 .. n) /\ g[i] = f[i]
        BY <3>2
      <4>2. f[i] = IF i = 0 THEN <<>>
                   ELSE IF s[i] \in S THEN Append(f[i - 1], s[i]) ELSE f[i - 1]
        BY <2>1, <4>1 DEF Picks
      <4> QED
        BY <2>2, <4>1, <4>2
    <3> QED
      BY <3>1, <3>2
  <2>4. Picks(s, S, g, n + 1)
    BY <2>3 DEF Picks
  <2> QED
    BY <2>4
<1> HIDE DEF T
<1>3. Nat \subseteq T
  BY <1>1, <1>2, SetInduction
<1> QED
  BY <1>3 DEF T

\* Only is the filtering of all the elements.
LEMMA OnlyPick ==
  ASSUME NEW U, NEW s \in Seq(U), NEW S
  PROVE  \E f : Picks(s, S, f, Len(s)) /\ Only(s, S) = f[Len(s)]
<1>1. Len(s) \in Nat
  BY LenProperties
<1>2. \E f : Picks(s, S, f, Len(s))
  BY <1>1, PicksExist
<1> QED
  BY <1>2 DEF Only, Picks

\* Two computations agree as far as their sequences do.
LEMMA PicksAgree ==
  ASSUME NEW s, NEW t, NEW S, NEW m \in Nat, NEW n \in Nat, m <= n,
         \A i \in 1 .. m : s[i] = t[i],
         NEW f, Picks(s, S, f, m), NEW g, Picks(t, S, g, n)
  PROVE  f[m] = g[m]
<1> DEFINE T == {k \in Nat : k <= m => f[k] = g[k]}
<1>1. 0 \in T
  BY DEF Picks
<1>2. ASSUME NEW k \in Nat, k \in T PROVE k + 1 \in T
  <2> SUFFICES ASSUME k + 1 <= m PROVE f[k + 1] = g[k + 1]
    OBVIOUS
  <2>1. /\ k + 1 \in 0 .. m /\ k + 1 \in 0 .. n /\ k + 1 # 0 /\ (k + 1) - 1 = k
        /\ s[k + 1] = t[k + 1] /\ f[k] = g[k]
    BY <1>2
  <2>2. f[k + 1] = IF s[k + 1] \in S THEN Append(f[k], s[k + 1]) ELSE f[k]
    BY <2>1 DEF Picks
  <2>3. g[k + 1] = IF t[k + 1] \in S THEN Append(g[k], t[k + 1]) ELSE g[k]
    BY <2>1 DEF Picks
  <2> QED
    BY <2>1, <2>2, <2>3
<1> HIDE DEF T
<1>3. Nat \subseteq T
  BY <1>1, <1>2, SetInduction
<1> QED
  BY <1>3 DEF T

\* Nothing is left of the empty sequence.
LEMMA OnlyEmpty ==
  ASSUME NEW S
  PROVE  Only(<<>>, S) = <<>>
<1>1. <<>> \in Seq({}) /\ Len(<<>>) = 0
  OBVIOUS
<1>2. PICK f : Picks(<<>>, S, f, 0) /\ Only(<<>>, S) = f[0]
  BY <1>1, OnlyPick
<1>3. f[0] = <<>>
  BY <1>2 DEF Picks
<1> QED
  BY <1>2, <1>3

\* One more element is kept when it is in S.
LEMMA OnlyAppend ==
  ASSUME NEW U, NEW s \in Seq(U), NEW e \in U, NEW S
  PROVE  Only(Append(s, e), S) =
           IF e \in S THEN Append(Only(s, S), e) ELSE Only(s, S)
<1> DEFINE t == Append(s, e)
           n == Len(s)
<1>1. /\ t \in Seq(U) /\ Len(t) = n + 1 /\ t[n + 1] = e /\ n \in Nat
      /\ \A i \in 1 .. n : s[i] = t[i]
  BY AppendProperties
<1> HIDE DEF t
<1>2. PICK f : Picks(s, S, f, n) /\ Only(s, S) = f[n]
  BY OnlyPick
<1>3. PICK g : Picks(t, S, g, n + 1) /\ Only(t, S) = g[n + 1]
  BY <1>1, OnlyPick
<1>4. f[n] = g[n]
  BY <1>1, <1>2, <1>3, PicksAgree
<1>5. g[n + 1] = IF t[n + 1] \in S THEN Append(g[n], t[n + 1]) ELSE g[n]
  <2>1. n + 1 \in 0 .. n + 1 /\ n + 1 # 0 /\ (n + 1) - 1 = n
    BY <1>1
  <2> QED
    BY <1>3, <2>1 DEF Picks
<1> QED
  BY <1>1, <1>2, <1>3, <1>4, <1>5 DEF t

\* What is left has no new elements.
LEMMA OnlySeq ==
  ASSUME NEW U, NEW s \in Seq(U), NEW S
  PROVE  Only(s, S) \in Seq(U)
<1> DEFINE T == {n \in Nat : \A t \in Seq(U) : Len(t) = n => Only(t, S) \in Seq(U)}
<1>1. 0 \in T
  <2>1. \A t \in Seq(U) : Len(t) = 0 => t = <<>>
    OBVIOUS
  <2> QED
    BY <2>1, OnlyEmpty
<1>2. ASSUME NEW n \in Nat, n \in T PROVE n + 1 \in T
  <2> SUFFICES ASSUME NEW t \in Seq(U), Len(t) = n + 1 PROVE Only(t, S) \in Seq(U)
    OBVIOUS
  <2>0. t # <<>>
    OBVIOUS
  <2>1. PICK u \in Seq(U), e \in U : t = Append(u, e)
    BY <2>0, SequenceEmptyOrAppend
  <2>2. Len(u) = n
    BY <2>1
  <2>3. Only(u, S) \in Seq(U)
    BY <1>2, <2>2
  <2>4. Only(t, S) = IF e \in S THEN Append(Only(u, S), e) ELSE Only(u, S)
    BY <2>1, OnlyAppend
  <2> QED
    BY <2>3, <2>4, AppendProperties
<1> HIDE DEF T
<1>3. Nat \subseteq T
  BY <1>1, <1>2, SetInduction
<1> QED
  BY <1>3 DEF T

\* Two sequences put together may be filtered one by one.
LEMMA OnlyConcat ==
  ASSUME NEW U, NEW s \in Seq(U), NEW t \in Seq(U), NEW S
  PROVE  Only(s \o t, S) = Only(s, S) \o Only(t, S)
<1> DEFINE T == {n \in Nat : \A r \in Seq(U) :
                    Len(r) = n => Only(s \o r, S) = Only(s, S) \o Only(r, S)}
<1>1. 0 \in T
  <2>1. \A r \in Seq(U) : Len(r) = 0 => r = <<>>
    OBVIOUS
  <2>2. Only(s \o <<>>, S) = Only(s, S) \o Only(<<>>, S)
    BY OnlyEmpty, OnlySeq, ConcatEmptySeq
  <2> QED
    BY <2>1, <2>2
<1>2. ASSUME NEW n \in Nat, n \in T PROVE n + 1 \in T
  <2> SUFFICES ASSUME NEW r \in Seq(U), Len(r) = n + 1
               PROVE  Only(s \o r, S) = Only(s, S) \o Only(r, S)
    OBVIOUS
  <2>0. r # <<>>
    OBVIOUS
  <2>1. PICK u \in Seq(U), e \in U : r = Append(u, e)
    BY <2>0, SequenceEmptyOrAppend
  <2>2. Len(u) = n
    BY <2>1
  <2>3. Only(s \o u, S) = Only(s, S) \o Only(u, S)
    BY <1>2, <2>2
  <2>4. s \o r = Append(s \o u, e) /\ s \o u \in Seq(U)
    BY <2>1
  <2>5. Only(s, S) \in Seq(U) /\ Only(u, S) \in Seq(U)
    BY OnlySeq
  <2>6. Only(s, S) \o Append(Only(u, S), e) = Append(Only(s, S) \o Only(u, S), e)
    BY <2>5
  <2>7. Only(r, S) = IF e \in S THEN Append(Only(u, S), e) ELSE Only(u, S)
    BY <2>1, OnlyAppend
  <2>8. Only(s \o r, S)
          = IF e \in S THEN Append(Only(s \o u, S), e) ELSE Only(s \o u, S)
    <3>1. ASSUME NEW v \in Seq(U)
          PROVE  Only(Append(v, e), S)
                   = IF e \in S THEN Append(Only(v, S), e) ELSE Only(v, S)
      BY OnlyAppend
    <3> QED
      BY <2>4, <3>1, Zenon
  <2> QED
    BY <2>3, <2>6, <2>7, <2>8
<1> HIDE DEF T
<1>3. Nat \subseteq T
  BY <1>1, <1>2, SetInduction
<1> QED
  BY <1>3 DEF T

\* What is left of one element.
LEMMA OnlyOne ==
  ASSUME NEW U, NEW e \in U, NEW S
  PROVE  Only(<<e>>, S) = IF e \in S THEN <<e>> ELSE <<>>
<1>1. ASSUME NEW v \in Seq(U)
      PROVE  Only(Append(v, e), S) = IF e \in S THEN Append(Only(v, S), e) ELSE Only(v, S)
  BY OnlyAppend
<1>2. <<>> \in Seq(U) /\ Append(<<>>, e) = <<e>>
  OBVIOUS
<1>3. Only(Append(<<>>, e), S) = IF e \in S THEN Append(Only(<<>>, S), e) ELSE Only(<<>>, S)
  BY <1>1, <1>2, Zenon
<1> QED
  BY <1>2, <1>3, OnlyEmpty

\* The first element counts or not, and what follows it as before.
LEMMA OnlyCons ==
  ASSUME NEW U, NEW e \in U, NEW s \in Seq(U), NEW S
  PROVE  Only(<<e>> \o s, S) = (IF e \in S THEN <<e>> ELSE <<>>) \o Only(s, S)
<1>1. <<e>> \in Seq(U)
  OBVIOUS
<1>2. Only(<<e>> \o s, S) = Only(<<e>>, S) \o Only(s, S)
  <2>1. ASSUME NEW r \in Seq(U) PROVE Only(r \o s, S) = Only(r, S) \o Only(s, S)
    BY OnlyConcat
  <2> QED
    BY <1>1, <2>1, Zenon
<1>3. Only(<<e>>, S) = IF e \in S THEN <<e>> ELSE <<>>
  BY OnlyOne
<1> QED
  BY <1>2, <1>3, Zenon

\* Nothing is selected from a sequence without an element of the set.
LEMMA OnlyNone ==
  ASSUME NEW U, NEW s \in Seq(U), NEW S, \A i \in 1 .. Len(s) : s[i] \notin S
  PROVE  Only(s, S) = <<>>
<1> DEFINE n == Len(s)
<1>1. n \in Nat
  BY LenProperties
<1>2. PICK f : Picks(s, S, f, n) /\ Only(s, S) = f[n]
  BY OnlyPick
<1> DEFINE T == {k \in Nat : k <= n => f[k] = <<>>}
<1>3. 0 \in T
  BY <1>1, <1>2 DEF Picks
<1>4. ASSUME NEW k \in Nat, k \in T PROVE k + 1 \in T
  <2> SUFFICES ASSUME k + 1 <= n PROVE f[k + 1] = <<>>
    OBVIOUS
  <2>1. /\ k + 1 \in 0 .. n /\ k + 1 # 0 /\ (k + 1) - 1 = k
        /\ s[k + 1] \notin S /\ f[k] = <<>>
    BY <1>1, <1>4
  <2> QED
    BY <1>2, <2>1 DEF Picks
<1> HIDE DEF T
<1>5. Nat \subseteq T
  BY <1>3, <1>4, SetInduction
<1> QED
  BY <1>1, <1>2, <1>5 DEF T

----------------------------------------------------------------------------
(* Prefixes                                                                *)

\* A sequence is a prefix of what it begins.
LEMMA PrefixConcat ==
  ASSUME NEW U, NEW s \in Seq(U), NEW t \in Seq(U)
  PROVE  IsPrefix(s, s \o t)
<1>1. /\ s \o t \in Seq(U) /\ Len(s \o t) = Len(s) + Len(t)
      /\ Len(s) \in Nat /\ Len(t) \in Nat
      /\ \A i \in 1 .. Len(s) : (s \o t)[i] = s[i]
  BY ConcatProperties
<1>2. /\ \A i \in 1 .. Len(s) : s[i] \in U /\ (s \o t)[i] \in U
  BY <1>1
<1> DEFINE a == SubSeq(s, 1, Len(s))
           b == SubSeq(s \o t, 1, Len(s))
<1>3. /\ a \in Seq(U) /\ Len(a) = Len(s)
      /\ \A i \in 1 .. Len(s) : a[i] = s[i]
  BY <1>1, <1>2, SubSeqProperties
<1>4. /\ b \in Seq(U) /\ Len(b) = Len(s)
      /\ \A i \in 1 .. Len(s) : b[i] = s[i]
  BY <1>1, <1>2, SubSeqProperties
<1> HIDE DEF a, b
<1>5. a = b
  BY <1>3, <1>4, SeqEqual, SMTT(30)
<1> QED
  BY <1>1, <1>5 DEF IsPrefix, a, b

\* What a prefix lacks.
LEMMA PrefixRest ==
  ASSUME NEW U, NEW s \in Seq(U), NEW t \in Seq(U), IsPrefix(s, t)
  PROVE  \E r \in Seq(U) : t = s \o r
<1>1. /\ Len(s) \in Nat /\ Len(t) \in Nat /\ Len(s) <= Len(t)
      /\ SubSeq(s, 1, Len(s)) = SubSeq(t, 1, Len(s))
  BY LenProperties DEF IsPrefix
<1> DEFINE r == SubSeq(t, Len(s) + 1, Len(t))
<1>2. SubSeq(s, 1, Len(s)) = s /\ SubSeq(t, 1, Len(t)) = t
  BY SubSeqFull
<1>3. SubSeq(t, 1, Len(s)) \o r = SubSeq(t, 1, Len(t))
  <2>1. /\ 1 \in 1 .. Len(t) + 1 /\ Len(s) \in 1 - 1 .. Len(t)
        /\ Len(t) \in Len(s) .. Len(t)
    BY <1>1
  <2> QED
    BY <2>1, ConcatAdjacentSubSeq
<1>4. r \in Seq(U)
  <2>1. \A i \in Len(s) + 1 .. Len(t) : t[i] \in U
    BY <1>1
  <2> QED
    BY <1>1, <2>1, SubSeqProperties
<1> QED
  BY <1>1, <1>2, <1>3, <1>4

\* A prefix stays one when the sequence gets longer.
LEMMA PrefixGrows ==
  ASSUME NEW U, NEW s \in Seq(U), NEW t \in Seq(U), NEW r \in Seq(U),
         IsPrefix(s, t)
  PROVE  IsPrefix(s, t \o r)
<1>1. PICK q \in Seq(U) : t = s \o q
  BY PrefixRest
<1>2. t \o r = s \o (q \o r) /\ q \o r \in Seq(U)
  BY <1>1, ConcatAssociative, ConcatProperties
<1> QED
  BY <1>2, PrefixConcat

\* The beginning of a prefix is a prefix.
LEMMA PrefixShrinks ==
  ASSUME NEW U, NEW s \in Seq(U), NEW m \in Seq(U), NEW t \in Seq(U),
         IsPrefix(s \o m, t)
  PROVE  IsPrefix(s, t)
<1>1. s \o m \in Seq(U)
  BY ConcatProperties
<1>2. PICK q \in Seq(U) : t = (s \o m) \o q
  BY <1>1, PrefixRest, ZenonT(40)
<1>3. t = s \o (m \o q) /\ m \o q \in Seq(U)
  BY <1>2, ConcatAssociative, ConcatProperties
<1> QED
  BY <1>3, PrefixConcat

\* A sequence is its own prefix.
LEMMA PrefixSelf ==
  ASSUME NEW U, NEW s \in Seq(U)
  PROVE  IsPrefix(s, s)
  BY DEF IsPrefix

----------------------------------------------------------------------------
(* FlattenSeq                                                              *)

\* The function FlattenSeq computes with, for the first n sequences.
Flattens(ss, f, n) ==
  f = [i \in 1 .. n |-> IF i = 1 THEN ss[i] ELSE f[i - 1] \o ss[i]]

\* A recursive function that flattens exists for every length.
LEMMA FlattenExist ==
  ASSUME NEW ss
  PROVE  \A n \in Nat : \E f : Flattens(ss, f, n)
<1> DEFINE T == {n \in Nat : \E f : Flattens(ss, f, n)}
<1>1. 0 \in T
  <2> DEFINE f == [i \in 1 .. 0 |-> <<>>]
  <2>1. Flattens(ss, f, 0)
    BY DEF Flattens
  <2> QED
    BY <2>1
<1>2. ASSUME NEW n \in Nat, n \in T PROVE n + 1 \in T
  <2>1. PICK f : Flattens(ss, f, n)
    BY <1>2
  <2> DEFINE g == [i \in 1 .. n + 1 |->
                     IF i = n + 1
                     THEN IF i = 1 THEN ss[i] ELSE f[n] \o ss[i]
                     ELSE f[i]]
  <2>2. \A i \in 1 .. n : g[i] = f[i]
    OBVIOUS
  <2>3. ASSUME NEW i \in 1 .. n + 1
        PROVE  g[i] = IF i = 1 THEN ss[i] ELSE g[i - 1] \o ss[i]
    <3>1. CASE i = n + 1
      <4>1. i # 1 => i - 1 = n /\ n \in 1 .. n
        BY <3>1
      <4>2. i # 1 => g[i - 1] = f[n]
        BY <2>2, <4>1
      <4> QED
        BY <3>1, <4>2
    <3>2. CASE i # n + 1
      <4>1. i \in 1 .. n /\ (i # 1 => i - 1 \in 1 .. n)
        BY <3>2
      <4>2. f[i] = IF i = 1 THEN ss[i] ELSE f[i - 1] \o ss[i]
        BY <2>1, <4>1 DEF Flattens
      <4>3. g[i] = f[i] /\ (i # 1 => g[i - 1] = f[i - 1])
        BY <2>2, <4>1
      <4> HIDE DEF g
      <4> QED
        BY <4>2, <4>3
    <3> QED
      BY <3>1, <3>2
  <2>4. g = [i \in 1 .. n + 1 |-> g[i]]
    OBVIOUS
  <2> HIDE DEF g
  <2>5. Flattens(ss, g, n + 1)
    BY <2>3, <2>4 DEF Flattens
  <2> QED
    BY <2>5
<1> HIDE DEF T
<1>3. Nat \subseteq T
  BY <1>1, <1>2, SetInduction
<1> QED
  BY <1>3 DEF T

\* FlattenSeq is its last value.
LEMMA FlattenIs ==
  ASSUME NEW U, NEW ss \in Seq(U), Len(ss) # 0
  PROVE  \E f : Flattens(ss, f, Len(ss)) /\ FlattenSeq(ss) = f[Len(ss)]
<1>1. Len(ss) \in Nat
  BY LenProperties
<1>2. \E f : Flattens(ss, f, Len(ss))
  BY <1>1, FlattenExist
<1> QED
  BY <1>2 DEF FlattenSeq, Flattens

\* Two sequences of sequences are the same as far as n.
Agree(s, t, n) == \A i \in 1 .. n : s[i] = t[i]

\* Then so are the functions that flatten them.
LEMMA FlattenAgree ==
  ASSUME NEW s, NEW t, NEW m \in Nat, Agree(s, t, m),
         NEW f, Flattens(s, f, m), NEW g, Flattens(t, g, m + 1)
  PROVE  m # 0 => f[m] = g[m]
<1> DEFINE T == {k \in Nat : k # 0 /\ k <= m => f[k] = g[k]}
<1>1. 0 \in T
  OBVIOUS
<1>2. ASSUME NEW k \in Nat, k \in T PROVE k + 1 \in T
  <2> SUFFICES ASSUME k + 1 <= m PROVE f[k + 1] = g[k + 1]
    OBVIOUS
  <2>1. /\ k + 1 \in 1 .. m /\ k + 1 \in 1 .. m + 1 /\ (k + 1) - 1 = k
        /\ s[k + 1] = t[k + 1] /\ (k + 1 # 1 => f[k] = g[k])
    BY <1>2 DEF Agree
  <2>2. f[k + 1] = IF k + 1 = 1 THEN s[k + 1] ELSE f[k] \o s[k + 1]
    BY <2>1 DEF Flattens
  <2>3. g[k + 1] = IF k + 1 = 1 THEN t[k + 1] ELSE g[k] \o t[k + 1]
    BY <2>1 DEF Flattens
  <2> QED
    BY <2>1, <2>2, <2>3
<1> HIDE DEF T
<1>3. Nat \subseteq T
  BY <1>1, <1>2, SetInduction
<1> QED
  BY <1>3 DEF T

\* Nothing flattens to nothing.
LEMMA FlattenEmpty == FlattenSeq(<<>>) = <<>>
  BY DEF FlattenSeq

\* Two sequences that differ in one last element.
LEMMA FlattenMore ==
  ASSUME NEW U, NEW ss \in Seq(Seq(U)), NEW s \in Seq(U), NEW t \in Seq(Seq(U)),
         NEW n \in Nat, n = Len(ss), n + 1 = Len(t), t[n + 1] = s,
         Agree(ss, t, n)
  PROVE  FlattenSeq(t) = FlattenSeq(ss) \o s
<1>1. n + 1 \in Nat /\ n + 1 # 0 /\ n <= n + 1
  OBVIOUS
<1>2. PICK g : Flattens(t, g, n + 1) /\ FlattenSeq(t) = g[n + 1]
  BY <1>1, FlattenIs
<1>3. g[n + 1] = IF n = 0 THEN s ELSE g[n] \o s
  <2>1. n + 1 \in 1 .. n + 1 /\ (n + 1) - 1 = n /\ (n + 1 = 1 <=> n = 0)
    BY <1>1
  <2> QED
    BY <1>2, <2>1 DEF Flattens
<1>4. CASE n = 0
  <2>1. ss = <<>>
    BY <1>4, EmptySeq
  <2>2. FlattenSeq(ss) = <<>>
    BY <2>1, FlattenEmpty, Zenon
  <2>3. FlattenSeq(t) = s
    BY <1>2, <1>3, <1>4
  <2>4. <<>> \o s = s
    OBVIOUS
  <2> QED
    BY <2>2, <2>3, <2>4, Zenon
<1>5. CASE n # 0
  <2>1. PICK f : Flattens(ss, f, n) /\ FlattenSeq(ss) = f[n]
    BY <1>5, FlattenIs
  <2>2. f[n] = g[n]
    BY <1>2, <1>5, <2>1, FlattenAgree
  <2> QED
    BY <1>2, <1>3, <1>5, <2>1, <2>2
<1> QED
  BY <1>4, <1>5

\* Flattening one sequence more appends its elements.
LEMMA FlattenAppend ==
  ASSUME NEW U, NEW ss \in Seq(Seq(U)), NEW s \in Seq(U)
  PROVE  FlattenSeq(Append(ss, s)) = FlattenSeq(ss) \o s
<1>1. /\ Append(ss, s) \in Seq(Seq(U)) /\ Len(Append(ss, s)) = Len(ss) + 1
      /\ Append(ss, s)[Len(ss) + 1] = s /\ Len(ss) \in Nat
      /\ Agree(ss, Append(ss, s), Len(ss))
  BY AppendProperties DEF Agree
<1> QED
  BY <1>1, FlattenMore, Zenon

\* The elements are those of the sequences flattened.
LEMMA FlattenType ==
  ASSUME NEW U, NEW ss \in Seq(Seq(U))
  PROVE  FlattenSeq(ss) \in Seq(U)
<1> DEFINE T == {n \in Nat : \A t \in Seq(Seq(U)) : Len(t) = n => FlattenSeq(t) \in Seq(U)}
<1>1. 0 \in T
  <2>1. \A t \in Seq(Seq(U)) : Len(t) = 0 => t = <<>>
    OBVIOUS
  <2> QED
    BY <2>1, FlattenEmpty
<1>2. ASSUME NEW n \in Nat, n \in T PROVE n + 1 \in T
  <2> SUFFICES ASSUME NEW t \in Seq(Seq(U)), Len(t) = n + 1
               PROVE FlattenSeq(t) \in Seq(U)
    OBVIOUS
  <2>0. t # <<>>
    OBVIOUS
  <2>1. PICK u \in Seq(Seq(U)), e \in Seq(U) : t = Append(u, e)
    BY <2>0, SequenceEmptyOrAppend
  <2>2. Len(u) = n
    BY <2>1
  <2>3. FlattenSeq(u) \in Seq(U)
    BY <1>2, <2>2
  <2>4. FlattenSeq(t) = FlattenSeq(u) \o e
    BY <2>1, FlattenAppend
  <2> QED
    BY <2>3, <2>4, ConcatProperties
<1> HIDE DEF T
<1>3. Nat \subseteq T
  BY <1>1, <1>2, SetInduction
<1> QED
  BY <1>3, LenProperties DEF T

\* An element may be appended before or after two sequences are put together.
Appended(s, t, e) == s \o Append(t, e) = Append(s \o t, e)

\* So it is for sequences over one set.
LEMMA AppendConcat ==
  ASSUME NEW U, NEW s \in Seq(U), NEW t \in Seq(U), NEW e \in U
  PROVE  Appended(s, t, e)
<1>1. <<e>> \in Seq(U) /\ s \o t \in Seq(U)
  BY ConcatProperties
<1>2. Append(t, e) = t \o <<e>> /\ Append(s \o t, e) = (s \o t) \o <<e>>
  BY <1>1, AppendIsConcat
<1>3. (s \o t) \o <<e>> = s \o (t \o <<e>>)
  BY <1>1, ConcatAssociative
<1> QED
  BY <1>2, <1>3, Zenon DEF Appended

\* Three sequences put together, in either order.
Associated(a, b, c) == (a \o b) \o c = a \o (b \o c)

\* So it is for sequences over one set.
LEMMA Associates ==
  ASSUME NEW U, NEW a \in Seq(U), NEW b \in Seq(U), NEW c \in Seq(U)
  PROVE  Associated(a, b, c)
  BY ConcatAssociative DEF Associated

\* What two sequences put together flatten to.
Flattened(s, t) == FlattenSeq(s \o t) = FlattenSeq(s) \o FlattenSeq(t)

\* Two sequences of sequences may be flattened one by one.
LEMMA FlattenConcat ==
  ASSUME NEW U, NEW s \in Seq(Seq(U)), NEW t \in Seq(Seq(U))
  PROVE  Flattened(s, t)
<1> DEFINE T == {n \in Nat : \A r \in Seq(Seq(U)) : Len(r) = n => Flattened(s, r)}
<1>1. 0 \in T
  <2>1. \A r \in Seq(Seq(U)) : Len(r) = 0 => r = <<>>
    OBVIOUS
  <2>2. FlattenSeq(s) \in Seq(U)
    BY FlattenType
  <2>3. s \o <<>> = s /\ FlattenSeq(s) \o <<>> = FlattenSeq(s)
    BY <2>2, ConcatEmptySeq
  <2>4. Flattened(s, <<>>)
    BY <2>3, FlattenEmpty, Zenon DEF Flattened
  <2> QED
    BY <2>1, <2>4
<1>2. ASSUME NEW n \in Nat, n \in T PROVE n + 1 \in T
  <2> SUFFICES ASSUME NEW r \in Seq(Seq(U)), Len(r) = n + 1 PROVE Flattened(s, r)
    OBVIOUS
  <2>0. r # <<>>
    OBVIOUS
  <2>1. PICK u \in Seq(Seq(U)), e \in Seq(U) : r = Append(u, e)
    BY <2>0, SequenceEmptyOrAppend
  <2>2. Len(u) = n
    BY <2>1
  <2>3. Flattened(s, u)
    BY <1>2, <2>2
  <2>4. Appended(s, u, e) /\ s \o u \in Seq(Seq(U))
    BY AppendConcat, ConcatProperties
  <2>5. /\ FlattenSeq(Append(s \o u, e)) = FlattenSeq(s \o u) \o e
        /\ FlattenSeq(Append(u, e)) = FlattenSeq(u) \o e
    BY <2>4, FlattenAppend
  <2>6. Associated(FlattenSeq(s), FlattenSeq(u), e)
    <3>1. FlattenSeq(s) \in Seq(U) /\ FlattenSeq(u) \in Seq(U)
      BY FlattenType
    <3> QED
      BY <3>1, Associates
  <2> QED
    BY <2>1, <2>3, <2>4, <2>5, <2>6, Zenon DEF Flattened, Appended, Associated
<1> HIDE DEF T
<1>3. Nat \subseteq T
  BY <1>1, <1>2, SetInduction
<1>4. Len(t) \in T
  BY <1>3, LenProperties
<1> QED
  BY <1>4 DEF T

\* One sequence flattens to itself.
LEMMA FlattenOne ==
  ASSUME NEW U, NEW s \in Seq(U)
  PROVE  FlattenSeq(<<s>>) = s
<1>1. <<>> \in Seq(Seq(U)) /\ Append(<<>>, s) = <<s>>
  OBVIOUS
<1>2. FlattenSeq(Append(<<>>, s)) = FlattenSeq(<<>>) \o s
  BY <1>1, FlattenAppend
<1>3. <<>> \o s = s
  OBVIOUS
<1> QED
  BY <1>1, <1>2, <1>3, FlattenEmpty, Zenon

\* As many sequences, none of them longer.
Shorter(s, t) ==
  Len(s) = Len(t) /\ \A i \in 1 .. Len(s) : Len(s[i]) <= Len(t[i])

\* Then they flatten to no more.
LEMMA FlattenShorter ==
  ASSUME NEW U, NEW s \in Seq(Seq(U)), NEW t \in Seq(Seq(U)), Shorter(s, t)
  PROVE  Len(FlattenSeq(s)) <= Len(FlattenSeq(t))
<1> DEFINE T == {n \in Nat : \A x, y \in Seq(Seq(U)) :
                   Len(x) = n /\ Shorter(x, y) => Len(FlattenSeq(x)) <= Len(FlattenSeq(y))}
<1>1. 0 \in T
  <2> SUFFICES ASSUME NEW x \in Seq(Seq(U)), NEW y \in Seq(Seq(U)), Len(x) = 0, Shorter(x, y)
               PROVE  Len(FlattenSeq(x)) <= Len(FlattenSeq(y))
    OBVIOUS
  <2>1. x = <<>> /\ FlattenSeq(y) \in Seq(U)
    BY FlattenType
  <2>2. Len(FlattenSeq(x)) = 0
    BY <2>1, FlattenEmpty, EmptySeq
  <2> QED
    BY <2>1, <2>2
<1>2. ASSUME NEW n \in Nat, n \in T PROVE n + 1 \in T
  <2> SUFFICES ASSUME NEW x \in Seq(Seq(U)), NEW y \in Seq(Seq(U)), Len(x) = n + 1,
                      Shorter(x, y)
               PROVE  Len(FlattenSeq(x)) <= Len(FlattenSeq(y))
    OBVIOUS
  <2>0. x # <<>> /\ y # <<>> /\ Len(y) = n + 1
    BY DEF Shorter
  <2>1. PICK u \in Seq(Seq(U)), e \in Seq(U) : x = Append(u, e)
    BY <2>0, SequenceEmptyOrAppend
  <2>2. PICK v \in Seq(Seq(U)), f \in Seq(U) : y = Append(v, f)
    BY <2>0, SequenceEmptyOrAppend
  <2>3. Len(u) = n /\ Len(v) = n
    BY <2>0, <2>1, <2>2
  <2>4. \A i \in 1 .. n : x[i] = u[i] /\ y[i] = v[i]
    BY <2>1, <2>2, <2>3, AppendProperties
  <2>5. x[n + 1] = e /\ y[n + 1] = f
    BY <2>1, <2>2, <2>3, AppendProperties
  <2>6. Shorter(u, v)
    BY <2>3, <2>4 DEF Shorter
  <2>7. Len(e) <= Len(f)
    BY <2>5 DEF Shorter
  <2>8. Len(FlattenSeq(u)) <= Len(FlattenSeq(v))
    BY <1>2, <2>3, <2>6
  <2>9. FlattenSeq(x) = FlattenSeq(u) \o e /\ FlattenSeq(y) = FlattenSeq(v) \o f
    BY <2>1, <2>2, FlattenAppend
  <2>10. FlattenSeq(u) \in Seq(U) /\ FlattenSeq(v) \in Seq(U)
    BY FlattenType
  <2>11. /\ Len(FlattenSeq(x)) = Len(FlattenSeq(u)) + Len(e)
         /\ Len(FlattenSeq(y)) = Len(FlattenSeq(v)) + Len(f)
    BY <2>9, <2>10, ConcatProperties
  <2>12. Len(FlattenSeq(u)) \in Nat /\ Len(FlattenSeq(v)) \in Nat /\ Len(e) \in Nat /\ Len(f) \in Nat
    BY <2>10, LenProperties
  <2> QED
    BY <2>7, <2>8, <2>11, <2>12
<1> HIDE DEF T
<1>3. Nat \subseteq T
  BY <1>1, <1>2, SetInduction
<1>4. Len(s) \in T
  BY <1>3, LenProperties
<1> QED
  BY <1>4 DEF T
=============================================================================

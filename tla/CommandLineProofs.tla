------------------------- MODULE CommandLineProofs -------------------------
(***************************************************************************)
(* Proofs about CommandLine: a line that read() returns alone and whole    *)
(* runs the command entered, no end of a line runs two, and the thread leaves   *)
(* its buffer only when read() did not return lines.                       *)
(***************************************************************************)
EXTENDS CommandLine, SequenceFacts

----------------------------------------------------------------------------
(* Words                                                                   *)

BlankAt(s, i) == i = 0 \/ s[i] \in {SP, NL}

\* What the i-th character makes of the words taken before it.
Goes(x, s, i) ==
  IF BlankAt(s, i) THEN x
  ELSE IF BlankAt(s, i - 1) THEN Append(x, <<s[i]>>)
  ELSE [x EXCEPT ![Len(x)] = Append(@, s[i])]

\* f is the computation of Words over the first n characters of s.
Takes(s, f, n) == f = [i \in 0 .. n |-> IF i = 0 THEN <<>> ELSE Goes(f[i - 1], s, i)]

\* The computation of Words exists for any number of characters.
LEMMA TakesExist ==
  ASSUME NEW s
  PROVE  \A n \in Nat : \E f : Takes(s, f, n)
<1> DEFINE T == {n \in Nat : \E f : Takes(s, f, n)}
<1>1. 0 \in T
  <2> DEFINE f == [i \in 0 .. 0 |-> <<>>]
  <2>1. Takes(s, f, 0)
    BY DEF Takes
  <2> QED
    BY <2>1
<1>2. ASSUME NEW n \in Nat, n \in T PROVE n + 1 \in T
  <2>1. PICK f : Takes(s, f, n)
    BY <1>2
  <2> DEFINE g == [i \in 0 .. n + 1 |-> IF i = n + 1 THEN Goes(f[n], s, n + 1) ELSE f[i]]
  <2>2. \A i \in 0 .. n : g[i] = f[i]
    OBVIOUS
  <2>3. ASSUME NEW i \in 0 .. n + 1
        PROVE  g[i] = IF i = 0 THEN <<>> ELSE Goes(g[i - 1], s, i)
    <3>1. CASE i = n + 1
      <4>1. g[i] = Goes(f[n], s, n + 1) /\ i # 0 /\ i - 1 = n /\ g[n] = f[n]
        BY <2>2, <3>1
      <4> HIDE DEF g
      <4> QED
        BY <3>1, <4>1, Zenon
    <3>2. CASE i # n + 1
      <4>1. i \in 0 .. n /\ (i # 0 => i - 1 \in 0 .. n) /\ g[i] = f[i]
        BY <3>2
      <4>2. f[i] = IF i = 0 THEN <<>> ELSE Goes(f[i - 1], s, i)
        BY <2>1, <4>1 DEF Takes
      <4>3. i # 0 => g[i - 1] = f[i - 1]
        BY <2>2, <4>1, Zenon
      <4> HIDE DEF g
      <4> QED
        BY <4>1, <4>2, <4>3, Zenon
    <3> QED
      BY <3>1, <3>2
  <2>4. g = [i \in 0 .. n + 1 |-> g[i]]
    OBVIOUS
  <2> HIDE DEF g
  <2>5. [i \in 0 .. n + 1 |-> g[i]] =
          [i \in 0 .. n + 1 |-> IF i = 0 THEN <<>> ELSE Goes(g[i - 1], s, i)]
    BY <2>3, Zenon
  <2>6. Takes(s, g, n + 1)
    BY <2>4, <2>5, Zenon DEF Takes
  <2> QED
    BY <2>6
<1> HIDE DEF T
<1>3. Nat \subseteq T
  BY <1>1, <1>2, SetInduction
<1> QED
  BY <1>3 DEF T

\* Words is that computation over all the characters.
LEMMA WordsTakes ==
  ASSUME NEW U, NEW s \in Seq(U)
  PROVE  \E f : Takes(s, f, Len(s)) /\ Words(s) = f[Len(s)]
<1>1. Len(s) \in Nat
  BY LenProperties
<1>2. \E f : Takes(s, f, Len(s))
  BY <1>1, TakesExist
<1> QED
  BY <1>2 DEF Words, Takes, Goes, BlankAt

\* It depends on the characters taken and on no later one.
LEMMA TakesAgree ==
  ASSUME NEW s, NEW t, NEW m \in Nat, Agree(s, t, m),
         NEW f, Takes(s, f, m), NEW g, Takes(t, g, m + 1)
  PROVE  f[m] = g[m]
<1> DEFINE T == {k \in Nat : k <= m => f[k] = g[k]}
<1>1. 0 \in T
  BY DEF Takes
<1>2. ASSUME NEW k \in Nat, k \in T PROVE k + 1 \in T
  <2> SUFFICES ASSUME k + 1 <= m PROVE f[k + 1] = g[k + 1]
    OBVIOUS
  <2>1. /\ k + 1 \in 0 .. m /\ k + 1 \in 0 .. m + 1 /\ k + 1 # 0 /\ (k + 1) - 1 = k
        /\ s[k + 1] = t[k + 1] /\ f[k] = g[k] /\ (k # 0 => s[k] = t[k])
    BY <1>2 DEF Agree
  <2>2. f[k + 1] = Goes(f[k], s, k + 1)
    BY <2>1 DEF Takes
  <2>3. g[k + 1] = Goes(g[k], t, k + 1)
    BY <2>1 DEF Takes
  <2>4. BlankAt(s, k + 1) = BlankAt(t, k + 1)
    BY <2>1, Zenon DEF BlankAt
  <2>5. BlankAt(s, k) = BlankAt(t, k)
    BY <2>1, Zenon DEF BlankAt
  <2>6. Goes(f[k], s, k + 1) = Goes(g[k], t, k + 1)
    BY <2>1, <2>4, <2>5, Zenon DEF Goes
  <2> QED
    BY <2>2, <2>3, <2>6, Zenon
<1> HIDE DEF T
<1>3. Nat \subseteq T
  BY <1>1, <1>2, SetInduction
<1> QED
  BY <1>3 DEF T

\* The empty string has no words.
LEMMA WordsEmpty == Words(<<>>) = <<>>
<1>1. <<>> \in Seq({}) /\ Len(<<>>) = 0
  OBVIOUS
<1>2. PICK f : Takes(<<>>, f, 0) /\ Words(<<>>) = f[0]
  BY <1>1, WordsTakes
<1>3. f[0] = <<>>
  BY <1>2 DEF Takes
<1> QED
  BY <1>2, <1>3

\* One more character: a blank, the first of a word, or the next of the last word.
LEMMA WordsAppend ==
  ASSUME NEW U, NEW s \in Seq(U), NEW c \in U
  PROVE  Words(Append(s, c)) =
           IF c \in {SP, NL} THEN Words(s)
           ELSE IF BlankAt(s, Len(s)) THEN Append(Words(s), <<c>>)
           ELSE [Words(s) EXCEPT ![Len(Words(s))] = Append(@, c)]
<1> DEFINE t == Append(s, c)
           n == Len(s)
<1>1. /\ t \in Seq(U) /\ Len(t) = n + 1 /\ t[n + 1] = c /\ n \in Nat
      /\ \A i \in 1 .. n : s[i] = t[i]
  BY AppendProperties
<1> HIDE DEF t
<1>2. PICK f : Takes(s, f, n) /\ Words(s) = f[n]
  BY WordsTakes
<1>3. PICK g : Takes(t, g, n + 1) /\ Words(t) = g[n + 1]
  BY <1>1, WordsTakes
<1>4. f[n] = g[n]
  <2> HIDE DEF n
  <2>2. Agree(s, t, n)
    BY <1>1 DEF Agree
  <2>3. n \in Nat /\ Takes(s, f, n) /\ Takes(t, g, n + 1)
    BY <1>1, <1>2, <1>3
  <2> QED
    BY <2>2, <2>3, TakesAgree
<1>5. g[n + 1] = Goes(g[n], t, n + 1)
  <2>1. n + 1 \in 0 .. n + 1 /\ n + 1 # 0 /\ (n + 1) - 1 = n
    BY <1>1
  <2> QED
    BY <1>3, <2>1 DEF Takes
<1>6. Words(t) = Goes(Words(s), t, n + 1)
  BY <1>2, <1>3, <1>4, <1>5, Zenon
<1>7. BlankAt(t, n + 1) <=> c \in {SP, NL}
  <2>1. n + 1 # 0
    BY <1>1
  <2> QED
    BY <1>1, <2>1, Zenon DEF BlankAt
<1>8. BlankAt(t, (n + 1) - 1) <=> BlankAt(s, n)
  <2>1. (n + 1) - 1 = n /\ (n # 0 => t[n] = s[n])
    BY <1>1
  <2> QED
    BY <2>1, Zenon DEF BlankAt
<1>9. Words(t) = IF c \in {SP, NL} THEN Words(s)
                 ELSE IF BlankAt(s, n) THEN Append(Words(s), <<c>>)
                 ELSE [Words(s) EXCEPT ![Len(Words(s))] = Append(@, c)]
  BY <1>1, <1>6, <1>7, <1>8, Zenon DEF Goes
<1> QED
  BY <1>9, Zenon DEF t

\* A word behind a blank, or at the beginning, is a word of its own.
LEMMA WordsWord ==
  ASSUME NEW U, NEW s \in Seq(U), BlankAt(s, Len(s)), Words(s) \in Seq(Seq(U)),
         NEW w \in Seq(U), w # <<>>, \A i \in 1 .. Len(w) : w[i] \notin {SP, NL}
  PROVE  Words(s \o w) = Append(Words(s), w)
<1> DEFINE T == {n \in Nat : \A u \in Seq(U) :
                   Len(u) = n /\ n # 0 /\ (\A i \in 1 .. n : u[i] \notin {SP, NL})
                     => Words(s \o u) = Append(Words(s), u)}
<1>1. 0 \in T
  OBVIOUS
<1>2. ASSUME NEW n \in Nat, n \in T PROVE n + 1 \in T
  <2> SUFFICES ASSUME NEW u \in Seq(U), Len(u) = n + 1,
                      \A i \in 1 .. n + 1 : u[i] \notin {SP, NL}
               PROVE  Words(s \o u) = Append(Words(s), u)
    OBVIOUS
  <2>0. u # <<>>
    OBVIOUS
  <2>1. PICK v \in Seq(U), e \in U : u = Append(v, e)
    BY <2>0, SequenceEmptyOrAppend
  <2>2. Len(v) = n /\ e = u[n + 1] /\ \A i \in 1 .. n : v[i] = u[i]
    BY <2>1
  <2>3. e \notin {SP, NL} /\ \A i \in 1 .. n : v[i] \notin {SP, NL}
    BY <2>2
  <2>4. Appended(s, v, e)
    BY AppendConcat
  <2>5. s \o u = Append(s \o v, e)
    BY <2>1, <2>4, Zenon DEF Appended
  <2>6. s \o v \in Seq(U)
    BY ConcatProperties
  <2>7. CASE n = 0
    <3>1. v = <<>> /\ s \o v = s /\ u = <<e>>
      BY <2>1, <2>2, <2>7
    <3>2. Words(Append(s, e)) = Append(Words(s), <<e>>)
      BY <2>3, WordsAppend
    <3> QED
      BY <2>5, <3>1, <3>2
  <2>8. CASE n # 0
    <3>1. Words(s \o v) = Append(Words(s), v)
      BY <1>2, <2>2, <2>3, <2>8
    <3>2. ~BlankAt(s \o v, Len(s \o v))
      <4>1. Len(s \o v) = Len(s) + n /\ Len(s) \in Nat
        BY <2>2, ConcatProperties, LenProperties, ZenonT(40)
      <4>2. n \in 1 .. n /\ Len(s) + n # 0
        BY <2>8, <4>1
      <4>3. (s \o v)[Len(s) + n] = v[n]
        BY <2>2, <4>1, <4>2, ConcatProperties
      <4> QED
        BY <2>3, <4>1, <4>2, <4>3, Zenon DEF BlankAt
    <3> DEFINE x == Words(s)
               y == Append(x, v)
    <3>3. Words(Append(s \o v, e)) = [y EXCEPT ![Len(y)] = Append(@, e)]
      <4>1. Words(Append(s \o v, e)) =
              IF e \in {SP, NL} THEN Words(s \o v)
              ELSE IF BlankAt(s \o v, Len(s \o v)) THEN Append(Words(s \o v), <<e>>)
              ELSE [Words(s \o v) EXCEPT ![Len(Words(s \o v))] = Append(@, e)]
        BY <2>6, WordsAppend
      <4>2. Words(s \o v) = y
        BY <3>1
      <4> HIDE DEF y
      <4> QED
        BY <2>3, <3>2, <4>1, <4>2, Zenon
    <3> HIDE DEF x
    <3>4. x \in Seq(Seq(U))
      BY DEF x
    <3>5. Append(v, e) \in Seq(U)
      BY AppendProperties
    <3>6. [y EXCEPT ![Len(y)] = Append(@, e)] = Append(x, Append(v, e))
      <4>1. /\ y \in Seq(Seq(U)) /\ Len(x) \in Nat /\ Len(y) = Len(x) + 1 /\ y[Len(y)] = v
            /\ \A i \in 1 .. Len(x) : y[i] = x[i]
        BY <3>4, AppendProperties, LenProperties
      <4> DEFINE z == Append(x, Append(v, e))
      <4>2. /\ z \in Seq(Seq(U)) /\ Len(z) = Len(x) + 1 /\ z[Len(x) + 1] = Append(v, e)
            /\ \A i \in 1 .. Len(x) : z[i] = x[i]
        BY <3>4, <3>5, AppendProperties
      <4> HIDE DEF y, z
      <4>3. /\ y = [i \in 1 .. Len(x) + 1 |-> y[i]] /\ z = [i \in 1 .. Len(x) + 1 |-> z[i]]
        BY <4>1, <4>2
      <4>4. \A i \in 1 .. Len(x) + 1 :
              z[i] = IF i = Len(y) THEN Append(v, e) ELSE y[i]
        <5> TAKE i \in 1 .. Len(x) + 1
        <5>1. i # Len(y) => i \in 1 .. Len(x)
          BY <4>1
        <5>2. i = Len(y) => z[i] = Append(v, e)
          BY <4>1, <4>2, Zenon
        <5> QED
          BY <4>1, <4>2, <5>1, <5>2, Zenon
      <4>5. [y EXCEPT ![Len(y)] = Append(@, e)] = z
        BY <4>1, <4>3, <4>4
      <4> QED
        BY <4>5 DEF z
    <3> QED
      BY <2>1, <2>5, <3>3, <3>6, Zenon DEF x
  <2> QED
    BY <2>7, <2>8
<1> HIDE DEF T
<1>3. Nat \subseteq T
  BY <1>1, <1>2, SetInduction
<1>4. Len(w) \in T /\ Len(w) # 0
  BY <1>3
<1> QED
  BY <1>4 DEF T

----------------------------------------------------------------------------
(* What the user types                                                     *)

\* The characters that commandline_task looks for may be typed.
LEMMA CharsAre ==
  SP \in Char /\ NL \in Char /\ NUL \in Char /\ BS \in Char
BY CommandLineAssumption

\* And they are different ones.
LEMMA CharsDiffer ==
  SP # NL /\ SP # NUL /\ NL # NUL /\ BS # NL /\ BS # NUL
BY DEF SP, NL, NUL, BS

\* The characters of a word.
LEMMA WordIs ==
  ASSUME NEW w \in Word
  PROVE  /\ w \in Seq(Char) /\ w # <<>> /\ Len(w) \in Nat /\ Len(w) >= 1
         /\ \A i \in 1 .. Len(w) : w[i] \notin {SP, NL, NUL}
         /\ w[1] \in DOMAIN Digit => Len(w) = 1
<1>1. /\ w \in Seq(Char) /\ w # <<>> /\ (\A i \in 1 .. Len(w) : w[i] \notin Delims)
      /\ (w[1] \in DOMAIN Digit => Len(w) = 1)
  <2>1. w \in Seq(Char) /\ IsWord(w)
    BY DEF Word
  <2> QED
    BY <2>1, Zenon DEF IsWord
<1>2. \A U : \A u \in Seq(U) : u # <<>> => Len(u) \in Nat /\ Len(u) >= 1
  OBVIOUS
<1> QED
  BY <1>1, <1>2, Zenon DEF Delims

\* The characters between two words, and before the end of the line.
Inside(s) == \A i \in 1 .. Len(s) : s[i] \notin {NL, NUL}

\* Two strings without an end of line, put together, have none either.
LEMMA InsideConcat ==
  ASSUME NEW U, NEW s \in Seq(U), NEW t \in Seq(U), Inside(s), Inside(t)
  PROVE  Inside(s \o t)
<1>1. /\ Len(s) \in Nat /\ Len(t) \in Nat /\ Len(s \o t) = Len(s) + Len(t)
      /\ \A i \in 1 .. Len(s) + Len(t) :
           (s \o t)[i] = IF i <= Len(s) THEN s[i] ELSE t[i - Len(s)]
  BY ConcatProperties, LenProperties
<1> SUFFICES ASSUME NEW i \in 1 .. Len(s \o t) PROVE (s \o t)[i] \notin {NL, NUL}
  BY DEF Inside
<1>2. CASE i <= Len(s)
  <2>1. i \in 1 .. Len(s) /\ (s \o t)[i] = s[i]
    BY <1>1, <1>2
  <2> QED
    BY <2>1, Zenon DEF Inside
<1>3. CASE i > Len(s)
  <2>1. i - Len(s) \in 1 .. Len(t) /\ (s \o t)[i] = t[i - Len(s)]
    BY <1>1, <1>3
  <2> QED
    BY <2>1, Zenon DEF Inside
<1> QED
  BY <1>1, <1>2, <1>3

\* One more word, behind a space.
LEMMA SpacedAppend ==
  ASSUME NEW ws \in Seq(Seq(Char)), NEW w \in Seq(Char)
  PROVE  Spaced(Append(ws, w)) = Spaced(ws) \o (<<SP>> \o w)
<1> DEFINE f == [i \in 1 .. Len(ws) |-> <<SP>> \o ws[i]]
           g == [i \in 1 .. Len(Append(ws, w)) |-> <<SP>> \o Append(ws, w)[i]]
           e == <<SP>> \o w
           n == Len(ws)
<1>1. /\ Len(Append(ws, w)) = n + 1 /\ Append(ws, w)[n + 1] = w /\ n \in Nat
      /\ \A i \in 1 .. n : Append(ws, w)[i] = ws[i]
  BY AppendProperties, LenProperties
<1>2. \A u \in Seq(Char) : <<SP>> \o u \in Seq(Char)
  <2>1. <<SP>> \in Seq(Char)
    BY CharsAre
  <2> QED
    BY <2>1, ConcatProperties
<1>3. \A i \in 1 .. n : ws[i] \in Seq(Char)
  BY ElementOfSeq
<1>4. f \in [1 .. n -> Seq(Char)]
  BY <1>2, <1>3
<1>5. f \in Seq(Seq(Char)) /\ Len(f) = n
  <2> HIDE DEF f
  <2>1. n \in Nat
    BY <1>1
  <2>2. f \in Seq(Seq(Char))
    BY <1>4, <2>1, FunctionSeq
  <2>3. DOMAIN f = 1 .. n
    BY <1>4
  <2> HIDE DEF n
  <2> QED
    BY <2>1, <2>2, <2>3
<1>6. e \in Seq(Char)
  BY <1>2
<1>7. g = [i \in 1 .. n + 1 |-> <<SP>> \o Append(ws, w)[i]]
  BY <1>1
<1>8. \A i \in 1 .. n + 1 : g[i] = IF i = n + 1 THEN e ELSE f[i]
  <2> TAKE i \in 1 .. n + 1
  <2>1. g[i] = <<SP>> \o Append(ws, w)[i]
    BY <1>7
  <2>2. i # n + 1 => i \in 1 .. n /\ f[i] = <<SP>> \o ws[i]
    BY <1>1, SMTT(30)
  <2> QED
    BY <1>1, <2>1, <2>2, Zenon
<1> HIDE DEF f, e
<1>9. /\ Append(f, e) \in Seq(Seq(Char)) /\ Len(Append(f, e)) = n + 1
      /\ \A i \in 1 .. n + 1 : Append(f, e)[i] = IF i = n + 1 THEN e ELSE f[i]
  BY <1>1, <1>5, <1>6, AppendProperties
<1>10. Append(f, e) = [i \in 1 .. n + 1 |-> Append(f, e)[i]]
  <2> DEFINE h == Append(f, e)
  <2>1. h \in Seq(Seq(Char)) /\ Len(h) = n + 1
    BY <1>9
  <2> HIDE DEF h
  <2>2. h = [i \in 1 .. n + 1 |-> h[i]]
    BY <2>1
  <2> QED
    BY <2>2 DEF h
<1>11. g = [i \in 1 .. n + 1 |-> g[i]]
  BY <1>7
<1> HIDE DEF g
<1>12. Append(f, e) = g
  BY <1>8, <1>9, <1>10, <1>11, Zenon
<1>13. FlattenSeq(Append(f, e)) = FlattenSeq(f) \o e
  BY <1>5, <1>6, FlattenAppend
<1> QED
  BY <1>12, <1>13, Zenon DEF Spaced, f, g, e

\* Nothing behind the first word.
LEMMA SpacedEmpty == Spaced(<<>>) = <<>>
<1>1. [i \in 1 .. Len(<<>>) |-> <<SP>> \o <<>>[i]] = <<>>
  OBVIOUS
<1> QED
  BY <1>1, FlattenEmpty, Zenon DEF Spaced

\* Words behind spaces: a space, and what sscanf takes the words from again.
SpacedAs(ws, a) ==
  /\ a \in Seq(Char) /\ a # <<>> /\ Inside(a)
  /\ Spaced(ws) = <<SP>> \o a /\ Words(a) = ws

\* sscanf takes from the arguments the words that were entered.
LEMMA SpacedIs ==
  ASSUME NEW ws \in Seq(Word), ws # <<>>
  PROVE  \E a : SpacedAs(ws, a)
<1> DEFINE T == {n \in Nat : \A vs \in Seq(Word) : Len(vs) = n /\ n # 0 => \E a : SpacedAs(vs, a)}
<1>0. Word \subseteq Seq(Char)
  BY WordIs
<1> HIDE DEF Word
<1>1. 0 \in T
  OBVIOUS
<1>2. ASSUME NEW n \in Nat, n \in T PROVE n + 1 \in T
  <2> SUFFICES ASSUME NEW vs \in Seq(Word), Len(vs) = n + 1 PROVE \E a : SpacedAs(vs, a)
    OBVIOUS
  <2>1. vs # <<>>
    OBVIOUS
  <2>2. PICK us \in Seq(Word), w \in Word : vs = Append(us, w)
    BY <2>1, SequenceEmptyOrAppend
  <2>3. Len(us) = n
    BY <2>2
  <2>4. us \in Seq(Seq(Char)) /\ w \in Seq(Char)
    BY <1>0, SeqMonotonic
  <2>5. /\ w # <<>> /\ (\A i \in 1 .. Len(w) : w[i] \notin {SP, NL}) /\ Inside(w)
    BY WordIs DEF Inside
  <2>6. Spaced(vs) = Spaced(us) \o (<<SP>> \o w)
    BY <2>2, <2>4, SpacedAppend
  <2>7. <<SP>> \in Seq(Char) /\ Inside(<<SP>>)
    BY CharsAre, CharsDiffer DEF Inside
  <2>8. CASE n = 0
    <3>1. us = <<>>
      BY <2>3, <2>8
    <3>2. Spaced(vs) = <<SP>> \o w
      <4>1. <<SP>> \o w \in Seq(Char)
        BY <2>4, <2>7, ConcatProperties
      <4>2. \A u \in Seq(Char) : <<>> \o u = u
        OBVIOUS
      <4> QED
        BY <2>6, <3>1, <4>1, <4>2, SpacedEmpty, Zenon
    <3>3. Words(<<>> \o w) = Append(Words(<<>>), w)
      <4>1. <<>> \in Seq(Char) /\ BlankAt(<<>>, Len(<<>>)) /\ <<>> \in Seq(Seq(Char))
        BY DEF BlankAt
      <4> QED
        BY <2>4, <2>5, <4>1, WordsEmpty, WordsWord
    <3>4. Words(w) = vs
      BY <2>2, <2>4, <3>1, <3>3, WordsEmpty
    <3> QED
      BY <2>4, <2>5, <3>2, <3>4 DEF SpacedAs
  <2>9. CASE n # 0
    <3>1. PICK b : SpacedAs(us, b)
      BY <1>2, <2>3, <2>9
    <3>2. /\ b \in Seq(Char) /\ b # <<>> /\ Inside(b)
          /\ Spaced(us) = <<SP>> \o b /\ Words(b) = us
      BY <3>1, Zenon DEF SpacedAs
    <3> DEFINE c == Append(b, SP)
               a == c \o w
    <3>3. c \in Seq(Char) /\ Len(c) = Len(b) + 1 /\ c[Len(b) + 1] = SP
      BY <3>2, CharsAre, AppendProperties
    <3>4. Words(c) = us
      BY <3>2, CharsAre, WordsAppend
    <3>5. BlankAt(c, Len(c))
      BY <3>3, Zenon DEF BlankAt
    <3>6. Words(a) = vs
      BY <2>2, <2>4, <2>5, <3>3, <3>4, <3>5, WordsWord
    <3>7. c = b \o <<SP>>
      <4>1. \A U : \A u \in Seq(U), x \in U : Append(u, x) = u \o <<x>>
        OBVIOUS
      <4> QED
        BY <3>2, <4>1, CharsAre, Zenon
    <3>8. Inside(c)
      BY <2>7, <3>2, <3>7, InsideConcat
    <3> HIDE DEF c
    <3>9. a \in Seq(Char) /\ a # <<>> /\ Inside(a)
      <4>1. a \in Seq(Char) /\ Inside(a)
        BY <2>4, <2>5, <3>3, <3>8, ConcatProperties, InsideConcat
      <4>2. Len(a) = Len(c) + Len(w) /\ Len(c) \in Nat /\ Len(w) \in Nat /\ Len(w) >= 1
        <5>1. Len(w) \in Nat /\ Len(w) >= 1
          BY <2>2, WordIs
        <5>2. Len(a) = Len(c) + Len(w)
          BY <2>4, <3>3, ConcatProperties
        <5> QED
          BY <3>3, <5>1, <5>2, LenProperties
      <4>3. Len(a) # 0
        BY <3>2, <4>2
      <4> QED
        BY <4>1, <4>3
    <3>10. Spaced(vs) = <<SP>> \o a
      <4>1. Associated(<<SP>>, b, <<SP>> \o w) /\ Associated(b, <<SP>>, w)
        <5>1. <<SP>> \o w \in Seq(Char)
          BY <2>4, <2>7, ConcatProperties
        <5> QED
          BY <2>4, <2>7, <3>2, <5>1, Associates
      <4> QED
        BY <2>6, <3>2, <3>7, <4>1, Zenon DEF Associated
    <3> QED
      BY <3>6, <3>9, <3>10, Zenon DEF SpacedAs
  <2> QED
    BY <2>8, <2>9
<1> HIDE DEF T
<1>3. Nat \subseteq T
  BY <1>1, <1>2, SetInduction
<1>4. Len(ws) \in T /\ Len(ws) # 0
  BY <1>3
<1> QED
  BY <1>4 DEF T

\* A request of words: the first of them, and what is behind it.
TextOf(r, b) ==
  /\ b \in Seq(Char) /\ Inside(b) /\ Text(r) = (r[1] \o b) \o <<NL>>
  /\ Len(r) = 1 => b = <<>>
  /\ Len(r) # 1 => \E a : SpacedAs(Tail(r), a) /\ b = <<SP>> \o a

\* Every request that is not empty has that form.
LEMMA TextParts ==
  ASSUME NEW r \in Seq(Word), r # <<>>
  PROVE  \E b : TextOf(r, b)
<1>1. /\ Head(r) = r[1] /\ Tail(r) \in Seq(Word)
      /\ Len(r) = 1 <=> Tail(r) = <<>>
  BY FirstAndRest
<1>2. Text(r) = (r[1] \o Spaced(Tail(r))) \o <<NL>>
  BY <1>1, Zenon DEF Text
<1>3. CASE Len(r) = 1
  <2>1. Tail(r) = <<>>
    BY <1>1, <1>3
  <2>2. <<>> \in Seq(Char) /\ Inside(<<>>)
    BY DEF Inside
  <2>3. Text(r) = (r[1] \o <<>>) \o <<NL>>
    BY <1>2, <2>1, SpacedEmpty, Zenon
  <2> QED
    BY <1>3, <2>2, <2>3, Zenon DEF TextOf
<1>4. CASE Len(r) # 1
  <2>1. Tail(r) # <<>>
    BY <1>1, <1>4
  <2>2. PICK a : SpacedAs(Tail(r), a)
    BY <1>1, <2>1, SpacedIs
  <2>3. a \in Seq(Char) /\ Inside(a) /\ Spaced(Tail(r)) = <<SP>> \o a
    BY <2>2, Zenon DEF SpacedAs
  <2>4. <<SP>> \in Seq(Char) /\ Inside(<<SP>>)
    BY CharsAre, CharsDiffer DEF Inside
  <2>5. <<SP>> \o a \in Seq(Char) /\ Inside(<<SP>> \o a)
    BY <2>3, <2>4, ConcatProperties, InsideConcat
  <2> QED
    BY <1>2, <1>4, <2>2, <2>3, <2>5, Zenon DEF TextOf
<1> QED
  BY <1>3, <1>4

\* A line: its end is the only NL in it, and there is no NUL.
LEMMA TextEnds ==
  ASSUME NEW r \in Requests
  PROVE  /\ Text(r) \in Seq(Char) /\ Len(Text(r)) \in Nat /\ Len(Text(r)) >= 1
         /\ Text(r)[Len(Text(r))] = NL
         /\ \A i \in 1 .. Len(Text(r)) - 1 : Text(r)[i] \notin {NL, NUL}
<1>1. r \in Seq(Word)
  BY CommandLineAssumption
<1>2. PICK u \in Seq(Char) : Inside(u) /\ Text(r) = u \o <<NL>>
  <2>1. CASE r = <<>>
    <3>1. <<>> \in Seq(Char) /\ Inside(<<>>)
      BY DEF Inside
    <3>2. Text(r) = <<>> \o <<NL>>
      BY <2>1, Zenon DEF Text
    <3> QED
      BY <3>1, <3>2
  <2>2. CASE r # <<>>
    <3>1. PICK b : TextOf(r, b)
      BY <1>1, <2>2, TextParts
    <3>2. b \in Seq(Char) /\ Inside(b) /\ Text(r) = (r[1] \o b) \o <<NL>>
      BY <3>1, Zenon DEF TextOf
    <3>3. r[1] \in Word
      BY <1>1, <2>2
    <3>4. r[1] \in Seq(Char) /\ Inside(r[1])
      BY <3>3, WordIs DEF Inside
    <3>5. r[1] \o b \in Seq(Char) /\ Inside(r[1] \o b)
      BY <3>2, <3>4, ConcatProperties, InsideConcat
    <3> QED
      BY <3>2, <3>5
  <2> QED
    BY <2>1, <2>2
<1>3. <<NL>> \in Seq(Char)
  BY CharsAre
<1>4. /\ u \o <<NL>> \in Seq(Char) /\ Len(u) \in Nat /\ Len(u \o <<NL>>) = Len(u) + 1
      /\ (u \o <<NL>>)[Len(u) + 1] = NL
      /\ \A i \in 1 .. Len(u) : (u \o <<NL>>)[i] = u[i]
  BY <1>3, ConcatProperties, LenProperties
<1> DEFINE t == u \o <<NL>>
<1> HIDE DEF t
<1>5. /\ t \in Seq(Char) /\ Len(u) \in Nat /\ Len(t) = Len(u) + 1 /\ t[Len(u) + 1] = NL
      /\ \A i \in 1 .. Len(u) : t[i] = u[i]
  BY <1>4, Zenon DEF t
<1>6. t[Len(t)] = NL
  BY <1>5, Zenon
<1>7. \A i \in 1 .. Len(t) - 1 : t[i] \notin {NL, NUL}
  <2>1. Len(t) - 1 = Len(u)
    BY <1>5
  <2> QED
    BY <1>2, <1>5, <2>1, Zenon DEF Inside
<1>8. Len(t) \in Nat /\ Len(t) >= 1
  BY <1>5
<1>9. Text(r) = t
  BY <1>2 DEF t
<1> QED
  BY <1>5, <1>6, <1>7, <1>8, <1>9, Zenon

----------------------------------------------------------------------------
(* What the handlers find in the buffer                                    *)

\* The only place with nothing sought before it is the first one.
LEMMA FirstOfIs ==
  ASSUME NEW b, NEW i \in Nat, NEW e \in i .. BufLen - 1, NEW chars,
         b[e] \in chars, \A k \in i .. e - 1 : b[k] \notin chars
  PROVE  FirstOf(b, i, chars) = e
<1>0. BufLen \in Nat
  BY CommandLineAssumption
<1> DEFINE P(j) == b[j] \in chars /\ \A k \in i .. j - 1 : b[k] \notin chars
           f == FirstOf(b, i, chars)
<1>1. f = CHOOSE j \in i .. BufLen - 1 : P(j)
  BY Zenon DEF FirstOf
<1>2. P(e)
  OBVIOUS
<1> HIDE DEF P, f
<1>3. f \in i .. BufLen - 1 /\ P(f)
  BY <1>1, <1>2
<1>4. f \in Nat /\ e \in Nat /\ f >= i /\ e >= i
  BY <1>0, <1>3
<1>5. ~(f < e)
  <2>1. f < e => f \in i .. e - 1
    BY <1>4
  <2> QED
    BY <1>3, <2>1, Zenon DEF P
<1>6. ~(e < f)
  <2>1. e < f => e \in i .. f - 1
    BY <1>4
  <2> QED
    BY <1>2, <1>3, <2>1, Zenon DEF P
<1>7. f = e
  BY <1>4, <1>5, <1>6
<1> QED
  BY <1>7 DEF f

\* The C string at i is what stands there up to its NUL.
LEMMA CStringIs ==
  ASSUME NEW b, NEW i \in Nat, NEW s \in Seq(Char), i + Len(s) <= BufLen - 1,
         b[i + Len(s)] = NUL,
         \A k \in 1 .. Len(s) : b[i + k - 1] = s[k] /\ s[k] # NUL
  PROVE  CString(b, i) = s /\ Terminated(b, i)
<1> DEFINE n == Len(s)
<1>1. n \in Nat /\ BufLen \in Nat /\ i + n \in i .. BufLen - 1
  BY CommandLineAssumption, LenProperties
<1>2. ASSUME NEW k \in i .. i + n - 1 PROVE b[k] \notin {NUL}
  <2>1. k - i + 1 \in 1 .. n /\ i + (k - i + 1) - 1 = k
    BY <1>1
  <2> QED
    BY <2>1, Zenon
<1>3. b[i + n] \in {NUL}
  OBVIOUS
<1>4. s = [k \in 1 .. n |-> s[k]]
  OBVIOUS
<1>5. \A k \in 1 .. n : b[i + k - 1] = s[k]
  OBVIOUS
<1> HIDE DEF n
<1> DEFINE e == i + n
<1>7. e - i = n
  BY <1>1
<1>6. FirstOf(b, i, {NUL}) = e
  <2>1. e \in i .. BufLen - 1 /\ b[e] \in {NUL} /\ \A k \in i .. e - 1 : b[k] \notin {NUL}
    BY <1>1, <1>2, <1>3
  <2> HIDE DEF e
  <2> QED
    BY <2>1, FirstOfIs
<1>8. CString(b, i) = [k \in 1 .. e - i |-> b[i + k - 1]]
  <2> HIDE DEF e
  <2>1. CString(b, i) = [k \in 1 .. FirstOf(b, i, {NUL}) - i |-> b[i + k - 1]]
    BY Zenon DEF CString
  <2> QED
    BY <1>6, <2>1, Zenon
<1>9. CString(b, i) = [k \in 1 .. n |-> b[i + k - 1]]
  BY <1>7, <1>8, Zenon
<1>10. [k \in 1 .. n |-> b[i + k - 1]] = [k \in 1 .. n |-> s[k]]
  BY <1>5, Zenon
<1> QED
  BY <1>1, <1>3, <1>4, <1>9, <1>10, Zenon DEF Terminated

\* The whole line of a request r is in the buffer, and nothing else.
Holds(r) ==
  LET t == Text(r)
  IN /\ Len(t) < BufLen /\ read_cnt = Len(t)
     /\ read_buffer = [j \in 0 .. BufLen - 1 |-> IF j < Len(t) THEN t[j + 1] ELSE NUL]

\* The words the handler of a request finds.
ArgsOf(r, a) ==
  IF Len(r) = 1 THEN a = <<>> ELSE a # <<>> /\ Words(a) = Tail(r)

\* What commandline_task finds in a buffer that holds one line: the end of the line,
\* the name of the command, and its arguments, which end inside the buffer.
LEMMA LineHolds ==
  ASSUME NEW r \in Requests, Holds(r)
  PROVE  /\ LastRead = NL /\ (Line[0] = NUL <=> r = <<>>)
         /\ r # <<>> => /\ NameOf(Line) = r[1] /\ Terminated(Line, ArgsAt(Line))
                        /\ ArgsOf(r, CString(Line, ArgsAt(Line)))
<1> DEFINE t == Text(r)
           n == Len(t)
           x == Line
<1>0. BufLen \in Nat /\ r \in Seq(Word)
  BY CommandLineAssumption
<1>1. /\ t \in Seq(Char) /\ n \in Nat /\ n >= 1 /\ t[n] = NL
      /\ \A i \in 1 .. n - 1 : t[i] \notin {NL, NUL}
  BY TextEnds
<1>2. /\ n < BufLen /\ read_cnt = n
      /\ read_buffer = [j \in 0 .. BufLen - 1 |-> IF j < n THEN t[j + 1] ELSE NUL]
  BY DEF Holds
<1> HIDE DEF t, n
<1>3. LastRead = NL
  <2>1. n - 1 \in 0 .. BufLen - 1 /\ n - 1 < n /\ (n - 1) + 1 = n
    BY <1>0, <1>1, <1>2
  <2>2. read_buffer[n - 1] = t[n]
    BY <1>2, <2>1
  <2> QED
    BY <1>1, <1>2, <2>2 DEF LastRead
<1>4. x = [j \in 0 .. BufLen - 1 |-> IF j < n - 1 THEN t[j + 1] ELSE NUL]
  <2>1. x = [read_buffer EXCEPT ![n - 1] = NUL]
    BY <1>2 DEF Line
  <2>2. x = [j \in 0 .. BufLen - 1 |-> IF j = n - 1 THEN NUL ELSE read_buffer[j]]
    BY <1>2, <2>1
  <2>3. \A j \in 0 .. BufLen - 1 :
          (IF j = n - 1 THEN NUL ELSE read_buffer[j]) = IF j < n - 1 THEN t[j + 1] ELSE NUL
    BY <1>0, <1>1, <1>2
  <2> QED
    BY <2>2, <2>3, Zenon
<1> HIDE DEF x
<1>5. CASE r = <<>>
  <2>1. t = <<NL>>
    BY <1>5 DEF t, Text
  <2>2. n = 1
    BY <2>1 DEF n
  <2>3. x[0] = NUL
    BY <1>0, <1>2, <1>4, <2>2
  <2> QED
    BY <1>3, <1>5, <2>3 DEF x
<1>6. CASE r # <<>>
  <2>1. PICK b : TextOf(r, b)
    BY <1>0, <1>6, TextParts
  <2>2. /\ b \in Seq(Char) /\ Inside(b) /\ t = (r[1] \o b) \o <<NL>>
        /\ Len(r) = 1 => b = <<>>
        /\ Len(r) # 1 => \E a : SpacedAs(Tail(r), a) /\ b = <<SP>> \o a
    BY <2>1, Zenon DEF TextOf, t
  <2>3. r[1] \in Word /\ Len(r) \in Nat /\ Len(r) >= 1
    BY <1>0, <1>6
  <2> DEFINE w == r[1]
             l == Len(w)
             m == Len(b)
  <2>4. /\ w \in Seq(Char) /\ l \in Nat /\ l >= 1
        /\ \A i \in 1 .. l : w[i] \notin {SP, NL, NUL}
    BY <2>3, WordIs
  <2> HIDE DEF w, l
  <2>5. m \in Nat /\ <<NL>> \in Seq(Char) /\ Len(<<NL>>) = 1
    BY <2>2, CharsAre, LenProperties
  <2>6. /\ n = l + m + 1
        /\ \A i \in 1 .. l : t[i] = w[i]
        /\ \A i \in 1 .. m : t[l + i] = b[i]
    <3>1. /\ w \o b \in Seq(Char) /\ Len(w \o b) = l + m
          /\ \A i \in 1 .. l + m : (w \o b)[i] = IF i <= l THEN w[i] ELSE b[i - l]
      BY <2>2, <2>4, ConcatProperties DEF l
    <3> DEFINE c == w \o b
               nl == <<NL>>
    <3> HIDE DEF c, nl, m
    <3>2. /\ c \in Seq(Char) /\ Len(c) = l + m /\ nl \in Seq(Char) /\ Len(nl) = 1
      BY <2>5, <3>1 DEF c, nl
    <3>3. /\ Len(c \o nl) = Len(c) + Len(nl)
          /\ \A i \in 1 .. Len(c) + Len(nl) :
               (c \o nl)[i] = IF i <= Len(c) THEN c[i] ELSE nl[i - Len(c)]
      BY <3>2, ConcatProperties
    <3>4. t = c \o nl
      BY <2>2, Zenon DEF c, nl, w
    <3>5. n = l + m + 1
      BY <3>2, <3>3, <3>4, Zenon DEF n
    <3>6. \A i \in 1 .. l + m : t[i] = c[i]
      <4> TAKE i \in 1 .. l + m
      <4>1. i \in 1 .. Len(c) + Len(nl) /\ i <= Len(c)
        BY <2>4, <2>5, <3>2 DEF m
      <4> QED
        BY <3>3, <3>4, <4>1, Zenon
    <3>7. \A i \in 1 .. l + m : c[i] = IF i <= l THEN w[i] ELSE b[i - l]
      BY <3>1, Zenon DEF c
    <3>8. m \in Nat
      BY <2>5 DEF m
    <3>9. \A i \in 1 .. l : i \in 1 .. l + m /\ i <= l
      BY <2>4, <3>8
    <3>11. \A i \in 1 .. l : t[i] = w[i]
      BY <3>6, <3>7, <3>9, Zenon
    <3>12. \A i \in 1 .. m : t[l + i] = b[i]
      <4> TAKE i \in 1 .. m
      <4>1. PICK j \in 1 .. l + m : j = l + i /\ ~(j <= l) /\ j - l = i
        BY <2>4, <3>8
      <4>2. t[j] = b[j - l]
        BY <3>6, <3>7, <4>1, Zenon
      <4> QED
        BY <4>1, <4>2, Zenon
    <3> QED
      BY <3>5, <3>11, <3>12, Zenon DEF m
  <2> HIDE DEF m
  <2>7. m \in Nat
    BY <2>5 DEF m
  <2>8. /\ \A j \in 0 .. l - 1 : x[j] = w[j + 1] /\ x[j] \notin {SP, NL, NUL}
        /\ \A j \in 1 .. m : x[l + j - 1] = b[j]
        /\ \A j \in l + m .. BufLen - 1 : x[j] = NUL
    <3>1. ASSUME NEW j \in 0 .. l - 1 PROVE x[j] = w[j + 1] /\ x[j] \notin {SP, NL, NUL}
      <4>1. j \in 0 .. BufLen - 1 /\ j < n - 1 /\ j + 1 \in 1 .. l
        BY <1>0, <1>2, <2>4, <2>6, <2>7
      <4>2. x[j] = t[j + 1]
        BY <1>4, <4>1
      <4> QED
        BY <2>4, <2>6, <4>1, <4>2, Zenon
    <3>2. ASSUME NEW j \in 1 .. m PROVE x[l + j - 1] = b[j]
      <4>1. l + j - 1 \in 0 .. BufLen - 1 /\ l + j - 1 < n - 1 /\ (l + j - 1) + 1 = l + j
        BY <1>0, <1>2, <2>4, <2>6, <2>7
      <4>2. x[l + j - 1] = t[(l + j - 1) + 1]
        BY <1>4, <4>1
      <4>3. t[l + j] = b[j]
        BY <2>6, Zenon
      <4> QED
        BY <4>1, <4>2, <4>3, Zenon
    <3>3. ASSUME NEW j \in l + m .. BufLen - 1 PROVE x[j] = NUL
      <4>1. j \in 0 .. BufLen - 1 /\ ~(j < n - 1)
        BY <1>0, <2>4, <2>6, <2>7
      <4> QED
        BY <1>4, <4>1
    <3> QED
      BY <3>1, <3>2, <3>3, Zenon
  <2>9. l + m <= BufLen - 2
    BY <1>0, <1>2, <2>4, <2>6, <2>7
  <2>10. ~(x[0] = NUL)
    <3>1. 0 \in 0 .. l - 1
      BY <2>4
    <3> QED
      BY <2>8, <3>1
  <2>11. Len(r) # 1 => \E a : /\ SpacedAs(Tail(r), a) /\ a \in Seq(Char) /\ Len(a) \in Nat
                             /\ m = Len(a) + 1 /\ b[1] = SP
                             /\ \A k \in 1 .. Len(a) : b[k + 1] = a[k] /\ a[k] # NUL
    <3> SUFFICES ASSUME Len(r) # 1
                 PROVE  \E a : /\ SpacedAs(Tail(r), a) /\ a \in Seq(Char) /\ Len(a) \in Nat
                               /\ m = Len(a) + 1 /\ b[1] = SP
                               /\ \A k \in 1 .. Len(a) : b[k + 1] = a[k] /\ a[k] # NUL
      OBVIOUS
    <3>1. PICK a : SpacedAs(Tail(r), a) /\ b = <<SP>> \o a
      BY <2>2, Zenon
    <3>2. a \in Seq(Char) /\ Inside(a) /\ Len(a) \in Nat
      BY <3>1, LenProperties DEF SpacedAs
    <3>3. <<SP>> \in Seq(Char) /\ Len(<<SP>>) = 1 /\ <<SP>>[1] = SP
      BY CharsAre
    <3>4. /\ Len(b) = 1 + Len(a)
          /\ \A k \in 1 .. 1 + Len(a) : b[k] = IF k <= 1 THEN <<SP>>[k] ELSE a[k - 1]
      BY <3>1, <3>2, <3>3, ConcatProperties
    <3>5. b[1] = SP /\ \A k \in 1 .. Len(a) : b[k + 1] = a[k]
      BY <3>2, <3>3, <3>4
    <3>6. \A k \in 1 .. Len(a) : a[k] # NUL
      BY <3>2 DEF Inside
    <3>7. m = Len(a) + 1
      BY <3>2, <3>4 DEF m
    <3> QED
      BY <3>1, <3>2, <3>5, <3>6, <3>7
  <2>12. x[l] \in {SP, NUL}
    <3>1. CASE Len(r) = 1
      <4>1. m = 0
        BY <2>2, <3>1 DEF m
      <4>2. l \in l + m .. BufLen - 1
        BY <1>0, <2>4, <2>9, <4>1
      <4> QED
        BY <2>8, <4>2
    <3>2. CASE Len(r) # 1
      <4>1. b[1] = SP /\ 1 \in 1 .. m /\ l + 1 - 1 = l
        BY <2>4, <2>11, <3>2
      <4>2. x[l + 1 - 1] = b[1]
        BY <2>8, <4>1, Zenon
      <4> QED
        BY <4>1, <4>2
    <3> QED
      BY <2>3, <3>1, <3>2
  <2>13. string_find_end(x) = l
    <3>1. l \in 0 .. BufLen - 1 /\ 0 \in Nat
      BY <1>0, <2>4, <2>7, <2>9
    <3>2. x[l] \in Delims /\ \A k \in 0 .. l - 1 : x[k] \notin Delims
      BY <2>8, <2>12 DEF Delims
    <3> QED
      BY <3>1, <3>2, FirstOfIs DEF string_find_end
  <2>14. NameOf(x) = r[1]
    <3> DEFINE y == [x EXCEPT ![l] = NUL]
    <3>1. NameOf(x) = CString(y, 0)
      BY <2>13 DEF NameOf
    <3>2. l \in 0 .. BufLen - 1
      BY <1>0, <2>4, <2>7, <2>9
    <3>3. \A j \in 0 .. BufLen - 1 : y[j] = IF j = l THEN NUL ELSE x[j]
      BY <1>4
    <3> HIDE DEF y
    <3>4. ASSUME NEW k \in 1 .. l PROVE y[0 + k - 1] = w[k] /\ w[k] # NUL
      <4>1. k - 1 \in 0 .. l - 1 /\ k - 1 \in 0 .. BufLen - 1 /\ k - 1 # l
            /\ 0 + k - 1 = k - 1 /\ (k - 1) + 1 = k
        BY <1>0, <2>4, <2>7, <2>9
      <4>2. y[k - 1] = x[k - 1]
        BY <3>3, <4>1, Zenon
      <4>3. x[k - 1] = w[(k - 1) + 1]
        BY <2>8, <4>1, Zenon
      <4>4. w[k] # NUL
        BY <2>4
      <4> QED
        BY <4>1, <4>2, <4>3, <4>4, Zenon
    <3>5. y[0 + l] = NUL /\ 0 + l <= BufLen - 1
      <4>1. 0 + l = l /\ l <= BufLen - 1
        BY <2>4, <3>2
      <4> QED
        BY <3>2, <3>3, <4>1, Zenon
    <3>6. 0 \in Nat /\ \A k \in 1 .. Len(w) : y[0 + k - 1] = w[k] /\ w[k] # NUL
      BY <3>4 DEF l
    <3>7. y[0 + Len(w)] = NUL /\ 0 + Len(w) <= BufLen - 1
      BY <3>5 DEF l
    <3>8. CString(y, 0) = w
      BY <2>4, <3>6, <3>7, CStringIs
    <3> QED
      BY <3>1, <3>8 DEF w
  <2>15. ArgsAt(x) = l + 1
    BY <2>13 DEF ArgsAt
  <2>16. Terminated(x, l + 1) /\ ArgsOf(r, CString(x, l + 1))
    <3>0. l + 1 \in Nat
      BY <2>4
    <3>1. CASE Len(r) = 1
      <4>1. m = 0
        BY <2>2, <3>1 DEF m
      <4>2. l + 1 + 0 \in l + m .. BufLen - 1 /\ l + 1 + 0 <= BufLen - 1
        BY <1>0, <2>4, <2>9, <4>1
      <4>3. x[l + 1 + 0] = NUL
        BY <2>8, <4>2, Zenon
      <4>4. <<>> \in Seq(Char) /\ Len(<<>>) = 0 /\ \A k \in 1 .. 0 : FALSE
        OBVIOUS
      <4>5. \A k \in 1 .. Len(<<>>) : x[l + 1 + k - 1] = <<>>[k] /\ <<>>[k] # NUL
        BY <4>4
      <4>6. CString(x, l + 1) = <<>> /\ Terminated(x, l + 1)
        BY <3>0, <4>2, <4>3, <4>4, <4>5, CStringIs
      <4> QED
        BY <3>1, <4>6, Zenon DEF ArgsOf
    <3>2. CASE Len(r) # 1
      <4>1. PICK a : /\ SpacedAs(Tail(r), a) /\ a \in Seq(Char) /\ Len(a) \in Nat
                     /\ m = Len(a) + 1 /\ b[1] = SP
                     /\ \A k \in 1 .. Len(a) : b[k + 1] = a[k] /\ a[k] # NUL
        BY <2>11, <3>2, Zenon
      <4>2. l + 1 + Len(a) \in l + m .. BufLen - 1 /\ l + 1 + Len(a) <= BufLen - 1
        BY <1>0, <2>4, <2>7, <2>9, <4>1
      <4>3. x[l + 1 + Len(a)] = NUL
        BY <2>8, <4>2, Zenon
      <4>4. ASSUME NEW k \in 1 .. Len(a) PROVE x[l + 1 + k - 1] = a[k] /\ a[k] # NUL
        <5>1. k + 1 \in 1 .. m /\ l + (k + 1) - 1 = l + 1 + k - 1
          BY <2>4, <4>1
        <5>2. x[l + (k + 1) - 1] = b[k + 1]
          BY <2>8, <5>1, Zenon
        <5> QED
          BY <4>1, <5>1, <5>2, Zenon
      <4>5. CString(x, l + 1) = a /\ Terminated(x, l + 1)
        BY <3>0, <4>1, <4>2, <4>3, <4>4, CStringIs
      <4>6. a # <<>> /\ Words(a) = Tail(r)
        BY <4>1, Zenon DEF SpacedAs
      <4>7. Len(r) # 1
        BY <3>2
      <4> QED
        BY <4>5, <4>6, <4>7, Zenon DEF ArgsOf
    <3> QED
      BY <2>3, <3>1, <3>2
  <2> QED
    BY <1>3, <1>6, <2>10, <2>14, <2>15, <2>16, Zenon DEF x
<1> QED
  BY <1>5, <1>6

----------------------------------------------------------------------------
(* What the handlers make of a request                                     *)

\* The names of the commands are distinct.
LEMMA NamesDiffer ==
  /\ <<"h">> # <<"p">> /\ <<"h">> # <<"s">> /\ <<"h">> # <<"e">>
  /\ <<"p">> # <<"s">> /\ <<"p">> # <<"e">> /\ <<"s">> # <<"e">>
<1>1. /\ "h" # "p" /\ "h" # "s" /\ "h" # "e" /\ "p" # "s" /\ "p" # "e" /\ "s" # "e"
  OBVIOUS
<1>2. \A x, y : <<x>> = <<y>> => x = y
  OBVIOUS
<1> QED
  BY <1>1, <1>2, Zenon

\* A handler returns a call of one of five kinds.
LEMMA HandlerFn ==
  ASSUME NEW name, NEW buf, NEW c \in Handler(name, buf)
  PROVE  c.fn \in {"none", "help", "exit", "publish", "subscribe"}
<1>1. \A d \in pub_cmd_handler(buf) : d.fn \in {"none", "publish"}
  BY DEF pub_cmd_handler, NoCommand
<1>2. \A d \in sub_cmd_handler(buf) : d.fn \in {"none", "subscribe"}
  BY DEF sub_cmd_handler, NoCommand
<1>3. \/ c = [fn |-> "help"] \/ c \in pub_cmd_handler(buf) \/ c \in sub_cmd_handler(buf)
      \/ c = [fn |-> "exit"] \/ c = NoCommand
  BY DEF Handler
<1> QED
  BY <1>1, <1>2, <1>3 DEF NoCommand

\* The n-th word behind the first of a request, and the number it may be.
Number(r, n, otherwise) ==
  IF Len(r) >= n /\ r[n] \in {<<d>> : d \in DOMAIN Digit}
  THEN {Digit[r[n][1]]} ELSE otherwise

\* The words and numbers of the arguments are those of the request, one further.
LEMMA BehindFirst ==
  ASSUME NEW r \in Seq(Word), r # <<>>, NEW n \in Nat, n >= 1, NEW Old
  PROVE  /\ ScannedText(Tail(r), n, Old) = IF Len(r) >= n + 1 THEN {r[n + 1]} ELSE Old
         /\ Scanned(Tail(r), n, Old) = Number(r, n + 1, Old)
<1> DEFINE t == Tail(r)
<1>1. /\ t \in Seq(Word) /\ Len(t) = Len(r) - 1 /\ Len(r) \in Nat
      /\ \A i \in 1 .. Len(t) : t[i] = r[i + 1]
  BY FirstAndRest
<1> HIDE DEF t
<1>2. n <= Len(t) <=> Len(r) >= n + 1
  BY <1>1
<1>3. CASE n <= Len(t)
  <2>1. n \in 1 .. Len(t) /\ n + 1 \in 1 .. Len(r)
    BY <1>1, <1>3
  <2>2. t[n] = r[n + 1]
    BY <1>1, <2>1, Zenon
  <2>3. r[n + 1] \in Word
    BY <2>1, ElementOfSeq
  <2> DEFINE w == r[n + 1]
  <2> HIDE DEF w
  <2>4. w[1] \in DOMAIN Digit <=> w \in {<<d>> : d \in DOMAIN Digit}
    <3>1. w \in Word
      BY <2>3 DEF w
    <3>2. w \in Seq(Char) /\ (w[1] \in DOMAIN Digit => Len(w) = 1)
      BY <3>1, WordIs
    <3>3. Len(w) = 1 => w = <<w[1]>>
      BY <3>2
    <3> QED
      BY <3>2, <3>3
  <2>5. Scanned(t, n, Old) = IF w[1] \in DOMAIN Digit THEN {Digit[w[1]]} ELSE Old
    BY <1>3, <2>2, Zenon DEF Scanned, w
  <2>6. Number(r, n + 1, Old) = IF w[1] \in DOMAIN Digit THEN {Digit[w[1]]} ELSE Old
    BY <1>2, <1>3, <2>4, Zenon DEF Number, w
  <2>7. ScannedText(t, n, Old) = {r[n + 1]}
    BY <1>3, <2>2, Zenon DEF ScannedText
  <2> QED
    BY <1>2, <1>3, <2>5, <2>6, <2>7, Zenon DEF t
<1>4. CASE ~(n <= Len(t))
  <2>1. Scanned(t, n, Old) = Old /\ ScannedText(t, n, Old) = Old
    BY <1>4, Zenon DEF Scanned, ScannedText
  <2>2. Number(r, n + 1, Old) = Old
    BY <1>2, <1>4, Zenon DEF Number
  <2> QED
    BY <1>2, <1>4, <2>1, <2>2, Zenon DEF t
<1> QED
  BY <1>3, <1>4

\* What Asked says of each kind of request.
LEMMA AskedFor ==
  ASSUME NEW r
  PROVE  /\ r = <<>> => Asked(r) = {NoCommand}
         /\ r # <<>> /\ r[1] = <<"h">> => Asked(r) = {[fn |-> "help"]}
         /\ r # <<>> /\ r[1] = <<"e">> => Asked(r) = {[fn |-> "exit"]}
         /\ r # <<>> /\ r[1] = <<"p">> /\ Len(r) >= 2 =>
              Asked(r) = [fn : {"publish"}, topic : {r[2]},
                          msg : {IF Len(r) >= 3 THEN r[3] ELSE <<>>}, qos : Number(r, 4, {0})]
         /\ r # <<>> /\ r[1] = <<"s">> /\ Len(r) >= 2 =>
              Asked(r) = [fn : {"subscribe"}, topic : {r[2]}, qos : Number(r, 3, Garbage)]
         /\ (/\ r # <<>> /\ r[1] # <<"h">> /\ r[1] # <<"e">>
             /\ ~(Len(r) >= 2 /\ r[1] \in {<<"p">>, <<"s">>})) => Asked(r) = {NoCommand}
<1> DEFINE publish == [fn : {"publish"}, topic : {r[2]},
                       msg : {IF Len(r) >= 3 THEN r[3] ELSE <<>>}, qos : Number(r, 4, {0})]
           subscribe == [fn : {"subscribe"}, topic : {r[2]}, qos : Number(r, 3, Garbage)]
<1>1. Asked(r) =
        CASE r = <<>> -> {NoCommand}
          [] r # <<>> /\ r[1] = <<"h">> -> {[fn |-> "help"]}
          [] r # <<>> /\ r[1] = <<"e">> -> {[fn |-> "exit"]}
          [] Len(r) >= 2 /\ r[1] = <<"p">> -> publish
          [] Len(r) >= 2 /\ r[1] = <<"s">> -> subscribe
          [] OTHER -> {NoCommand}
  BY Zenon DEF Asked, Number
<1> HIDE DEF publish, subscribe
<1>2. r = <<>> => Asked(r) = {NoCommand}
  BY <1>1
<1>3. r # <<>> /\ r[1] = <<"h">> => Asked(r) = {[fn |-> "help"]}
  BY <1>1, NamesDiffer
<1>4. r # <<>> /\ r[1] = <<"e">> => Asked(r) = {[fn |-> "exit"]}
  BY <1>1, NamesDiffer
<1>5. r # <<>> /\ r[1] = <<"p">> /\ Len(r) >= 2 => Asked(r) = publish
  BY <1>1, NamesDiffer
<1>6. r # <<>> /\ r[1] = <<"s">> /\ Len(r) >= 2 => Asked(r) = subscribe
  BY <1>1, NamesDiffer
<1>7. (/\ r # <<>> /\ r[1] # <<"h">> /\ r[1] # <<"e">>
       /\ ~(Len(r) >= 2 /\ r[1] \in {<<"p">>, <<"s">>})) => Asked(r) = {NoCommand}
  BY <1>1, NamesDiffer
<1> QED
  BY <1>2, <1>3, <1>4, <1>5, <1>6, <1>7, Zenon DEF publish, subscribe

\* The handler of a request does what was asked.
LEMMA Handled ==
  ASSUME NEW r \in Seq(Word), r # <<>>, NEW a, TakesArgs(r[1]) => ArgsOf(r, a)
  PROVE  Handler(r[1], a) = Asked(r)
<1> DEFINE name == r[1]
<1>1. CASE name \notin {<<"h">>, <<"p">>, <<"s">>, <<"e">>}
  <2>1. Handler(name, a) = {NoCommand}
    BY <1>1 DEF Handler
  <2> QED
    BY <1>1, <2>1, AskedFor
<1>2. CASE name = <<"h">>
  BY <1>2, AskedFor, NamesDiffer DEF Handler
<1>3. CASE name = <<"e">>
  BY <1>3, AskedFor, NamesDiffer DEF Handler
<1>4. (Len(r) >= 2 <=> Len(r) # 1) /\ (Len(r) # 1 => Tail(r) # <<>>)
  <2>1. Len(r) \in Nat /\ Len(r) >= 1 /\ (Len(r) = 1 <=> Tail(r) = <<>>)
    BY FirstAndRest
  <2>2. \A k \in Nat : k >= 1 => (k >= 2 <=> k # 1)
    OBVIOUS
  <2> QED
    BY <2>1, <2>2, Zenon
<1>5. /\ 1 + 1 = 2 /\ 2 + 1 = 3 /\ 3 + 1 = 4 /\ 1 \in Nat /\ 2 \in Nat /\ 3 \in Nat
      /\ 1 >= 1 /\ 2 >= 1 /\ 3 >= 1
  OBVIOUS
<1>6. /\ Len(r) >= 2 => \A Old : ScannedText(Tail(r), 1, Old) = {r[2]}
      /\ ScannedText(Tail(r), 2, {<<>>}) = {IF Len(r) >= 3 THEN r[3] ELSE <<>>}
      /\ \A Old : Scanned(Tail(r), 3, Old) = Number(r, 4, Old)
      /\ \A Old : Scanned(Tail(r), 2, Old) = Number(r, 3, Old)
  <2>1. ASSUME NEW n \in {1, 2, 3}, NEW Old
        PROVE  /\ ScannedText(Tail(r), n, Old) = IF Len(r) >= n + 1 THEN {r[n + 1]} ELSE Old
               /\ Scanned(Tail(r), n, Old) = Number(r, n + 1, Old)
    <3>1. n \in Nat /\ n >= 1
      OBVIOUS
    <3> QED
      BY <3>1, BehindFirst
  <2> QED
    BY <1>5, <2>1
<1>7. CASE name = <<"p">>
  <2>1. Handler(name, a) = pub_cmd_handler(a) /\ ArgsOf(r, a)
    BY <1>7, NamesDiffer DEF Handler, TakesArgs
  <2>2. CASE Len(r) = 1
    <3>1. pub_cmd_handler(a) = {NoCommand}
      BY <2>1, <2>2, Zenon DEF ArgsOf, pub_cmd_handler
    <3> QED
      BY <1>4, <1>7, <2>1, <2>2, <3>1, AskedFor, NamesDiffer
  <2>3. CASE Len(r) # 1
    <3>1. a # <<>> /\ Words(a) = Tail(r)
      BY <2>1, <2>3, Zenon DEF ArgsOf
    <3>2. pub_cmd_handler(a) =
            [fn : {"publish"}, topic : ScannedText(Tail(r), 1, {<<>>}),
             msg : ScannedText(Tail(r), 2, {<<>>}), qos : Scanned(Tail(r), 3, {0})]
      BY <3>1, Zenon DEF pub_cmd_handler
    <3>3. pub_cmd_handler(a) =
            [fn : {"publish"}, topic : {r[2]},
             msg : {IF Len(r) >= 3 THEN r[3] ELSE <<>>}, qos : Number(r, 4, {0})]
      BY <1>4, <1>6, <2>3, <3>2, Zenon
    <3> QED
      BY <1>4, <1>7, <2>1, <2>3, <3>3, AskedFor, Zenon
  <2> QED
    BY <2>2, <2>3
<1>8. CASE name = <<"s">>
  <2>1. Handler(name, a) = sub_cmd_handler(a) /\ ArgsOf(r, a)
    BY <1>8, NamesDiffer DEF Handler, TakesArgs
  <2>2. CASE Len(r) = 1
    <3>1. sub_cmd_handler(a) = {NoCommand}
      BY <2>1, <2>2, Zenon DEF ArgsOf, sub_cmd_handler
    <3> QED
      BY <1>4, <1>8, <2>1, <2>2, <3>1, AskedFor, NamesDiffer
  <2>3. CASE Len(r) # 1
    <3>1. a # <<>> /\ Words(a) = Tail(r)
      BY <2>1, <2>3, Zenon DEF ArgsOf
    <3>2. sub_cmd_handler(a) =
            [fn : {"subscribe"}, topic : ScannedText(Tail(r), 1, GarbageText),
             qos : Scanned(Tail(r), 2, Garbage)]
      BY <3>1, Zenon DEF sub_cmd_handler, SubOld
    <3>3. sub_cmd_handler(a) =
            [fn : {"subscribe"}, topic : {r[2]}, qos : Number(r, 3, Garbage)]
      BY <1>4, <1>6, <2>3, <3>2, Zenon
    <3> QED
      BY <1>4, <1>8, <2>1, <2>3, <3>3, AskedFor, Zenon
  <2> QED
    BY <2>2, <2>3
<1> QED
  BY <1>1, <1>2, <1>3, <1>7, <1>8

----------------------------------------------------------------------------
(* The inductive invariant                                                 *)

\* read_buffer is clear and the user's last line has been read to its end.
Clear == read_buffer = ClearedBuffer /\ read_cnt = 0 /\ rest = <<>>

\* A line ends somewhere in the buffer.
LineEndIn(b) == \E j \in 0 .. BufLen - 1 : b[j] = NL

\* read_cnt follows the calls of read().
Counted == read_cnt <= BufLen - 1 + reads

\* What was typed and not yet read is the end of a line.
EndOfLine(s) == \A i \in 1 .. Len(s) - 1 : s[i] # NL
LeftOver == EndOfLine(rest)

\* The line in the buffer is still to be counted.
Pending == commands + (IF LineEndIn(read_buffer) THEN 1 ELSE 0) <= newlines

\* While each read() returned a line, the buffer holds that line and no other.
InStep ==
  /\ phase = "read" /\ inStep # "no" => Clear
  /\ phase = "got" => inStep # "again" /\ called = NoCommand
  /\ phase = "got" /\ inStep = "yes" => rest = <<>> /\ line \in Requests /\ Holds(line)

CmdInv ==
  TypeOK /\ Counted /\ LeftOver /\ Pending /\ InStep /\ StaysInBuffer /\ LineHandled

\* The counters are numbers, and the limits of the buffer.
LEMMA Numbers ==
  ASSUME TypeOK
  PROVE  /\ read_cnt \in Nat /\ newlines \in Nat /\ commands \in Nat /\ reads \in Nat
         /\ BufLen \in Nat /\ BufLen >= 1 /\ MaxReads \in Nat /\ CntMod \in Nat /\ CntMod >= 1
BY CommandLineAssumption DEF TypeOK

\* A cleared buffer has no end of a line.
LEMMA ClearedHasNone ==
  /\ ClearedBuffer \in [0 .. BufLen - 1 -> Char] /\ ~LineEndIn(ClearedBuffer)
BY CharsAre, CharsDiffer DEF ClearedBuffer, LineEndIn

\* The thread begins with a clear buffer.
LEMMA CmdInit == Init => CmdInv
<1> SUFFICES ASSUME Init PROVE CmdInv
  OBVIOUS
<1>1. /\ read_buffer = ClearedBuffer /\ rest = <<>> /\ Len(rest) = 0
      /\ BufLen \in Nat /\ BufLen >= 1 /\ MaxReads \in Nat
  BY CommandLineAssumption DEF Init, ClearedBuffer
<1>2. TypeOK
  BY <1>1, ClearedHasNone DEF Init, TypeOK, NoCommand
<1>3. Counted
  BY <1>1 DEF Init, Counted
<1>4. LeftOver
  BY <1>1 DEF LeftOver, EndOfLine
<1>5. Pending
  BY <1>1, ClearedHasNone DEF Init, Pending
<1>6. InStep
  BY <1>1 DEF Init, InStep, Clear
<1>7. StaysInBuffer /\ LineHandled
  BY DEF Init, StaysInBuffer, LineHandled
<1> QED
  BY <1>2, <1>3, <1>4, <1>5, <1>6, <1>7 DEF CmdInv

\* The invariant is about the variables of the thread only.
LEMMA CmdStutter == CmdInv /\ UNCHANGED vars => CmdInv'
BY DEF CmdInv, vars, buffer, input, outcome, TypeOK, Counted, LeftOver, EndOfLine, Pending,
       InStep, Clear, Holds, LineEndIn, ClearedBuffer, StaysInBuffer, LineHandled

\* Lines that were typed are characters.
LEMMA LinesType ==
  ASSUME NEW rs \in Seq(Requests)
  PROVE  Lines(rs) \in Seq(Char) /\ Len(rs) \in Nat /\ (Len(rs) = 0 => Lines(rs) = <<>>)
<1> DEFINE f == [i \in 1 .. Len(rs) |-> Text(rs[i])]
<1>1. Len(rs) \in Nat /\ \A i \in 1 .. Len(rs) : rs[i] \in Requests
  BY LenProperties, ElementOfSeq
<1>2. \A i \in 1 .. Len(rs) : Text(rs[i]) \in Seq(Char)
  BY <1>1, TextEnds
<1>3. f \in [1 .. Len(rs) -> Seq(Char)]
  BY <1>2
<1>4. f \in Seq(Seq(Char))
  BY <1>1, <1>3, FunctionSeq, Zenon
<1>5. Len(rs) = 0 => f = <<>>
  OBVIOUS
<1> HIDE DEF f
<1>6. Lines(rs) = FlattenSeq(f)
  BY DEF Lines, f
<1> QED
  BY <1>1, <1>4, <1>5, <1>6, FlattenType, FlattenEmpty

\* What read() may return: whole lines, and a line or what is left of one.
LEMMA InputIs ==
  ASSUME TypeOK, LeftOver, NEW in \in Input
  PROVE  /\ in.line \in Requests \cup {<<>>} /\ in.last \in Seq(Char) /\ EndOfLine(in.last)
         /\ in.whole \in Seq(Char) /\ in.ends \in Nat /\ (in.ends = 0 => in.whole = <<>>)
         /\ rest = <<>> => in.line \in Requests /\ in.last = Text(in.line)
<1>1. /\ rest \in Seq(Char) /\ EndOfLine(rest) /\ line \in Requests \cup {<<>>}
      /\ <<>> \in Seq(Char) /\ 0 \in Nat
  BY DEF TypeOK, LeftOver
<1>2. CASE in \in {[whole |-> <<>>, ends |-> 0, line |-> line, last |-> t] :
                    t \in {rest} \ {<<>>}}
  <2>1. /\ rest # <<>>
        /\ in.whole = <<>> /\ in.ends = 0 /\ in.line = line /\ in.last = rest
    BY <1>2
  <2> QED
    BY <1>1, <2>1, Zenon
<1>3. CASE in \notin {[whole |-> <<>>, ends |-> 0, line |-> line, last |-> t] :
                       t \in {rest} \ {<<>>}}
  <2>1. PICK rs \in Ahead, q \in Requests :
          in = [whole |-> rest \o Lines(rs), ends |-> EndOfRest + Len(rs), line |-> q,
                last |-> Text(q)]
    BY <1>3 DEF Input
  <2>2. /\ in.whole = rest \o Lines(rs) /\ in.ends = EndOfRest + Len(rs)
        /\ in.line = q /\ in.last = Text(q)
    BY <2>1
  <2>3. Text(q) \in Seq(Char) /\ EndOfLine(Text(q))
    BY TextEnds DEF EndOfLine
  <2>4. rs \in Seq(Requests)
    BY CommandLineAssumption
  <2>5. Lines(rs) \in Seq(Char) /\ Len(rs) \in Nat /\ (Len(rs) = 0 => Lines(rs) = <<>>)
    BY <2>4, LinesType
  <2>6. rest \o Lines(rs) \in Seq(Char)
    BY <1>1, <2>5, ConcatProperties
  <2>7. EndOfRest \in Nat /\ (EndOfRest = 0 => rest = <<>>)
    BY DEF EndOfRest
  <2>8. in.ends \in Nat /\ (in.ends = 0 => EndOfRest = 0 /\ Len(rs) = 0)
    BY <2>2, <2>5, <2>7
  <2>9. <<>> \o <<>> = <<>>
    OBVIOUS
  <2> QED
    BY <2>2, <2>3, <2>5, <2>6, <2>7, <2>8, <2>9, Zenon
<1> QED
  BY <1>2, <1>3

\* What read() returns of it.
LEMMA ReturnedIs ==
  ASSUME NEW in, in.whole \in Seq(Char), in.last \in Seq(Char), NEW m \in 1 .. Len(in.last)
  PROVE  /\ Returned(in, m) \in Seq(Char) /\ Len(Returned(in, m)) = Len(in.whole) + m
         /\ Len(in.whole) \in Nat
         /\ in.whole = <<>> => \A k \in 1 .. m : Returned(in, m)[k] = in.last[k]
<1> DEFINE w == in.whole
           t == in.last
           u == SubSeq(in.last, 1, m)
<1>0. w \in Seq(Char) /\ t \in Seq(Char) /\ m \in 1 .. Len(t) /\ u = SubSeq(t, 1, m)
  OBVIOUS
<1> HIDE DEF w, t, u
<1>1. u \in Seq(Char) /\ Len(u) = m /\ \A k \in 1 .. m : u[k] = t[k]
  BY <1>0
<1>2. w \o u \in Seq(Char) /\ Len(w \o u) = Len(w) + Len(u) /\ Len(w) \in Nat
  BY <1>0, <1>1, ConcatProperties, LenProperties
<1>3. w = <<>> => w \o u = u
  BY <1>1
<1>4. Returned(in, m) = w \o u
  BY DEF Returned, w, u
<1> QED
  BY <1>1, <1>2, <1>3, <1>4, Zenon DEF w, t

\* read() returned something: parts of lines, or lines.
LEMMA ReadInput ==
  ASSUME CmdInv, read_input
  PROVE  CmdInv'
<1>0. TypeOK /\ Counted /\ LeftOver /\ Pending /\ InStep
  BY DEF CmdInv
<1>i. PICK in \in Input : \E k \in 1 .. Len(in.last) :
        /\ Len(in.whole) + k <= BufLen
        /\ Store(Returned(in, k))
        /\ line' = in.line /\ rest' = SubSeq(in.last, k + 1, Len(in.last))
        /\ newlines' = newlines + in.ends + (IF k = Len(in.last) THEN 1 ELSE 0)
        /\ inStep' = InStepAfter(in, k)
  BY Zenon DEF read_input
<1>1. PICK m \in 1 .. Len(in.last) :
        /\ Len(in.whole) + m <= BufLen
        /\ Store(Returned(in, m))
        /\ line' = in.line /\ rest' = SubSeq(in.last, m + 1, Len(in.last))
        /\ newlines' = newlines + in.ends + (IF m = Len(in.last) THEN 1 ELSE 0)
        /\ inStep' = InStepAfter(in, m)
  BY <1>i
<1>2. /\ reads' = reads + 1 /\ called' = NoCommand /\ commands' = commands
      /\ phase = "read" /\ reads < MaxReads
  BY DEF read_input
<1> DEFINE text == in.last
           len == Len(text)
           got == Returned(in, m)
           n == Len(got)
           more == in.ends
<1>3. /\ in.line \in Requests \cup {<<>>} /\ text \in Seq(Char) /\ EndOfLine(text)
      /\ rest = <<>> => in.line \in Requests /\ text = Text(in.line)
      /\ in.whole \in Seq(Char) /\ more \in Nat /\ (more = 0 => in.whole = <<>>)
  BY <1>0, InputIs
<1>4. /\ read_cnt \in Nat /\ newlines \in Nat /\ commands \in Nat /\ reads \in Nat
      /\ BufLen \in Nat /\ BufLen >= 1 /\ MaxReads \in Nat
  BY <1>0, Numbers
<1>5. len \in Nat /\ m \in Nat /\ m >= 1 /\ m <= len
  <2>1. len \in Nat
    BY <1>3, LenProperties
  <2> HIDE DEF len
  <2>2. m \in 1 .. len
    BY DEF len
  <2> QED
    BY <2>1, <2>2
<1>6. /\ got \in Seq(Char) /\ n = Len(in.whole) + m /\ Len(in.whole) \in Nat
      /\ in.whole = <<>> => n = m /\ \A k \in 1 .. n : got[k] = text[k]
  <2>1. /\ got \in Seq(Char) /\ n = Len(in.whole) + m /\ Len(in.whole) \in Nat
        /\ in.whole = <<>> => \A k \in 1 .. m : got[k] = text[k]
    BY <1>3, ReturnedIs
  <2>2. in.whole = <<>> => Len(in.whole) = 0
    OBVIOUS
  <2>3. in.whole = <<>> => n = m
    <3> HIDE DEF n
    <3> QED
      BY <1>5, <2>1, <2>2
  <2> QED
    BY <2>1, <2>3, Zenon
<1>6a. n \in Nat /\ n >= 1 /\ n <= BufLen /\ \A k \in 1 .. n : got[k] \in Char
  <2>1. \A k \in 1 .. n : got[k] \in Char
    BY <1>6, ElementOfSeq
  <2>2. Len(in.whole) + m <= BufLen
    BY <1>1
  <2> HIDE DEF got, n
  <2> QED
    BY <1>5, <1>6, <2>1, <2>2
<1> DEFINE ends == m = len
<1>7. newlines' = newlines + more + (IF ends THEN 1 ELSE 0) /\ rest' = SubSeq(text, m + 1, len)
  BY <1>1
<1>8. inStep' = IF inStep # "no" /\ rest = <<>> /\ in.whole = <<>> /\ m = len /\ m < BufLen
                THEN "yes" ELSE "no"
  BY <1>1 DEF InStepAfter, IsLine
<1>9. /\ rest' \in Seq(Char) /\ (ends => rest' = <<>>) /\ EndOfLine(rest')
  <2> HIDE DEF text, len
  <2>1. /\ rest' \in Seq(Char) /\ (m = len => rest' = <<>>)
        /\ m # len => /\ Len(rest') = len - m
                      /\ \A i \in 1 .. len - m : rest'[i] = text[m + i]
    <3> DEFINE u == SubSeq(text, m + 1, len)
    <3>1. m + 1 \in Nat /\ m + 1 >= 1 /\ len = Len(text)
      BY <1>5 DEF len
    <3>2. \A V : \A v \in Seq(V) : \A a, b \in Nat : a >= 1 /\ b = Len(v) /\ a <= b + 1 =>
            /\ SubSeq(v, a, b) \in Seq(V) /\ Len(SubSeq(v, a, b)) = b + 1 - a
            /\ \A i \in 1 .. b + 1 - a : SubSeq(v, a, b)[i] = v[a + i - 1]
      OBVIOUS
    <3>3. /\ u \in Seq(Char) /\ Len(u) = len + 1 - (m + 1)
          /\ \A i \in 1 .. len + 1 - (m + 1) : u[i] = text[m + 1 + i - 1]
      BY <1>3, <1>5, <3>1, <3>2, SMTT(30)
    <3> HIDE DEF u
    <3>4. Len(u) = len - m /\ \A i \in 1 .. len - m : u[i] = text[m + i]
      <4>1. len + 1 - (m + 1) = len - m /\ \A i \in Nat : m + 1 + i - 1 = m + i
        BY <1>5
      <4>2. \A i \in 1 .. len - m : i \in Nat
        BY <1>5
      <4> QED
        BY <3>3, <4>1, <4>2
    <3>5. m = len => u = <<>>
      BY <1>5, <3>3, <3>4
    <3> QED
      BY <1>7, <3>3, <3>4, <3>5, Zenon DEF u
  <2>2. EndOfLine(rest')
    <3>1. CASE m = len
      BY <2>1, <3>1 DEF EndOfLine
    <3>2. CASE m # len
      <4> SUFFICES ASSUME NEW i \in 1 .. Len(rest') - 1 PROVE rest'[i] # NL
        BY DEF EndOfLine
      <4>1. i \in 1 .. len - m /\ m + i \in 1 .. len - 1
        BY <1>5, <2>1, <3>2
      <4>2. rest'[i] = text[m + i] /\ text[m + i] # NL
        BY <1>3, <2>1, <3>2, <4>1 DEF EndOfLine, len
      <4> QED
        BY <4>2
    <3> QED
      BY <3>1, <3>2
  <2> QED
    BY <2>1, <2>2
<1> HIDE DEF got, n, text, more
<1>10. ASSUME NEW k \in 1 .. n, ~ends, more = 0 PROVE got[k] # NL
  <2>1. n = m /\ got[k] = text[k]
    BY <1>3, <1>6, <1>10
  <2>2. k \in 1 .. Len(text) - 1
    BY <1>5, <1>10, <2>1
  <2> QED
    BY <1>3, <2>1, <2>2 DEF EndOfLine
<1>11. inStep' # "no" => /\ inStep # "no" /\ rest = <<>> /\ ends /\ len < BufLen
                         /\ in.whole = <<>> /\ inStep' = "yes"
  BY <1>8
<1>12. /\ commands <= newlines /\ read_cnt <= BufLen - 1 + reads
  BY <1>0, <1>4 DEF Counted, Pending
<1> HIDE DEF len
<1>12a. /\ line' \in Requests \cup {<<>>} /\ inStep' \in {"yes", "no", "again"}
       /\ called'.fn \in {"none", "help", "exit", "publish", "subscribe"}
       /\ newlines' \in Nat /\ commands' \in Nat /\ reads' \in 0 .. MaxReads
  <2>1. line' \in Requests \cup {<<>>}
    BY <1>1, <1>3
  <2>2. called'.fn = "none"
    BY <1>2 DEF NoCommand
  <2>3. newlines' \in Nat /\ commands' \in Nat /\ reads' \in 0 .. MaxReads
    BY <1>2, <1>3, <1>4, <1>7
  <2> QED
    BY <1>8, <2>1, <2>2, <2>3
<1>12b. newlines' >= newlines + more /\ (ends => newlines' = newlines + more + 1)
  BY <1>3, <1>4, <1>7
<1>12c. IF ReadAt + n <= BufLen
       THEN /\ read_buffer' = [j \in 0 .. BufLen - 1 |->
                 IF j \in ReadAt .. ReadAt + n - 1 THEN got[j - ReadAt + 1] ELSE read_buffer[j]]
            /\ read_cnt' = CntAfterRead(n) /\ phase' = "got"
       ELSE phase' = "beyond" /\ UNCHANGED buffer
  BY <1>1 DEF Store, got, n
<1>13. CASE ReadAt + n <= BufLen
  <2>1. /\ read_buffer' = [j \in 0 .. BufLen - 1 |->
             IF j \in read_cnt .. read_cnt + n - 1 THEN got[j - read_cnt + 1]
                                                   ELSE read_buffer[j]]
        /\ read_cnt' = (IF n >= BufLen THEN 0 ELSE n) /\ phase' = "got"
    BY <1>12c, <1>13 DEF ReadAt, CntAfterRead, Full
  <2>2. \A j \in read_cnt .. read_cnt + n - 1 : j - read_cnt + 1 \in 1 .. n
    BY <1>4, <1>6a
  <2>3. read_buffer' \in [0 .. BufLen - 1 -> Char]
    <3>1. \A j \in read_cnt .. read_cnt + n - 1 : got[j - read_cnt + 1] \in Char
      BY <1>6a, <2>2
    <3>2. read_buffer \in [0 .. BufLen - 1 -> Char]
      BY <1>0 DEF TypeOK
    <3> QED
      BY <2>1, <3>1, <3>2
  <2>4. read_cnt' \in Nat /\ read_cnt' <= BufLen - 1
    BY <1>4, <1>6a, <2>1
  <2>5. Pending'
    <3>1. CASE ends \/ more # 0
      <4>1. newlines' \in Nat /\ newlines' >= newlines + 1
        BY <1>3, <1>4, <1>12a, <1>12b, <3>1
      <4> QED
        BY <1>2, <1>4, <1>12, <4>1 DEF Pending
    <3>2. CASE ~(ends \/ more # 0)
      <4>1. LineEndIn(read_buffer') => LineEndIn(read_buffer)
        <5> SUFFICES ASSUME NEW j \in 0 .. BufLen - 1, read_buffer'[j] = NL
                     PROVE  read_buffer[j] = NL
          BY DEF LineEndIn
        <5>1. j \in read_cnt .. read_cnt + n - 1 => got[j - read_cnt + 1] # NL
          BY <1>10, <2>2, <3>2
        <5> QED
          BY <2>1, <5>1
      <4>2. newlines' = newlines
        BY <1>3, <1>4, <1>7, <3>2
      <4> QED
        BY <1>0, <1>2, <1>4, <4>1, <4>2 DEF Pending
    <3> QED
      BY <3>1, <3>2
  <2>6. InStep'
    <3>1. inStep' # "again"
      BY <1>8
    <3>2. ASSUME inStep' = "yes" PROVE rest' = <<>> /\ line' \in Requests /\ Holds(line)'
      <4>1. Clear /\ rest = <<>> /\ ends /\ len < BufLen /\ in.whole = <<>>
        BY <1>0, <1>2, <1>11, <3>2 DEF InStep
      <4>2. rest' = <<>> /\ line' \in Requests /\ text = Text(line')
        BY <1>1, <1>3, <1>9, <4>1 DEF text
      <4>3. /\ read_cnt' = len
            /\ read_buffer' = [j \in 0 .. BufLen - 1 |-> IF j < len THEN text[j + 1] ELSE NUL]
        <5>1. read_cnt = 0 /\ n = len /\ ~(n >= BufLen) /\ \A k \in 1 .. n : got[k] = text[k]
          BY <1>4, <1>5, <1>6, <4>1 DEF Clear
        <5>2. \A j \in 0 .. BufLen - 1 :
                /\ (j \in 0 .. 0 + n - 1 <=> j < len) /\ j - 0 + 1 = j + 1
                /\ read_buffer[j] = NUL
          BY <1>4, <1>5, <4>1, <5>1 DEF Clear, ClearedBuffer
        <5>3. read_buffer' = [j \in 0 .. BufLen - 1 |->
                IF j \in 0 .. 0 + n - 1 THEN got[j - 0 + 1] ELSE read_buffer[j]]
          BY <2>1, <5>1, Zenon
        <5>4. \A j \in 0 .. BufLen - 1 :
                (IF j \in 0 .. 0 + n - 1 THEN got[j - 0 + 1] ELSE read_buffer[j])
                  = (IF j < len THEN text[j + 1] ELSE NUL)
          <6> TAKE j \in 0 .. BufLen - 1
          <6>1. j < len => j + 1 \in 1 .. n
            BY <1>5, <5>1
          <6>2. j < len => got[j + 1] = text[j + 1]
            BY <5>1, <6>1, Zenon
          <6>3. (j \in 0 .. 0 + n - 1 <=> j < len) /\ j - 0 + 1 = j + 1 /\ read_buffer[j] = NUL
            BY <5>2
          <6> QED
            BY <6>2, <6>3, Zenon
        <5> QED
          BY <2>1, <5>1, <5>3, <5>4, Zenon
      <4> QED
        BY <4>1, <4>2, <4>3 DEF Holds, len
    <3> QED
      BY <1>2, <2>1, <3>1, <3>2 DEF InStep
  <2>7. TypeOK'
    <3>1. read_cnt' \in 0 .. BufLen - 1 + MaxReads /\ read_cnt' < BufLen
      BY <1>4, <2>4
    <3> QED
      BY <1>9, <1>12a, <2>1, <2>3, <3>1 DEF TypeOK
  <2>8. Counted'
    BY <1>2, <1>4, <1>12, <2>4 DEF Counted
  <2>9. LeftOver' /\ StaysInBuffer' /\ LineHandled'
    BY <1>9, <2>1 DEF LeftOver, StaysInBuffer, LineHandled
  <2> QED
    BY <2>5, <2>6, <2>7, <2>8, <2>9 DEF CmdInv
<1>14. CASE ~(ReadAt + n <= BufLen)
  <2>1. phase' = "beyond" /\ read_buffer' = read_buffer /\ read_cnt' = read_cnt
    BY <1>12c, <1>14 DEF buffer
  <2>2. inStep' = "no"
    <3> SUFFICES ASSUME inStep' # "no" PROVE FALSE
      OBVIOUS
    <3>1. Clear /\ n < BufLen
      BY <1>0, <1>2, <1>6, <1>11 DEF InStep
    <3> QED
      BY <1>4, <1>14, <1>6a, <3>1 DEF Clear, ReadAt
  <2>3. TypeOK'
    BY <1>0, <1>9, <1>12a, <2>1 DEF TypeOK
  <2>4. Counted' /\ Pending'
    <3>1. newlines' \in Nat /\ newlines' >= newlines
      BY <1>3, <1>4, <1>12a, <1>12b
    <3> QED
      BY <1>0, <1>2, <1>4, <1>12, <2>1, <3>1 DEF Counted, Pending
  <2>5. LeftOver' /\ StaysInBuffer' /\ LineHandled' /\ InStep'
    BY <1>9, <2>1, <2>2 DEF LeftOver, StaysInBuffer, LineHandled, InStep
  <2> QED
    BY <2>3, <2>4, <2>5 DEF CmdInv
<1> QED
  BY <1>13, <1>14

\* read() returned nothing.
LEMMA ReadNothing ==
  ASSUME CmdInv, read_nothing
  PROVE  CmdInv'
<1>0. TypeOK /\ Counted /\ LeftOver /\ Pending /\ InStep
  BY DEF CmdInv
<1>1. /\ phase = "read" /\ reads < MaxReads /\ read_cnt' = (read_cnt + 1) % CntMod
      /\ reads' = reads + 1 /\ inStep' = "no" /\ phase' = phase /\ read_buffer' = read_buffer
      /\ rest' = rest /\ line' = line /\ newlines' = newlines /\ called' = called
      /\ commands' = commands
  BY DEF read_nothing, outcome
<1>2. /\ read_cnt \in Nat /\ newlines \in Nat /\ commands \in Nat /\ reads \in Nat
      /\ BufLen \in Nat /\ BufLen >= 1 /\ MaxReads \in Nat /\ CntMod \in Nat /\ CntMod >= 1
  BY <1>0, Numbers
<1>3. read_cnt' \in Nat /\ read_cnt' <= read_cnt + 1
  <2>1. \A k, m \in Nat : m >= 1 => k % m \in Nat /\ k % m <= k
    BY Division
  <2>2. read_cnt + 1 \in Nat
    BY <1>2
  <2> QED
    BY <1>1, <1>2, <2>1, <2>2, Zenon
<1>4. read_cnt <= BufLen - 1 + reads
  BY <1>0 DEF Counted
<1>5. read_cnt' \in 0 .. BufLen - 1 + MaxReads /\ reads' \in 0 .. MaxReads
  BY <1>1, <1>2, <1>3, <1>4
<1>6. TypeOK'
  BY <1>0, <1>1, <1>5 DEF TypeOK
<1>7. Counted'
  BY <1>1, <1>2, <1>3, <1>4 DEF Counted
<1>8. LeftOver' /\ Pending' /\ InStep' /\ StaysInBuffer' /\ LineHandled'
  BY <1>0, <1>1 DEF LeftOver, Pending, InStep, StaysInBuffer, LineHandled
<1> QED
  BY <1>6, <1>7, <1>8 DEF CmdInv

\* What the buffer holds when a line of it was read.
LEMMA LineRead ==
  ASSUME CmdInv, phase = "got", inStep # "no"
  PROVE  /\ inStep = "yes" /\ rest = <<>> /\ line \in Requests /\ Holds(line)
         /\ read_cnt # 0 /\ LastRead = NL
<1>1. TypeOK /\ InStep
  BY DEF CmdInv
<1>2. inStep = "yes"
  BY <1>1 DEF TypeOK, InStep
<1>3. rest = <<>> /\ line \in Requests /\ Holds(line)
  BY <1>1, <1>2 DEF InStep
<1>4. read_cnt = Len(Text(line)) /\ Len(Text(line)) \in Nat /\ Len(Text(line)) >= 1
  BY <1>3, TextEnds DEF Holds
<1>5. LastRead = NL
  BY <1>3, LineHolds
<1> QED
  BY <1>2, <1>3, <1>4, <1>5

\* Only a read() that filled the buffer gets the thread in front of it.
LEMMA BeforeBuffer ==
  ASSUME CmdInv, before_buffer
  PROVE  CmdInv'
<1>1. /\ phase = "got" /\ read_cnt = 0 /\ phase' = "beyond"
      /\ UNCHANGED <<read_buffer, read_cnt, rest, line, newlines, reads, called, commands, inStep>>
  BY DEF before_buffer, buffer, input, outcome
<1>2. inStep = "no"
  BY <1>1, LineRead
<1> QED
  BY <1>1, <1>2 DEF CmdInv, TypeOK, Counted, LeftOver, Pending, InStep, StaysInBuffer, LineHandled

\* A line ends with the last character read.
LEMMA LineEndGot ==
  ASSUME CmdInv, Got(LineEnd)
  PROVE  commands + 1 <= newlines
<1>1. /\ phase = "got" /\ read_cnt > 0 /\ read_buffer[read_cnt - 1] = NL
  BY DEF Got, LineEnd, LastRead
<1>2. TypeOK /\ Pending
  BY DEF CmdInv
<1>3. read_cnt \in Nat /\ BufLen \in Nat /\ read_cnt < BufLen
  BY <1>1, <1>2, Numbers DEF TypeOK
<1>4. read_cnt - 1 \in 0 .. BufLen - 1
  BY <1>1, <1>3
<1>5. LineEndIn(read_buffer)
  BY <1>1, <1>4 DEF LineEndIn
<1> QED
  BY <1>2, <1>5 DEF Pending

\* After a line the buffer is clear, and in step when nothing is left over.
LEMMA Cleared ==
  ASSUME CmdInv, Got(LineEnd), clear, UNCHANGED input,
         commands' \in {commands, commands + 1},
         called'.fn \in {"none", "help", "exit", "publish", "subscribe"},
         inStep = "yes" => called' \in Asked(line)
  PROVE  CmdInv'
<1>0. TypeOK /\ Counted /\ LeftOver /\ Pending /\ InStep
  BY DEF CmdInv
<1>1. /\ read_buffer' = ClearedBuffer /\ read_cnt' = 0 /\ phase' = "read"
      /\ inStep' = IF inStep = "no" /\ rest = <<>> THEN "again" ELSE inStep
      /\ rest' = rest /\ line' = line /\ newlines' = newlines /\ reads' = reads
  BY DEF clear, CntAfterLine, input
<1>2. phase = "got"
  BY DEF Got
<1>3. /\ read_cnt \in Nat /\ newlines \in Nat /\ commands \in Nat /\ reads \in Nat
      /\ BufLen \in Nat /\ BufLen >= 1 /\ MaxReads \in Nat
  BY <1>0, Numbers
<1>4. commands + 1 <= newlines
  BY LineEndGot
<1>5. commands' \in Nat /\ commands' <= newlines
  BY <1>3, <1>4
<1>6. 0 \in 0 .. BufLen - 1 + MaxReads
  BY <1>3
<1>7. TypeOK'
  BY <1>0, <1>1, <1>5, <1>6, ClearedHasNone DEF TypeOK
<1>8. Counted'
  BY <1>0, <1>1, <1>3 DEF Counted
<1>9. Pending'
  BY <1>1, <1>3, <1>5, ClearedHasNone DEF Pending
<1>10. inStep # "no" => inStep = "yes" /\ rest = <<>>
  BY <1>2, LineRead
<1>11. InStep'
  BY <1>1, <1>10 DEF InStep, Clear, ClearedBuffer
<1>12. LineHandled'
  BY <1>1 DEF LineHandled, Asked
<1>13. LeftOver' /\ StaysInBuffer'
  BY <1>0, <1>1 DEF LeftOver, StaysInBuffer
<1> QED
  BY <1>7, <1>8, <1>9, <1>11, <1>12, <1>13 DEF CmdInv

\* An empty line runs nothing.
LEMMA LineEmpty ==
  ASSUME CmdInv, line_empty
  PROVE  CmdInv'
<1>1. /\ Got(LineEnd) /\ clear /\ UNCHANGED input /\ Line[0] = NUL
      /\ called' = called /\ commands' = commands
  BY DEF line_empty, outcome
<1>2. phase = "got"
  BY <1>1 DEF Got
<1>3. called' = NoCommand
  BY <1>1, <1>2 DEF CmdInv, InStep
<1>4. called'.fn = "none"
  BY <1>3 DEF NoCommand
<1>5. inStep = "yes" => called' \in Asked(line)
  <2> SUFFICES ASSUME inStep = "yes" PROVE called' \in Asked(line)
    OBVIOUS
  <2>1. line \in Requests /\ Holds(line)
    BY <1>2, LineRead
  <2>2. line = <<>>
    BY <1>1, <2>1, LineHolds
  <2>3. Asked(line) = {NoCommand}
    BY <2>2, AskedFor
  <2> QED
    BY <1>3, <2>3
<1> QED
  BY <1>1, <1>4, <1>5, Cleared

\* A line runs its command.
LEMMA ProcessCmd ==
  ASSUME CmdInv, commandline_process_cmd
  PROVE  CmdInv'
<1>1. /\ Got(LineEnd) /\ clear /\ UNCHANGED input /\ Line[0] # NUL
      /\ called' \in Handler(NameOf(Line), Args(Line))
      /\ commands' = commands + (IF called' = NoCommand THEN 0 ELSE 1)
  BY DEF commandline_process_cmd
<1>2. phase = "got"
  BY <1>1 DEF Got
<1>3. commands' \in {commands, commands + 1}
  <2>1. commands \in Nat
    BY Numbers DEF CmdInv
  <2> QED
    BY <1>1, <2>1
<1>4. called'.fn \in {"none", "help", "exit", "publish", "subscribe"}
  BY <1>1, HandlerFn
<1>5. inStep = "yes" => called' \in Asked(line)
  <2> SUFFICES ASSUME inStep = "yes" PROVE called' \in Asked(line)
    OBVIOUS
  <2>1. line \in Requests /\ Holds(line)
    BY <1>2, LineRead
  <2>2. line # <<>>
    BY <1>1, <2>1, LineHolds
  <2>3. NameOf(Line) = line[1] /\ ArgsOf(line, CString(Line, ArgsAt(Line)))
    BY <2>1, <2>2, LineHolds
  <2>4. line \in Seq(Word)
    BY <2>1, CommandLineAssumption
  <2>5. TakesArgs(line[1]) => ArgsOf(line, Args(Line))
    BY <2>3, Zenon DEF Args
  <2>6. Handler(line[1], Args(Line)) = Asked(line)
    BY <2>2, <2>4, <2>5, Handled
  <2> QED
    BY <1>1, <2>3, <2>6, Zenon
<1> QED
  BY <1>1, <1>3, <1>4, <1>5, Cleared

\* The arguments of a line that was read as one have an end.
LEMMA ProcessBeyond ==
  ASSUME CmdInv, process_cmd_beyond
  PROVE  CmdInv'
<1>1. /\ Got(LineEnd) /\ Line[0] # NUL /\ ~Terminated(Line, ArgsAt(Line)) /\ phase' = "beyond"
      /\ UNCHANGED <<read_buffer, read_cnt, rest, line, newlines, reads, called, commands, inStep>>
  BY DEF process_cmd_beyond, buffer, input, outcome
<1>2. phase = "got"
  BY <1>1 DEF Got
<1>3. inStep = "no"
  <2> SUFFICES ASSUME inStep # "no" PROVE FALSE
    OBVIOUS
  <2>1. line \in Requests /\ Holds(line)
    BY <1>2, LineRead
  <2> QED
    BY <1>1, <2>1, LineHolds
<1> QED
  BY <1>1, <1>3 DEF CmdInv, TypeOK, Counted, LeftOver, Pending, InStep, StaysInBuffer, LineHandled

\* A character is taken back.
LEMMA Backspace ==
  ASSUME CmdInv, backspace
  PROVE  CmdInv'
<1>0. TypeOK /\ Counted /\ LeftOver /\ Pending /\ InStep
  BY DEF CmdInv
<1>1. /\ phase = "got" /\ read_cnt > 0 /\ LastRead = BS /\ read_cnt' = read_cnt - 1
      /\ read_buffer' = [read_buffer EXCEPT ![read_cnt - 1] = NUL] /\ phase' = "read"
      /\ UNCHANGED <<rest, line, newlines, reads, called, commands, inStep>>
  BY DEF backspace, Got, input, outcome
<1>2. /\ read_cnt \in Nat /\ reads \in Nat /\ newlines \in Nat /\ commands \in Nat
      /\ BufLen \in Nat /\ MaxReads \in Nat
  BY <1>0, Numbers
<1>3. inStep = "no"
  BY <1>1, LineRead, CharsDiffer
<1>4. read_buffer \in [0 .. BufLen - 1 -> Char]
  BY <1>0 DEF TypeOK
<1>5. read_buffer' \in [0 .. BufLen - 1 -> Char] /\ (LineEndIn(read_buffer') => LineEndIn(read_buffer))
  BY <1>1, <1>4, CharsAre, CharsDiffer DEF LineEndIn
<1>6. read_cnt' \in 0 .. BufLen - 1 + MaxReads /\ read_cnt' <= BufLen - 1 + reads
  BY <1>0, <1>1, <1>2 DEF TypeOK, Counted
<1>7. TypeOK'
  BY <1>0, <1>1, <1>5, <1>6 DEF TypeOK
<1>8. Counted' /\ Pending'
  BY <1>0, <1>1, <1>2, <1>5, <1>6 DEF Counted, Pending
<1>9. LeftOver' /\ InStep' /\ StaysInBuffer' /\ LineHandled'
  BY <1>0, <1>1, <1>3 DEF LeftOver, InStep, StaysInBuffer, LineHandled
<1> QED
  BY <1>7, <1>8, <1>9 DEF CmdInv

\* A line that has not ended is kept.
LEMMA LineGoesOn ==
  ASSUME CmdInv, line_goes_on
  PROVE  CmdInv'
<1>1. /\ phase = "got" /\ LastRead # NL /\ phase' = "read"
      /\ UNCHANGED <<read_buffer, read_cnt, rest, line, newlines, reads, called, commands, inStep>>
  BY DEF line_goes_on, LineEnd, buffer, input, outcome
<1>2. inStep = "no"
  BY <1>1, LineRead
<1> QED
  BY <1>1, <1>2 DEF CmdInv, TypeOK, Counted, LeftOver, Pending, InStep, StaysInBuffer, LineHandled

\* The thread, whatever it does next, keeps the invariant.
LEMMA CmdStep == CmdInv /\ [Next]_vars => CmdInv'
<1> SUFFICES ASSUME CmdInv, [Next]_vars PROVE CmdInv'
  OBVIOUS
<1>1. CASE read_input
  BY <1>1, ReadInput
<1>2. CASE read_nothing
  BY <1>2, ReadNothing
<1>3. CASE before_buffer
  BY <1>3, BeforeBuffer
<1>4. CASE line_empty
  BY <1>4, LineEmpty
<1>5. CASE commandline_process_cmd
  BY <1>5, ProcessCmd
<1>6. CASE process_cmd_beyond
  BY <1>6, ProcessBeyond
<1>7. CASE backspace
  BY <1>7, Backspace
<1>8. CASE line_goes_on
  BY <1>8, LineGoesOn
<1>9. CASE UNCHANGED vars
  BY <1>9, CmdStutter
<1> QED
  BY <1>1, <1>2, <1>3, <1>4, <1>5, <1>6, <1>7, <1>8, <1>9 DEF Next, commandline_task

\* The invariant holds in every reachable state.
LEMMA CmdInvariant == Spec => []CmdInv
<1>1. Init => CmdInv
  BY CmdInit
<1>2. CmdInv /\ [Next]_vars => CmdInv'
  BY CmdStep
<1> QED
  BY <1>1, <1>2, PTL DEF Spec

----------------------------------------------------------------------------
\* Every variable of the command line thread keeps its type, read_cnt its bounds.
THEOREM CommandLineTypeCorrect == Spec => []TypeOK
<1>1. CmdInv => TypeOK
  BY DEF CmdInv
<1> QED
  BY <1>1, CmdInvariant, PTL

\* While read() returns one line at a time, each line that the user enters runs the
\* command entered, with the arguments of that line and of no other
\* (commandline_task, commandline_process_cmd and the handlers).
THEOREM LinesHandled == Spec => []LineHandled
<1>1. CmdInv => LineHandled
  BY DEF CmdInv
<1> QED
  BY <1>1, CmdInvariant, PTL

\* However read() cuts what the user types, commandline_task runs at most one command
\* for each end of a line.
THEOREM CommandsOncePerNewline == Spec => []OncePerNewline
<1>1. CmdInv => OncePerNewline
  <2> SUFFICES ASSUME CmdInv PROVE commands <= newlines
    BY DEF OncePerNewline
  <2>1. TypeOK /\ Pending
    BY DEF CmdInv
  <2>2. commands \in Nat /\ newlines \in Nat
    BY <2>1, Numbers
  <2> QED
    BY <2>1, <2>2 DEF Pending
<1> QED
  BY <1>1, CmdInvariant, PTL

\* commandline_task and its handlers leave read_buffer only after a read() that did
\* not return one whole line that fits.
THEOREM ThreadStaysInBuffer == Spec => []StaysInBuffer
<1>1. CmdInv => StaysInBuffer
  BY DEF CmdInv
<1> QED
  BY <1>1, CmdInvariant, PTL
=============================================================================

------------------------- MODULE KeyPipelineProofs -------------------------
(***************************************************************************)
(* KeyPipeline, for every engine that shows texts and any number of keys:  *)
(* the stack is bounded, the window is only open on a word to replay,      *)
(* nothing can be replayed while the engine is switched off, and no key    *)
(* overtakes the edits of the word it is typed into.  And, if the engine   *)
(* forgets a word that was deleted to nothing, the application shows the   *)
(* word that is composed, and the words that Backspace would take back     *)
(* where it would look for them.                                           *)
(***************************************************************************)
EXTENDS KeyPipeline, TLAPS, WellFoundedInduction, SequenceTheorems

-----------------------------------------------------------------------------
(* Induction over numbers and over sequences.                              *)

LEMMA Smallest ==
  ASSUME NEW S \in SUBSET Nat, S /= {}
  PROVE  \E least \in S : \A n \in S : least <= n
<1> DEFINE R == {p \in Nat \X Nat : p[1] < p[2]}
<1>1. IsWellFoundedOn(R, Nat)
  BY NatLessThanWellFounded DEF OpToRel
<1>2. PICK least \in S : \A n \in S : <<n, least>> \notin R
  BY <1>1, WFMin
<1>3. ASSUME NEW n \in S PROVE least <= n
  <2>1. ~(n < least)
    BY <1>2
  <2>2. QED  BY <2>1
<1>4. QED  BY <1>3

\* Induction, with a set in place of a predicate.
LEMMA Induction ==
  ASSUME NEW S, 0 \in S, \A n \in Nat : n \in S => n + 1 \in S
  PROVE  Nat \subseteq S
<1> DEFINE T == Nat \ S
<1> SUFFICES ASSUME T /= {} PROVE FALSE
  OBVIOUS
<1>1. PICK least \in T : \A n \in T : least <= n
  BY Smallest
<1>2. least - 1 \in Nat /\ least - 1 \notin T
  BY <1>1
<1>3. QED  BY <1>2

LEMMA SeqInduction ==
  ASSUME NEW A, NEW S, <<>> \in S,
         \A s \in Seq(A) : s \in S => \A e \in A : Append(s, e) \in S
  PROVE  Seq(A) \subseteq S
<1> DEFINE N == {n \in Nat : \A s \in Seq(A) : Len(s) = n => s \in S}
<1>1. 0 \in N
  OBVIOUS
<1>2. ASSUME NEW n \in Nat, n \in N PROVE n + 1 \in N
  <2> SUFFICES ASSUME NEW s \in Seq(A), Len(s) = n + 1 PROVE s \in S
    OBVIOUS
  <2> DEFINE r == SubSeq(s, 1, n)
  <2>1. r \in Seq(A) /\ Len(r) = n /\ s[n + 1] \in A
    OBVIOUS
  <2>2. s = Append(r, s[n + 1])
    OBVIOUS
  <2>3. r \in S
    BY <1>2, <2>1
  <2> HIDE DEF r
  <2>4. QED  BY <2>1, <2>2, <2>3
<1>3. Nat \subseteq N
  BY <1>1, <1>2, Induction
<1>4. QED  BY <1>3

Edits == Chars \cup {"back", "left", "other"}

Stages(f, t, edits) ==
  f = [n \in 0 .. Len(edits) |-> IF n = 0 THEN t ELSE Apply(f[n - 1], edits[n])]

LEMMA StagesExist ==
  ASSUME NEW t, NEW edits \in Seq(Edits)
  PROVE  \E f : Stages(f, t, edits) /\ Arrived(t, edits) = f[Len(edits)]
<1> DEFINE upto(n) == SubSeq(edits, 1, n)
<1> DEFINE N == {n \in Nat : n <= Len(edits) => \E f : Stages(f, t, upto(n))}
<1>1. 0 \in N
  <2>1. Stages([n \in 0 .. 0 |-> t], t, upto(0))
    BY DEF Stages
  <2>2. QED  BY <2>1
<1>2. ASSUME NEW n \in Nat, n \in N PROVE n + 1 \in N
  <2> SUFFICES ASSUME n + 1 <= Len(edits) PROVE \E f : Stages(f, t, upto(n + 1))
    OBVIOUS
  <2>1. PICK f : Stages(f, t, upto(n))
    BY <1>2
  <2> DEFINE g == [m \in 0 .. n + 1 |-> IF m = n + 1 THEN Apply(f[n], edits[n + 1]) ELSE f[m]]
  <2>2. /\ Len(upto(n)) = n /\ Len(upto(n + 1)) = n + 1
        /\ \A m \in 1 .. n : upto(n)[m] = edits[m] /\ upto(n + 1)[m] = edits[m]
        /\ upto(n + 1)[n + 1] = edits[n + 1]
    OBVIOUS
  <2>3. ASSUME NEW m \in 0 .. n + 1
        PROVE  g[m] = IF m = 0 THEN t ELSE Apply(g[m - 1], upto(n + 1)[m])
    <3>1. CASE m = n + 1
      BY <2>2, <3>1
    <3>2. CASE m /= n + 1
      BY <2>1, <2>2, <3>2 DEF Stages
    <3>3. QED  BY <3>1, <3>2
  <2>4. Stages(g, t, upto(n + 1))
    BY <2>2, <2>3 DEF Stages
  <2>5. QED  BY <2>4
<1>3. Nat \subseteq N
  BY <1>1, <1>2, Induction
<1>4. Len(edits) \in Nat /\ upto(Len(edits)) = edits
  OBVIOUS
<1>5. Len(edits) \in N
  BY <1>3, <1>4
<1>6. \E f : Stages(f, t, upto(Len(edits)))
  BY <1>4, <1>5
<1> HIDE DEF upto
<1>7. \E f : Stages(f, t, edits)
  BY <1>4, <1>6
<1> DEFINE A == CHOOSE f : Stages(f, t, edits)
<1>8. Stages(A, t, edits)
  BY <1>7
<1>9. Arrived(t, edits) = A[Len(edits)]
  BY DEF Arrived, Stages
<1> HIDE DEF A
<1>10. QED  BY <1>8, <1>9

\* Two runs over edits that agree up to a place agree up to there.
LEMMA StagesAgree ==
  ASSUME NEW t, NEW a \in Seq(Edits), NEW b \in Seq(Edits), NEW f, NEW g,
         Stages(f, t, a), Stages(g, t, b), Len(a) <= Len(b),
         \A i \in 1 .. Len(a) : a[i] = b[i]
  PROVE  f[Len(a)] = g[Len(a)]
<1> DEFINE m == Len(a)
<1> DEFINE N == {n \in Nat : n <= m => f[n] = g[n]}
<1>1. 0 \in N
  BY DEF Stages
<1>2. ASSUME NEW n \in Nat, n \in N PROVE n + 1 \in N
  <2> SUFFICES ASSUME n + 1 <= m PROVE f[n + 1] = g[n + 1]
    OBVIOUS
  <2>1. f[n] = g[n] /\ a[n + 1] = b[n + 1]
    BY <1>2
  <2>2. f[n + 1] = Apply(f[n], a[n + 1])
    BY DEF Stages
  <2>3. g[n + 1] = Apply(g[n], b[n + 1])
    BY DEF Stages
  <2>4. QED  BY <2>1, <2>2, <2>3
<1>3. Nat \subseteq N
  BY <1>1, <1>2, Induction
<1>4. QED  BY <1>3

LEMMA ArrivedNone ==
  ASSUME NEW t
  PROVE  Arrived(t, <<>>) = t
<1>1. <<>> \in Seq(Edits) /\ Len(<<>>) = 0
  OBVIOUS
<1>2. PICK f : Stages(f, t, <<>>) /\ Arrived(t, <<>>) = f[Len(<<>>)]
  BY <1>1, StagesExist
<1>3. QED  BY <1>1, <1>2 DEF Stages

LEMMA ArrivedSnoc ==
  ASSUME NEW t, NEW q \in Seq(Edits), NEW e \in Edits
  PROVE  Arrived(t, Append(q, e)) = Apply(Arrived(t, q), e)
<1> DEFINE r == Append(q, e)
<1>1. /\ r \in Seq(Edits) /\ Len(r) = Len(q) + 1 /\ r[Len(q) + 1] = e
      /\ \A i \in 1 .. Len(q) : r[i] = q[i]
      /\ Len(q) \in Nat
  OBVIOUS
<1> HIDE DEF r
<1>2. PICK f : Stages(f, t, q) /\ Arrived(t, q) = f[Len(q)]
  BY StagesExist
<1>3. PICK g : Stages(g, t, r) /\ Arrived(t, r) = g[Len(r)]
  BY StagesExist, <1>1
<1>4. f[Len(q)] = g[Len(q)]
  <2>1. /\ Len(q) <= Len(r) /\ \A i \in 1 .. Len(q) : q[i] = r[i]
        /\ r \in Seq(Edits)
    BY <1>1
  <2>2. Stages(f, t, q) /\ Stages(g, t, r)
    BY <1>2, <1>3
  <2>3. QED  BY ONLY <2>1, <2>2, StagesAgree, q \in Seq(Edits)
<1>5. g[Len(r)] = Apply(g[Len(q)], e)
  BY <1>1, <1>3 DEF Stages
<1>6. QED  BY <1>2, <1>3, <1>4, <1>5 DEF r

LEMMA ArrivedConcat ==
  ASSUME NEW t, NEW q \in Seq(Edits), NEW r \in Seq(Edits)
  PROVE  Arrived(t, q \o r) = Arrived(Arrived(t, q), r)
<1> DEFINE S == {s \in Seq(Edits) : Arrived(t, q \o s) = Arrived(Arrived(t, q), s)}
<1>1. <<>> \in S
  <2>1. q \o <<>> = q
    OBVIOUS
  <2>2. QED  BY <2>1, ArrivedNone
<1>2. ASSUME NEW s \in Seq(Edits), s \in S, NEW e \in Edits
      PROVE  Append(s, e) \in S
  <2>1. q \o Append(s, e) = Append(q \o s, e) /\ q \o s \in Seq(Edits)
    OBVIOUS
  <2>2. Arrived(t, q \o Append(s, e)) = Apply(Arrived(t, q \o s), e)
    BY ONLY <2>1, ArrivedSnoc, e \in Edits, ZenonT(60)
  <2>3. Arrived(Arrived(t, q), Append(s, e)) = Apply(Arrived(Arrived(t, q), s), e)
    BY ArrivedSnoc
  <2>4. QED  BY <1>2, <2>2, <2>3
<1>3. Seq(Edits) \subseteq S
  BY <1>1, <1>2, SeqInduction
<1>4. QED  BY <1>3

LEMMA ApplyType ==
  ASSUME NEW t \in Seq(Chars), NEW e \in Edits
  PROVE  Apply(t, e) \in Seq(Chars)
<1>1. CASE t = <<>> /\ e \notin Chars
  BY <1>1 DEF Apply, Edits
<1>2. CASE t /= <<>> /\ e \notin Chars
  <2>1. SubSeq(t, 1, Len(t) - 1) \in Seq(Chars)
    BY <1>2
  <2>2. QED  BY <1>2, <2>1 DEF Apply, Edits, Front
<1>3. CASE e \in Chars
  <2>1. Append(t, e) \in Seq(Chars)
    BY <1>3
  <2>2. Apply(t, e) = Append(t, e)
    BY <1>3, KeysOK DEF Apply
  <2>3. QED  BY <2>1, <2>2
<1>4. QED  BY <1>1, <1>2, <1>3

LEMMA ArrivedType ==
  ASSUME NEW t \in Seq(Chars), NEW q \in Seq(Edits)
  PROVE  Arrived(t, q) \in Seq(Chars)
<1> DEFINE S == {s \in Seq(Edits) : Arrived(t, s) \in Seq(Chars)}
<1>1. <<>> \in S
  BY ArrivedNone
<1>2. ASSUME NEW s \in Seq(Edits), s \in S, NEW e \in Edits
      PROVE  Append(s, e) \in S
  <2>1. Arrived(t, Append(s, e)) \in Seq(Chars)
    BY <1>2, ArrivedSnoc, ApplyType
  <2>2. QED  BY <2>1
<1>3. Seq(Edits) \subseteq S
  BY <1>1, <1>2, SeqInduction
<1>4. QED  BY <1>3

LEMMA TextAppend ==
  ASSUME NEW s \in Seq(Chars), NEW t \in Seq(Chars), NEW e \in Chars
  PROVE  Append(s \o t, e) = s \o Append(t, e)
<1>1. s \o t \in Seq(Chars) /\ <<e>> \in Seq(Chars)
  BY ConcatProperties
<1>2. Append(s \o t, e) = (s \o t) \o <<e>> /\ Append(t, e) = t \o <<e>>
  BY <1>1, AppendIsConcat
<1>3. (s \o t) \o <<e>> = s \o (t \o <<e>>)
  BY <1>1, ConcatAssociative
<1>4. QED  BY <1>2, <1>3

LEMMA ArrivedTyped ==
  ASSUME NEW t \in Seq(Chars), NEW s \in Seq(Chars)
  PROVE  Arrived(t, s) = t \o s
<1> DEFINE S == {r \in Seq(Chars) : Arrived(t, r) = t \o r}
<1>1. <<>> \in S
  <2>1. t \o <<>> = t
    OBVIOUS
  <2>2. QED  BY <2>1, ArrivedNone
<1>2. ASSUME NEW r \in Seq(Chars), r \in S, NEW e \in Chars
      PROVE  Append(r, e) \in S
  <2>1. r \in Seq(Edits) /\ e \in Edits
    BY DEF Edits
  <2>2. Arrived(t, Append(r, e)) = Apply(t \o r, e)
    BY <1>2, <2>1, ArrivedSnoc
  <2>3. Apply(t \o r, e) = Append(t \o r, e)
    BY KeysOK DEF Apply
  <2>4. Append(t \o r, e) = t \o Append(r, e)
    BY TextAppend
  <2>5. Append(r, e) \in Seq(Chars)
    OBVIOUS
  <2>6. QED  BY <2>2, <2>3, <2>4, <2>5
<1>3. Seq(Chars) \subseteq S
  BY <1>1, <1>2, SeqInduction
<1>4. QED  BY <1>3

LEMMA BacksType ==
  ASSUME NEW n \in Nat
  PROVE  /\ Backs(n) \in Seq(Edits) /\ Len(Backs(n)) = n
         /\ Backs(n + 1) = Append(Backs(n), "back")
<1>1. Backs(n) \in Seq(Edits) /\ Len(Backs(n)) = n
  BY DEF Backs, Edits
<1>2. Backs(n + 1) = Append(Backs(n), "back")
  BY DEF Backs
<1>3. QED  BY <1>1, <1>2

LEMMA ArrivedBacks ==
  ASSUME NEW t \in Seq(Chars), NEW n \in 0 .. Len(t)
  PROVE  Arrived(t, Backs(n)) = SubSeq(t, 1, Len(t) - n)
<1> DEFINE N == {m \in Nat : m <= Len(t) =>
                   Arrived(t, Backs(m)) = SubSeq(t, 1, Len(t) - m)}
<1>1. 0 \in N
  <2>1. Backs(0) = <<>> /\ SubSeq(t, 1, Len(t) - 0) = t
    BY DEF Backs
  <2>2. QED  BY <2>1, ArrivedNone
<1>2. ASSUME NEW m \in Nat, m \in N PROVE m + 1 \in N
  <2> SUFFICES ASSUME m + 1 <= Len(t)
               PROVE  Arrived(t, Backs(m + 1)) = SubSeq(t, 1, Len(t) - (m + 1))
    OBVIOUS
  <2> DEFINE r == SubSeq(t, 1, Len(t) - m)
  <2>1. Arrived(t, Backs(m + 1)) = Apply(Arrived(t, Backs(m)), "back")
    <3>1. Backs(m) \in Seq(Edits) /\ Backs(m + 1) = Append(Backs(m), "back")
      BY BacksType
    <3>2. "back" \in Edits
      BY DEF Edits
    <3>3. Arrived(t, Append(Backs(m), "back")) = Apply(Arrived(t, Backs(m)), "back")
      BY ONLY <3>1, <3>2, ArrivedSnoc
    <3>4. QED  BY <3>1, <3>3
  <2>2. Arrived(t, Backs(m)) = r
    BY <1>2
  <2>3. r \in Seq(Chars) /\ Len(r) = Len(t) - m /\ Len(r) >= 1
    <3>1. Len(t) \in Nat /\ Len(t) - m \in 1 .. Len(t)
      OBVIOUS
    <3>2. QED  BY <3>1
  <2>4. SubSeq(r, 1, Len(r) - 1) = SubSeq(t, 1, Len(t) - (m + 1))
    BY <2>3
  <2> HIDE DEF r
  <2>7. r /= <<>>
    BY <2>3
  <2>5. Apply(r, "back") = SubSeq(r, 1, Len(r) - 1)
    BY <2>3, <2>7 DEF Apply, Front
  <2>6. QED  BY <2>1, <2>2, <2>4, <2>5
<1>3. Nat \subseteq N
  BY <1>1, <1>2, Induction
<1>4. QED  BY <1>3

\* A nonempty set of naturals with a bound has a greatest element.
LEMMA Greatest ==
  ASSUME NEW S \in SUBSET Nat, S /= {}, NEW b \in Nat, \A n \in S : n <= b
  PROVE  Max(S) \in S /\ \A n \in S : n <= Max(S)
<1> DEFINE R == {r \in Nat : r <= b /\ b - r \in S}
<1>1. R /= {}
  <2>1. PICK n \in S : TRUE
    OBVIOUS
  <2>2. b - n \in R
    BY <2>1
  <2>3. QED  BY <2>2
<1>2. PICK least \in R : \A r \in R : least <= r
  BY <1>1, Smallest
<1>3. b - least \in S
  OBVIOUS
<1>4. ASSUME NEW n \in S PROVE b - least >= n
  <2>1. b - n \in R
    OBVIOUS
  <2>2. QED  BY <1>2, <2>1
<1>5. \E x \in S : \A y \in S : x >= y
  BY <1>3, <1>4
<1>6. QED  BY <1>5 DEF Max

LEMMA SplitAt ==
  ASSUME NEW A, NEW s \in Seq(A), NEW n \in 0 .. Len(s)
  PROVE  SubSeq(s, 1, n) \o SubSeq(s, n + 1, Len(s)) = s
<1> DEFINE l == SubSeq(s, 1, n)
           r == SubSeq(s, n + 1, Len(s))
<1>1. Len(s) \in Nat /\ n \in Nat /\ n <= Len(s)
  OBVIOUS
<1>2. l \in Seq(A) /\ Len(l) = n /\ \A i \in 1 .. n : l[i] = s[i]
  BY <1>1
<1>3. /\ r \in Seq(A) /\ Len(r) = Len(s) - n
      /\ \A i \in 1 .. Len(s) - n : r[i] = s[n + i]
  BY <1>1
<1> HIDE DEF l, r
<1>4. Len(l \o r) = Len(s) /\ l \o r \in Seq(A)
  BY <1>1, <1>2, <1>3
<1>5. ASSUME NEW i \in 1 .. Len(s) PROVE (l \o r)[i] = s[i]
  <2>1. CASE i <= n
    BY <1>1, <1>2, <1>3, <2>1
  <2>2. CASE i > n
    <3>1. (l \o r)[i] = r[i - n]
      BY <1>1, <1>2, <1>3, <2>2
    <3>2. r[i - n] = s[n + (i - n)] /\ n + (i - n) = i
      BY <1>1, <1>3, <2>2
    <3>3. QED  BY <3>1, <3>2
  <2>3. i \in Nat /\ (i <= n \/ i > n)
    BY <1>1
  <2>4. QED  BY ONLY <2>1, <2>2, <2>3
<1> DEFINE c == l \o r
<1>6. Len(c) = Len(s) /\ c \in Seq(A) /\ \A i \in 1 .. Len(s) : c[i] = s[i]
  BY <1>4, <1>5
<1> HIDE DEF c
<1>7. c = s
  BY ONLY <1>1, <1>6, s \in Seq(A)
<1>8. QED  BY <1>7 DEF c, l, r

LEMMA CutConcat ==
  ASSUME NEW A, NEW c \in Seq(A), NEW w \in Seq(A), NEW k \in 0 .. Len(w)
  PROVE  SubSeq(c \o w, 1, Len(c) + k) = c \o SubSeq(w, 1, k)
<1> DEFINE s == c \o w
           v == SubSeq(w, 1, k)
           l == SubSeq(s, 1, Len(c) + k)
           r == c \o v
<1>1. Len(c) \in Nat /\ Len(w) \in Nat /\ k \in Nat /\ k <= Len(w)
  BY LenProperties
<1>2. /\ s \in Seq(A) /\ Len(s) = Len(c) + Len(w)
      /\ \A i \in 1 .. Len(c) + Len(w) : s[i] = IF i <= Len(c) THEN c[i] ELSE w[i - Len(c)]
  BY ConcatProperties
<1>3. v \in Seq(A) /\ Len(v) = k /\ \A i \in 1 .. k : v[i] = w[i]
  BY <1>1
<1>4. /\ r \in Seq(A) /\ Len(r) = Len(c) + k
      /\ \A i \in 1 .. Len(c) + k : r[i] = IF i <= Len(c) THEN c[i] ELSE v[i - Len(c)]
  <2> HIDE DEF v
  <2>1. QED  BY <1>3, ConcatProperties
<1> HIDE DEF s, v, r
<1>5. l \in Seq(A) /\ Len(l) = Len(c) + k /\ \A i \in 1 .. Len(c) + k : l[i] = s[i]
  BY <1>1, <1>2
<1> HIDE DEF l
<1>6. ASSUME NEW i \in 1 .. Len(c) + k PROVE l[i] = r[i]
  <2>1. l[i] = s[i] /\ i \in 1 .. Len(c) + Len(w)
    BY <1>1, <1>5
  <2>2. CASE i <= Len(c)
    BY <1>2, <1>4, <2>1, <2>2
  <2>3. CASE ~(i <= Len(c))
    <3>1. i - Len(c) \in 1 .. k
      BY <1>1, <2>3
    <3>2. QED  BY <1>2, <1>3, <1>4, <2>1, <2>3, <3>1
  <2>4. QED  BY <2>2, <2>3
<1>7. l = r
  BY ONLY <1>4, <1>5, <1>6, SeqEqual
<1>8. QED  BY <1>7 DEF l, r, s, v

\* Sending the difference of two texts turns the one into the other, behind
\* whatever is before it.
LEMMA DiffTurns ==
  ASSUME NEW p \in Seq(Chars), NEW a \in Seq(Chars), NEW b \in Seq(Chars)
  PROVE  /\ Diff(a, b) \in Seq(Edits)
         /\ Arrived(p \o a, Diff(a, b)) = p \o b
<1> DEFINE S == {k \in 0 .. Len(a) : IsPrefix(SubSeq(a, 1, k), b)}
           n == Max(S)
           tail == SubSeq(b, n + 1, Len(b))
<1>1. S \in SUBSET Nat /\ Len(a) \in Nat /\ \A k \in S : k <= Len(a)
  OBVIOUS
<1>2. 0 \in S
  <2>1. SubSeq(a, 1, 0) = <<>> /\ SubSeq(b, 1, 0) = <<>> /\ Len(b) \in Nat
    OBVIOUS
  <2>2. QED  BY <2>1 DEF IsPrefix
<1>3. n \in S
  <2> HIDE DEF S
  <2>1. QED  BY <1>1, <1>2, Greatest
<1> HIDE DEF n
<1>4. n \in 0 .. Len(a) /\ IsPrefix(SubSeq(a, 1, n), b)
  BY <1>3
<1>5. n <= Len(b) /\ SubSeq(a, 1, n) = SubSeq(b, 1, n)
  <2>1. Len(SubSeq(a, 1, n)) = n
    BY <1>4
  <2>2. SubSeq(SubSeq(a, 1, n), 1, n) = SubSeq(a, 1, n)
    BY <1>4
  <2>3. QED  BY <1>4, <2>1, <2>2 DEF IsPrefix
<1> DEFINE backs == Backs(Len(a) - n)
<1>6. tail \in Seq(Chars) /\ tail \in Seq(Edits) /\ SubSeq(b, 1, n) \o tail = b
  <2>1. Len(a) \in Nat /\ Len(b) \in Nat /\ n \in 0 .. Len(b)
    BY <1>4, <1>5
  <2>2. tail \in Seq(Chars)
    BY <2>1
  <2>3. SubSeq(b, 1, n) \o tail = b
    BY <2>1, SplitAt
  <2> HIDE DEF tail
  <2>4. Seq(Chars) \subseteq Seq(Edits)
    BY DEF Edits
  <2>5. QED  BY <2>2, <2>3, <2>4
<1>7. backs \in Seq(Edits) /\ Len(a) - n \in 0 .. Len(p \o a)
  <2>1. Len(a) - n \in Nat /\ Len(p \o a) = Len(p) + Len(a) /\ Len(p) \in Nat
    BY <1>4
  <2>2. backs \in Seq(Edits)
    BY <2>1, BacksType
  <2> HIDE DEF backs
  <2>3. QED  BY <1>4, <2>1, <2>2
<1>8. Diff(a, b) = backs \o tail
  BY DEF Diff, n
<1>9. Arrived(p \o a, backs) = SubSeq(p \o a, 1, Len(p \o a) - (Len(a) - n))
  <2>1. p \o a \in Seq(Chars)
    OBVIOUS
  <2>2. QED  BY ONLY <1>7, <2>1, ArrivedBacks DEF backs
<1>10. SubSeq(p \o a, 1, Len(p \o a) - (Len(a) - n)) = p \o SubSeq(a, 1, n)
  <2>1. Len(p \o a) = Len(p) + Len(a)
    BY ConcatProperties
  <2>2. Len(p \o a) - (Len(a) - n) = Len(p) + n
    BY <1>1, <1>4, <2>1
  <2>3. SubSeq(p \o a, 1, Len(p) + n) = p \o SubSeq(a, 1, n)
    BY ONLY <1>4, CutConcat, p \in Seq(Chars), a \in Seq(Chars)
  <2>4. QED  BY ONLY <2>2, <2>3
<1>11. p \o SubSeq(a, 1, n) \in Seq(Chars)
  BY <1>4
<1> HIDE DEF backs, tail
<1>12. Arrived(p \o a, backs \o tail) = Arrived(p \o SubSeq(a, 1, n), tail)
  <2>1. Arrived(p \o a, backs \o tail) = Arrived(Arrived(p \o a, backs), tail)
    BY ONLY <1>6, <1>7, ArrivedConcat
  <2>2. QED  BY ONLY <1>9, <1>10, <2>1
<1>13. Arrived(p \o SubSeq(a, 1, n), tail) = (p \o SubSeq(b, 1, n)) \o tail
  BY <1>5, <1>6, <1>11, ArrivedTyped
<1>14. (p \o SubSeq(b, 1, n)) \o tail = p \o (SubSeq(b, 1, n) \o tail)
  <2>1. SubSeq(b, 1, n) \in Seq(Chars)
    BY <1>4, <1>5
  <2>2. \A x, y, z \in Seq(Chars) : (x \o y) \o z = x \o (y \o z)
    OBVIOUS
  <2>3. QED  BY ONLY <1>6, <2>1, <2>2, p \in Seq(Chars)
<1>15. backs \o tail \in Seq(Edits)
  BY <1>6, <1>7
<1>16. QED  BY <1>6, <1>8, <1>12, <1>13, <1>14, <1>15

LEMMA SuffixOfConcat ==
  ASSUME NEW p \in Seq(Chars), NEW w \in Seq(Chars)
  PROVE  IsSuffix(w, p \o w)
<1>1. /\ Len(Reverse(w)) = Len(w) /\ Len(Reverse(p \o w)) = Len(p) + Len(w)
      /\ Len(p) \in Nat /\ Len(w) \in Nat
  BY DEF Reverse
<1>2. SubSeq(Reverse(w), 1, Len(w)) = Reverse(w)
  BY DEF Reverse
<1>3. SubSeq(Reverse(p \o w), 1, Len(w)) = Reverse(w)
  BY DEF Reverse
<1>4. QED  BY <1>1, <1>2, <1>3 DEF IsSuffix, IsPrefix

-----------------------------------------------------------------------------
(* Where the words of a stack lie in a text.                               *)

\* The triggers behind word i of a stack, g behind the last.
Gap(s, g, i) == IF i < Len(s) THEN 1 + s[i + 1].triggers ELSE g

Size(s, i) == Len(s[i].text)

IsLayout(m, s, g, at) ==
  /\ at \in [1 .. Len(s) + 1 -> Nat] /\ at[Len(s) + 1] = m
  /\ \A i, k \in 1 .. Len(s) + 1 : i <= k => at[i] <= at[k]
  /\ \A i \in 1 .. Len(s) : at[i + 1] = at[i] + Size(s, i) + Gap(s, g, i)

IsWordAt(p, s, i, a) == \A j \in 1 .. Size(s, i) : p[a + j] = s[i].text[j]
Blanks == {" ", "enter"}
OnlyTriggers(p, from, to) == \A j \in from + 1 .. to : p[j] \in Blanks

\* The text p ends in the words of the stack s, with the triggers between them
\* and g triggers behind the last; word i begins behind at[i].
LiesAt(p, s, g, at) ==
  /\ IsLayout(Len(p), s, g, at)
  /\ \A i \in 1 .. Len(s) :
       /\ IsWordAt(p, s, i, at[i])
       /\ OnlyTriggers(p, at[i] + Size(s, i), at[i + 1])

Lies(p, s, g) == \E at : LiesAt(p, s, g, at)

LEMMA FrontOf ==
  ASSUME NEW A, NEW s \in Seq(A), s /= <<>>
  PROVE  /\ Front(s) \in Seq(A) /\ Len(Front(s)) = Len(s) - 1
         /\ \A j \in 1 .. Len(s) - 1 : Front(s)[j] = s[j]
         /\ Len(s) \in Nat /\ Len(s) >= 1 /\ Last(s) \in A
         /\ s = Append(Front(s), Last(s))
<1>1. Len(s) \in Nat /\ Len(s) >= 1 /\ Last(s) \in A
  BY DEF Last
<1> DEFINE m == Len(s) - 1
<1>2. m \in 0 .. Len(s) /\ m \in Nat
  BY <1>1
<1>3. s = Append(SubSeq(s, 1, Len(s) - 1), s[Len(s)])
  OBVIOUS
<1> HIDE DEF m
<1>4. /\ Len(SubSeq(s, 1, m)) = m /\ SubSeq(s, 1, m) \in Seq(A)
      /\ \A j \in 1 .. m : SubSeq(s, 1, m)[j] = s[j]
  BY <1>2
<1>5. QED  BY <1>1, <1>3, <1>4 DEF Front, Last, m

\* A sequence whose parts are known is their concatenation.
LEMMA ConcatOf ==
  ASSUME NEW A, NEW s \in Seq(A), NEW l \in Seq(A), NEW r \in Seq(A),
         Len(s) = Len(l) + Len(r),
         \A i \in 1 .. Len(l) : s[i] = l[i],
         \A i \in 1 .. Len(r) : s[Len(l) + i] = r[i]
  PROVE  s = l \o r
<1> DEFINE c == l \o r
           n == Len(l)
           k == Len(r)
<1>1. n \in Nat /\ k \in Nat /\ Len(s) = n + k
  OBVIOUS
<1>2. /\ c \in Seq(A) /\ Len(c) = n + k
      /\ \A i \in 1 .. n : c[i] = l[i]
      /\ \A i \in 1 .. k : c[n + i] = r[i]
  OBVIOUS
<1>3. /\ \A i \in 1 .. n : s[i] = l[i]
      /\ \A i \in 1 .. k : s[n + i] = r[i]
  OBVIOUS
<1> HIDE DEF c, n, k
<1>4. ASSUME NEW i \in 1 .. n + k PROVE c[i] = s[i]
  <2>1. CASE i <= n
    <3>1. i \in 1 .. n
      BY <1>1, <2>1
    <3>2. QED  BY <1>2, <1>3, <3>1
  <2>2. CASE i > n
    <3>1. i - n \in 1 .. k /\ n + (i - n) = i
      BY <1>1, <2>2
    <3>2. c[n + (i - n)] = r[i - n] /\ s[n + (i - n)] = r[i - n]
      BY <1>2, <1>3, <3>1
    <3>3. QED  BY <3>1, <3>2
  <2>3. i <= n \/ i > n
    BY <1>1
  <2>4. QED  BY ONLY <2>1, <2>2, <2>3
<1>5. c = s
  BY <1>1, <1>2, <1>4
<1>6. QED  BY <1>5 DEF c

\* A word of u characters behind x and a gap of g behind it, up to y.
LEMMA WordEnds ==
  ASSUME NEW x \in Nat, NEW u \in Nat, NEW g \in Nat, NEW y, y = x + u + g
  PROVE  x + u <= y
OBVIOUS

LEMMA Inside ==
  ASSUME NEW x \in Nat, NEW u \in Nat, NEW z \in Nat, x + u <= z
  PROVE  \A j \in 1 .. u : x + j \in 1 .. z
OBVIOUS

LEMMA GapInside ==
  ASSUME NEW x \in Nat, NEW u \in Nat, NEW y \in Nat, NEW z \in Nat, y <= z
  PROVE  \A j \in x + u + 1 .. y : j \in 1 .. z
OBVIOUS

LEMMA NatInt == Nat \subseteq Int
OBVIOUS

LEMMA LeqTrans ==
  ASSUME NEW x \in Int, NEW y \in Int, NEW z \in Int, x <= y, y <= z
  PROVE  x <= z
OBVIOUS

LEMMA EntryAt ==
  ASSUME NEW s \in Seq(Entries), NEW i \in 1 .. Len(s)
  PROVE  /\ s[i] \in Entries /\ s[i].text \in Seq(Chars)
         /\ Size(s, i) \in Nat /\ s[i].triggers \in Nat
         /\ Len(s) \in Nat /\ i \in Nat
<1>1. s[i] \in Entries /\ Len(s) \in Nat /\ i \in Nat
  OBVIOUS
<1>2. s[i].text \in Seq(Chars) /\ s[i].triggers \in 0 .. 255
  BY <1>1 DEF Entries, MaxTriggers
<1>3. Size(s, i) \in Nat
  BY <1>2 DEF Size
<1>4. s[i].triggers \in Nat
  <2>1. \A x \in 0 .. 255 : x \in Nat
    OBVIOUS
  <2>2. QED  BY <1>2, <2>1
<1>5. QED  BY <1>1, <1>2, <1>3, <1>4

LEMMA GapNat ==
  ASSUME NEW s \in Seq(Entries), NEW g \in Nat, NEW i \in 1 .. Len(s)
  PROVE  Gap(s, g, i) \in Nat
<1>1. CASE i < Len(s)
  <2>1. i + 1 \in 1 .. Len(s)
    BY <1>1
  <2>2. s[i + 1].triggers \in Nat
    BY <2>1, EntryAt
  <2>3. QED  BY <1>1, <2>2 DEF Gap
<1>2. QED  BY <1>1 DEF Gap

\* What a layout says of one word.
LEMMA LayoutAt ==
  ASSUME NEW s \in Seq(Entries), NEW m, NEW g \in Nat, NEW at,
         IsLayout(m, s, g, at), NEW i \in 1 .. Len(s)
  PROVE  /\ at[i] \in Nat /\ at[i + 1] \in Nat /\ m \in Nat
         /\ at[i] + Size(s, i) <= at[i + 1] /\ at[i + 1] <= m
         /\ at[i + 1] = at[i] + Size(s, i) + Gap(s, g, i)
<1>1. /\ Len(s) \in Nat /\ Len(s) + 1 \in 1 .. Len(s) + 1
      /\ i + 1 \in 1 .. Len(s) + 1 /\ i \in 1 .. Len(s) + 1
  OBVIOUS
<1>2. at[i] \in Nat /\ at[i + 1] \in Nat /\ m \in Nat
  BY <1>1 DEF IsLayout
<1>3. at[i + 1] = at[i] + Size(s, i) + Gap(s, g, i)
  BY DEF IsLayout
<1>4. Gap(s, g, i) \in Nat /\ Size(s, i) \in Nat
  BY GapNat, EntryAt
<1>5. at[i + 1] <= m
  BY <1>1 DEF IsLayout
<1>6. QED  BY <1>2, <1>3, <1>4, <1>5

LEMMA LiesNone ==
  ASSUME NEW p \in Seq(Chars), NEW g \in Nat
  PROVE  Lies(p, <<>>, g)
<1> DEFINE at == [i \in 1 .. 1 |-> Len(p)]
<1>1. Len(<<>>) = 0 /\ Len(p) \in Nat
  OBVIOUS
<1>2. at \in [1 .. 1 -> Nat] /\ at[1] = Len(p)
  BY <1>1
<1> HIDE DEF at
<1>3. LiesAt(p, <<>>, g, at)
  BY <1>1, <1>2 DEF LiesAt, IsLayout
<1>4. QED  BY <1>3 DEF Lies

\* Where the last word ends.
End(s, at) == at[Len(s)] + Size(s, Len(s))

\* Only what is behind the last word changes.
LEMMA LiesChanged ==
  ASSUME NEW s \in Seq(Entries), s /= <<>>, NEW p, NEW g \in Nat, NEW at,
         LiesAt(p, s, g, at), NEW q, NEW m \in Nat, Len(q) = m,
         NEW h \in Nat, m = End(s, at) + h,
         \A j \in 1 .. End(s, at) : q[j] = p[j],
         OnlyTriggers(q, End(s, at), m)
  PROVE  Lies(q, s, h)
<1> DEFINE n == Len(s)
           e == End(s, at)
           now == [i \in 1 .. n + 1 |-> IF i = n + 1 THEN m ELSE at[i]]
<1>1. n \in Nat /\ n \in 1 .. n /\ Len(s) = n
  OBVIOUS
<1>2. /\ at \in [1 .. n + 1 -> Nat]
      /\ \A i, k \in 1 .. n + 1 : i <= k => at[i] <= at[k]
      /\ \A i \in 1 .. n : at[i + 1] = at[i] + Size(s, i) + Gap(s, g, i)
      /\ \A i \in 1 .. n : IsWordAt(p, s, i, at[i])
      /\ \A i \in 1 .. n : OnlyTriggers(p, at[i] + Size(s, i), at[i + 1])
  BY DEF LiesAt, IsLayout
<1>3. e = at[n] + Size(s, n) /\ at[n] \in Nat /\ Size(s, n) \in Nat
  BY <1>1, <1>2, EntryAt DEF End
<1>4. /\ now \in [1 .. n + 1 -> Nat] /\ now[n + 1] = m
      /\ \A i \in 1 .. n : now[i] = at[i]
  BY <1>1, <1>2
<1>5. m = e + h /\ (\A j \in 1 .. e : q[j] = p[j]) /\ OnlyTriggers(q, e, m)
  OBVIOUS
<1>6. \A i \in 1 .. n : Size(s, i) \in Nat
  BY EntryAt
<1> HIDE DEF n, e, now
<1>7. ASSUME NEW i \in 1 .. n + 1, NEW k \in 1 .. n + 1, i <= k
      PROVE  now[i] <= now[k]
  <2>1. CASE k = n + 1 /\ i /= n + 1
    <3>1. i \in 1 .. n /\ i <= n /\ n \in 1 .. n + 1 /\ i \in 1 .. n + 1
      BY <1>1, <2>1
    <3>2. at[i] <= at[n] /\ now[i] = at[i] /\ at[i] \in Nat
      BY <1>2, <1>4, <3>1
    <3>3. QED  BY <1>3, <1>4, <1>5, <2>1, <3>2
  <2>2. CASE k /= n + 1
    <3>1. i \in 1 .. n /\ k \in 1 .. n
      BY <1>1, <1>7, <2>2
    <3>2. QED  BY <1>2, <1>4, <1>7, <3>1
  <2>3. CASE k = n + 1 /\ i = n + 1
    BY <1>4, <2>3
  <2>4. QED  BY <2>1, <2>2, <2>3
<1>8. ASSUME NEW i \in 1 .. n
      PROVE  /\ now[i + 1] = now[i] + Size(s, i) + Gap(s, h, i)
             /\ IsWordAt(q, s, i, now[i])
             /\ OnlyTriggers(q, now[i] + Size(s, i), now[i + 1])
  <2>1. CASE i = n
    <3>1. Gap(s, h, n) = h /\ now[n] = at[n]
      BY <1>1, <1>4 DEF Gap
    <3>2. now[n + 1] = now[n] + Size(s, n) + Gap(s, h, n)
      BY <1>3, <1>4, <1>5, <3>1
    <3>3. IsWordAt(q, s, n, now[n])
      <4>1. ASSUME NEW j \in 1 .. Size(s, n) PROVE q[at[n] + j] = s[n].text[j]
        <5>1. at[n] + j \in 1 .. e
          BY <1>3
        <5>2. p[at[n] + j] = s[n].text[j]
          BY <1>1, <1>2 DEF IsWordAt
        <5>3. QED  BY <1>5, <5>1, <5>2
      <4>2. QED  BY <3>1, <4>1 DEF IsWordAt
    <3>4. OnlyTriggers(q, now[n] + Size(s, n), now[n + 1])
      BY <1>3, <1>4, <1>5, <3>1
    <3>5. QED  BY <2>1, <3>2, <3>3, <3>4
  <2>2. CASE i /= n
    <3>1. /\ i + 1 \in 1 .. n /\ i + 1 <= n /\ i \in 1 .. n + 1
          /\ i + 1 \in 1 .. n + 1 /\ n \in 1 .. n + 1 /\ i < n
      BY <1>1, <2>2
    <3>2. /\ now[i] = at[i] /\ now[i + 1] = at[i + 1]
          /\ at[i + 1] <= at[n] /\ at[i] \in Nat /\ at[i + 1] \in Nat
      BY <1>2, <1>4, <3>1
    <3>3. Gap(s, h, i) = Gap(s, g, i)
      BY <1>1, <3>1 DEF Gap
    <3>4. now[i + 1] = now[i] + Size(s, i) + Gap(s, h, i)
      BY <1>2, <3>2, <3>3
    <3>5. /\ at[i + 1] = at[i] + Size(s, i) + Gap(s, g, i)
          /\ Gap(s, g, i) \in Nat /\ Size(s, i) \in Nat
      BY <1>1, <1>2, <1>6, GapNat
    <3>10. /\ e \in Nat /\ at[i + 1] \in Nat /\ at[i] \in Nat
           /\ at[i + 1] <= e /\ at[i] + Size(s, i) <= e
      <4>1. at[n] \in Nat /\ Size(s, n) \in Nat /\ e = at[n] + Size(s, n) + 0
        BY ONLY <1>3
      <4>2. at[n] + Size(s, n) <= e /\ at[n] <= e /\ e \in Nat
        BY ONLY <4>1
      <4>3. at[i + 1] <= e
        BY ONLY <3>2, <4>1, <4>2, LeqTrans, NatInt
      <4>4. at[i] + Size(s, i) <= at[i + 1]
        BY ONLY <3>2, <3>5, WordEnds
      <4>5. at[i] + Size(s, i) \in Nat
        BY ONLY <3>2, <3>5
      <4>6. QED  BY ONLY <3>2, <4>2, <4>3, <4>4, <4>5, LeqTrans, NatInt
    <3>6. IsWordAt(q, s, i, now[i])
      <4>1. ASSUME NEW j \in 1 .. Size(s, i) PROVE q[at[i] + j] = s[i].text[j]
        <5>1. at[i] + j \in 1 .. e
          BY ONLY <3>5, <3>10, Inside, j \in 1 .. Size(s, i)
        <5>2. p[at[i] + j] = s[i].text[j]
          BY <1>2 DEF IsWordAt
        <5>3. QED  BY <1>5, <5>1, <5>2
      <4>2. QED  BY <3>2, <4>1 DEF IsWordAt
    <3>7. ASSUME NEW j \in at[i] + Size(s, i) + 1 .. at[i + 1]
          PROVE  q[j] \in Blanks
      <4>1. j \in 1 .. e
        BY ONLY <3>5, <3>10, GapInside, j \in at[i] + Size(s, i) + 1 .. at[i + 1]
      <4>2. p[j] \in Blanks
        BY <1>2 DEF OnlyTriggers
      <4>3. QED  BY <1>5, <4>1, <4>2
    <3>8. OnlyTriggers(q, now[i] + Size(s, i), now[i + 1])
      BY <3>2, <3>7 DEF OnlyTriggers
    <3>9. QED  BY <3>4, <3>6, <3>8
  <2>3. QED  BY <2>1, <2>2
<1>9. LiesAt(q, s, h, now)
  BY <1>1, <1>4, <1>7, <1>8 DEF LiesAt, IsLayout, n
<1>10. QED  BY <1>9 DEF Lies

LEMMA EndAt ==
  ASSUME NEW s \in Seq(Entries), s /= <<>>, NEW p, NEW g \in Nat, NEW at,
         LiesAt(p, s, g, at)
  PROVE  /\ Len(p) = End(s, at) + g /\ End(s, at) \in Nat
         /\ OnlyTriggers(p, End(s, at), Len(p))
<1>1. Len(s) \in 1 .. Len(s) /\ Len(s) \in Nat
  OBVIOUS
<1>2. /\ IsLayout(Len(p), s, g, at) /\ at[Len(s) + 1] = Len(p)
      /\ OnlyTriggers(p, End(s, at), at[Len(s) + 1])
  BY <1>1 DEF LiesAt, IsLayout, End
<1>3. /\ at[Len(s)] \in Nat
      /\ at[Len(s) + 1] = at[Len(s)] + Size(s, Len(s)) + Gap(s, g, Len(s))
  BY <1>1, <1>2, LayoutAt
<1>4. Gap(s, g, Len(s)) = g /\ Size(s, Len(s)) \in Nat
  BY <1>1, EntryAt DEF Gap
<1>5. QED  BY <1>2, <1>3, <1>4 DEF End

LEMMA LiesTyped ==
  ASSUME NEW p \in Seq(Chars), NEW s \in Seq(Entries), NEW g \in Nat,
         s /= <<>>, Lies(p, s, g), NEW key \in Blanks
  PROVE  Lies(Append(p, key), s, g + 1)
<1>1. PICK at : LiesAt(p, s, g, at)
  BY DEF Lies
<1> DEFINE q == Append(p, key)
           e == End(s, at)
<1>2. /\ Len(p) = e + g /\ e \in Nat
      /\ OnlyTriggers(p, e, Len(p))
  BY <1>1, EndAt
<1>3. /\ Len(q) = e + g + 1 /\ q[e + g + 1] = key
      /\ \A j \in 1 .. e + g : q[j] = p[j]
  <2>1. /\ Len(q) = Len(p) + 1 /\ q[Len(p) + 1] = key
        /\ \A j \in 1 .. Len(p) : q[j] = p[j]
    <3>1. key \in Chars
      BY KeysOK DEF Blanks
    <3>2. QED  BY ONLY <3>1, p \in Seq(Chars) DEF q
  <2> HIDE DEF q, e
  <2>2. QED  BY <1>2, <2>1
<1> HIDE DEF q, e
<1>4. OnlyTriggers(q, e, e + g + 1)
  <2>1. ASSUME NEW j \in e + 1 .. e + g + 1 PROVE q[j] \in Blanks
    <3>1. CASE j = e + g + 1
      BY <1>3, <3>1
    <3>2. CASE j /= e + g + 1
      <4>1. j \in e + 1 .. e + g /\ j \in 1 .. e + g
        <5>1. e \in Nat /\ j \in Int /\ e + 1 <= j /\ j <= e + g + 1
          BY ONLY <1>2, g \in Nat, j \in e + 1 .. e + g + 1
        <5>2. QED  BY ONLY <3>2, <5>1, g \in Nat
      <4>2. p[j] \in Blanks
        BY <1>2, <4>1 DEF OnlyTriggers
      <4>3. QED  BY <1>3, <4>1, <4>2
    <3>3. QED  BY <3>1, <3>2
  <2>2. QED  BY <2>1 DEF OnlyTriggers
<1>5. /\ e + g + 1 \in Nat /\ g + 1 \in Nat /\ e + g + 1 = e + (g + 1)
      /\ \A j \in 1 .. e : q[j] = p[j]
  <2>1. e \in Nat
    BY <1>2
  <2>2. \A j \in 1 .. e : j \in 1 .. e + g
    BY ONLY <2>1, g \in Nat
  <2>3. QED  BY ONLY <1>3, <2>1, <2>2, g \in Nat
<1>6. Lies(q, s, g + 1)
  BY <1>1, <1>3, <1>4, <1>5, LiesChanged DEF e
<1>7. QED  BY <1>6 DEF q

LEMMA LiesDeleted ==
  ASSUME NEW p \in Seq(Chars), NEW s \in Seq(Entries), NEW g \in Nat,
         s /= <<>>, Lies(p, s, g), g > 0
  PROVE  /\ p /= <<>> /\ Lies(Front(p), s, g - 1)
<1>1. PICK at : LiesAt(p, s, g, at)
  BY DEF Lies
<1> DEFINE q == Front(p)
           e == End(s, at)
<1>2. /\ Len(p) = e + g /\ e \in Nat
      /\ OnlyTriggers(p, e, Len(p))
  BY <1>1, EndAt
<1>3. p /= <<>>
  <2> HIDE DEF e
  <2>1. Len(p) > 0
    BY <1>2
  <2>2. QED  BY <2>1
<1>4. /\ Len(q) = e + g - 1
      /\ \A j \in 1 .. e + g - 1 : q[j] = p[j]
  <2>1. /\ Len(q) = Len(p) - 1
        /\ \A j \in 1 .. Len(p) - 1 : q[j] = p[j]
    <3>1. Len(p) \in Nat /\ Len(p) >= 1 /\ Len(p) - 1 \in 0 .. Len(p)
      BY <1>3
    <3> DEFINE m == Len(p) - 1
    <3>2. m \in 0 .. Len(p) /\ m \in Nat
      BY <3>1
    <3> HIDE DEF m
    <3>3. /\ Len(SubSeq(p, 1, m)) = m
          /\ \A j \in 1 .. m : SubSeq(p, 1, m)[j] = p[j]
      BY <3>2
    <3>4. QED  BY <3>3 DEF Front, m
  <2> HIDE DEF q, e
  <2>2. QED  BY <1>2, <2>1
<1> HIDE DEF q, e
<1>5. OnlyTriggers(q, e, e + g - 1)
  <2>1. ASSUME NEW j \in e + 1 .. e + g - 1 PROVE q[j] \in Blanks
    <3>1. j \in e + 1 .. e + g /\ j \in 1 .. e + g - 1
      BY <1>2
    <3>2. p[j] \in Blanks
      BY <1>2, <3>1 DEF OnlyTriggers
    <3>3. QED  BY <1>4, <3>1, <3>2
  <2>2. QED  BY <2>1 DEF OnlyTriggers
<1>6. /\ e + g - 1 \in Nat /\ g - 1 \in Nat /\ e + g - 1 = e + (g - 1)
      /\ \A j \in 1 .. e : q[j] = p[j]
  BY <1>2, <1>4
<1>7. Lies(q, s, g - 1)
  BY <1>1, <1>4, <1>5, <1>6, LiesChanged DEF e
<1>8. QED  BY <1>3, <1>7 DEF q

\* The oldest word is forgotten.
LEMMA LiesTail ==
  ASSUME NEW p \in Seq(Chars), NEW s \in Seq(Entries), NEW g \in Nat,
         s /= <<>>, Lies(p, s, g)
  PROVE  Lies(p, Tail(s), g)
<1>1. PICK at : LiesAt(p, s, g, at)
  BY DEF Lies
<1> DEFINE n == Len(s)
           t == Tail(s)
           m == Len(p)
           now == [i \in 1 .. n |-> at[i + 1]]
<1>2. n \in Nat /\ n >= 1 /\ Len(t) = n - 1 /\ m \in Nat
  OBVIOUS
<1>3. \A i \in 1 .. n - 1 : t[i] = s[i + 1]
  OBVIOUS
<1>4. /\ at \in [1 .. n + 1 -> Nat] /\ at[n + 1] = m
      /\ \A i, k \in 1 .. n + 1 : i <= k => at[i] <= at[k]
      /\ \A i \in 1 .. n : at[i + 1] = at[i] + Size(s, i) + Gap(s, g, i)
      /\ \A i \in 1 .. n : IsWordAt(p, s, i, at[i])
      /\ \A i \in 1 .. n : OnlyTriggers(p, at[i] + Size(s, i), at[i + 1])
  BY <1>1 DEF LiesAt, IsLayout
<1>5. now \in [1 .. n -> Nat] /\ \A i \in 1 .. n : now[i] = at[i + 1]
  BY <1>2, <1>4
<1> HIDE DEF t, now, n, m
<1>6. now \in [1 .. n - 1 + 1 -> Nat] /\ now[n - 1 + 1] = m
  <2>1. n - 1 + 1 = n /\ n \in 1 .. n
    BY <1>2
  <2>2. now[n] = at[n + 1]
    BY <1>5, <2>1
  <2>3. QED  BY <1>4, <1>5, <2>1, <2>2
<1>7. ASSUME NEW i \in 1 .. n - 1 + 1, NEW k \in 1 .. n - 1 + 1, i <= k
      PROVE  now[i] <= now[k]
  <2>1. /\ i \in 1 .. n /\ k \in 1 .. n /\ i + 1 <= k + 1
        /\ i + 1 \in 1 .. n + 1 /\ k + 1 \in 1 .. n + 1
    BY <1>2, <1>7
  <2>2. QED  BY <1>4, <1>5, <2>1
<1>8. ASSUME NEW i \in 1 .. n - 1
      PROVE  /\ now[i + 1] = now[i] + Size(t, i) + Gap(t, g, i)
             /\ IsWordAt(p, t, i, now[i])
             /\ OnlyTriggers(p, now[i] + Size(t, i), now[i + 1])
  <2>1. i + 1 \in 1 .. n /\ i \in 1 .. n /\ i \in Nat
    BY <1>2
  <2>2. Size(t, i) = Size(s, i + 1) /\ t[i].text = s[i + 1].text
    BY <1>3 DEF Size
  <2>3. Gap(t, g, i) = Gap(s, g, i + 1)
    <3>1. CASE i < n - 1
      <4>1. i + 1 \in 1 .. n - 1 /\ i + 1 < n
        BY <1>2, <2>1, <3>1
      <4>2. t[i + 1] = s[i + 1 + 1]
        BY <1>3, <4>1
      <4>3. QED  BY <1>2, <3>1, <4>1, <4>2 DEF Gap, n
    <3>2. CASE ~(i < n - 1)
      <4>1. ~(i + 1 < n)
        BY <1>2, <2>1, <3>2
      <4>2. QED  BY <1>2, <3>2, <4>1 DEF Gap, n
    <3>3. QED  BY <3>1, <3>2
  <2>4. now[i] = at[i + 1] /\ now[i + 1] = at[i + 1 + 1]
    BY <1>5, <2>1
  <2>5. /\ at[i + 1 + 1] = at[i + 1] + Size(s, i + 1) + Gap(s, g, i + 1)
        /\ IsWordAt(p, s, i + 1, at[i + 1])
        /\ OnlyTriggers(p, at[i + 1] + Size(s, i + 1), at[i + 1 + 1])
    BY <1>4, <2>1
  <2>6. QED  BY <2>2, <2>3, <2>4, <2>5 DEF IsWordAt
<1>9. IsLayout(m, t, g, now)
  BY <1>2, <1>6, <1>7, <1>8 DEF IsLayout
<1>10. LiesAt(p, t, g, now)
  BY <1>2, <1>8, <1>9 DEF LiesAt, m
<1>11. QED  BY <1>10 DEF Lies, t

\* The last word is taken back: it is no longer on the stack.
LEMMA LiesTakenBack ==
  ASSUME NEW p \in Seq(Chars), NEW s \in Seq(Entries), s /= <<>>,
         Lies(p, s, 0), NEW h \in Nat, h = 1 + Last(s).triggers
  PROVE  \E r \in Seq(Chars) : p = r \o Last(s).text /\ Lies(r, Front(s), h)
<1>1. PICK at : LiesAt(p, s, 0, at)
  BY DEF Lies
<1> DEFINE n == Len(s)
           w == Last(s).text
           t == Front(s)
           b == at[n]
           r == SubSeq(p, 1, b)
           now == [i \in 1 .. n |-> at[i]]
<1>2. n \in Nat /\ n >= 1 /\ Len(t) = n - 1 /\ n \in 1 .. n
  BY FrontOf
<1>3. \A i \in 1 .. n - 1 : t[i] = s[i]
  BY FrontOf
<1>4. /\ at \in [1 .. n + 1 -> Nat] /\ at[n + 1] = Len(p)
      /\ \A i, k \in 1 .. n + 1 : i <= k => at[i] <= at[k]
      /\ \A i \in 1 .. n : at[i + 1] = at[i] + Size(s, i) + Gap(s, 0, i)
      /\ \A i \in 1 .. n : IsWordAt(p, s, i, at[i])
      /\ \A i \in 1 .. n : OnlyTriggers(p, at[i] + Size(s, i), at[i + 1])
  BY <1>1 DEF LiesAt, IsLayout
<1>5. now \in [1 .. n -> Nat] /\ \A i \in 1 .. n : now[i] = at[i]
  BY <1>2, <1>4
<1>6. w \in Seq(Chars) /\ Len(w) = Size(s, n) /\ s[n].text = w
  BY <1>2, EntryAt DEF Last, Size
<1>7. b \in Nat /\ Len(p) = b + Len(w)
  <2>1. Gap(s, 0, n) = 0 /\ Size(s, n) \in Nat
    BY <1>2, EntryAt DEF Gap
  <2>2. at[n] \in Nat /\ at[n + 1] = at[n] + Size(s, n) + Gap(s, 0, n)
    BY <1>2, <1>4
  <2>3. QED  BY <1>4, <1>6, <2>1, <2>2
<1>8. \A j \in 1 .. Len(w) : p[b + j] = w[j]
  BY <1>2, <1>4, <1>6 DEF IsWordAt
<1> HIDE DEF w, t, now, n, b
<1>9. r \in Seq(Chars) /\ Len(r) = b /\ \A j \in 1 .. b : r[j] = p[j]
  <2>1. b \in 0 .. Len(p) /\ Len(w) \in Nat
    BY <1>6, <1>7
  <2>2. QED  BY <1>7, <2>1
<1> HIDE DEF r
<1>10. p = r \o w
  BY <1>6, <1>7, <1>8, <1>9, ConcatOf
<1>11. now \in [1 .. n - 1 + 1 -> Nat] /\ now[n - 1 + 1] = b
  <2>1. n - 1 + 1 = n
    BY <1>2
  <2>2. QED  BY <1>2, <1>5, <2>1 DEF b
<1>12. ASSUME NEW i \in 1 .. n - 1 + 1, NEW k \in 1 .. n - 1 + 1, i <= k
       PROVE  now[i] <= now[k]
  <2>1. i \in 1 .. n /\ k \in 1 .. n /\ i \in 1 .. n + 1 /\ k \in 1 .. n + 1
    BY <1>2
  <2>2. QED  BY <1>4, <1>5, <1>12, <2>1
<1>13. ASSUME NEW i \in 1 .. n - 1
       PROVE  /\ now[i + 1] = now[i] + Size(t, i) + Gap(t, h, i)
              /\ IsWordAt(r, t, i, now[i])
              /\ OnlyTriggers(r, now[i] + Size(t, i), now[i + 1])
  <2>1. /\ i + 1 \in 1 .. n /\ i \in 1 .. n /\ i \in Nat /\ i < n
        /\ i + 1 \in 1 .. n + 1 /\ n \in 1 .. n + 1 /\ i + 1 <= n
    BY <1>2
  <2>2. Size(t, i) = Size(s, i) /\ t[i].text = s[i].text
    BY <1>3 DEF Size
  <2>3. Gap(t, h, i) = Gap(s, 0, i)
    <3>1. CASE i < n - 1
      <4>1. t[i + 1] = s[i + 1]
        BY <1>3, <2>1, <3>1
      <4>2. QED  BY <1>2, <2>1, <3>1, <4>1 DEF Gap, n
    <3>2. CASE ~(i < n - 1)
      <4>1. i + 1 = n
        BY <1>2, <2>1, <3>2
      <4>2. s[n] = Last(s)
        BY DEF Last, n
      <4>3. QED  BY <1>2, <2>1, <3>2, <4>1, <4>2 DEF Gap, n
    <3>3. QED  BY <3>1, <3>2
  <2>4. now[i] = at[i] /\ now[i + 1] = at[i + 1] /\ at[i + 1] <= b
    BY <1>4, <1>5, <2>1 DEF b
  <2>5. /\ at[i + 1] = at[i] + Size(s, i) + Gap(s, 0, i)
        /\ IsWordAt(p, s, i, at[i])
        /\ OnlyTriggers(p, at[i] + Size(s, i), at[i + 1])
        /\ at[i] \in Nat /\ at[i + 1] \in Nat
    <3>1. at[i] \in Nat /\ at[i + 1] \in Nat
      <4>1. at \in [1 .. n + 1 -> Nat]
        BY <1>4
      <4>2. i \in 1 .. n + 1 /\ i + 1 \in 1 .. n + 1
        BY <2>1, <1>1
      <4>3. QED  BY ONLY <4>1, <4>2, Zenon
    <3>2. /\ at[i + 1] = at[i] + Size(s, i) + Gap(s, 0, i)
          /\ IsWordAt(p, s, i, at[i])
          /\ OnlyTriggers(p, at[i] + Size(s, i), at[i + 1])
      BY ONLY <1>4, <2>1, Zenon
    <3>3. QED  BY ONLY <3>1, <3>2
  <2>6. Size(s, i) \in Nat /\ Gap(s, 0, i) \in Nat
    BY <2>1, EntryAt, GapNat DEF n
  <2>7. at[i] + Size(s, i) <= b
    BY <1>7, <2>4, <2>5, <2>6
  <2>8. IsWordAt(r, t, i, now[i])
    <3>1. ASSUME NEW j \in 1 .. Size(s, i) PROVE r[at[i] + j] = s[i].text[j]
      <4>1. at[i] + j \in 1 .. b
        <5>1. b \in Nat
          BY <1>7
        <5>2. QED  BY ONLY <2>5, <2>6, <2>7, <5>1, Inside, j \in 1 .. Size(s, i)
      <4>2. p[at[i] + j] = s[i].text[j]
        BY <2>5 DEF IsWordAt
      <4>3. QED  BY <1>9, <4>1, <4>2
    <3>2. QED  BY <2>2, <2>4, <3>1 DEF IsWordAt
  <2>9. OnlyTriggers(r, now[i] + Size(t, i), now[i + 1])
    <3>1. ASSUME NEW j \in at[i] + Size(s, i) + 1 .. at[i + 1]
          PROVE  r[j] \in Blanks
      <4>1. j \in 1 .. b
        <5>1. b \in Nat
          BY <1>7
        <5>2. QED  BY ONLY <2>4, <2>5, <2>6, <5>1, GapInside,
                       j \in at[i] + Size(s, i) + 1 .. at[i + 1]
      <4>2. p[j] \in Blanks
        BY <2>5 DEF OnlyTriggers
      <4>3. QED  BY <1>9, <4>1, <4>2
    <3>2. QED  BY <2>2, <2>4, <3>1 DEF OnlyTriggers
  <2>10. QED  BY <2>2, <2>3, <2>4, <2>5, <2>8, <2>9
<1>14. IsLayout(b, t, h, now)
  BY <1>2, <1>11, <1>12, <1>13 DEF IsLayout
<1>15. LiesAt(r, t, h, now)
  BY <1>2, <1>9, <1>13, <1>14 DEF LiesAt
<1>16. QED  BY <1>9, <1>10, <1>15 DEF Lies, w, t

\* A word that was being composed goes on the stack.
LEMMA LiesPushed ==
  ASSUME NEW p \in Seq(Chars), NEW s \in Seq(Entries), NEW g \in Nat,
         Lies(p, s, g), NEW e \in Entries, s /= <<>> => g = 1 + e.triggers
  PROVE  Lies(p \o e.text, Append(s, e), 0)
<1>1. PICK at : LiesAt(p, s, g, at)
  BY DEF Lies
<1> DEFINE n == Len(s)
           w == e.text
           t == Append(s, e)
           m == Len(p)
           q == p \o w
           l == Len(w)
           now == [i \in 1 .. n + 2 |-> IF i = n + 2 THEN m + l ELSE at[i]]
<1>2. /\ n \in Nat /\ Len(t) = n + 1 /\ t[n + 1] = e
      /\ \A i \in 1 .. n : t[i] = s[i]
  OBVIOUS
<1>3. /\ at \in [1 .. n + 1 -> Nat] /\ at[n + 1] = m
      /\ \A i, k \in 1 .. n + 1 : i <= k => at[i] <= at[k]
      /\ \A i \in 1 .. n : at[i + 1] = at[i] + Size(s, i) + Gap(s, g, i)
      /\ \A i \in 1 .. n : IsWordAt(p, s, i, at[i])
      /\ \A i \in 1 .. n : OnlyTriggers(p, at[i] + Size(s, i), at[i + 1])
  BY <1>1 DEF LiesAt, IsLayout
<1>4. w \in Seq(Chars) /\ l \in Nat /\ m \in Nat
  BY DEF Entries
<1>5. /\ Len(q) = m + l /\ \A j \in 1 .. m : q[j] = p[j]
      /\ \A j \in 1 .. l : q[m + j] = w[j]
  BY <1>4
<1>6. /\ now \in [1 .. n + 2 -> Nat] /\ now[n + 2] = m + l
      /\ \A i \in 1 .. n + 1 : now[i] = at[i]
  BY <1>2, <1>3, <1>4
<1>7. \A i \in 1 .. n : Size(s, i) \in Nat /\ Gap(s, g, i) \in Nat
  BY EntryAt, GapNat
<1>8. Size(t, n + 1) = l /\ \A i \in 1 .. n : Size(t, i) = Size(s, i)
  BY <1>2 DEF Size
<1>9. s /= <<>> <=> n > 0
  OBVIOUS
<1> HIDE DEF w, t, m, q, l, now, n
<1>10. now \in [1 .. n + 1 + 1 -> Nat] /\ now[n + 1 + 1] = m + l
  <2>1. n + 1 + 1 = n + 2
    BY <1>2
  <2>2. QED  BY <1>6, <2>1
<1>11. ASSUME NEW i \in 1 .. n + 1 + 1, NEW k \in 1 .. n + 1 + 1, i <= k
       PROVE  now[i] <= now[k]
  <2>1. CASE k = n + 2 /\ i /= n + 2
    <3>1. i \in 1 .. n + 1 /\ n + 1 \in 1 .. n + 1 /\ i <= n + 1
      BY <1>2, <2>1
    <3>2. at[i] <= m /\ at[i] \in Nat /\ now[i] = at[i]
      BY <1>3, <1>6, <3>1
    <3>3. QED  BY <1>4, <1>6, <2>1, <3>2
  <2>2. CASE k /= n + 2
    <3>1. i \in 1 .. n + 1 /\ k \in 1 .. n + 1
      BY <1>2, <1>11, <2>2
    <3>2. QED  BY <1>3, <1>6, <1>11, <3>1
  <2>3. CASE k = n + 2 /\ i = n + 2
    BY <1>4, <1>6, <2>3
  <2>4. QED  BY <2>1, <2>2, <2>3
<1>12. ASSUME NEW i \in 1 .. n + 1
       PROVE  /\ now[i + 1] = now[i] + Size(t, i) + Gap(t, 0, i)
              /\ IsWordAt(q, t, i, now[i])
              /\ OnlyTriggers(q, now[i] + Size(t, i), now[i + 1])
  <2>1. CASE i = n + 1
    <3>1. /\ n + 1 + 1 = n + 2 /\ n + 1 \in 1 .. n + 1 /\ ~(n + 1 < n + 1)
      BY <1>2
    <3>2. now[n + 1] = m /\ now[n + 1 + 1] = m + l
      BY <1>3, <1>6, <3>1
    <3>3. Gap(t, 0, n + 1) = 0
      BY <1>2, <3>1 DEF Gap
    <3>4. IsWordAt(q, t, n + 1, m)
      BY <1>2, <1>5, <1>8 DEF IsWordAt, w
    <3>5. OnlyTriggers(q, m + l, m + l)
      <4>1. m + l \in Nat
        BY <1>4
      <4>2. QED  BY <4>1 DEF OnlyTriggers
    <3>6. m + l = m + l + 0
      BY <1>4
    <3>7. QED  BY <1>8, <2>1, <3>2, <3>3, <3>4, <3>5, <3>6
  <2>2. CASE i /= n + 1
    <3>1. /\ i \in 1 .. n /\ i + 1 \in 1 .. n + 1 /\ n + 1 \in 1 .. n + 1
          /\ i \in Nat /\ i + 1 <= n + 1 /\ i < n + 1 /\ i \in 1 .. n + 1
      BY <1>2, <2>2
    <3>2. now[i] = at[i] /\ now[i + 1] = at[i + 1] /\ at[i + 1] <= m
      BY <1>3, <1>6, <3>1
    <3>3. Gap(t, 0, i) = Gap(s, g, i)
      <4>1. CASE i < n
        <5>1. i + 1 \in 1 .. n
          BY <1>2, <3>1, <4>1
        <5>2. QED  BY <1>2, <3>1, <4>1, <5>1 DEF Gap, n
      <4>2. CASE ~(i < n)
        <5>1. i = n /\ n > 0
          BY <1>2, <3>1, <4>2
        <5>2. QED  BY <1>2, <1>9, <3>1, <4>2, <5>1 DEF Gap, n
      <4>3. QED  BY <4>1, <4>2
    <3>4. /\ at[i + 1] = at[i] + Size(s, i) + Gap(s, g, i)
          /\ IsWordAt(p, s, i, at[i])
          /\ OnlyTriggers(p, at[i] + Size(s, i), at[i + 1])
          /\ at[i] \in Nat /\ at[i + 1] \in Nat
          /\ Size(s, i) \in Nat /\ Gap(s, g, i) \in Nat
          /\ Size(t, i) = Size(s, i)
      BY <1>3, <1>7, <1>8, <3>1
    <3>5. at[i] + Size(s, i) <= m
      BY <1>4, <3>2, <3>4
    <3>6. IsWordAt(q, t, i, now[i])
      <4>1. ASSUME NEW j \in 1 .. Size(s, i) PROVE q[at[i] + j] = s[i].text[j]
        <5>1. at[i] + j \in 1 .. m
          <6>1. m \in Nat
            BY <1>4
          <6>2. QED  BY ONLY <3>4, <3>5, <6>1, Inside, j \in 1 .. Size(s, i)
        <5>2. p[at[i] + j] = s[i].text[j]
          BY <3>4 DEF IsWordAt
        <5>3. QED  BY <1>5, <5>1, <5>2
      <4>2. QED  BY <1>2, <3>1, <3>2, <3>4, <4>1 DEF IsWordAt
    <3>7. OnlyTriggers(q, now[i] + Size(t, i), now[i + 1])
      <4>1. ASSUME NEW j \in at[i] + Size(s, i) + 1 .. at[i + 1]
            PROVE  q[j] \in Blanks
        <5>1. j \in 1 .. m
          <6>1. m \in Nat
            BY <1>4
          <6>2. QED  BY ONLY <3>2, <3>4, <6>1, GapInside, j \in at[i] + Size(s, i) + 1 .. at[i + 1]
        <5>2. p[j] \in Blanks
          BY <3>4 DEF OnlyTriggers
        <5>3. QED  BY <1>5, <5>1, <5>2
      <4>2. QED  BY <3>2, <3>4, <4>1 DEF OnlyTriggers
    <3>8. QED  BY <3>2, <3>3, <3>4, <3>6, <3>7
  <2>3. QED  BY <2>1, <2>2
<1>13. IsLayout(m + l, t, 0, now)
  BY <1>2, <1>10, <1>11, <1>12 DEF IsLayout
<1>14. LiesAt(q, t, 0, now)
  BY <1>2, <1>5, <1>12, <1>13 DEF LiesAt
<1>15. QED  BY <1>14 DEF Lies, q, t, w

-----------------------------------------------------------------------------
(* The state of commit-undo, whatever the text.                            *)

\* What the engine returns are texts.
EngineOK ==
  \A keys \in Seq(Strokes) :
    /\ Show(keys) \in Seq(Chars) /\ Committed(keys) \in Seq(Chars)
    /\ Raw(keys) \in Seq(Chars)

Bounded(c) == c \in Commits /\ Len(c.stack) <= MaxStack
Closed(c) == Bounded(c) /\ c.state = "Idle"

LEMMA EmptyTypes ==
  /\ <<>> \in Seq(Strokes) /\ <<>> \in Seq(Chars) /\ <<>> \in Seq(Entries)
  /\ 0 <= MaxStack /\ Len(<<>>) = 0 /\ 0 \in 0 .. MaxTriggers
BY BoundsOK DEF MaxTriggers

LEMMA CommitOps ==
  ASSUME NEW c, Bounded(c)
  PROVE  /\ Closed(SetIdle(c)) /\ SetIdle(c).stack = c.stack
         /\ Closed(Cancel(c)) /\ Cancel(c).stack = <<>>
         /\ Closed(StartWord(c))
         /\ Bounded(SetCommitUndoReady(c))
         /\ SetCommitUndoReady(c).stack = c.stack
<1> USE DEF Commits
<1>1. Closed(SetIdle(c)) /\ SetIdle(c).stack = c.stack
  BY DEF Bounded, Closed, SetIdle
<1>2. Closed(Cancel(c)) /\ Cancel(c).stack = <<>>
  BY <1>1, EmptyTypes DEF Bounded, Closed, Cancel
<1>3. Closed(StartWord(c))
  BY <1>1, EmptyTypes DEF Bounded, Closed, StartWord
<1>4. Bounded(SetCommitUndoReady(c)) /\ SetCommitUndoReady(c).stack = c.stack
  BY EmptyTypes DEF Bounded, SetCommitUndoReady
<1>5. QED  BY <1>1, <1>2, <1>3, <1>4

LEMMA TakeTop ==
  ASSUME NEW c, Bounded(c), c.stack /= <<>>
  PROVE  /\ Closed(DropTop(c)) /\ Closed(Replayed(c))
         /\ Last(c.stack) \in Entries
<1> USE DEF Commits, MaxTriggers
<1>1. /\ Last(c.stack) \in Entries
      /\ Front(c.stack) \in Seq(Entries)
      /\ Len(Front(c.stack)) <= MaxStack
  BY BoundsOK DEF Bounded, Last, Front
<1>2. Closed(DropTop(c))
  BY <1>1 DEF Bounded, Closed, DropTop, SetIdle
<1>3. Last(c.stack).keys \in Seq(Strokes)
      /\ Last(c.stack).triggers \in 0 .. MaxTriggers
  BY <1>1 DEF Entries
<1>4. Closed(Replayed(c))
  BY <1>2, <1>3 DEF Bounded, Closed, Replayed
<1>5. QED  BY <1>1, <1>2, <1>4

LEMMA Push ==
  ASSUME NEW c, Bounded(c), NEW e \in Entries
  PROVE  /\ Bounded(PushEntry(c, e)) /\ PushEntry(c, e).stack /= <<>>
         /\ PushEntry(c, e).state = c.state
<1> DEFINE kept == IF Len(c.stack) >= MaxStack THEN Tail(c.stack) ELSE c.stack
<1>1. /\ kept \in Seq(Entries) /\ Len(kept) < MaxStack
  BY BoundsOK DEF Bounded, Commits
<1>2. /\ Append(kept, e) \in Seq(Entries)
      /\ Len(Append(kept, e)) <= MaxStack
      /\ Append(kept, e) /= <<>>
  BY <1>1, BoundsOK
<1>3. PushEntry(c, e) = [c EXCEPT !.stack = Append(kept, e)]
  BY DEF PushEntry
<1> HIDE DEF kept
<1>4. QED  BY <1>2, <1>3 DEF Bounded, Commits

LEMMA CommitWord ==
  ASSUME EngineOK, WordTypeOK, NEW c, Bounded(c)
  PROVE  /\ Bounded(CommitComposition(c))
         /\ CommitComposition(c).state = c.state
         /\ Pushes(c) => CommitComposition(c).stack /= <<>>
<1>1. Entry(c) \in Entries
  <2>1. Committed(engine) \in Seq(Chars) /\ Raw(engine) \in Seq(Chars)
    BY DEF EngineOK, WordTypeOK
  <2>2. QED  BY <2>1 DEF Entry, Entries, Bounded, Commits, WordTypeOK
<1> DEFINE d == IF Pushes(c)
                THEN [PushEntry(c, Entry(c)) EXCEPT !.leading = 0] ELSE c
<1>2. /\ Bounded(d) /\ d.state = c.state
      /\ Pushes(c) => d.stack /= <<>>
  <2>1. /\ Bounded(PushEntry(c, Entry(c)))
        /\ PushEntry(c, Entry(c)).stack /= <<>>
        /\ PushEntry(c, Entry(c)).state = c.state
    BY <1>1, Push
  <2>2. QED  BY <2>1, EmptyTypes DEF Bounded, Commits
<1>3. CommitComposition(c) = [d EXCEPT !.history = <<>>]
  BY DEF CommitComposition
<1> HIDE DEF d
<1>4. QED  BY <1>2, <1>3, EmptyTypes DEF Bounded, Commits

LEMMA ComposeOK ==
  ASSUME EngineOK, NEW key \in Letters \cup Tones, NEW keys \in Seq(Strokes),
         NEW shown, NEW c, Closed(c), Compose(key, keys, shown, c)
  PROVE  /\ engine' \in Seq(Strokes) /\ prev' \in Seq(Chars)
         /\ Closed(commit')
<1>1. Append(keys, key) \in Seq(Strokes)
  BY DEF Strokes
<1>2. engine' = Append(keys, key) /\ prev' = Show(engine')
  BY DEF Compose
<1>3. commit' = [c EXCEPT !.history = Append(c.history, key)]
  BY DEF Compose
<1>4. Closed(commit')
  <2>1. c.history \in Seq(Strokes) /\ key \in Strokes
    BY DEF Closed, Bounded, Commits, Strokes
  <2>2. Append(c.history, key) \in Seq(Strokes)
    BY <2>1
  <2>3. QED  BY <1>3, <2>2 DEF Closed, Bounded, Commits
<1>5. QED  BY <1>1, <1>2, <1>4 DEF EngineOK

LEMMA BackspaceOK ==
  ASSUME EngineOK, NEW keys \in Seq(Strokes), NEW shown, NEW c, Closed(c),
         HandleBackspace(keys, shown, c)
  PROVE  /\ engine' \in Seq(Strokes) /\ prev' \in Seq(Chars)
         /\ Bounded(commit')
         /\ commit'.state /= "Idle" => commit'.stack /= <<>> /\ ~Composing'
<1> DEFINE marked == [c EXCEPT !.history = Append(c.history, "back")]
<1>1. Append(keys, "back") \in Seq(Strokes)
  BY DEF Strokes
<1>2. Closed(marked) /\ marked.stack = c.stack
  <2>1. c.history \in Seq(Strokes) /\ "back" \in Strokes
    BY DEF Closed, Bounded, Commits, Strokes
  <2>2. Append(c.history, "back") \in Seq(Strokes)
    BY <2>1
  <2>3. QED  BY <2>2 DEF Closed, Bounded, Commits
<1>3. prev' = Show(Append(keys, "back"))
  BY DEF HandleBackspace
<1>4. /\ engine' = Append(keys, "back")
      /\ \/ commit' = marked
         \/ /\ Show(Append(keys, "back")) = <<>> /\ c.stack /= <<>>
            /\ commit' = SetCommitUndoReady(marked)
  BY DEF HandleBackspace
<1> HIDE DEF marked
<1>5. /\ Bounded(SetCommitUndoReady(marked))
      /\ SetCommitUndoReady(marked).stack = c.stack
  BY <1>2, CommitOps DEF Closed
<1>6. prev' \in Seq(Chars)
  BY <1>1, <1>3 DEF EngineOK
<1>7. Show(Append(keys, "back")) = <<>> => ~Composing'
  BY <1>4 DEF Composing, Word
<1>8. QED  BY <1>1, <1>2, <1>4, <1>5, <1>6, <1>7 DEF Closed

-----------------------------------------------------------------------------
\* Replaying needs a word on the stack and an empty engine, switching off needs
\* the window closed: the three are inductive together.
Inv == WordTypeOK /\ WindowHasWord /\ OffStateEmpty

\* What a key finds after the guards that every key goes through.
LEMMA OpenedOK ==
  ASSUME Inv, NEW key
  PROVE  /\ Bounded(Opened(key))
         /\ Opened(key).state /= "Idle"
              => Opened(key) = commit /\ commit.stack /= <<>> /\ ~Composing
         /\ off => Opened(key).state = "Idle" /\ Opened(key).stack = <<>>
<1>1. Bounded(commit)
  BY DEF Inv, WordTypeOK, Bounded
<1>2. Closed(Cancel(commit)) /\ Cancel(commit).stack = <<>>
  BY <1>1, CommitOps
<1>3. Opened(key) = commit \/ Opened(key) = Cancel(commit)
  BY DEF Opened
<1>4. QED
  BY <1>1, <1>2, <1>3 DEF Inv, WindowHasWord, OffStateEmpty, Closed

LEMMA PassedOK ==
  ASSUME NEW c, Bounded(c), NEW key \in Triggers \cup {"other"},
         NEW recent \in BOOLEAN
  PROVE  /\ Bounded(Passed(c, key, recent))
         /\ Passed(c, key, recent).state /= "Idle"
              => c.state /= "Idle" /\ Passed(c, key, recent).stack = c.stack
         /\ c.state = "Idle" => Passed(c, key, recent) = c
<1> DEFINE more == [c EXCEPT !.extra = IF c.extra < MaxTriggers
                                       THEN c.extra + 1 ELSE c.extra]
<1>1. /\ Bounded(more) /\ more.stack = c.stack /\ more.state = c.state
  <2>1. c.extra \in 0 .. 255
    BY DEF Bounded, Commits, MaxTriggers
  <2>2. (IF c.extra < MaxTriggers THEN c.extra + 1 ELSE c.extra)
          \in 0 .. MaxTriggers
    BY <2>1 DEF MaxTriggers
  <2>3. QED  BY <2>2 DEF Bounded, Commits
<1>2. /\ Closed(SetIdle(c)) /\ Closed(Cancel(c)) /\ Closed(StartWord(c))
  BY CommitOps
<1>3. \/ Passed(c, key, recent) = c
      \/ c.state /= "Idle" /\ Passed(c, key, recent)
           \in {SetIdle(c), Cancel(c), StartWord(c), more}
  BY DEF Passed, Unsettled
<1>4. c.state = "Idle" => Passed(c, key, recent) = c
  BY DEF Passed, Unsettled
<1> HIDE DEF more
<1>5. QED  BY <1>1, <1>2, <1>3, <1>4 DEF Closed

LEMMA InitInv == Init => Inv
<1> SUFFICES ASSUME Init PROVE Inv
  OBVIOUS
<1>1. WordTypeOK
  BY EmptyTypes, BoundsOK DEF Init, NoWord, WordTypeOK, Commits, MaxTriggers
<1>2. WindowHasWord /\ OffStateEmpty
  BY DEF Init, NoWord, WindowHasWord, OffStateEmpty
<1>3. QED  BY <1>1, <1>2 DEF Inv

\* A step to a closed window with a word in the engine, or to an open one
\* with none, while the engine is on.
LEMMA Kept ==
  ASSUME engine' \in Seq(Strokes), prev' \in Seq(Chars), Bounded(commit'),
         commit'.state /= "Idle" => commit'.stack /= <<>> /\ ~Composing',
         off' = FALSE
  PROVE  Inv'
BY DEF Inv, WordTypeOK, WindowHasWord, OffStateEmpty, Bounded

LEMMA LetterStep ==
  ASSUME EngineOK, Inv, NEW key \in Letters \cup Tones,
         TypeOff(key) \/ TypeLetter(key) \/ ReplayWithTone(key)
  PROVE  Inv'
<1>1. CASE TypeOff(key)
  <2>1. /\ commit' = Opened(key) /\ off' = TRUE /\ engine' = engine
        /\ prev' = prev
    BY <1>1 DEF TypeOff, Inv, WordTypeOK
  <2>2. /\ Bounded(commit') /\ commit'.state = "Idle" /\ commit'.stack = <<>>
    BY <1>1, <2>1, OpenedOK DEF TypeOff
  <2>3. ~Composing /\ ~Composing'
    BY <1>1, <2>1 DEF Inv, OffStateEmpty, TypeOff, Composing, Word
  <2>4. QED
    BY <2>1, <2>2, <2>3
    DEF Inv, WordTypeOK, WindowHasWord, OffStateEmpty, Bounded
<1>2. CASE TypeLetter(key)
  <2> DEFINE c == Opened(key)
  <2>1. /\ Bounded(c)
        /\ c.state /= "Idle" => c.stack /= <<>>
    BY OpenedOK
  <2>2. engine \in Seq(Strokes)
    BY DEF Inv, WordTypeOK
  <2>3. PICK d \in {c, StartWord(c), Cancel(c), DropTop(c)} :
          /\ Compose(key, engine, prev, d)
          /\ Closed(d)
    <3>1. CASE c.state /= "Primed"
      <4>1. Closed(IF c.state = "Ready" THEN StartWord(c) ELSE c)
        BY <2>1, <3>1, CommitOps DEF Closed, Bounded, Commits
      <4>2. Compose(key, engine, prev,
                    IF c.state = "Ready" THEN StartWord(c) ELSE c)
        BY <1>2, <3>1 DEF TypeLetter, Unsettled
      <4>3. QED  BY <4>1, <4>2
    <3>2. CASE c.state = "Primed"
      <4>1. Closed(Cancel(c)) /\ Closed(DropTop(c))
        BY <2>1, <3>2, CommitOps, TakeTop
      <4>2. \/ Compose(key, engine, prev, Cancel(c))
            \/ Compose(key, engine, prev, DropTop(c))
        BY <1>2, <3>2 DEF TypeLetter
      <4>3. QED  BY <4>1, <4>2
    <3>3. QED  BY <3>1, <3>2
  <2>4. off' = FALSE
    BY <1>2 DEF TypeLetter, Inv, WordTypeOK
  <2> HIDE DEF c
  <2>5. /\ engine' \in Seq(Strokes) /\ prev' \in Seq(Chars)
        /\ Closed(commit')
    BY <2>2, <2>3, ComposeOK
  <2>6. QED  BY <2>4, <2>5, Kept DEF Closed
<1>3. CASE ReplayWithTone(key)
  <2>1. Bounded(commit) /\ commit.stack /= <<>> /\ ~Composing
    BY <1>3
    DEF ReplayWithTone, Inv, WindowHasWord, WordTypeOK, Bounded
  <2>2. Closed(Replayed(commit)) /\ Last(commit.stack) \in Entries
    BY <2>1, TakeTop
  <2>3. engine \o Last(commit.stack).keys \in Seq(Strokes)
    BY <2>2 DEF Entries, Inv, WordTypeOK
  <2>4. Compose(key, engine \o Last(commit.stack).keys,
                Last(commit.stack).text, Replayed(commit))
    BY <1>3 DEF ReplayWithTone
  <2>5. /\ engine' \in Seq(Strokes) /\ prev' \in Seq(Chars)
        /\ Closed(commit')
    BY <2>2, <2>3, <2>4, ComposeOK
  <2>6. off' = FALSE
    BY <1>3 DEF ReplayWithTone, Inv, WordTypeOK
  <2>7. QED  BY <2>5, <2>6, Kept DEF Closed
<1>4. QED  BY <1>1, <1>2, <1>3

LEMMA BackspaceStep ==
  ASSUME EngineOK, Inv, Backspace
  PROVE  Inv'
<1> DEFINE c == Opened("back")
<1>1. /\ Bounded(c)
      /\ c.state /= "Idle" => c.stack /= <<>> /\ ~Composing
  BY OpenedOK
<1>2. /\ engine \in Seq(Strokes) /\ prev \in Seq(Chars)
  BY DEF Inv, WordTypeOK
<1>3. off' = FALSE
  BY DEF Backspace
<1>4. CASE /\ engine' = engine /\ prev' = prev
           /\ \/ commit' = c \/ commit' = Cancel(c)
              \/ /\ c.extra > 0 /\ c.state = "Ready"
                 /\ commit' = [c EXCEPT !.extra = c.extra - 1]
              \/ /\ c.state = "Ready"
                 /\ commit' = [c EXCEPT !.state = "Primed"]
  <2>1. Closed(Cancel(c))
    BY <1>1, CommitOps
  <2>2. c.extra > 0 => Bounded([c EXCEPT !.extra = c.extra - 1])
    <3>1. c.extra \in 0 .. MaxTriggers
      BY <1>1 DEF Bounded, Commits
    <3> HIDE DEF c
    <3>2. c.extra > 0 => c.extra - 1 \in 0 .. MaxTriggers
      BY <3>1 DEF MaxTriggers
    <3>3. QED  BY <1>1, <3>2 DEF Bounded, Commits
  <2>3. /\ Bounded([c EXCEPT !.state = "Primed"])
        /\ [c EXCEPT !.state = "Primed"].stack = c.stack
        /\ [c EXCEPT !.extra = c.extra - 1].stack = c.stack
    BY <1>1 DEF Bounded, Commits
  <2> HIDE DEF c
  <2>4. /\ Bounded(commit')
        /\ commit'.state /= "Idle" => commit'.stack /= <<>> /\ ~Composing'
    <3>1. ~Composing => ~Composing'
      BY <1>4 DEF Composing, Word
    <3>2. QED  BY <1>1, <1>4, <2>1, <2>2, <2>3, <3>1 DEF Closed
  <2>5. QED  BY <1>2, <1>3, <1>4, <2>4, Kept
<1>5. CASE /\ c.state = "Primed"
           /\ HandleBackspace(engine \o Last(c.stack).keys, Last(c.stack).text,
                              Replayed(c))
  <2>1. Closed(Replayed(c)) /\ Last(c.stack) \in Entries
    BY <1>1, <1>5, TakeTop
  <2>2. engine \o Last(c.stack).keys \in Seq(Strokes)
    BY <1>2, <2>1 DEF Entries
  <2>3. QED  BY <1>3, <1>5, <2>1, <2>2, BackspaceOK, Kept
<1>6. CASE c.state = "Idle" /\ HandleBackspace(engine, prev, c)
  <2>1. Closed(c)
    BY <1>1, <1>6 DEF Closed
  <2>2. QED  BY <1>2, <1>3, <1>6, <2>1, BackspaceOK, Kept
<1>7. CASE BackspaceInWindow
  BY <1>4, <1>5, <1>7 DEF BackspaceInWindow
<1>8. CASE BackspaceOutside
  BY <1>4, <1>6, <1>8 DEF BackspaceOutside
<1>9. QED  BY <1>7, <1>8 DEF Backspace

LEMMA TriggerStep ==
  ASSUME EngineOK, Inv, NEW key \in Triggers, CommitTrigger(key)
  PROVE  Inv'
<1>1. PICK recent \in BOOLEAN :
        LET c == Passed(Opened(key), key, recent) IN
        IF Composing
        THEN /\ commit' = IF Pushes(c) /\ key /= "left"
                          THEN SetCommitUndoReady(CommitComposition(c))
                          ELSE CommitComposition(c)
             /\ ClearWord
        ELSE commit' = c /\ UNCHANGED <<engine, prev>>
  BY DEF CommitTrigger
<1> DEFINE c == Passed(Opened(key), key, recent)
<1>2. /\ Bounded(c)
      /\ c.state /= "Idle" => c.stack /= <<>> /\ ~Composing
  BY OpenedOK, PassedOK
<1>3. off' = FALSE /\ engine \in Seq(Strokes) /\ prev \in Seq(Chars)
      /\ WordTypeOK
  BY DEF CommitTrigger, Inv, WordTypeOK
<1>4. CASE Composing
  <2>1. c.state = "Idle"
    BY <1>2, <1>4
  <2>2. /\ Bounded(CommitComposition(c)) /\ CommitComposition(c).state = "Idle"
        /\ Pushes(c) => CommitComposition(c).stack /= <<>>
    BY <1>2, <1>3, <2>1, CommitWord
  <2>3. engine' = <<>> /\ prev' = <<>>
    BY <1>1, <1>4 DEF ClearWord
  <2>4. \/ commit' = CommitComposition(c)
        \/ Pushes(c) /\ commit' = SetCommitUndoReady(CommitComposition(c))
    BY <1>1, <1>4
  <2> HIDE DEF c
  <2>5. /\ Bounded(commit')
        /\ commit'.state /= "Idle" => commit'.stack /= <<>>
    BY <2>2, <2>4, CommitOps
  <2>6. ~Composing'
    BY <2>3, ShowsNothing DEF Composing, Word
  <2>7. QED  BY <1>3, <2>3, <2>5, <2>6, EmptyTypes, Kept
<1>5. CASE ~Composing
  <2>1. commit' = c /\ engine' = engine /\ prev' = prev
    BY <1>1, <1>5
  <2> HIDE DEF c
  <2>2. ~Composing'
    BY <1>5, <2>1 DEF Composing, Word
  <2>3. QED  BY <1>2, <1>3, <2>1, <2>2, Kept
<1>6. QED  BY <1>4, <1>5

LEMMA OtherStep ==
  ASSUME EngineOK, Inv, OtherKey
  PROVE  Inv'
<1>1. PICK recent \in BOOLEAN :
        LET c == Passed(Opened("other"), "other", recent) IN
        IF Composing THEN commit' = CommitComposition(c) /\ ClearWord
        ELSE commit' = c /\ UNCHANGED <<engine, prev>>
  BY DEF OtherKey
<1> DEFINE c == Passed(Opened("other"), "other", recent)
<1>2. /\ Bounded(c)
      /\ c.state /= "Idle" => c.stack /= <<>> /\ ~Composing
      /\ off => c.state = "Idle" /\ c.stack = <<>>
  BY OpenedOK, PassedOK
<1>3. off' = off /\ WordTypeOK /\ (off => ~Composing)
  BY DEF OtherKey, Inv, OffStateEmpty
<1>4. CASE Composing
  <2>1. c.state = "Idle"
    BY <1>2, <1>4
  <2>2. Bounded(CommitComposition(c)) /\ CommitComposition(c).state = "Idle"
    BY <1>2, <1>3, <2>1, CommitWord
  <2>3. engine' = <<>> /\ prev' = <<>> /\ commit' = CommitComposition(c)
    BY <1>1, <1>4 DEF ClearWord
  <2>4. off' = FALSE
    BY <1>3, <1>4 DEF WordTypeOK
  <2> HIDE DEF c
  <2>5. QED  BY <2>2, <2>3, <2>4, EmptyTypes, Kept
<1>5. CASE ~Composing
  <2>1. commit' = c /\ engine' = engine /\ prev' = prev
    BY <1>1, <1>5
  <2>2. ~Composing'
    BY <1>5, <2>1 DEF Composing, Word
  <2> HIDE DEF c
  <2>3. QED
    BY <1>2, <1>3, <2>1, <2>2
    DEF Inv, WordTypeOK, WindowHasWord, OffStateEmpty, Bounded
<1>6. QED  BY <1>4, <1>5

LEMMA EscStep ==
  ASSUME EngineOK, Inv, EscOnWord \/ EscOnCommitted \/ EscPasses
  PROVE  Inv'
<1>1. Bounded(commit) /\ WordTypeOK
  BY DEF Inv, WordTypeOK, Bounded
<1>2. Closed(Cancel(commit)) /\ Cancel(commit).stack = <<>>
  BY <1>1, CommitOps
<1>3. CASE EscOnWord
  <2>1. engine' = <<>> /\ prev' = prev /\ commit' = commit /\ off' = off
    BY <1>3 DEF EscOnWord
  <2>2. ~Composing'
    BY <2>1, ShowsNothing DEF Composing, Word
  <2>3. QED
    BY <1>1, <2>1, <2>2, EmptyTypes
    DEF Inv, WordTypeOK, WindowHasWord, OffStateEmpty
<1>4. CASE EscOnCommitted
  <2>1. engine' = engine /\ prev' = prev /\ commit' = Cancel(commit)
        /\ off' = off
    BY <1>4 DEF EscOnCommitted
  <2>2. off' = FALSE
    BY <1>4, <2>1 DEF EscOnCommitted, Inv, OffStateEmpty, WordTypeOK
  <2>3. QED  BY <1>1, <1>2, <2>1, <2>2, Kept DEF Closed, WordTypeOK
<1>5. CASE EscPasses
  <2>1. engine' = engine /\ prev' = prev /\ off' = FALSE
        /\ (commit' = Cancel(commit) \/ commit' = commit)
    BY <1>5 DEF EscPasses
  <2>2. ~Composing => ~Composing'
    BY <2>1 DEF Composing, Word
  <2>3. QED
    BY <1>1, <1>2, <2>1, <2>2, Kept
    DEF Closed, WordTypeOK, Inv, WindowHasWord
<1>6. QED  BY <1>3, <1>4, <1>5

LEMMA ResetStep ==
  ASSUME EngineOK, Inv, NEW key, ResetComposition(key)
  PROVE  Inv'
<1>1. off' = off
  BY DEF ResetComposition
<1>2. CASE off /\ key = "shortcut"
  <2>1. commit' = Opened(key) /\ engine' = engine /\ prev' = prev
    BY <1>2 DEF ResetComposition
  <2>2. Bounded(commit') /\ commit'.state = "Idle" /\ commit'.stack = <<>>
    BY <1>2, <2>1, OpenedOK
  <2>3. ~Composing'
    BY <1>2, <2>1 DEF Inv, OffStateEmpty, Composing, Word
  <2>4. QED
    BY <1>1, <2>1, <2>2, <2>3
    DEF Inv, WordTypeOK, WindowHasWord, OffStateEmpty, Bounded
<1>3. CASE ~(off /\ key = "shortcut")
  <2> DEFINE c == Cancel(commit)
  <2>1. Closed(c) /\ c.stack = <<>>
    BY CommitOps DEF Inv, WordTypeOK, Bounded
  <2>2. commit' = [c EXCEPT !.history = <<>>] /\ engine' = <<>>
        /\ prev' = <<>>
    BY <1>3 DEF ResetComposition, ClearWord
  <2> HIDE DEF c
  <2>3. Closed(commit') /\ commit'.stack = <<>>
    BY <2>1, <2>2, EmptyTypes DEF Closed, Bounded, Commits
  <2>4. ~Composing'
    BY <2>2, ShowsNothing DEF Composing, Word
  <2>5. QED
    BY <1>1, <2>2, <2>3, <2>4, EmptyTypes
    DEF Inv, WordTypeOK, WindowHasWord, OffStateEmpty, Closed, Bounded
<1>4. QED  BY <1>2, <1>3

LEMMA ToggleStep ==
  ASSUME EngineOK, Inv, ToggleEnabled
  PROVE  Inv'
<1> DEFINE c == IF Composing THEN CommitComposition(commit) ELSE commit
<1>1. Bounded(c)
  BY CommitWord DEF Inv, WordTypeOK, Bounded
<1>2. Closed(Cancel(c)) /\ Cancel(c).stack = <<>>
  BY <1>1, CommitOps
<1>3. commit' = Cancel(c) /\ off' = ~off
  BY DEF ToggleEnabled
<1>4. /\ engine' \in Seq(Strokes) /\ prev' \in Seq(Chars)
      /\ ~Composing'
  <2>1. CASE Composing
    BY <2>1, EmptyTypes, ShowsNothing
    DEF ToggleEnabled, ClearWord, Composing, Word
  <2>2. CASE ~Composing
    BY <2>2 DEF ToggleEnabled, Composing, Word, Inv, WordTypeOK
  <2>3. QED  BY <2>1, <2>2
<1> HIDE DEF c
<1>5. QED
  BY <1>2, <1>3, <1>4
  DEF Inv, WordTypeOK, WindowHasWord, OffStateEmpty, Closed, Bounded

LEMMA QuietStep ==
  ASSUME Inv, Wait \/ Deliver \/ UNCHANGED vars
  PROVE  Inv'
<1>1. engine' = engine /\ prev' = prev /\ off' = off
  BY DEF Wait, Deliver, vars
<1>2. \/ commit' = commit
      \/ commit.state /= "Idle" /\ commit' = [commit EXCEPT !.old = TRUE]
  BY DEF Wait, Deliver, vars
<1>3. /\ commit' \in Commits /\ commit'.stack = commit.stack
      /\ commit'.state = commit.state
  BY <1>2 DEF Inv, WordTypeOK, Commits
<1>4. Composing' = Composing
  BY <1>1 DEF Composing, Word
<1>5. QED
  BY <1>1, <1>3, <1>4 DEF Inv, WordTypeOK, WindowHasWord, OffStateEmpty

LEMMA NextInv == EngineOK /\ Inv /\ [Next]_vars => Inv'
<1> SUFFICES ASSUME EngineOK, Inv, [Next]_vars PROVE Inv'
  OBVIOUS
<1>1. ASSUME NEW key \in Letters \cup Tones,
             TypeOff(key) \/ TypeLetter(key) \/ ReplayWithTone(key)
      PROVE  Inv'
  BY <1>1, LetterStep
<1>2. CASE Backspace
  BY <1>2, BackspaceStep
<1>3. ASSUME NEW key \in Triggers, CommitTrigger(key) PROVE Inv'
  BY <1>3, TriggerStep
<1>4. CASE OtherKey
  BY <1>4, OtherStep
<1>5. CASE EscOnWord \/ EscOnCommitted \/ EscPasses
  BY <1>5, EscStep
<1>6. ASSUME NEW key \in {"shortcut", "click"}, ResetComposition(key)
      PROVE  Inv'
  BY <1>6, ResetStep
<1>7. CASE ToggleEnabled
  BY <1>7, ToggleStep
<1>8. CASE Wait \/ Deliver \/ UNCHANGED vars
  BY <1>8, QuietStep
<1>9. QED
  BY <1>1, <1>2, <1>3, <1>4, <1>5, <1>6, <1>7, <1>8 DEF Next

LEMMA SpecInv == EngineOK => (Spec => []Inv)
<1> SUFFICES ASSUME EngineOK PROVE Spec => []Inv
  OBVIOUS
<1>1. Init => Inv
  BY InitInv
<1>2. Inv /\ [Next]_vars => Inv'
  BY NextInv
<1>3. QED  BY <1>1, <1>2, PTL DEF Spec

-----------------------------------------------------------------------------
LeftOK == left \in [keys : 0 .. MaxKeys, special : 0 .. MaxSpecial]

\* Every key but text, backspace and space is paid for.
LEMMA PressedOK ==
  ASSUME LeftOK, NEW special \in BOOLEAN, Pressed(special)
  PROVE  LeftOK' /\ (special => left'.special /= left.special)
<1> DEFINE more == left.special - (IF special THEN 1 ELSE 0)
<1>1. /\ left.keys \in 0 .. MaxKeys /\ left.special \in 0 .. MaxSpecial
  BY DEF LeftOK
<1>2. /\ left.keys - 1 \in 0 .. MaxKeys /\ more \in 0 .. MaxSpecial
      /\ special => more /= left.special
  BY <1>1, BoundsOK DEF Pressed
<1>3. left' = [keys |-> left.keys - 1, special |-> more]
  BY DEF Pressed
<1> HIDE DEF more
<1>4. QED  BY <1>2, <1>3 DEF LeftOK

LEMMA NextLeft == LeftOK /\ [Next]_vars => LeftOK'
<1> SUFFICES ASSUME LeftOK, [Next]_vars PROVE LeftOK'
  OBVIOUS
<1>1. CASE \E special \in BOOLEAN : Pressed(special)
  BY <1>1, PressedOK
<1>2. CASE Wait
  <2>1. left.special - 1 \in 0 .. MaxSpecial
    BY <1>2, BoundsOK DEF Wait, LeftOK
  <2>2. QED  BY <1>2, <2>1 DEF Wait, LeftOK
<1>3. CASE UNCHANGED left
  BY <1>3 DEF LeftOK
<1>4. QED
  BY <1>1, <1>2, <1>3
  DEF Next, TypeOff, TypeLetter, ReplayWithTone, Backspace, CommitTrigger,
      OtherKey, EscOnWord, EscOnCommitted, EscPasses, ResetComposition,
      ToggleEnabled, Deliver, vars

\* What is typed into a word whose edits are in flight is sent behind them.
LEMMA StepInOrder ==
  ASSUME Inv, LeftOK, [Next]_vars, left'.keys < left.keys,
         left'.special = left.special, Composing, InFlight
  PROVE  text' = text
<1>1. ~off /\ commit.state = "Idle"
  BY DEF Inv, OffStateEmpty, WindowHasWord
<1>2. ASSUME NEW key, NEW keys, NEW shown, NEW c, Compose(key, keys, shown, c)
      PROVE  text' = text
  BY <1>2 DEF Compose, Send
<1>3. ASSUME NEW keys, NEW shown, NEW c, HandleBackspace(keys, shown, c)
      PROVE  text' = text
  BY <1>3 DEF HandleBackspace, Send
<1>4. ASSUME NEW key \in Letters \cup Tones,
             TypeOff(key) \/ TypeLetter(key) \/ ReplayWithTone(key)
      PROVE  text' = text
  BY <1>1, <1>2, <1>4 DEF TypeOff, TypeLetter, ReplayWithTone
<1>5. CASE Backspace
  <2>1. Opened("back").state = "Idle"
    BY <1>1, OpenedOK
  <2>2. CASE BackspaceInWindow
    BY <2>1, <2>2 DEF BackspaceInWindow, Unsettled
  <2>3. CASE BackspaceOutside
    BY <1>3, <2>3 DEF BackspaceOutside
  <2>4. QED  BY <1>5, <2>2, <2>3 DEF Backspace
<1>6. ASSUME NEW key \in Triggers, CommitTrigger(key) PROVE text' = text
  BY <1>6 DEF CommitTrigger, SendOrPass, Send
<1>7. ~Pressed(TRUE)
  BY PressedOK
<1>8. CASE Wait \/ Deliver \/ UNCHANGED vars
  <2>1. left'.keys = left.keys
    BY <1>8 DEF Wait, Deliver, vars, LeftOK
  <2>2. QED  BY <2>1 DEF LeftOK
<1>9. QED
  BY <1>4, <1>5, <1>6, <1>7, <1>8
  DEF Next, OtherKey, EscOnWord, EscOnCommitted, EscPasses, ResetComposition,
      ToggleEnabled

LEMMA SpecLeft == Spec => []LeftOK
<1>1. Init => LeftOK
  BY BoundsOK DEF Init, LeftOK
<1>2. QED  BY <1>1, NextLeft, PTL DEF Spec

-----------------------------------------------------------------------------
\* The word, its keystrokes and the stack are well formed, and the stack
\* never holds more than kMaxStack words (CommitState::PushEntry).
THEOREM WordTypeCorrect == EngineOK => (Spec => []WordTypeOK)
<1>1. Inv => WordTypeOK
  BY DEF Inv
<1>2. QED  BY <1>1, SpecInv, PTL

\* A window of commit-undo is only open on a word that can be replayed, and
\* while no other is composed: ReplayCommittedChars never meets an empty
\* stack, nor an engine that holds something (HandleCommitUndoFsm).
THEOREM WindowAlwaysHasWord == EngineOK => (Spec => []WindowHasWord)
<1>1. Inv => WindowHasWord
  BY DEF Inv
<1>2. QED  BY <1>1, SpecInv, PTL

\* While the engine is switched off there is nothing to compose or to replay
\* (HandlePreDispatch, HandleBackspace).
THEOREM OffAlwaysEmpty == EngineOK => (Spec => []OffStateEmpty)
<1>1. Inv => OffStateEmpty
  BY DEF Inv
<1>2. QED  BY <1>1, SpecInv, PTL

\* A key that types into, shortens or ends a word waits behind the edits of
\* that word in flight (HandleAlphaKey, HandleBackspace, DispatchKeyAction).
THEOREM OrderAlwaysKept == EngineOK => (Spec => KeysKeepOrder)
<1> SUFFICES ASSUME EngineOK PROVE Spec => KeysKeepOrder
  OBVIOUS
<1>1. Inv /\ LeftOK /\ [Next]_vars
        => [left'.keys < left.keys /\ left'.special = left.special
              /\ Composing /\ InFlight => text' = text]_vars
  BY StepInOrder
<1>2. QED  BY <1>1, SpecInv, SpecLeft, PTL DEF Spec, KeysKeepOrder

-----------------------------------------------------------------------------
(* What the text becomes.                                                 *)

\* The text and the edits in flight.
TextOK == text \in Seq(Chars) /\ queue \in Seq(Edits)

LEMMA KeysAreEdits ==
  /\ Letters \cup Tones \subseteq Chars /\ Letters \cup Tones \subseteq Edits
  /\ Triggers \cup {"back", "other"} \subseteq Edits
  /\ Chars \subseteq Edits
BY KeysOK DEF Edits, Triggers

LEMMA TypedEdits == Seq(Chars) \subseteq Seq(Edits)
BY DEF Edits

LEMMA FinalType == TextOK => Final \in Seq(Chars)
BY ArrivedType DEF Final, TextOK

LEMMA Sent ==
  ASSUME TextOK, NEW edits \in Seq(Edits), Send(edits)
  PROVE  /\ TextOK' /\ text' = text
         /\ Final' = Arrived(Final, edits)
<1>1. queue' = queue \o edits /\ text' = text
  BY DEF Send
<1>2. queue \in Seq(Edits) /\ text \in Seq(Chars)
  BY DEF TextOK
<1>3. Final' = Arrived(text', queue') /\ Final = Arrived(text, queue)
  BY DEF Final
<1>4. Arrived(text, queue \o edits) = Arrived(Arrived(text, queue), edits)
  BY <1>2, ArrivedConcat
<1>5. queue \o edits \in Seq(Edits)
  BY <1>2
<1>6. QED  BY <1>1, <1>2, <1>3, <1>4, <1>5 DEF TextOK

LEMMA PassLands ==
  ASSUME TextOK, NEW key \in Edits, Pass(key)
  PROVE  /\ TextOK' /\ text' = Apply(text, key) /\ queue' = queue
         /\ ~InFlight => Final' = Apply(Final, key) /\ queue' = <<>>
<1>1. text' = Apply(text, key) /\ queue' = queue
  BY DEF Pass
<1>2. TextOK'
  BY <1>1, ApplyType DEF TextOK
<1>3. ASSUME ~InFlight PROVE Final' = Apply(Final, key) /\ queue' = <<>>
  <2>1. queue = <<>>
    BY <1>3 DEF InFlight
  <2>2. Final' = Arrived(text', queue') /\ Final = Arrived(text, queue)
    BY DEF Final
  <2>3. QED  BY <1>1, <2>1, <2>2, ArrivedNone
<1>4. QED  BY <1>1, <1>2, <1>3

LEMMA SentOrPassed ==
  ASSUME TextOK, NEW key \in Edits, NEW edits \in Seq(Edits),
         SendOrPass(key, edits)
  PROVE  /\ TextOK'
         /\ Final' = Apply(Arrived(Final, edits), key)
         /\ text' = text \/ queue' = <<>>
<1>1. CASE InFlight \/ edits /= <<>>
  <2>1. Send(edits \o <<key>>)
    BY <1>1 DEF SendOrPass
  <2>2. edits \o <<key>> \in Seq(Edits) /\ edits \o <<key>> = Append(edits, key)
    OBVIOUS
  <2>3. Arrived(Final, Append(edits, key)) = Apply(Arrived(Final, edits), key)
    BY ArrivedSnoc
  <2>4. QED  BY <2>1, <2>2, <2>3, Sent
<1>2. CASE ~InFlight /\ edits = <<>>
  <2>1. Pass(key)
    BY <1>2 DEF SendOrPass
  <2>2. QED  BY <1>2, <2>1, PassLands, ArrivedNone
<1>3. QED  BY <1>1, <1>2

LEMMA DiffType ==
  ASSUME NEW a \in Seq(Chars), NEW b \in Seq(Chars)
  PROVE  Diff(a, b) \in Seq(Edits)
BY EmptyTypes, DiffTurns

LEMMA ComposeText ==
  ASSUME EngineOK, TextOK, NEW key \in Letters \cup Tones,
         NEW keys \in Seq(Strokes), NEW shown \in Seq(Chars), NEW c,
         Compose(key, keys, shown, c)
  PROVE  TextOK'
<1> DEFINE old == IF Show(keys) = <<>> THEN <<>> ELSE shown
           new == Show(Append(keys, key))
<1>1. key \in Chars /\ key \in Edits /\ key \in Strokes
  BY KeysAreEdits DEF Strokes
<1>2. old \in Seq(Chars) /\ new \in Seq(Chars)
  <2>1. Append(keys, key) \in Seq(Strokes)
    BY <1>1
  <2>2. QED  BY <2>1, EmptyTypes DEF EngineOK
<1>3. \/ Send(<<key>> \o Diff(Append(old, key), new))
      \/ Send(Diff(old, new))
      \/ Pass(key)
  BY DEF Compose
<1> HIDE DEF old, new
<1>4. Append(old, key) \in Seq(Chars) /\ <<key>> \in Seq(Edits)
  BY <1>1, <1>2
<1>5. Diff(Append(old, key), new) \in Seq(Edits) /\ Diff(old, new) \in Seq(Edits)
  BY <1>2, <1>4, DiffType
<1>6. <<key>> \o Diff(Append(old, key), new) \in Seq(Edits)
  BY <1>4, <1>5
<1>7. QED  BY <1>1, <1>3, <1>5, <1>6, Sent, PassLands

LEMMA BackspaceText ==
  ASSUME EngineOK, TextOK, NEW keys \in Seq(Strokes), NEW shown \in Seq(Chars),
         NEW c, HandleBackspace(keys, shown, c)
  PROVE  TextOK'
<1>1. Append(keys, "back") \in Seq(Strokes)
  BY DEF Strokes
<1>2. Show(Append(keys, "back")) \in Seq(Chars)
  BY <1>1 DEF EngineOK
<1>3. Send(Diff(shown, Show(Append(keys, "back"))))
  BY DEF HandleBackspace
<1>4. QED  BY <1>2, <1>3, DiffType, Sent

LEMMA RestoreType ==
  ASSUME EngineOK, WordTypeOK
  PROVE  RestoreEdits \in Seq(Edits)
<1>1. Committed(engine) \in Seq(Chars) /\ prev \in Seq(Chars)
  BY DEF EngineOK, WordTypeOK
<1>2. Diff(prev, Committed(engine)) \in Seq(Edits)
  BY <1>1, DiffType
<1>3. <<>> \in Seq(Edits)
  OBVIOUS
<1>4. QED  BY <1>2, <1>3 DEF RestoreEdits

\* The word on top of the stack, as it is replayed.
LEMMA TopTypes ==
  ASSUME Inv, commit.stack /= <<>>
  PROVE  /\ engine \o Last(commit.stack).keys \in Seq(Strokes)
         /\ Last(commit.stack).keys \in Seq(Strokes)
         /\ Last(commit.stack).text \in Seq(Chars)
         /\ Last(commit.stack).raw \in Seq(Chars)
<1>1. Last(commit.stack) \in Entries
  BY TakeTop DEF Inv, WordTypeOK, Bounded
<1>2. /\ Last(commit.stack).keys \in Seq(Strokes)
      /\ Last(commit.stack).text \in Seq(Chars)
      /\ Last(commit.stack).raw \in Seq(Chars)
  BY <1>1 DEF Entries
<1>3. engine \in Seq(Strokes)
  BY DEF Inv, WordTypeOK
<1>4. QED  BY <1>2, <1>3

LEMMA NextText == EngineOK /\ Inv /\ TextOK /\ [Next]_vars => TextOK'
<1> SUFFICES ASSUME EngineOK, Inv, TextOK, [Next]_vars PROVE TextOK'
  OBVIOUS
<1>1. /\ WordTypeOK /\ engine \in Seq(Strokes) /\ prev \in Seq(Chars)
  BY DEF Inv, WordTypeOK
<1>2. \A key \in Edits : Pass(key) => TextOK'
  BY PassLands
<1>3. \A edits \in Seq(Edits) : Send(edits) => TextOK'
  BY Sent
<1>4. \A key \in Edits : \A edits \in Seq(Edits) :
        SendOrPass(key, edits) => TextOK'
  BY SentOrPassed
<1>5. commit.state /= "Idle" => commit.stack /= <<>>
  BY DEF Inv, WindowHasWord
<1>6. ASSUME NEW key \in Letters \cup Tones,
             TypeOff(key) \/ TypeLetter(key) \/ ReplayWithTone(key)
      PROVE  TextOK'
  <2>1. CASE TypeOff(key)
    BY <1>2, <2>1, KeysAreEdits DEF TypeOff
  <2>2. CASE TypeLetter(key)
    <3>1. PICK c : Compose(key, engine, prev, c)
      BY <2>2 DEF TypeLetter
    <3>2. QED  BY <1>1, <3>1, ComposeText
  <2>3. CASE ReplayWithTone(key)
    <3>1. commit.state = "Primed"
          /\ Compose(key, engine \o Last(commit.stack).keys,
                     Last(commit.stack).text, Replayed(commit))
      BY <2>3 DEF ReplayWithTone
    <3>2. QED  BY <1>5, <3>1, TopTypes, ComposeText
  <2>4. QED  BY <1>6, <2>1, <2>2, <2>3
<1>7. CASE Backspace
  <2>1. <<>> \in Seq(Edits) /\ "back" \in Edits /\ <<"back">> \in Seq(Edits)
    BY DEF Edits
  <2>2. CASE BackspaceInWindow
    <3>1. CASE Pass("back") \/ SendOrPass("back", <<>>) \/ Send(<<"back">>)
      BY <1>2, <1>3, <1>4, <2>1, <3>1
    <3>2. CASE LET c == Opened("back") IN
               /\ c.state = "Primed"
               /\ HandleBackspace(engine \o Last(c.stack).keys,
                                  Last(c.stack).text, Replayed(c))
      <4>1. Opened("back") = commit /\ commit.stack /= <<>>
        BY <3>2, OpenedOK
      <4>2. QED  BY <3>2, <4>1, TopTypes, BackspaceText
    <3>3. QED  BY <2>2, <3>1, <3>2 DEF BackspaceInWindow
  <2>3. CASE BackspaceOutside
    <3>1. CASE Pass("back") \/ SendOrPass("back", <<>>)
      BY <1>2, <1>4, <2>1, <3>1
    <3>2. CASE HandleBackspace(engine, prev, Opened("back"))
      BY <1>1, <3>2, BackspaceText
    <3>3. QED  BY <2>3, <3>1, <3>2 DEF BackspaceOutside
  <2>4. QED  BY <1>7, <2>2, <2>3 DEF Backspace
<1>8. ASSUME NEW key \in Triggers, CommitTrigger(key) PROVE TextOK'
  <2>1. SendOrPass(key, RestoreEdits) \/ Pass(key)
    BY <1>8 DEF CommitTrigger
  <2>2. QED  BY <1>1, <1>2, <1>4, <2>1, RestoreType, KeysAreEdits
<1>9. CASE OtherKey
  <2>1. SendOrPass("other", RestoreEdits) \/ Pass("other")
    BY <1>9 DEF OtherKey
  <2>2. QED  BY <1>1, <1>2, <1>4, <2>1, RestoreType, KeysAreEdits
<1>10. CASE EscOnWord
  <2>1. Send(Backs(Len(Word)) \o Raw(engine))
    BY <1>10 DEF EscOnWord
  <2>2. Raw(engine) \in Seq(Chars) /\ Len(Word) \in Nat
    BY <1>1 DEF EngineOK, Word
  <2>3. Backs(Len(Word)) \in Seq(Edits) /\ Raw(engine) \in Seq(Edits)
    BY <2>2, BacksType, TypedEdits
  <2>4. Backs(Len(Word)) \o Raw(engine) \in Seq(Edits)
    BY <2>3
  <2>5. QED  BY <1>3, <2>1, <2>4
<1>11. CASE EscOnCommitted
  <2>1. commit.state = "Primed"
        /\ Send(Backs(Len(Last(commit.stack).text)) \o Last(commit.stack).raw)
    BY <1>11 DEF EscOnCommitted
  <2>2. Last(commit.stack).raw \in Seq(Chars)
        /\ Len(Last(commit.stack).text) \in Nat
    BY <1>5, <2>1, TopTypes
  <2>3. Backs(Len(Last(commit.stack).text)) \in Seq(Edits)
        /\ Last(commit.stack).raw \in Seq(Edits)
    BY <2>2, BacksType, TypedEdits
  <2>4. Backs(Len(Last(commit.stack).text)) \o Last(commit.stack).raw
          \in Seq(Edits)
    BY <2>3
  <2>5. QED  BY <1>3, <2>1, <2>4
<1>12. CASE EscPasses
  BY <1>2, <1>12, KeysAreEdits DEF EscPasses
<1>13. ASSUME NEW key, ResetComposition(key) PROVE TextOK'
  BY <1>13, EmptyTypes DEF ResetComposition, TextOK
<1>14. CASE ToggleEnabled
  <2>1. Send(RestoreEdits) \/ UNCHANGED <<queue, text>>
    BY <1>14 DEF ToggleEnabled
  <2>2. QED  BY <1>1, <1>3, <2>1, RestoreType DEF TextOK
<1>15. CASE Deliver
  <2>1. text' = Final /\ queue' = <<>> /\ <<>> \in Seq(Edits)
    BY <1>15 DEF Deliver
  <2>2. QED  BY <2>1, FinalType DEF TextOK
<1>16. CASE Wait \/ UNCHANGED vars
  BY <1>16 DEF Wait, vars, TextOK
<1>17. QED
  BY <1>6, <1>7, <1>8, <1>9, <1>10, <1>11, <1>12, <1>13, <1>14, <1>15, <1>16
  DEF Next

-----------------------------------------------------------------------------
(* The text, the stack and the engine agree.                               *)

\* The engine that was emptied does not remember what it showed before.  The
\* pipeline's own engine does in one corner: TypingEngine!EmptiedForgets.
EmptyForgets ==
  \A h, k \in Seq(Strokes) :
    Show(h) = <<>> => /\ Show(h \o k) = Show(k)
                      /\ Committed(h \o k) = Committed(k)

\* An emptied engine shows something when it would have from the start.
EmptyStays ==
  \A h, k \in Seq(Strokes) :
    Show(h) = <<>> => (Show(h \o k) = <<>> <=> Show(k) = <<>>)

\* The history is what the engine has taken, after keys that left nothing.
SameWord(history, keys) ==
  \E g \in Seq(Strokes) : keys = g \o history /\ Show(g) = <<>>

\* The triggers between the last word on the stack and the caret, or the word
\* that is composed.
After(c) ==
  CASE c.state = "Idle"   -> 1 + c.leading
    [] c.state = "Ready"  -> 1 + c.extra
    [] c.state = "Primed" -> 0

EntriesIn(s) ==
  \A i \in 1 .. Len(s) :
    /\ Show(s[i].keys) /= <<>>
    /\ EmptyForgets => s[i].text \in {Show(s[i].keys), Committed(s[i].keys)}

\* The text ends in the words on the stack and the word that is shown.
Base(c, keys, shown, final) ==
  /\ \E p \in Seq(Chars) : final = p \o shown /\ Lies(p, c.stack, After(c))
  /\ SameWord(c.history, keys)
  /\ EntriesIn(c.stack)

LEMMA StrokesAppend ==
  \A s, t \in Seq(Strokes) : \A e \in Strokes :
    Append(s \o t, e) = s \o Append(t, e)
OBVIOUS

LEMMA ForgetsStays == EmptyForgets => EmptyStays
BY DEF EmptyForgets, EmptyStays

LEMMA SameTyped ==
  ASSUME NEW x \in Seq(Strokes), NEW y, SameWord(x, y), NEW e \in Strokes
  PROVE  SameWord(Append(x, e), Append(y, e))
<1>1. PICK g \in Seq(Strokes) : y = g \o x /\ Show(g) = <<>>
  BY DEF SameWord
<1>2. Append(g \o x, e) = g \o Append(x, e)
  BY StrokesAppend
<1>3. QED  BY <1>1, <1>2 DEF SameWord

LEMMA SameNothing == SameWord(<<>>, <<>>)
<1>1. <<>> \in Seq(Strokes) /\ <<>> = <<>> \o <<>>
  OBVIOUS
<1>2. QED  BY <1>1, ShowsNothing DEF SameWord

LEMMA SameShows ==
  ASSUME EmptyStays, NEW x \in Seq(Strokes), NEW y, SameWord(x, y)
  PROVE  /\ Show(y) = <<>> <=> Show(x) = <<>>
         /\ EmptyForgets => Show(y) = Show(x) /\ Committed(y) = Committed(x)
<1>1. PICK g \in Seq(Strokes) : y = g \o x /\ Show(g) = <<>>
  BY DEF SameWord
<1>2. QED  BY <1>1 DEF EmptyStays, EmptyForgets

LEMMA AfterNat == ASSUME NEW c \in Commits PROVE After(c) \in Nat
<1>1. \A x \in 0 .. 255 : 1 + x \in Nat
  OBVIOUS
<1>2. /\ c.leading \in 0 .. 255 /\ c.extra \in 0 .. 255
      /\ c.state \in {"Idle", "Ready", "Primed"}
  BY DEF Commits, MaxTriggers
<1>3. CASE c.state = "Idle"
  BY <1>1, <1>2, <1>3 DEF After
<1>4. CASE c.state = "Ready"
  BY <1>1, <1>2, <1>4 DEF After
<1>5. CASE c.state = "Primed"
  BY <1>5 DEF After
<1>6. QED  BY <1>2, <1>3, <1>4, <1>5

\* Without a stack only the word that is shown matters.
LEMMA BaseNoStack ==
  ASSUME NEW c, NEW d \in Commits, NEW keys, NEW shown, NEW final,
         Base(c, keys, shown, final), d.stack = <<>>, d.history = c.history
  PROVE  Base(d, keys, shown, final)
<1>1. PICK p \in Seq(Chars) : final = p \o shown
  BY DEF Base
<1>2. Lies(p, d.stack, After(d))
  BY LiesNone, AfterNat
<1>3. EntriesIn(d.stack)
  BY DEF EntriesIn
<1>4. QED  BY <1>1, <1>2, <1>3 DEF Base

LEMMA BaseNothing ==
  ASSUME NEW d \in Commits, NEW keys, NEW final \in Seq(Chars),
         d.stack = <<>>, SameWord(d.history, keys)
  PROVE  Base(d, keys, <<>>, final)
<1>1. final = final \o <<>>
  OBVIOUS
<1>2. Lies(final, d.stack, After(d))
  BY LiesNone, AfterNat
<1>3. EntriesIn(d.stack)
  BY DEF EntriesIn
<1>4. QED  BY <1>1, <1>2, <1>3 DEF Base

\* The same stack, as far behind the caret as before.
LEMMA BaseSameStack ==
  ASSUME NEW c, NEW d, NEW keys, NEW shown, NEW final,
         Base(c, keys, shown, final), d.stack = c.stack,
         After(d) = After(c), d.history = c.history
  PROVE  Base(d, keys, shown, final)
BY DEF Base

\* A letter is typed into the word.
LEMMA ComposeBase ==
  ASSUME EngineOK, TextOK, NEW key \in Letters \cup Tones,
         NEW keys \in Seq(Strokes), NEW shown \in Seq(Chars), NEW c, Closed(c),
         Base(c, keys, IF Show(keys) = <<>> THEN <<>> ELSE shown, Final),
         Compose(key, keys, shown, c), ~(InFlight /\ text' /= text)
  PROVE  /\ Base(commit', engine', prev', Final') /\ prev' = Word'
         /\ commit'.stack = c.stack /\ commit'.leading = c.leading
         /\ commit'.state = "Idle"
         /\ text' = text \/ queue' = <<>>
<1> DEFINE old == IF Show(keys) = <<>> THEN <<>> ELSE shown
           new == Show(Append(keys, key))
<1>1. key \in Chars /\ key \in Edits /\ key \in Strokes
  BY KeysAreEdits DEF Strokes
<1>2. old \in Seq(Chars) /\ new \in Seq(Chars)
  <2>1. Append(keys, key) \in Seq(Strokes)
    BY <1>1
  <2>2. QED  BY <2>1, EmptyTypes DEF EngineOK
<1>3. PICK p \in Seq(Chars) : Final = p \o old /\ Lies(p, c.stack, After(c))
  BY DEF Base
<1>4. SameWord(c.history, keys)
  BY DEF Base
<1>5. /\ engine' = Append(keys, key) /\ prev' = new
      /\ commit' = [c EXCEPT !.history = Append(c.history, key)]
  BY DEF Compose
<1>6. \/ Send(<<key>> \o Diff(Append(old, key), new))
      \/ InFlight /\ Send(Diff(old, new))
      \/ new = Append(old, key) /\ ~InFlight /\ Pass(key)
  BY DEF Compose
<1>7. c.history \in Seq(Strokes) /\ c.state = "Idle" /\ c \in Commits
  BY DEF Closed, Bounded, Commits
<1>8. /\ commit'.stack = c.stack /\ commit'.leading = c.leading
      /\ commit'.state = "Idle"
      /\ commit'.history = Append(c.history, key)
  BY <1>5, <1>7 DEF Commits
<1>9. After(commit') = After(c)
  BY <1>7, <1>8 DEF After
<1>10. SameWord(commit'.history, engine')
  BY <1>1, <1>4, <1>5, <1>7, <1>8, SameTyped
<1>11. prev' = Word'
  BY <1>5 DEF Word
<1>12. EntriesIn(c.stack)
  BY DEF Base
<1> HIDE DEF old, new
<1>13. Append(old, key) \in Seq(Chars) /\ <<key>> \in Seq(Edits)
  BY <1>1, <1>2
<1>14. Append(p \o old, key) = p \o Append(old, key)
  BY <1>1, <1>2, TextAppend
<1>15. Apply(Final, key) = p \o Append(old, key)
  BY <1>1, <1>3, <1>14, KeysOK DEF Apply
<1>16. CASE Send(<<key>> \o Diff(Append(old, key), new))
  <2> DEFINE d == Diff(Append(old, key), new)
  <2>1. d \in Seq(Edits) /\ Arrived(p \o Append(old, key), d) = p \o new
    BY <1>2, <1>13, DiffTurns
  <2> HIDE DEF d
  <2>2. <<key>> \o d \in Seq(Edits)
    BY <1>13, <2>1
  <2>3. Final' = Arrived(Final, <<key>> \o d) /\ text' = text
    BY <1>16, <2>2, Sent DEF d
  <2>4. Arrived(Final, <<key>> \o d) = Arrived(Arrived(Final, <<key>>), d)
    BY <1>13, <2>1, ArrivedConcat
  <2>5. Arrived(Final, <<key>>) = Apply(Final, key)
    <3>1. <<key>> = Append(<<>>, key) /\ <<>> \in Seq(Edits)
      OBVIOUS
    <3>2. Arrived(Final, Append(<<>>, key)) = Apply(Arrived(Final, <<>>), key)
      BY ONLY <1>1, <3>1, ArrivedSnoc
    <3>3. Arrived(Final, <<>>) = Final
      BY ONLY ArrivedNone
    <3>4. QED  BY ONLY <3>1, <3>2, <3>3
  <2>6. Final' = p \o new
    BY <1>15, <2>1, <2>3, <2>4, <2>5
  <2>7. QED
    BY <1>3, <1>5, <1>8, <1>9, <1>10, <1>11, <1>12, <2>3, <2>6 DEF Base
<1>17. CASE InFlight /\ Send(Diff(old, new))
  <2>1. Diff(old, new) \in Seq(Edits)
        /\ Arrived(p \o old, Diff(old, new)) = p \o new
    BY <1>2, DiffTurns
  <2>2. Final' = p \o new /\ text' = text
    BY <1>3, <1>17, <2>1, Sent
  <2>3. QED
    BY <1>3, <1>5, <1>8, <1>9, <1>10, <1>11, <1>12, <2>2 DEF Base
<1>18. CASE new = Append(old, key) /\ ~InFlight /\ Pass(key)
  <2>1. Final' = p \o new /\ queue' = <<>>
    BY <1>1, <1>15, <1>18, PassLands
  <2>2. QED
    BY <1>3, <1>5, <1>8, <1>9, <1>10, <1>11, <1>12, <2>1 DEF Base
<1>19. QED  BY <1>6, <1>16, <1>17, <1>18

\* A character of the word is deleted, or its last one.
LEMMA BackspaceBase ==
  ASSUME EngineOK, TextOK, NEW keys \in Seq(Strokes),
         NEW shown \in Seq(Chars), NEW c, Closed(c),
         Base(c, keys, shown, Final), HandleBackspace(keys, shown, c)
  PROVE  /\ Base(commit', engine', prev', Final') /\ prev' = Word'
         /\ commit'.stack = c.stack
         /\ \/ commit'.state = "Idle" /\ Composing' /\ commit'.leading = c.leading
            \/ commit'.state = "Idle" /\ c.stack = <<>>
            \/ /\ commit'.state = "Ready" /\ commit'.extra = c.leading
               /\ commit'.leading = 0
         /\ text' = text
<1> DEFINE new == Show(Append(keys, "back"))
           marked == [c EXCEPT !.history = Append(c.history, "back")]
<1>1. Append(keys, "back") \in Seq(Strokes) /\ "back" \in Strokes
  BY DEF Strokes
<1>2. new \in Seq(Chars)
  BY <1>1 DEF EngineOK
<1>3. PICK p \in Seq(Chars) : Final = p \o shown /\ Lies(p, c.stack, After(c))
  BY DEF Base
<1>4. c.history \in Seq(Strokes) /\ c.state = "Idle" /\ c \in Commits
  BY DEF Closed, Bounded, Commits
<1>5. /\ marked.stack = c.stack /\ marked.leading = c.leading
      /\ marked.state = "Idle" /\ marked.history = Append(c.history, "back")
      /\ marked.extra = c.extra
  BY <1>4 DEF Commits
<1>6. SameWord(marked.history, Append(keys, "back"))
  <2>1. SameWord(c.history, keys)
    BY DEF Base
  <2>2. QED  BY <1>1, <1>4, <1>5, <2>1, SameTyped
<1>7. EntriesIn(c.stack)
  BY DEF Base
<1>8. Final' = p \o new /\ text' = text
  <2>1. Send(Diff(shown, new))
    BY DEF HandleBackspace
  <2>2. Diff(shown, new) \in Seq(Edits)
        /\ Arrived(p \o shown, Diff(shown, new)) = p \o new
    BY <1>2, DiffTurns
  <2>3. QED  BY <1>3, <2>1, <2>2, Sent
<1>9. /\ prev' = new /\ engine' = Append(keys, "back") /\ prev' = Word'
      /\ Composing' <=> new /= <<>>
  BY DEF HandleBackspace, Word, Composing
<1>10. \/ new /= <<>> /\ commit' = marked
       \/ c.stack = <<>> /\ commit' = marked
       \/ commit' = SetCommitUndoReady(marked)
  BY DEF HandleBackspace
<1>11. After(marked) = After(c)
  BY <1>4, <1>5 DEF After
<1>12. marked \in Commits
  <2>1. Append(c.history, "back") \in Seq(Strokes)
    BY <1>1, <1>4
  <2>2. QED  BY <1>4, <2>1 DEF Commits
<1> HIDE DEF marked, new
<1>13. CASE commit' = marked /\ (new /= <<>> \/ c.stack = <<>>)
  BY <1>3, <1>5, <1>6, <1>7, <1>8, <1>9, <1>11, <1>13 DEF Base
<1>14. CASE commit' = SetCommitUndoReady(marked)
  <2>1. /\ commit'.stack = c.stack /\ commit'.state = "Ready"
        /\ commit'.extra = c.leading /\ commit'.leading = 0
        /\ commit'.history = marked.history
    BY <1>5, <1>12, <1>14 DEF SetCommitUndoReady, Commits
  <2>2. After(commit') = After(c)
    BY <1>4, <2>1 DEF After
  <2>3. QED  BY <1>3, <1>6, <1>7, <1>8, <1>9, <2>1, <2>2 DEF Base
<1>15. QED  BY <1>10, <1>13, <1>14

\* Triggers that a backspace would pass to the application to delete.
Counted(c) ==
  \/ c.state = "Ready" /\ c.extra > 0
  \/ c.state = "Idle" /\ c.leading > 0 /\ c.stack /= <<>>
  \/ \E i \in 2 .. Len(c.stack) : c.stack[i].triggers > 0

\* The engine, the stack and the text agree.
Screen ==
  /\ ~Strayed /\ prev = Word
  /\ Base(commit, engine, prev, Final)
  /\ Counted(commit) => text /= <<>>

LEMMA TwoWords ==
  ASSUME NEW p \in Seq(Chars), NEW s \in Seq(Entries), NEW g \in Nat,
         Lies(p, s, g), Len(s) >= 2
  PROVE  p /= <<>>
<1>1. PICK at : IsLayout(Len(p), s, g, at)
  BY DEF Lies, LiesAt
<1>2. 1 \in 1 .. Len(s) /\ 1 < Len(s) /\ 2 \in 1 .. Len(s) /\ 1 + 1 = 2
  OBVIOUS
<1>3. /\ at[1] \in Nat /\ at[2] \in Nat /\ Len(p) \in Nat
      /\ at[2] <= Len(p)
      /\ at[2] = at[1] + Size(s, 1) + Gap(s, g, 1)
  <2>1. ASSUME NEW i \in 1 .. Len(s), i = 1
        PROVE  /\ at[i] \in Nat /\ at[i + 1] \in Nat /\ Len(p) \in Nat
               /\ at[i + 1] <= Len(p)
               /\ at[i + 1] = at[i] + Size(s, i) + Gap(s, g, i)
    BY <1>1, LayoutAt
  <2>2. QED  BY <1>2, <2>1
<1>4. Size(s, 1) \in Nat /\ Gap(s, g, 1) >= 1 /\ Gap(s, g, 1) \in Nat
  <2>1. Gap(s, g, 1) = 1 + s[2].triggers
    BY <1>2 DEF Gap
  <2>2. Size(s, 1) \in Nat /\ s[2].triggers \in Nat
    BY <1>2, EntryAt
  <2>3. QED  BY <2>1, <2>2
<1>5. Len(p) >= 1
  BY <1>3, <1>4
<1>6. QED  BY <1>5

LEMMA CountedThere ==
  ASSUME NEW c \in Commits, NEW p \in Seq(Chars),
         Lies(p, c.stack, After(c)), Counted(c),
         c.state /= "Idle" => c.stack /= <<>>
  PROVE  p /= <<>>
<1>1. c.stack \in Seq(Entries) /\ After(c) \in Nat
  BY AfterNat DEF Commits
<1>2. CASE c.state \in {"Ready", "Idle"} /\ c.stack /= <<>>
  <2>1. \A x \in 0 .. 255 : 1 + x > 0
    OBVIOUS
  <2>2. c.leading \in 0 .. 255 /\ c.extra \in 0 .. 255
    BY DEF Commits, MaxTriggers
  <2>3. After(c) = 1 + c.leading \/ After(c) = 1 + c.extra
    BY <1>2 DEF After
  <2>4. After(c) > 0
    BY <2>1, <2>2, <2>3
  <2>5. QED  BY <1>1, <1>2, <2>4, LiesDeleted
<1>3. CASE \E i \in 2 .. Len(c.stack) : c.stack[i].triggers > 0
  <2>1. Len(c.stack) >= 2
    BY <1>1, <1>3
  <2>2. QED  BY <1>1, <2>1, TwoWords
<1>4. QED  BY <1>2, <1>3 DEF Counted

LEMMA ScreenAgain ==
  ASSUME Inv', TextOK', ~Strayed', prev' = Word',
         Base(commit', engine', prev', Final'),
         \/ queue' = <<>>
         \/ text' = text /\ (Counted(commit') => Counted(commit)),
         Counted(commit) => text /= <<>>
  PROVE  Screen'
<1>1. ASSUME Counted(commit'), queue' = <<>> PROVE text' /= <<>>
  <2>1. Final' = text'
    BY <1>1, ArrivedNone DEF Final
  <2>2. PICK p \in Seq(Chars) :
          Final' = p \o prev' /\ Lies(p, commit'.stack, After(commit'))
    BY DEF Base
  <2>3. /\ commit' \in Commits /\ prev' \in Seq(Chars)
        /\ commit'.state /= "Idle" => commit'.stack /= <<>>
    BY DEF Inv, WordTypeOK, WindowHasWord
  <2>4. p /= <<>>
    BY <1>1, <2>2, <2>3, CountedThere
  <2>5. p \o prev' /= <<>>
    BY <2>3, <2>4
  <2>6. QED  BY <2>1, <2>2, <2>5
<1>2. Counted(commit') => text' /= <<>>
  BY <1>1
<1>3. QED  BY <1>2 DEF Screen

LEMMA ScreenNoStack ==
  ASSUME Inv', TextOK', commit'.stack = <<>>, prev' = <<>>, Word' = <<>>,
         SameWord(commit'.history, engine')
  PROVE  Screen'
<1>1. commit' \in Commits /\ commit'.state = "Idle"
  BY DEF Inv, WordTypeOK, WindowHasWord
<1>2. Final' \in Seq(Chars)
  BY ArrivedType DEF Final, TextOK
<1>3. Base(commit', engine', prev', Final')
  BY <1>1, <1>2, BaseNothing
<1>4. ~Counted(commit')
  <2>1. ~(\E i \in 2 .. Len(<<>>) : TRUE)
    OBVIOUS
  <2>2. QED  BY <1>1, <2>1 DEF Counted
<1>5. ~Strayed'
  BY DEF Strayed
<1>6. QED  BY <1>3, <1>4, <1>5 DEF Screen

\* The word is committed and pushed, and a trigger typed behind it.
LEMMA CommitBase ==
  ASSUME EngineOK, EmptyStays, WordTypeOK, TextOK, prev = Word, Composing,
         NEW c, Closed(c), Base(c, engine, prev, Final), Pushes(c),
         NEW key \in Blanks, NEW final,
         final = Apply(Arrived(Final, RestoreEdits), key)
  PROVE  LET d == SetCommitUndoReady(CommitComposition(c)) IN
         /\ Base(d, <<>>, <<>>, final) /\ d.state = "Ready"
         /\ Counted(d) => Counted(c)
<1> DEFINE e == Entry(c)
           w == e.text
           kept == IF Len(c.stack) >= MaxStack THEN Tail(c.stack) ELSE c.stack
           t == Append(kept, e)
           d == SetCommitUndoReady(CommitComposition(c))
<1>1. c \in Commits /\ c.state = "Idle" /\ c.stack \in Seq(Entries)
  BY DEF Closed, Bounded, Commits
<1>2. e \in Entries
  <2>1. Committed(engine) \in Seq(Chars) /\ Raw(engine) \in Seq(Chars)
    BY DEF EngineOK, WordTypeOK
  <2>2. QED  BY <1>1, <2>1 DEF Entry, Entries, Commits, WordTypeOK
<1>3. /\ e.triggers = c.leading /\ e.keys = c.history
      /\ w = IF Restored THEN Committed(engine) ELSE prev
  BY DEF Entry
<1>4. PICK p \in Seq(Chars) : Final = p \o prev /\ Lies(p, c.stack, After(c))
  BY DEF Base
<1>5. SameWord(c.history, engine) /\ c.history \in Seq(Strokes)
  BY DEF Base, Closed, Bounded, Commits
<1>6. EntriesIn(c.stack)
  BY DEF Base
<1>7. w \in Seq(Chars) /\ engine \in Seq(Strokes) /\ prev \in Seq(Chars)
  BY <1>2 DEF Entries, WordTypeOK
<1>8. /\ Show(e.keys) /= <<>>
      /\ EmptyForgets => w \in {Show(e.keys), Committed(e.keys)}
  BY <1>3, <1>5, SameShows DEF Word, Composing
<1>9. Arrived(Final, RestoreEdits) = p \o w
  <2>1. CASE Restored
    <3>1. Committed(engine) \in Seq(Chars)
      BY <1>7 DEF EngineOK
    <3>2. RestoreEdits = Diff(prev, w) /\ w = Committed(engine)
      BY <1>3, <2>1 DEF RestoreEdits
    <3>3. QED  BY <1>4, <1>7, <3>1, <3>2, DiffTurns
  <2>2. CASE ~Restored
    <3>1. RestoreEdits = <<>> /\ w = prev
      BY <1>3, <2>2 DEF RestoreEdits
    <3>2. QED  BY <1>4, <3>1, ArrivedNone
  <2>3. QED  BY <2>1, <2>2
<1>10. /\ kept \in Seq(Entries) /\ Lies(p, kept, After(c)) /\ EntriesIn(kept)
       /\ \A i \in 1 .. Len(kept) : \E j \in i .. Len(c.stack) :
            kept[i] = c.stack[j]
  <2>1. CASE Len(c.stack) >= MaxStack
    <3>1. c.stack /= <<>>
      BY <1>1, <2>1, BoundsOK
    <3>2. /\ kept = Tail(c.stack) /\ kept \in Seq(Entries)
          /\ Len(kept) = Len(c.stack) - 1 /\ Len(c.stack) \in Nat
          /\ \A i \in 1 .. Len(c.stack) - 1 : kept[i] = c.stack[i + 1]
      BY <1>1, <2>1, <3>1
    <3>3. Lies(p, kept, After(c))
      BY <1>1, <1>4, <3>1, <3>2, AfterNat, LiesTail
    <3> HIDE DEF kept
    <3>4. \A i \in 1 .. Len(kept) :
            i + 1 \in i .. Len(c.stack) /\ i + 1 \in 1 .. Len(c.stack)
            /\ kept[i] = c.stack[i + 1]
      BY <3>2
    <3>5. EntriesIn(kept)
      BY <1>6, <3>4 DEF EntriesIn
    <3>6. QED  BY <3>2, <3>3, <3>4, <3>5
  <2>2. CASE ~(Len(c.stack) >= MaxStack)
    <3>1. kept = c.stack
      BY <2>2
    <3>2. \A i \in 1 .. Len(c.stack) : i \in i .. Len(c.stack)
      BY <1>1
    <3> HIDE DEF kept
    <3>3. QED  BY <1>1, <1>4, <1>6, <3>1, <3>2
  <2>3. QED  BY <2>1, <2>2
<1>11. /\ d.stack = t /\ d.state = "Ready" /\ d.extra = 0 /\ d.leading = 0
       /\ d.history = <<>>
  BY <1>1 DEF CommitComposition, PushEntry, SetCommitUndoReady, Commits
<1> HIDE DEF kept, d, e, w
<1>12. Lies(p \o w, t, 0)
  <2>1. After(c) \in Nat /\ After(c) = 1 + e.triggers
    BY <1>1, <1>3, AfterNat DEF After
  <2>2. QED  BY <1>2, <1>10, <2>1, LiesPushed DEF w
<1>13. t \in Seq(Entries) /\ t /= <<>> /\ p \o w \in Seq(Chars)
  <2>1. t \in Seq(Entries) /\ t /= <<>>
    <3>1. kept \in Seq(Entries)
      BY <1>10
    <3>2. QED  BY <1>2, <3>1
  <2>2. QED  BY <1>7, <2>1
<1>14. Lies(Append(p \o w, key), t, 1)
  <2>1. Lies(Append(p \o w, key), t, 0 + 1)
    BY <1>12, <1>13, LiesTyped DEF Blanks
  <2>2. QED  BY <2>1
<1>15. final = Append(p \o w, key) /\ Append(p \o w, key) \in Seq(Chars)
  <2>1. key \in Chars
    BY KeysOK DEF Blanks
  <2>2. Apply(p \o w, key) = Append(p \o w, key)
    BY <2>1, KeysOK DEF Apply
  <2>3. Append(p \o w, key) \in Seq(Chars)
    BY <1>13, <2>1
  <2>4. QED  BY <1>9, <2>2, <2>3
<1>16. EntriesIn(t)
  <2>1. ASSUME NEW i \in 1 .. Len(t)
        PROVE  /\ Show(t[i].keys) /= <<>>
               /\ EmptyForgets =>
                    t[i].text \in {Show(t[i].keys), Committed(t[i].keys)}
    <3>1. CASE i = Len(t)
      <4>1. t[i] = e
        BY <1>10, <1>13, <3>1
      <4>2. QED  BY <1>8, <4>1 DEF w
    <3>2. CASE i /= Len(t)
      <4>1. i \in 1 .. Len(kept) /\ t[i] = kept[i]
        BY <1>10, <3>2
      <4>2. QED  BY <1>10, <4>1 DEF EntriesIn
    <3>3. QED  BY <3>1, <3>2
  <2>2. QED  BY <2>1 DEF EntriesIn
<1>17. After(d) = 1
  BY <1>11 DEF After
<1>18. Base(d, <<>>, <<>>, final)
  <2>1. final = final \o <<>> /\ final \in Seq(Chars)
    BY <1>15
  <2>2. Lies(final, d.stack, After(d))
    BY <1>11, <1>14, <1>15, <1>17
  <2>3. QED  BY <1>11, <1>16, <2>1, <2>2, SameNothing DEF Base
<1>19. ASSUME Counted(d) PROVE Counted(c)
  <2>1. PICK i \in 2 .. Len(t) : t[i].triggers > 0
    BY <1>11, <1>19 DEF Counted
  <2>2. CASE i = Len(t)
    <3>1. c.leading > 0
      BY <1>3, <1>10, <1>13, <2>1, <2>2
    <3>2. c.stack /= <<>>
      <4>1. Len(kept) >= 1 /\ 1 \in 1 .. Len(kept)
        BY <1>10, <2>1, <2>2
      <4>2. QED  BY <1>1, <1>10, <4>1
    <3>3. QED  BY <1>1, <3>1, <3>2 DEF Counted
  <2>3. CASE i /= Len(t)
    <3>1. i \in 1 .. Len(kept) /\ t[i] = kept[i] /\ i \in Nat /\ i >= 2
      BY <1>10, <2>1, <2>3
    <3>2. PICK j \in i .. Len(c.stack) : kept[i] = c.stack[j]
      BY <1>10, <3>1
    <3>3. j \in 2 .. Len(c.stack)
      BY <1>1, <3>1
    <3>4. QED  BY <2>1, <3>1, <3>2, <3>3 DEF Counted
  <2>4. QED  BY <2>2, <2>3
<1>20. QED  BY <1>11, <1>18, <1>19 DEF d

LEMMA Tracked ==
  ASSUME NEW strays, Track(strays), ~lost'
  PROVE  ~lost /\ ~strays /\ ~Strayed' /\ ~(InFlight /\ text' /= text)
BY DEF Track

LEMMA NoneCounted ==
  ASSUME NEW c \in Commits, c.stack = <<>>, c.state = "Idle"
  PROVE  ~Counted(c)
<1>1. ~(\E i \in 2 .. Len(<<>>) : TRUE)
  OBVIOUS
<1>2. QED  BY <1>1 DEF Counted

LEMMA CancelOf ==
  ASSUME NEW c, Bounded(c)
  PROVE  /\ Closed(Cancel(c)) /\ Cancel(c).stack = <<>> /\ Cancel(c) \in Commits
         /\ Cancel(c).history = c.history /\ ~Counted(Cancel(c))
         /\ Cancel(c).state = "Idle"
<1>1. Closed(Cancel(c)) /\ Cancel(c).stack = <<>>
  BY CommitOps
<1>2. Cancel(c) \in Commits /\ Cancel(c).state = "Idle"
  BY <1>1 DEF Closed, Bounded
<1>3. Cancel(c).history = c.history
  BY DEF Cancel, SetIdle, Bounded, Commits
<1>4. QED  BY <1>1, <1>2, <1>3, NoneCounted

LEMMA CancelBase ==
  ASSUME NEW c, Bounded(c), NEW keys, NEW shown, NEW final,
         Base(c, keys, shown, final)
  PROVE  Base(Cancel(c), keys, shown, final)
<1>1. Cancel(c).stack = <<>> /\ Cancel(c) \in Commits
      /\ Cancel(c).history = c.history
  BY CancelOf
<1>2. QED  BY <1>1, BaseNoStack

\* The commit state as a key finds it.
LEMMA OpenedBase ==
  ASSUME Inv, Screen, NEW key
  PROVE  /\ Bounded(Opened(key))
         /\ Base(Opened(key), engine, prev, Final)
         /\ Opened(key) = commit \/ Opened(key) = Cancel(commit)
         /\ Counted(Opened(key)) => Counted(commit)
<1>1. Bounded(commit) /\ Base(commit, engine, prev, Final)
  BY DEF Inv, WordTypeOK, Bounded, Screen
<1>2. Opened(key) = commit \/ Opened(key) = Cancel(commit)
  BY DEF Opened
<1>3. /\ Bounded(Cancel(commit)) /\ Base(Cancel(commit), engine, prev, Final)
      /\ ~Counted(Cancel(commit))
  BY <1>1, CancelOf, CancelBase DEF Closed
<1>4. QED  BY <1>1, <1>2, <1>3

\* A key ends the window with words before it.
LEMMA StartWordBase ==
  ASSUME NEW c, Bounded(c), c.state = "Ready", NEW keys, NEW shown, NEW final,
         Base(c, keys, shown, final)
  PROVE  /\ Closed(StartWord(c)) /\ Base(StartWord(c), keys, shown, final)
         /\ Counted(StartWord(c)) => Counted(c)
<1> DEFINE d == StartWord(c)
<1>1. Closed(d)
  BY CommitOps
<1>2. /\ d.stack = c.stack /\ d.history = c.history /\ d.leading = c.extra
      /\ d.state = "Idle"
  BY DEF StartWord, SetIdle, Bounded, Commits
<1> HIDE DEF d
<1>3. After(d) = After(c)
  BY <1>2 DEF After
<1>4. Base(d, keys, shown, final)
  BY <1>2, <1>3, BaseSameStack
<1>5. Counted(d) => Counted(c)
  BY <1>2 DEF Counted
<1>6. QED  BY <1>1, <1>4, <1>5 DEF d

\* The last word on the stack, replayed: it is right behind the words left.
LEMMA ReplayedBase ==
  ASSUME EmptyStays, Inv, Screen, commit.state = "Primed"
  PROVE  LET top == Last(commit.stack) IN
         /\ Closed(Replayed(commit))
         /\ Base(Replayed(commit), engine \o top.keys, top.text, Final)
         /\ engine \o top.keys \in Seq(Strokes) /\ top.text \in Seq(Chars)
         /\ Show(engine \o top.keys) /= <<>>
         /\ Counted(Replayed(commit)) => Counted(commit)
<1> DEFINE top == Last(commit.stack)
           s == commit.stack
           d == Replayed(commit)
           n == Len(commit.stack)
<1>1. /\ commit.stack /= <<>> /\ Show(engine) = <<>> /\ Bounded(commit)
      /\ engine \in Seq(Strokes)
  BY DEF Inv, WindowHasWord, WordTypeOK, Bounded, Composing, Word
<1>2. Closed(d) /\ top \in Entries
  BY <1>1, TakeTop
<1>3. s \in Seq(Entries) /\ commit \in Commits
  BY <1>1 DEF Bounded, Commits
<1>4. /\ engine \o top.keys \in Seq(Strokes) /\ top.keys \in Seq(Strokes)
      /\ top.text \in Seq(Chars)
  BY <1>1, TopTypes
<1>5. prev = <<>>
  BY <1>1 DEF Screen, Word
<1>6. After(commit) = 0
  BY DEF After
<1>7. PICK p \in Seq(Chars) : Final = p \o <<>> /\ Lies(p, s, 0)
  BY <1>5, <1>6 DEF Screen, Base
<1>8. Final = p
  BY <1>7
<1>9. top.triggers \in Nat /\ top.triggers \in 0 .. 255
  <2>1. \A x \in 0 .. 255 : x \in Nat
    OBVIOUS
  <2>2. QED  BY <1>2, <2>1 DEF Entries, MaxTriggers
<1>10. 1 + top.triggers \in Nat
  BY <1>9
<1>11. PICK r \in Seq(Chars) :
         p = r \o top.text /\ Lies(r, Front(s), 1 + top.triggers)
  BY <1>1, <1>3, <1>7, <1>10, LiesTakenBack
<1>12. /\ d.stack = Front(s) /\ d.history = top.keys
       /\ d.leading = top.triggers /\ d.state = "Idle"
  BY <1>3 DEF Replayed, DropTop, SetIdle, Commits
<1>13. After(d) = 1 + top.triggers
  BY <1>12 DEF After
<1>14. /\ Len(Front(s)) = n - 1 /\ n \in Nat /\ n >= 1
       /\ \A i \in 1 .. n - 1 : Front(s)[i] = s[i]
  BY <1>1, <1>3, FrontOf
<1>15. EntriesIn(s)
  BY DEF Screen, Base
<1>16. EntriesIn(Front(s))
  <2>1. \A i \in 1 .. n - 1 : i \in 1 .. n
    BY <1>14
  <2>2. QED  BY <1>14, <1>15, <2>1 DEF EntriesIn
<1>17. Show(engine \o top.keys) /= <<>>
  <2>1. n \in 1 .. n /\ s[n] = top
    BY <1>14 DEF Last
  <2>2. Show(top.keys) /= <<>>
    BY <1>15, <2>1 DEF EntriesIn
  <2>3. QED  BY <1>1, <1>4, <2>2 DEF EmptyStays
<1> HIDE DEF d
<1>18. Base(d, engine \o top.keys, top.text, Final)
  <2>1. SameWord(top.keys, engine \o top.keys)
    BY <1>1 DEF SameWord
  <2>2. QED  BY <1>8, <1>11, <1>12, <1>13, <1>16, <2>1 DEF Base
<1>19. ASSUME Counted(d) PROVE Counted(commit)
  <2>1. CASE d.leading > 0 /\ d.stack /= <<>>
    <3>1. n \in 2 .. n
      <4>1. Front(s) /= <<>>
        BY <1>12, <2>1
      <4>2. Len(Front(s)) /= 0
        BY <1>1, <1>3, <4>1, FrontOf
      <4>3. n - 1 /= 0 /\ n \in Nat /\ n >= 1
        BY <1>14, <4>2
      <4> HIDE DEF n
      <4>4. n >= 2
        BY ONLY <4>3
      <4>5. QED  BY ONLY <4>3, <4>4
    <3>2. s[n].triggers > 0
      BY <1>12, <2>1 DEF Last
    <3>3. QED  BY <3>1, <3>2 DEF Counted
  <2>2. CASE \E i \in 2 .. Len(d.stack) : d.stack[i].triggers > 0
    <3>1. PICK i \in 2 .. n - 1 : Front(s)[i].triggers > 0
      BY <1>12, <1>14, <2>2
    <3>2. i \in 2 .. n /\ Front(s)[i] = s[i]
      BY <1>14
    <3>3. QED  BY <3>1, <3>2 DEF Counted
  <2>3. QED  BY <1>12, <1>19, <2>1, <2>2 DEF Counted
<1>20. QED  BY <1>2, <1>4, <1>17, <1>18, <1>19 DEF d

-----------------------------------------------------------------------------
\* What the steps start from, and what every one of them is known to keep.
Before == EngineOK /\ EmptyStays /\ Inv /\ TextOK /\ Screen
Known == Inv' /\ TextOK' /\ ~lost'

LEMMA NothingTyped ==
  ASSUME Inv, Screen, Inv', TextOK', ~Composing,
         engine' = engine, prev' = prev, commit'.history = commit.history,
         commit'.stack = <<>>
  PROVE  Screen'
<1>1. Word' = <<>> /\ prev' = <<>>
  BY DEF Composing, Word, Screen
<1>2. SameWord(commit'.history, engine')
  BY DEF Screen, Base
<1>3. QED  BY <1>1, <1>2, ScreenNoStack

LEMMA ComposeScreen ==
  ASSUME Before, Known, NEW key \in Letters \cup Tones,
         NEW keys \in Seq(Strokes), NEW shown \in Seq(Chars), NEW c, Closed(c),
         Base(c, keys, IF Show(keys) = <<>> THEN <<>> ELSE shown, Final),
         Counted(c) => Counted(commit),
         Compose(key, keys, shown, c), ~Strayed', ~(InFlight /\ text' /= text)
  PROVE  Screen'
<1>1. /\ Base(commit', engine', prev', Final') /\ prev' = Word'
      /\ commit'.stack = c.stack /\ commit'.leading = c.leading
      /\ commit'.state = "Idle"
      /\ text' = text \/ queue' = <<>>
  BY ComposeBase DEF Before
<1>2. Counted(commit') => Counted(c)
  BY <1>1 DEF Counted, Closed
<1>3. QED  BY <1>1, <1>2, ScreenAgain DEF Before, Known, Screen

LEMMA BackspaceScreen ==
  ASSUME Before, Known, NEW keys \in Seq(Strokes), NEW shown \in Seq(Chars),
         NEW c, Closed(c), Base(c, keys, shown, Final),
         Counted(c) => Counted(commit),
         HandleBackspace(keys, shown, c), ~Strayed'
  PROVE  Screen'
<1>1. /\ Base(commit', engine', prev', Final') /\ prev' = Word'
      /\ commit'.stack = c.stack
      /\ \/ commit'.state = "Idle" /\ Composing' /\ commit'.leading = c.leading
         \/ commit'.state = "Idle" /\ c.stack = <<>>
         \/ /\ commit'.state = "Ready" /\ commit'.extra = c.leading
            /\ commit'.leading = 0
      /\ text' = text
  BY BackspaceBase DEF Before
<1>2. ASSUME Counted(commit') PROVE Counted(c)
  <2>1. CASE commit'.state = "Idle" /\ commit'.leading = c.leading
    BY <1>1, <1>2, <2>1 DEF Counted, Closed
  <2>2. CASE commit'.state = "Idle" /\ c.stack = <<>>
    BY <1>1, <1>2, <2>2 DEF Counted, Closed
  <2>3. CASE commit'.state = "Ready" /\ commit'.extra = c.leading
    <3>1. commit'.stack /= <<>>
      BY <2>3 DEF Known, Inv, WindowHasWord
    <3>2. QED  BY <1>1, <1>2, <2>3, <3>1 DEF Counted, Closed
  <2>4. QED  BY <1>1, <2>1, <2>2, <2>3
<1>3. QED  BY <1>1, <1>2, ScreenAgain DEF Before, Known, Screen

LEMMA LetterScreen ==
  ASSUME Before, Known, NEW key \in Letters \cup Tones,
         TypeOff(key) \/ TypeLetter(key) \/ ReplayWithTone(key)
  PROVE  Screen'
<1>1. /\ Inv /\ Screen /\ engine \in Seq(Strokes) /\ prev \in Seq(Chars)
      /\ prev = Word
  BY DEF Before, Inv, WordTypeOK, Screen
<1>2. CASE TypeOff(key)
  <2>1. /\ ~Composing /\ commit' = Opened(key) /\ engine' = engine
        /\ prev' = prev
    BY <1>2 DEF TypeOff, Before, Inv, OffStateEmpty
  <2>2. Opened(key).stack = <<>>
    BY <1>1, <1>2, OpenedOK DEF TypeOff
  <2>3. Opened(key) = commit \/ Opened(key) = Cancel(commit)
    BY DEF Opened
  <2>4. commit'.history = commit.history
    BY <2>1, <2>3, CancelOf DEF Before, Inv, WordTypeOK, Bounded
  <2>5. QED  BY <1>1, <2>1, <2>2, <2>4, NothingTyped DEF Known
<1>3. CASE TypeLetter(key)
  <2> DEFINE c == Opened(key)
  <2>1. /\ Bounded(c) /\ Base(c, engine, prev, Final)
        /\ Counted(c) => Counted(commit)
        /\ c.state /= "Idle" => c.stack /= <<>>
    BY <1>1, OpenedBase, OpenedOK
  <2>2. (IF Show(engine) = <<>> THEN <<>> ELSE prev) = prev
    BY <1>1 DEF Word
  <2>3. PICK strays \in BOOLEAN : Track(strays)
          /\ (~strays =>
               \E x : /\ Compose(key, engine, prev, x) /\ Closed(x)
                      /\ Base(x, engine, prev, Final)
                      /\ Counted(x) => Counted(commit))
    <3>1. CASE /\ c.state /= "Primed"
               /\ Compose(key, engine, prev,
                          IF c.state = "Ready" THEN StartWord(c) ELSE c)
               /\ Track(FALSE)
      <4>1. CASE c.state = "Ready"
        BY <2>1, <3>1, <4>1, StartWordBase
      <4>2. CASE c.state /= "Ready"
        <5>1. Closed(c)
          BY <2>1, <3>1, <4>2 DEF Closed, Bounded, Commits
        <5>2. QED  BY <2>1, <3>1, <4>2, <5>1
      <4>3. QED  BY <4>1, <4>2
    <3>2. CASE Compose(key, engine, prev, Cancel(c)) /\ Track(FALSE)
      BY <2>1, <3>2, CancelOf, CancelBase
    <3>3. CASE /\ c.state = "Primed" /\ Compose(key, engine, prev, DropTop(c))
               /\ Track(Len(c.stack) > 1)
      <4> DEFINE d == DropTop(c)
      <4>1. Closed(d) /\ c.stack \in Seq(Entries) /\ c.stack /= <<>>
        BY <2>1, <3>3, TakeTop DEF Bounded, Commits
      <4>2. d.stack = Front(c.stack) /\ d.history = c.history /\ d \in Commits
            /\ d.state = "Idle"
        <5>1. c \in Commits /\ d \in Commits
          BY <2>1, <4>1 DEF Closed, Bounded
        <5> HIDE DEF c
        <5>2. QED  BY <5>1 DEF DropTop, SetIdle, Commits
      <4>3. ASSUME ~(Len(c.stack) > 1) PROVE d.stack = <<>>
        <5>1. Len(Front(c.stack)) = 0 /\ Front(c.stack) \in Seq(Entries)
          BY <4>1, <4>3, FrontOf
        <5>2. QED  BY <4>2, <5>1
      <4> HIDE DEF d, c
      <4>4. ASSUME ~(Len(c.stack) > 1)
            PROVE  Base(d, engine, prev, Final) /\ ~Counted(d)
        BY <2>1, <4>2, <4>3, <4>4, BaseNoStack, NoneCounted
      <4>5. /\ Compose(key, engine, prev, d) /\ Track(Len(c.stack) > 1)
            /\ (Len(c.stack) > 1) \in BOOLEAN
        BY <3>3 DEF d
      <4>6. QED  BY <4>1, <4>4, <4>5
    <3>4. QED  BY <1>3, <3>1, <3>2, <3>3 DEF TypeLetter
  <2> HIDE DEF c
  <2>4. ~strays /\ ~Strayed' /\ ~(InFlight /\ text' /= text)
    BY <2>3, Tracked DEF Known
  <2>5. QED  BY <1>1, <2>2, <2>3, <2>4, ComposeScreen
<1>4. CASE ReplayWithTone(key)
  <2> DEFINE top == Last(commit.stack)
  <2>1. /\ commit.state = "Primed" /\ Track(FALSE)
        /\ Compose(key, engine \o top.keys, top.text, Replayed(commit))
    BY <1>4 DEF ReplayWithTone
  <2>2. /\ Closed(Replayed(commit))
        /\ Base(Replayed(commit), engine \o top.keys, top.text, Final)
        /\ engine \o top.keys \in Seq(Strokes) /\ top.text \in Seq(Chars)
        /\ Show(engine \o top.keys) /= <<>>
        /\ Counted(Replayed(commit)) => Counted(commit)
    BY <1>1, <2>1, ReplayedBase DEF Before
  <2>3. ~Strayed' /\ ~(InFlight /\ text' /= text)
    BY <2>1, Tracked DEF Known
  <2> HIDE DEF top
  <2>4. QED  BY <2>1, <2>2, <2>3, ComposeScreen
<1>5. QED  BY <1>2, <1>3, <1>4

LEMMA EmptyWindow ==
  ASSUME Before, commit.state /= "Idle"
  PROVE  /\ commit.stack /= <<>> /\ prev = <<>>
         /\ ~Composing /\ Bounded(commit) /\ commit \in Commits
         /\ commit.stack \in Seq(Entries)
<1>1. commit.stack /= <<>> /\ ~Composing /\ Bounded(commit)
  BY DEF Before, Inv, WindowHasWord, WordTypeOK, Bounded
<1>2. prev = <<>>
  BY <1>1 DEF Before, Screen, Composing
<1>3. QED  BY <1>1, <1>2 DEF Bounded, Commits

\* Nothing composed: a trigger is typed or deleted in a Ready window, or the
\* last is deleted.
LEMMA WindowScreen ==
  ASSUME Before, Known, commit.state = "Ready",
         NEW p \in Seq(Chars), Final' = p,
         Lies(p, commit.stack, After(commit')),
         commit'.stack = commit.stack, commit'.history = commit.history,
         commit'.state /= "Idle", engine' = engine, prev' = prev,
         \/ queue' = <<>>
         \/ text' = text /\ (Counted(commit') => Counted(commit))
  PROVE  Screen'
<1>1. prev = <<>>
  BY EmptyWindow
<1>2. prev' = Word'
  BY DEF Before, Screen, Word
<1>3. p = p \o prev'
  BY <1>1
<1>4. Base(commit', engine', prev', Final')
  BY <1>3 DEF Base, Before, Screen
<1>5. ~Strayed'
  BY DEF Strayed
<1>6. QED  BY <1>2, <1>4, <1>5, ScreenAgain DEF Before, Known, Screen

LEMMA ReadyPlace ==
  ASSUME Before, commit.state = "Ready"
  PROVE  /\ Final \in Seq(Chars) /\ Lies(Final, commit.stack, 1 + commit.extra)
         /\ commit.extra \in Nat
<1>1. prev = <<>>
  BY EmptyWindow
<1>2. PICK p \in Seq(Chars) : Final = p \o <<>>
                              /\ Lies(p, commit.stack, After(commit))
  BY <1>1 DEF Before, Screen, Base
<1>3. After(commit) = 1 + commit.extra
  BY DEF After
<1>4. commit.extra \in Nat
  <2>1. commit.extra \in 0 .. 255 /\ \A x \in 0 .. 255 : x \in Nat
    BY EmptyWindow DEF Commits, MaxTriggers
  <2>2. QED  BY <2>1
<1>5. QED  BY <1>2, <1>3, <1>4

LEMMA DeleteOne ==
  ASSUME NEW t \in Seq(Chars), t /= <<>>
  PROVE  Apply(t, "back") = Front(t) /\ Front(t) /= t /\ Front(t) \in Seq(Chars)
<1>1. Len(Front(t)) = Len(t) - 1 /\ Len(t) \in Nat /\ Front(t) \in Seq(Chars)
  BY FrontOf
<1>2. Apply(t, "back") = Front(t)
  BY DEF Apply
<1>3. Len(t) - 1 /= Len(t)
  BY <1>1
<1>4. QED  BY <1>1, <1>2, <1>3

LEMMA BackspaceScreens ==
  ASSUME Before, Known, Backspace
  PROVE  Screen'
<1> DEFINE c == Opened("back")
<1>1. /\ Inv /\ TextOK /\ Screen /\ engine \in Seq(Strokes)
      /\ prev \in Seq(Chars) /\ prev = Word
  BY DEF Before, Inv, WordTypeOK, Screen
<1>2. /\ Bounded(c) /\ Base(c, engine, prev, Final)
      /\ Counted(c) => Counted(commit)
      /\ c = commit \/ c = Cancel(commit)
  BY <1>1, OpenedBase
<1>3. c.state /= "Idle" => c = commit
  BY <1>1, OpenedOK
<1>4. ~Strayed' /\ ~(InFlight /\ text' /= text)
  BY Tracked DEF Backspace, Known
<1>5. Bounded(commit) /\ commit \in Commits
  BY <1>1 DEF Inv, WordTypeOK, Bounded
<1> HIDE DEF c
<1>6. ASSUME c.state = "Ready", c.extra > 0,
             commit' = [c EXCEPT !.extra = c.extra - 1],
             Pass("back"), UNCHANGED <<engine, prev>>
      PROVE  Screen'
  <2>1. c = commit /\ commit.state = "Ready"
    BY <1>3, <1>6
  <2>2. /\ Final \in Seq(Chars) /\ Lies(Final, commit.stack, 1 + commit.extra)
        /\ commit.extra \in Nat /\ commit.stack /= <<>>
        /\ commit.stack \in Seq(Entries)
    BY <2>1, ReadyPlace, EmptyWindow
  <2>3. text /= <<>> /\ text \in Seq(Chars)
    BY <1>1, <1>6, <2>1 DEF Screen, Counted, TextOK
  <2>4. text' /= text
    BY <1>1, <1>6, <2>3, DeleteOne, PassLands DEF Edits
  <2>5. ~InFlight
    BY <1>4, <2>4
  <2>6. Final' = Apply(Final, "back") /\ queue' = <<>>
    BY <1>1, <1>6, <2>5, PassLands DEF Edits
  <2>7. 1 + commit.extra > 0 /\ 1 + commit.extra \in Nat
        /\ 1 + commit.extra - 1 = 1 + (commit.extra - 1)
    BY <2>2
  <2>8. Final /= <<>> /\ Lies(Front(Final), commit.stack, 1 + (commit.extra - 1))
    BY <2>2, <2>7, LiesDeleted
  <2>9. Final' = Front(Final) /\ Front(Final) \in Seq(Chars)
    BY <2>2, <2>6, <2>8, DeleteOne
  <2>10. /\ commit'.stack = commit.stack /\ commit'.state = "Ready"
         /\ commit'.history = commit.history
         /\ commit'.extra = commit.extra - 1
    BY <1>5, <1>6, <2>1 DEF Commits
  <2>11. After(commit') = 1 + (commit.extra - 1)
    BY <2>10 DEF After
  <2>12. engine' = engine /\ prev' = prev
    BY <1>6
  <2>13. QED
    BY <2>1, <2>6, <2>8, <2>9, <2>10, <2>11, <2>12, WindowScreen
<1>7. ASSUME c.state = "Ready", c.extra = 0,
             commit' = [c EXCEPT !.state = "Primed"],
             SendOrPass("back", <<>>), UNCHANGED <<engine, prev>>
      PROVE  Screen'
  <2>1. c = commit /\ commit.state = "Ready"
    BY <1>3, <1>7
  <2>2. /\ Final \in Seq(Chars) /\ Lies(Final, commit.stack, 1)
        /\ commit.stack /= <<>> /\ commit.stack \in Seq(Entries)
    BY <1>7, <2>1, ReadyPlace, EmptyWindow
  <2>3. /\ Final' = Apply(Final, "back")
        /\ text' = text \/ queue' = <<>>
    <3>1. <<>> \in Seq(Edits) /\ "back" \in Edits
      BY DEF Edits
    <3>2. QED  BY <1>1, <1>7, <3>1, SentOrPassed, ArrivedNone
  <2>4. Final /= <<>> /\ Lies(Front(Final), commit.stack, 0)
    <3>1. Final /= <<>> /\ Lies(Front(Final), commit.stack, 1 - 1)
      BY <2>2, LiesDeleted
    <3>2. QED  BY <3>1
  <2>5. Final' = Front(Final) /\ Front(Final) \in Seq(Chars)
    BY <2>2, <2>3, <2>4, DeleteOne
  <2>6. /\ commit'.stack = commit.stack /\ commit'.state = "Primed"
        /\ commit'.history = commit.history
    BY <1>5, <1>7, <2>1 DEF Commits
  <2>7. After(commit') = 0 /\ (Counted(commit') => Counted(commit))
    BY <2>6 DEF After, Counted
  <2>8. engine' = engine /\ prev' = prev
    BY <1>7
  <2>9. QED
    BY <2>1, <2>3, <2>4, <2>5, <2>6, <2>7, <2>8, WindowScreen
<1>8. ASSUME c.state = "Primed", commit' = Cancel(c), UNCHANGED <<engine, prev>>
      PROVE  Screen'
  <2>1. c = commit /\ ~Composing
    BY <1>3, <1>8, EmptyWindow
  <2>2. commit'.stack = <<>> /\ commit'.history = commit.history
    BY <1>5, <1>8, <2>1, CancelOf
  <2>3. engine' = engine /\ prev' = prev
    BY <1>8
  <2>4. QED  BY <1>1, <2>1, <2>2, <2>3, NothingTyped DEF Known
<1>9. ASSUME c.state = "Primed",
             HandleBackspace(engine \o Last(c.stack).keys, Last(c.stack).text,
                             Replayed(c))
      PROVE  Screen'
  <2>1. c = commit /\ commit.state = "Primed"
    BY <1>3, <1>9
  <2> DEFINE top == Last(commit.stack)
  <2>2. /\ Closed(Replayed(commit))
        /\ Base(Replayed(commit), engine \o top.keys, top.text, Final)
        /\ engine \o top.keys \in Seq(Strokes) /\ top.text \in Seq(Chars)
        /\ Counted(Replayed(commit)) => Counted(commit)
    BY <1>1, <2>1, ReplayedBase DEF Before
  <2> HIDE DEF top
  <2>3. HandleBackspace(engine \o top.keys, top.text, Replayed(commit))
    BY <1>9, <2>1 DEF top
  <2>4. QED  BY <1>4, <2>2, <2>3, BackspaceScreen
<1>10. ASSUME c.state = "Idle", Composing, HandleBackspace(engine, prev, c)
       PROVE  Screen'
  <2>1. Closed(c)
    BY <1>2, <1>10 DEF Closed
  <2>2. QED  BY <1>1, <1>2, <1>4, <1>10, <2>1, BackspaceScreen
<1>11. ASSUME c.state = "Idle", ~Composing, commit' = c,
              UNCHANGED <<engine, prev>>
       PROVE  Screen'
  <2>1. ~Composing' /\ engine' = engine /\ prev' = prev
    BY <1>11 DEF Composing, Word
  <2>2. commit'.stack = <<>>
    BY <1>4, <1>11, <2>1 DEF Strayed
  <2>3. commit'.history = commit.history
    BY <1>2, <1>5, <1>11, CancelOf
  <2>4. QED  BY <1>1, <1>11, <2>1, <2>2, <2>3, NothingTyped DEF Known
<1>12. CASE BackspaceInWindow
  BY <1>6, <1>7, <1>8, <1>9, <1>12 DEF BackspaceInWindow, Unsettled, c
<1>13. CASE BackspaceOutside
  BY <1>10, <1>11, <1>13 DEF BackspaceOutside, c
<1>14. QED  BY <1>12, <1>13 DEF Backspace

LEMMA HistoryKept ==
  ASSUME NEW c, Bounded(c)
  PROVE  /\ SetIdle(c).history = c.history /\ Cancel(c).history = c.history
         /\ StartWord(c).history = c.history
BY DEF Bounded, Commits, SetIdle, Cancel, StartWord

OneMore(c) == [c EXCEPT !.extra = IF c.extra < MaxTriggers THEN c.extra + 1
                                  ELSE c.extra]

LEMMA PassedIs ==
  ASSUME NEW c, Bounded(c), NEW key \in Triggers \cup {"other"},
         NEW recent \in BOOLEAN
  PROVE  LET d == Passed(c, key, recent) IN
         /\ d.history = c.history
         /\ d.state /= "Idle" =>
              /\ c.state = "Ready" /\ key \in Blanks
              /\ key /= "enter" => d = OneMore(c)
<1> DEFINE d == Passed(c, key, recent)
<1>1. \/ d = c /\ c.state = "Idle"
      \/ d = c /\ c.state = "Ready" /\ key = "enter"
      \/ d \in {SetIdle(c), Cancel(c), StartWord(c)}
      \/ d = OneMore(c) /\ c.state = "Ready" /\ key = " "
  <2>1. c.state \in {"Idle", "Ready", "Primed"}
    BY DEF Bounded, Commits
  <2>2. CASE Unsettled(c, key, recent)
    <3>1. c.state = "Primed"
      BY <2>2 DEF Unsettled
    <3>2. Passed(c, key, recent) = Cancel(c)
      BY <2>2, <3>1, Zenon DEF Passed
    <3>3. QED  BY <3>2
  <2>3. CASE ~Unsettled(c, key, recent) /\ c.state = "Primed"
    BY <2>3 DEF Passed
  <2>4. CASE c.state = "Ready"
    <3>1. ~Unsettled(c, key, recent)
      BY <2>4 DEF Unsettled
    <3>2. CASE key = "left"
      BY <2>4, <3>1, <3>2 DEF Passed
    <3>3. CASE key = " "
      BY <2>4, <3>1, <3>3 DEF Passed, OneMore
    <3>4. CASE key = "other"
      BY <2>4, <3>1, <3>4 DEF Passed
    <3>5. CASE key = "enter"
      BY <2>4, <3>1, <3>5 DEF Passed
    <3>6. QED  BY <3>2, <3>3, <3>4, <3>5 DEF Triggers
  <2>5. CASE c.state = "Idle"
    BY <2>5 DEF Passed, Unsettled
  <2>6. QED  BY <2>1, <2>2, <2>3, <2>4, <2>5
<1>2. OneMore(c).history = c.history
  BY DEF OneMore, Bounded, Commits
<1>3. SetIdle(c).state = "Idle" /\ Cancel(c).state = "Idle"
      /\ StartWord(c).state = "Idle"
  BY CommitOps DEF Closed
<1> HIDE DEF d
<1>4. d.history = c.history
  BY <1>1, <1>2, HistoryKept
<1>5. d.state /= "Idle" =>
        /\ c.state = "Ready" /\ key \in Blanks
        /\ key /= "enter" => d = OneMore(c)
  BY <1>1, <1>3 DEF Blanks
<1>6. QED  BY <1>4, <1>5 DEF d

\* The word is committed without a window: that can only be the first word.
LEMMA CommitScreen ==
  ASSUME Before, Known, NEW c, Closed(c), commit' = CommitComposition(c),
         ClearWord, ~Strayed'
  PROVE  Screen'
<1>1. c \in Commits /\ c.state = "Idle"
  BY DEF Closed, Bounded
<1>2. commit'.state = "Idle" /\ commit'.history = <<>>
  <2>1. CommitComposition(c).state = "Idle"
    BY <1>1, CommitWord DEF Before, Inv, Closed
  <2> DEFINE d == IF Pushes(c)
                  THEN [PushEntry(c, Entry(c)) EXCEPT !.leading = 0] ELSE c
  <2>2. "history" \in DOMAIN d
    BY <1>1 DEF PushEntry, Commits
  <2>3. commit' = [d EXCEPT !.history = <<>>]
    BY DEF CommitComposition
  <2> HIDE DEF d
  <2>4. commit'.history = <<>>
    BY <2>2, <2>3
  <2>5. QED  BY <2>1, <2>4
<1>3. engine' = <<>> /\ prev' = <<>> /\ Word' = <<>> /\ ~Composing'
  BY ShowsNothing DEF ClearWord, Word, Composing
<1>4. commit'.stack = <<>>
  BY <1>2, <1>3 DEF Strayed
<1>5. SameWord(commit'.history, engine')
  BY <1>2, <1>3, SameNothing
<1>6. QED  BY <1>3, <1>4, <1>5, ScreenNoStack DEF Known

\* An open word finds the window closed, and keeps it.
LEMMA OpenWord ==
  ASSUME Before, Composing, NEW key \in Triggers \cup {"other"},
         NEW recent \in BOOLEAN
  PROVE  /\ Passed(Opened(key), key, recent) = Opened(key)
         /\ Closed(Opened(key)) /\ Base(Opened(key), engine, prev, Final)
         /\ Counted(Opened(key)) => Counted(commit)
<1>1. /\ Bounded(Opened(key)) /\ Base(Opened(key), engine, prev, Final)
      /\ Counted(Opened(key)) => Counted(commit)
  BY OpenedBase DEF Before
<1>2. Opened(key).state = "Idle"
  BY OpenedOK DEF Before, Inv, WindowHasWord
<1>3. QED  BY <1>1, <1>2, PassedOK DEF Closed

LEMMA TriggerScreen ==
  ASSUME Before, Known, NEW key \in Triggers, CommitTrigger(key)
  PROVE  Screen'
<1>1. PICK recent \in BOOLEAN :
        LET c == Passed(Opened(key), key, recent) IN
        IF Composing
        THEN /\ commit' = IF Pushes(c) /\ key /= "left"
                          THEN SetCommitUndoReady(CommitComposition(c))
                          ELSE CommitComposition(c)
             /\ SendOrPass(key, RestoreEdits) /\ ClearWord
        ELSE commit' = c /\ Pass(key) /\ UNCHANGED <<engine, prev>>
  BY DEF CommitTrigger
<1> DEFINE c == Passed(Opened(key), key, recent)
<1>2. ~Saturated(key) /\ ~Strayed' /\ ~(InFlight /\ text' /= text)
  <2>1. Track(Saturated(key))
    BY DEF CommitTrigger
  <2>2. QED  BY <2>1, Tracked DEF Known
<1>3. /\ Inv /\ TextOK /\ Screen /\ engine \in Seq(Strokes)
      /\ prev \in Seq(Chars) /\ prev = Word /\ WordTypeOK /\ key \in Edits
      /\ Bounded(commit) /\ commit \in Commits
  BY KeysAreEdits DEF Before, Inv, WordTypeOK, Screen, Bounded
<1>4. key \in Blanks \/ key = "left"
  BY DEF Triggers, Blanks
<1>5. CASE Composing
  <2>1. /\ c = Opened(key) /\ Closed(c) /\ Base(c, engine, prev, Final)
        /\ Counted(c) => Counted(commit)
    BY <1>5, OpenWord DEF Before
  <2>2. CASE Pushes(c) /\ key /= "left"
    <3>1. commit' = SetCommitUndoReady(CommitComposition(c))
      BY <1>1, <1>5, <2>2
    <3>2. SendOrPass(key, RestoreEdits) /\ engine' = <<>> /\ prev' = <<>>
      BY <1>1, <1>5 DEF ClearWord
    <3>3. /\ Final' = Apply(Arrived(Final, RestoreEdits), key)
          /\ text' = text \/ queue' = <<>>
      BY <1>3, <3>2, RestoreType, SentOrPassed DEF Before
    <3> HIDE DEF c
    <3>4. /\ Base(commit', <<>>, <<>>, Final') /\ commit'.state = "Ready"
          /\ Counted(commit') => Counted(c)
      BY <1>3, <1>4, <1>5, <2>1, <2>2, <3>1, <3>3, CommitBase DEF Before
    <3>5. ~Strayed' /\ prev' = Word'
      BY <3>2, <3>4, ShowsNothing DEF Strayed, Word
    <3>6. QED
      BY <2>1, <3>2, <3>3, <3>4, <3>5, ScreenAgain DEF Before, Known, Screen
  <2>3. CASE ~(Pushes(c) /\ key /= "left")
    <3>1. commit' = CommitComposition(c) /\ ClearWord
      BY <1>1, <1>5, <2>3
    <3> HIDE DEF c
    <3>2. QED  BY <1>2, <2>1, <3>1, CommitScreen
  <2>4. QED  BY <2>2, <2>3
<1>6. CASE ~Composing
  <2>1. commit' = c /\ Pass(key) /\ engine' = engine /\ prev' = prev
    BY <1>1, <1>6
  <2>2. ~Composing'
    BY <1>6, <2>1 DEF Composing, Word
  <2>3. /\ Bounded(Opened(key))
        /\ Opened(key) = commit \/ Opened(key) = Cancel(commit)
        /\ Opened(key).state /= "Idle" => Opened(key) = commit
    BY <1>3, OpenedBase, OpenedOK
  <2>4. /\ c.history = Opened(key).history
        /\ c.state /= "Idle" =>
              /\ Opened(key).state = "Ready" /\ key \in Blanks
              /\ key /= "enter" => c = OneMore(Opened(key))
    BY <2>3, PassedIs
  <2>5. commit'.history = commit.history
    BY <1>3, <2>1, <2>3, <2>4, HistoryKept
  <2>6. CASE commit'.stack = <<>>
    BY <1>3, <1>6, <2>1, <2>5, <2>6, NothingTyped DEF Known
  <2>7. CASE commit'.stack /= <<>>
    <3>1. commit'.state /= "Idle"
      BY <1>2, <2>2, <2>7 DEF Strayed
    <3>2. /\ Opened(key) = commit /\ commit.state = "Ready" /\ key \in Blanks
          /\ key /= "enter" => commit' = OneMore(commit)
      BY <2>1, <2>3, <2>4, <3>1
    <3>3. key /= "enter"
      <4>1. ASSUME key = "enter" PROVE FALSE
        <5>1. Opened(key) = Cancel(commit)
          BY <3>2, <4>1 DEF Opened
        <5>2. QED  BY <1>3, <3>2, <5>1, CancelOf
      <4>2. QED  BY <4>1
    <3>4. commit.extra \in Nat /\ commit.extra < MaxTriggers
      <4>1. commit.extra \in Nat /\ commit.extra \in 0 .. 255
        BY <3>2, ReadyPlace, <1>3 DEF Commits, MaxTriggers
      <4>2. commit.extra /= MaxTriggers
        BY <1>2, <3>2, <3>3 DEF Saturated, Blanks
      <4> HIDE <1>1, <1>2
      <4>3. QED  BY ONLY <4>1, <4>2 DEF MaxTriggers
    <3>5. /\ commit'.stack = commit.stack /\ commit'.state = "Ready"
          /\ commit'.extra = commit.extra + 1
      BY <1>3, <3>2, <3>3, <3>4 DEF OneMore, Commits
    <3>6. After(commit') = 1 + (commit.extra + 1)
      BY <3>5 DEF After
    <3>7. key \in Chars
      BY <3>2, KeysOK DEF Blanks
    <3>8. /\ Final \in Seq(Chars) /\ Lies(Final, commit.stack, 1 + commit.extra)
          /\ commit.stack \in Seq(Entries) /\ commit.stack /= <<>>
      BY <3>2, ReadyPlace, EmptyWindow
    <3>9. text' /= text
      <4>1. text' = Apply(text, key)
        BY <1>3, <2>1, PassLands
      <4>2. Apply(text, key) = Append(text, key)
        BY <3>7, KeysOK DEF Apply
      <4>3. text \in Seq(Chars)
        BY <1>3 DEF TextOK
      <4>4. Len(Append(text, key)) = Len(text) + 1 /\ Len(text) \in Nat
        BY ONLY <3>7, <4>3
      <4>5. Len(text) + 1 /= Len(text)
        BY ONLY <4>4
      <4>6. QED  BY <4>1, <4>2, <4>4, <4>5
    <3>10. Final' = Apply(Final, key) /\ queue' = <<>>
      BY <1>2, <1>3, <2>1, <3>9, PassLands
    <3>11. /\ Final' = Append(Final, key) /\ Append(Final, key) \in Seq(Chars)
      <4>1. Apply(Final, key) = Append(Final, key)
        BY <3>7, KeysOK DEF Apply
      <4>2. Append(Final, key) \in Seq(Chars)
        BY <3>7, <3>8
      <4>3. QED  BY <3>10, <4>1, <4>2
    <3>12. Lies(Append(Final, key), commit.stack, After(commit'))
      <4>1. 1 + commit.extra \in Nat
            /\ 1 + commit.extra + 1 = 1 + (commit.extra + 1)
        BY <3>4
      <4>2. Lies(Append(Final, key), commit.stack, 1 + commit.extra + 1)
        BY <3>2, <3>8, <4>1, LiesTyped
      <4>3. QED  BY <3>6, <4>1, <4>2
    <3>13. commit'.state /= "Idle"
      BY <3>5
    <3> HIDE DEF c
    <3>14. QED
      BY <2>1, <2>5, <3>2, <3>5, <3>10, <3>11, <3>12, <3>13, WindowScreen
  <2>8. QED  BY <2>6, <2>7
<1>7. QED  BY <1>5, <1>6

LEMMA OtherScreen ==
  ASSUME Before, Known, OtherKey
  PROVE  Screen'
<1>1. PICK recent \in BOOLEAN :
        LET c == Passed(Opened("other"), "other", recent) IN
        IF Composing THEN commit' = CommitComposition(c) /\ ClearWord
        ELSE commit' = c /\ UNCHANGED <<engine, prev>>
  BY DEF OtherKey
<1> DEFINE o == Opened("other")
           c == Passed(o, "other", recent)
<1>2. ~Strayed'
  BY Tracked DEF OtherKey, Known
<1>3. /\ Inv /\ Screen /\ Bounded(commit)
  BY DEF Before, Inv, WordTypeOK, Bounded
<1>4. CASE Composing
  <2>1. c = o /\ Closed(o)
    BY <1>4, OpenWord DEF Before
  <2>2. commit' = CommitComposition(c) /\ ClearWord
    BY <1>1, <1>4
  <2> HIDE DEF o, c
  <2>3. QED  BY <1>2, <2>1, <2>2, CommitScreen
<1>5. CASE ~Composing
  <2>1. commit' = c /\ engine' = engine /\ prev' = prev
    BY <1>1, <1>5
  <2>2. ~Composing'
    BY <1>5, <2>1 DEF Composing, Word
  <2>3. Bounded(o) /\ (o = commit \/ o = Cancel(commit))
    BY <1>3, OpenedBase
  <2>4. c.history = o.history /\ c.state = "Idle"
    <3>1. "other" \notin Blanks
      BY DEF Blanks
    <3>2. QED  BY <2>3, <3>1, PassedIs
  <2> HIDE DEF o, c
  <2>5. commit'.history = commit.history
    BY <1>3, <2>1, <2>3, <2>4, HistoryKept
  <2>6. commit'.stack = <<>>
    BY <1>2, <2>1, <2>2, <2>4 DEF Strayed
  <2>7. QED  BY <1>3, <1>5, <2>1, <2>5, <2>6, NothingTyped DEF Known
<1>6. QED  BY <1>4, <1>5

\* A step that leaves everything but the time and the queue alone.
LEMMA SameScreen ==
  ASSUME Before, Known, engine' = engine, prev' = prev, Final' = Final,
         commit'.stack = commit.stack, commit'.state = commit.state,
         commit'.extra = commit.extra, commit'.leading = commit.leading,
         commit'.history = commit.history, text' = text \/ queue' = <<>>
  PROVE  Screen'
<1>1. After(commit') = After(commit) /\ (Counted(commit') => Counted(commit))
  BY DEF After, Counted
<1>2. Base(commit', engine', prev', Final')
  BY <1>1, BaseSameStack DEF Before, Screen
<1>3. prev' = Word' /\ ~Strayed'
  BY DEF Before, Screen, Word, Composing, Strayed
<1>4. QED  BY <1>1, <1>2, <1>3, ScreenAgain DEF Before, Known, Screen

LEMMA EscScreen ==
  ASSUME Before, Known, EscOnWord \/ EscOnCommitted \/ EscPasses
  PROVE  Screen'
<1>1. /\ Inv /\ TextOK /\ Screen /\ Bounded(commit)
  BY DEF Before, Inv, WordTypeOK, Bounded
<1>2. CASE EscOnWord
  BY <1>2, Tracked DEF EscOnWord, Known
<1>3. ASSUME ~Composing, commit' = Cancel(commit), engine' = engine, prev' = prev
      PROVE  Screen'
  <2>1. commit'.stack = <<>> /\ commit'.history = commit.history
    BY <1>1, <1>3, CancelOf
  <2>2. QED  BY <1>1, <1>3, <2>1, NothingTyped DEF Known
<1>4. CASE EscOnCommitted
  <2>1. ~Composing
    BY <1>4, EmptyWindow DEF EscOnCommitted
  <2>2. QED  BY <1>3, <1>4, <2>1 DEF EscOnCommitted
<1>5. CASE EscPasses
  <2>1. /\ ~Composing /\ engine' = engine /\ prev' = prev /\ Pass("other")
        /\ commit' = Cancel(commit) \/ commit' = commit
    BY <1>5 DEF EscPasses
  <2>2. text' = text /\ queue' = queue
    BY <1>1, <2>1, PassLands DEF Edits, Apply
  <2>3. Final' = Final
    BY <2>2 DEF Final
  <2>4. CASE commit' = commit
    BY <2>1, <2>2, <2>3, <2>4, SameScreen
  <2>5. QED  BY <1>3, <2>1, <2>4
<1>6. QED  BY <1>2, <1>4, <1>5

LEMMA ResetScreen ==
  ASSUME Before, Known, NEW key, ResetComposition(key)
  PROVE  Screen'
<1>1. Inv /\ Screen /\ Bounded(commit)
  BY DEF Before, Inv, WordTypeOK, Bounded
<1>2. CASE off /\ key = "shortcut"
  <2>1. commit' = Opened(key) /\ engine' = engine /\ prev' = prev
    BY <1>2 DEF ResetComposition
  <2>2. /\ Opened(key).stack = <<>> /\ ~Composing
        /\ Opened(key) = commit \/ Opened(key) = Cancel(commit)
    BY <1>1, <1>2, OpenedOK DEF Inv, OffStateEmpty, Opened
  <2>3. commit'.history = commit.history
    BY <1>1, <2>1, <2>2, HistoryKept
  <2>4. QED  BY <1>1, <2>1, <2>2, <2>3, NothingTyped DEF Known
<1>3. CASE ~(off /\ key = "shortcut")
  <2> DEFINE c == Cancel(commit)
  <2>1. commit' = [c EXCEPT !.history = <<>>] /\ engine' = <<>> /\ prev' = <<>>
    BY <1>3 DEF ResetComposition, ClearWord
  <2>2. c \in Commits /\ c.stack = <<>>
    BY <1>1, CancelOf
  <2> HIDE DEF c
  <2>3. commit'.stack = <<>> /\ commit'.history = <<>>
    BY <2>1, <2>2 DEF Commits
  <2>4. SameWord(commit'.history, engine')
    BY <2>1, <2>3, SameNothing
  <2>5. Word' = <<>>
    BY <2>1, ShowsNothing DEF Word
  <2>6. QED  BY <2>1, <2>3, <2>4, <2>5, ScreenNoStack DEF Known
<1>4. QED  BY <1>2, <1>3

LEMMA ToggleScreen ==
  ASSUME Before, Known, ToggleEnabled
  PROVE  Screen'
<1>1. Inv /\ Screen /\ Bounded(commit) /\ EngineOK /\ WordTypeOK
  BY DEF Before, Inv, WordTypeOK, Bounded
<1>2. CASE Composing
  <2> DEFINE d == IF Pushes(commit)
                  THEN [PushEntry(commit, Entry(commit)) EXCEPT !.leading = 0]
                  ELSE commit
             c == CommitComposition(commit)
  <2>1. commit' = Cancel(c) /\ engine' = <<>> /\ prev' = <<>>
    BY <1>2 DEF ToggleEnabled, ClearWord
  <2>2. Bounded(c)
    BY <1>1, CommitWord
  <2>3. c.history = <<>>
    <3>1. "history" \in DOMAIN d
      BY <1>1 DEF PushEntry, Bounded, Commits
    <3>2. c = [d EXCEPT !.history = <<>>]
      BY DEF CommitComposition
    <3> HIDE DEF d, c
    <3>3. QED  BY <3>1, <3>2
  <2> HIDE DEF c
  <2>4. commit'.stack = <<>> /\ commit'.history = <<>>
    BY <2>1, <2>2, <2>3, CancelOf
  <2>5. SameWord(commit'.history, engine')
    BY <2>1, <2>4, SameNothing
  <2>6. Word' = <<>>
    BY <2>1, ShowsNothing DEF Word
  <2>7. QED  BY <2>1, <2>4, <2>5, <2>6, ScreenNoStack DEF Known
<1>3. CASE ~Composing
  <2>1. commit' = Cancel(commit) /\ engine' = engine /\ prev' = prev
    BY <1>3 DEF ToggleEnabled
  <2>2. commit'.stack = <<>> /\ commit'.history = commit.history
    BY <1>1, <2>1, CancelOf
  <2>3. QED  BY <1>1, <1>3, <2>1, <2>2, NothingTyped DEF Known
<1>4. QED  BY <1>2, <1>3

LEMMA QuietScreen ==
  ASSUME Before, Known, Wait \/ Deliver \/ UNCHANGED vars
  PROVE  Screen'
<1>1. CASE Wait
  <2>1. commit' = [commit EXCEPT !.old = TRUE] /\ commit \in Commits
    BY <1>1 DEF Wait, Before, Inv, WordTypeOK
  <2>2. /\ commit'.stack = commit.stack /\ commit'.state = commit.state
        /\ commit'.extra = commit.extra /\ commit'.leading = commit.leading
        /\ commit'.history = commit.history
    BY <2>1 DEF Commits
  <2>3. engine' = engine /\ prev' = prev /\ text' = text /\ Final' = Final
    BY <1>1 DEF Wait, Final
  <2>4. QED  BY <2>2, <2>3, SameScreen
<1>2. CASE Deliver
  <2>1. /\ engine' = engine /\ prev' = prev /\ commit' = commit
        /\ text' = Final /\ queue' = <<>>
    BY <1>2 DEF Deliver
  <2>2. Final' = Final
    <3>1. Final' = Arrived(text', queue')
      BY DEF Final
    <3>2. QED  BY <2>1, <3>1, ArrivedNone
  <2>3. QED  BY <2>1, <2>2, SameScreen
<1>3. CASE UNCHANGED vars
  <2>1. /\ engine' = engine /\ prev' = prev /\ commit' = commit
        /\ text' = text /\ Final' = Final
    BY <1>3 DEF vars, Final
  <2>2. QED  BY <2>1, SameScreen
<1>4. QED  BY <1>1, <1>2, <1>3

\* Once lost, the hook stays lost.
LEMMA LostStays == [Next]_vars /\ lost => lost'
BY DEF Next, TypeOff, TypeLetter, ReplayWithTone, Backspace, CommitTrigger,
       OtherKey, EscOnWord, EscOnCommitted, EscPasses, ResetComposition,
       ToggleEnabled, Wait, Deliver, Track, vars

ScreenInv == Inv /\ TextOK /\ (~lost => Screen)

LEMMA InitScreen == Init => ScreenInv
<1> SUFFICES ASSUME Init PROVE ScreenInv
  OBVIOUS
<1>1. Inv /\ commit \in Commits
  BY InitInv DEF Inv, WordTypeOK
<1>2. /\ engine = <<>> /\ prev = <<>> /\ queue = <<>> /\ text = <<>>
      /\ commit.stack = <<>> /\ commit.history = <<>> /\ commit.state = "Idle"
  BY DEF Init, NoWord
<1>3. TextOK
  BY <1>2 DEF TextOK
<1>4. Final = <<>> /\ <<>> \in Seq(Chars)
  BY <1>2, ArrivedNone DEF Final
<1>5. SameWord(commit.history, engine)
  BY <1>2, SameNothing
<1>6. Base(commit, engine, prev, Final)
  BY <1>1, <1>2, <1>4, <1>5, BaseNothing
<1>7. ~Strayed /\ prev = Word /\ ~Counted(commit)
  BY <1>1, <1>2, ShowsNothing, NoneCounted DEF Strayed, Word
<1>8. QED  BY <1>1, <1>3, <1>6, <1>7 DEF ScreenInv, Screen

LEMMA NextScreen ==
  EngineOK /\ EmptyStays /\ ScreenInv /\ [Next]_vars => ScreenInv'
<1> SUFFICES ASSUME EngineOK, EmptyStays, ScreenInv, [Next]_vars
             PROVE  ScreenInv'
  OBVIOUS
<1>1. Inv' /\ TextOK'
  BY NextInv, NextText DEF ScreenInv
<1> SUFFICES ASSUME ~lost' PROVE Screen'
  BY <1>1 DEF ScreenInv
<1>2. Before /\ Known
  BY <1>1, LostStays DEF ScreenInv, Before, Known
<1>3. ASSUME NEW key \in Letters \cup Tones,
             TypeOff(key) \/ TypeLetter(key) \/ ReplayWithTone(key)
      PROVE  Screen'
  BY <1>2, <1>3, LetterScreen
<1>4. CASE Backspace
  BY <1>2, <1>4, BackspaceScreens
<1>5. ASSUME NEW key \in Triggers, CommitTrigger(key) PROVE Screen'
  BY <1>2, <1>5, TriggerScreen
<1>6. CASE OtherKey
  BY <1>2, <1>6, OtherScreen
<1>7. CASE EscOnWord \/ EscOnCommitted \/ EscPasses
  BY <1>2, <1>7, EscScreen
<1>8. ASSUME NEW key \in {"shortcut", "click"}, ResetComposition(key)
      PROVE  Screen'
  BY <1>2, <1>8, ResetScreen
<1>9. CASE ToggleEnabled
  BY <1>2, <1>9, ToggleScreen
<1>10. CASE Wait \/ Deliver \/ UNCHANGED vars
  BY <1>2, <1>10, QuietScreen
<1>11. QED
  BY <1>3, <1>4, <1>5, <1>6, <1>7, <1>8, <1>9, <1>10 DEF Next

LEMMA SpecScreen == EngineOK /\ EmptyStays => (Spec => []ScreenInv)
<1> SUFFICES ASSUME EngineOK, EmptyStays PROVE Spec => []ScreenInv
  OBVIOUS
<1>1. Init => ScreenInv
  BY InitScreen
<1>2. ScreenInv /\ [Next]_vars => ScreenInv'
  BY NextScreen
<1>3. QED  BY <1>1, <1>2, PTL DEF Spec

LEMMA ScreenWord == Inv /\ Screen => prev = Word /\ IsSuffix(Word, Final)
<1> SUFFICES ASSUME Inv, Screen PROVE prev = Word /\ IsSuffix(Word, Final)
  OBVIOUS
<1>1. prev = Word /\ prev \in Seq(Chars)
  BY DEF Inv, WordTypeOK, Screen
<1>2. PICK p \in Seq(Chars) : Final = p \o prev
  BY DEF Screen, Base
<1>3. QED  BY <1>1, <1>2, SuffixOfConcat

\* What a word on the stack is behind, as Behind counts it.
IsBehind(b) ==
  \A i \in 1 .. Len(commit.stack) :
    b[i] = TriggersAfter(i) +
             (IF i = Len(commit.stack) THEN Len(prev)
              ELSE Size(commit.stack, i + 1) + b[i + 1])

LEMMA BehindIs ==
  ASSUME NEW b, b = [i \in 1 .. Len(commit.stack) |-> b[i]], IsBehind(b)
  PROVE  IsBehind(Behind)
<1> DEFINE Step(f) == [i \in 1 .. Len(commit.stack) |->
                         TriggersAfter(i) +
                           IF i = Len(commit.stack) THEN Len(prev)
                           ELSE Len(commit.stack[i + 1].text) + f[i + 1]]
<1>1. Behind = CHOOSE f : f = Step(f)
  BY DEF Behind
<1>2. b = Step(b)
  BY DEF IsBehind, Size
<1>3. Behind = Step(Behind)
  BY <1>1, <1>2
<1>4. \A i \in 1 .. Len(commit.stack) : Step(Behind)[i] =
         TriggersAfter(i) +
             IF i = Len(commit.stack) THEN Len(prev)
             ELSE Len(commit.stack[i + 1].text) + Behind[i + 1]
  OBVIOUS
<1> HIDE DEF Step
<1>5. QED  BY <1>3, <1>4 DEF IsBehind, Size

LEMMA LayoutBehind ==
  ASSUME NEW s \in Seq(Entries), s = commit.stack, prev \in Seq(Chars),
         NEW p \in Seq(Chars), NEW at, NEW g \in Nat, g = After(commit),
         IsLayout(Len(p), s, g, at)
  PROVE  \A i \in 1 .. Len(s) :
           Behind[i] = (Len(p) + Len(prev)) - (at[i] + Size(s, i))
<1> DEFINE n == Len(s)
           m == Len(p)
           k == Len(prev)
           b == [i \in 1 .. n |-> (m + k) - (at[i] + Size(s, i))]
<1>1. n \in Nat /\ m \in Nat /\ k \in Nat
  OBVIOUS
<1>2. \A i \in 1 .. n : TriggersAfter(i) = Gap(s, g, i)
  BY DEF TriggersAfter, Gap, After
<1>3. \A i \in 1 .. n :
        /\ at[i] \in Nat /\ at[i + 1] \in Nat
        /\ at[i + 1] = at[i] + Size(s, i) + Gap(s, g, i)
        /\ Size(s, i) \in Nat /\ Gap(s, g, i) \in Nat
  <2> SUFFICES ASSUME NEW i \in 1 .. n
               PROVE  /\ at[i] \in Nat /\ at[i + 1] \in Nat
                      /\ at[i + 1] = at[i] + Size(s, i) + Gap(s, g, i)
                      /\ Size(s, i) \in Nat /\ Gap(s, g, i) \in Nat
    OBVIOUS
  <2>1. Size(s, i) \in Nat /\ Gap(s, g, i) \in Nat
    BY EntryAt, GapNat
  <2>2. /\ at[i] \in Nat /\ at[i + 1] \in Nat
        /\ at[i + 1] = at[i] + Size(s, i) + Gap(s, g, i)
    BY ONLY LayoutAt, s \in Seq(Entries), g \in Nat, i \in 1 .. Len(s),
            IsLayout(Len(p), s, g, at)
  <2>3. QED  BY <2>1, <2>2
<1>4. at[n + 1] = m
  BY DEF IsLayout
<1>5. \A i \in 1 .. n : i /= n => i + 1 \in 1 .. n
  BY <1>1
<1> HIDE DEF m, k
<1>6. IsBehind(b)
  <2> SUFFICES ASSUME NEW i \in 1 .. n
               PROVE  b[i] = TriggersAfter(i) +
                        (IF i = n THEN k ELSE Size(s, i + 1) + b[i + 1])
    BY DEF IsBehind, k
  <2>1. CASE i = n
    <3>1. b[i] = (m + k) - (at[i] + Size(s, i))
      OBVIOUS
    <3>2. m = at[i] + Size(s, i) + Gap(s, g, i)
      BY <1>3, <1>4, <2>1
    <3>3. TriggersAfter(i) = Gap(s, g, i)
      BY <1>2
    <3> HIDE DEF b
    <3>4. PICK x \in Nat, u \in Nat, t \in Nat :
            x = at[i] /\ u = Size(s, i) /\ t = Gap(s, g, i)
      BY <1>3
    <3>5. b[i] = (m + k) - (x + u) /\ m = x + u + t
      BY <3>1, <3>2, <3>4
    <3>6. b[i] = t + k
      BY ONLY <1>1, <3>5, x \in Nat, u \in Nat, t \in Nat
    <3>7. QED  BY <2>1, <3>3, <3>4, <3>6
  <2>2. CASE i /= n
    <3>1. i + 1 \in 1 .. n
      BY <1>5, <2>2
    <3>2. b[i + 1] = (m + k) - (at[i + 1] + Size(s, i + 1))
      BY <3>1
    <3>3. Size(s, i + 1) \in Nat
      BY <1>3, <3>1
    <3>4. b[i] = (m + k) - (at[i] + Size(s, i))
      OBVIOUS
    <3> HIDE DEF b
    <3>5. /\ TriggersAfter(i) = Gap(s, g, i) /\ Gap(s, g, i) \in Nat
          /\ at[i] \in Nat /\ at[i + 1] \in Nat /\ Size(s, i) \in Nat
          /\ at[i + 1] = at[i] + Size(s, i) + Gap(s, g, i)
      BY <1>2, <1>3
    <3>6. b[i] = TriggersAfter(i) + (Size(s, i + 1) + b[i + 1])
      <4>1. PICK x \in Nat, y \in Nat, u \in Nat, v \in Nat, t \in Nat :
              /\ x = at[i] /\ y = at[i + 1] /\ u = Size(s, i)
              /\ v = Size(s, i + 1) /\ t = Gap(s, g, i)
        BY <3>3, <3>5
      <4>2. y = x + u + t
        BY <3>5, <4>1
      <4>3. b[i] = (m + k) - (x + u)
        BY <3>4, <4>1
      <4>4. b[i + 1] = (m + k) - (y + v)
        BY <3>2, <4>1
      <4>5. b[i] = t + (v + b[i + 1])
        <5>1. PICK z \in Nat : z = m + k
          BY <1>1
        <5>2. z - (x + u) = t + (v + (z - (y + v)))
          BY ONLY <4>2, z \in Nat, x \in Nat, y \in Nat, u \in Nat,
                  v \in Nat, t \in Nat
        <5>3. QED  BY <4>3, <4>4, <5>1, <5>2
      <4>6. QED  BY <3>5, <4>1, <4>5
    <3>7. QED  BY <2>2, <3>6
  <2>3. QED  BY <2>1, <2>2
<1>7. b = [i \in 1 .. n |-> b[i]]
  OBVIOUS
<1> HIDE DEF b
<1>8. IsBehind(Behind)
  BY <1>6, <1>7, BehindIs
<1> DEFINE S == {x \in Nat : x < n => Behind[n - x] = b[n - x]}
<1>9. 0 \in S
  <2>1. ASSUME 0 < n PROVE Behind[n] = b[n]
    <3>1. n \in 1 .. n
      BY <1>1, <2>1
    <3>2. QED  BY <1>6, <1>8, <3>1 DEF IsBehind
  <2>2. n - 0 = n
    BY <1>1
  <2>3. QED  BY <2>1, <2>2
<1>10. ASSUME NEW x \in Nat, x \in S PROVE x + 1 \in S
  <2>1. ASSUME x + 1 < n PROVE Behind[n - (x + 1)] = b[n - (x + 1)]
    <3> DEFINE i == n - (x + 1)
    <3>1. i \in 1 .. n /\ i /= n /\ i + 1 = n - x /\ x < n
      BY <1>1, <2>1
    <3>2. Behind[i + 1] = b[i + 1]
      BY <1>10, <3>1
    <3> HIDE DEF i, S
    <3>3. Behind[i] = TriggersAfter(i) + (Size(s, i + 1) + Behind[i + 1])
      BY <1>8, <3>1 DEF IsBehind
    <3>4. b[i] = TriggersAfter(i) + (Size(s, i + 1) + b[i + 1])
      BY <1>6, <3>1 DEF IsBehind
    <3>5. QED  BY <3>2, <3>3, <3>4 DEF i
  <2>2. QED  BY <2>1
<1>11. Nat \subseteq S
  BY <1>9, <1>10, Induction
<1>12. ASSUME NEW i \in 1 .. n PROVE Behind[i] = b[i]
  <2>1. n - i \in Nat /\ n - i < n /\ n - (n - i) = i
    BY <1>1
  <2>2. QED  BY <1>11, <2>1
<1>13. \A i \in 1 .. n : b[i] = (m + k) - (at[i] + Size(s, i))
  BY DEF b
<1>14. QED  BY <1>12, <1>13 DEF m, k

\* A word of the stack, read at its place.
LEMMA WordAt ==
  ASSUME NEW w \in Seq(Chars), NEW t \in Seq(Chars), NEW a \in Nat,
         a + Len(w) <= Len(t), \A j \in 1 .. Len(w) : t[a + j] = w[j]
  PROVE  SubSeq(t, a + 1, a + Len(w)) = w
<1>1. Len(w) \in Nat /\ Len(t) \in Nat
  OBVIOUS
<1> DEFINE r == SubSeq(t, a + 1, a + Len(w))
<1>2. r \in Seq(Chars) /\ Len(r) = Len(w)
  BY <1>1
<1>3. \A j \in 1 .. Len(w) : r[j] = t[a + j]
  BY <1>1
<1> HIDE DEF r
<1>4. r = w
  BY <1>2, <1>3
<1>5. QED  BY <1>4 DEF r

LEMMA ScreenStack == Inv /\ Screen => StackOnScreen
<1> SUFFICES ASSUME Inv, Screen PROVE StackOnScreen
  OBVIOUS
<1>1. /\ prev \in Seq(Chars) /\ commit.stack \in Seq(Entries)
      /\ After(commit) \in Nat
  BY AfterNat DEF Inv, WordTypeOK, Commits
<1> PICK s \in Seq(Entries), g \in Nat : s = commit.stack /\ g = After(commit)
  BY <1>1
<1>2. PICK p \in Seq(Chars) : Final = p \o prev /\ Lies(p, s, g)
  BY DEF Screen, Base
<1>3. PICK at : LiesAt(p, s, g, at)
  BY <1>2 DEF Lies
<1>4. IsLayout(Len(p), s, g, at)
  BY <1>3 DEF LiesAt
<1>5. /\ Len(p) \in Nat /\ Len(prev) \in Nat /\ Final \in Seq(Chars)
      /\ Len(Final) = Len(p) + Len(prev)
      /\ \A j \in 1 .. Len(p) : Final[j] = p[j]
  BY <1>1, <1>2
<1> SUFFICES ASSUME NEW i \in 1 .. Len(s)
             PROVE  LET last == Len(Final) - Behind[i] IN
                    /\ last >= Len(commit.stack[i].text)
                    /\ SubSeq(Final, last - Len(commit.stack[i].text) + 1, last)
                         = commit.stack[i].text
                    /\ \A j \in last + 1 .. last + TriggersAfter(i) :
                         Final[j] \in {" ", "enter"}
  BY DEF StackOnScreen
<1> DEFINE w == s[i].text
           a == at[i]
<1>6. Behind[i] = (Len(p) + Len(prev)) - (a + Size(s, i))
  BY <1>1, <1>4, LayoutBehind
<1>7. w \in Seq(Chars) /\ Size(s, i) = Len(w) /\ Len(w) \in Nat
  BY <1>1, EntryAt DEF Size
<1>8. /\ a \in Nat /\ at[i + 1] \in Nat /\ a + Len(w) <= at[i + 1]
      /\ at[i + 1] <= Len(p)
      /\ at[i + 1] = a + Len(w) + Gap(s, g, i)
  <2>1. /\ at[i] \in Nat /\ at[i + 1] \in Nat
        /\ at[i + 1] <= Len(p)
        /\ at[i + 1] = at[i] + Size(s, i) + Gap(s, g, i)
    BY ONLY <1>4, LayoutAt, s \in Seq(Entries), g \in Nat, i \in 1 .. Len(s)
  <2>2. Gap(s, g, i) \in Nat
    BY ONLY GapNat, s \in Seq(Entries), g \in Nat, i \in 1 .. Len(s)
  <2> HIDE DEF w
  <2>3. QED  BY <1>7, <2>1, <2>2
<1>9. TriggersAfter(i) = Gap(s, g, i) /\ Gap(s, g, i) \in Nat
  <2>1. Gap(s, g, i) \in Nat
    BY ONLY GapNat, s \in Seq(Entries), g \in Nat, i \in 1 .. Len(s)
  <2>2. TriggersAfter(i) = Gap(s, g, i)
    BY DEF TriggersAfter, Gap, After
  <2>3. QED  BY <2>1, <2>2
<1>10. /\ \A j \in 1 .. Len(w) : p[a + j] = w[j]
       /\ \A j \in a + Len(w) + 1 .. at[i + 1] : p[j] \in Blanks
  BY <1>3, <1>7 DEF LiesAt, IsWordAt, OnlyTriggers
<1> HIDE DEF w, a
<1>11. Len(Final) - Behind[i] = a + Len(w)
  BY <1>5, <1>6, <1>7, <1>8
<1>12. \A j \in 1 .. Len(w) : a + j \in 1 .. Len(p)
  BY <1>5, <1>7, <1>8
<1>13. \A j \in 1 .. Len(w) : Final[a + j] = w[j]
  BY <1>5, <1>10, <1>12
<1>14. a + Len(w) <= Len(Final)
  BY <1>5, <1>7, <1>8
<1>15. SubSeq(Final, a + 1, a + Len(w)) = w
  BY <1>5, <1>7, <1>8, <1>13, <1>14, WordAt
<1>16. \A j \in a + Len(w) + 1 .. a + Len(w) + TriggersAfter(i) :
         Final[j] \in Blanks
  <2>1. \A j \in a + Len(w) + 1 .. a + Len(w) + TriggersAfter(i) :
          j \in a + Len(w) + 1 .. at[i + 1] /\ j \in 1 .. Len(p)
    BY <1>5, <1>7, <1>8, <1>9
  <2>2. QED  BY <1>5, <1>10, <2>1
<1>17. a + Len(w) >= Len(w) /\ (a + Len(w)) - Len(w) + 1 = a + 1
  BY <1>7, <1>8
<1> DEFINE last == Len(Final) - Behind[i]
<1>18. /\ last >= Len(w) /\ SubSeq(Final, last - Len(w) + 1, last) = w
       /\ \A j \in last + 1 .. last + TriggersAfter(i) : Final[j] \in Blanks
  BY <1>11, <1>15, <1>16, <1>17
<1> HIDE DEF last
<1>19. QED  BY <1>18, Zenon DEF w, Blanks, last

-----------------------------------------------------------------------------
\* What the user sees before the caret is, in the end, the word that is
\* composed, and the application is told to delete as much as it shows
\* (ReplaceComposition, ReplayCommittedChars).
THEOREM WordAlwaysOnScreen ==
  EngineOK /\ EmptyStays => (Spec => []WordOnScreen)
<1>1. ScreenInv => WordOnScreen
  BY ScreenWord DEF ScreenInv, WordOnScreen
<1>2. QED  BY <1>1, SpecScreen, PTL

\* The words that Backspace would take back are on the screen, each followed
\* by as many triggers as are deleted before it is taken back
\* (HandleCommitUndoFsm).
THEOREM UndoAlwaysOnScreen ==
  EngineOK /\ EmptyStays => (Spec => []UndoOnScreen)
<1>1. ScreenInv => UndoOnScreen
  BY ScreenStack DEF ScreenInv, UndoOnScreen
<1>2. QED  BY <1>1, SpecScreen, PTL

\* The same, and replaying their keystrokes yields the words that are there
\* (HandleCommitUndoFsm, ReplayCommittedChars).
THEOREM UndoAlwaysSound ==
  EngineOK /\ EmptyForgets => (Spec => []UndoSound)
<1> SUFFICES ASSUME EngineOK, EmptyForgets PROVE Spec => []UndoSound
  OBVIOUS
<1>1. Inv /\ Screen => StackOnScreen /\ EntriesIn(commit.stack)
  BY ScreenStack DEF Screen, Base
<1>2. ScreenInv => UndoSound
  BY <1>1
  DEF ScreenInv, UndoSound, UndoOnScreen, EntriesReplay, EntriesIn
<1>3. Spec => []ScreenInv
  BY SpecScreen, ForgetsStays
<1>4. QED  BY <1>2, <1>3, PTL
=============================================================================

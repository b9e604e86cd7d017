------------------------ MODULE OutputDispatchProofs ------------------------
(***************************************************************************)
(* OutputDispatch, for any windows, any number of keys and any faults: the *)
(* counter is what is in flight, a physical key does not overtake the      *)
(* events sent before it, an edit message does not overtake the input, and *)
(* the screen shows the text the engine has.                               *)
(***************************************************************************)
EXTENDS OutputDispatch, TLAPS, WellFoundedInduction, SequenceTheorems

-----------------------------------------------------------------------------
(* Induction over numbers and over sequences.                              *)

LEMMA Smallest ==
  ASSUME NEW S \in SUBSET Nat, S /= {}
  PROVE  \E least \in S : \A k \in S : least <= k
<1> DEFINE R == {p \in Nat \X Nat : p[1] < p[2]}
<1>1. IsWellFoundedOn(R, Nat)
  BY NatLessThanWellFounded DEF OpToRel
<1>2. PICK least \in S : \A k \in S : <<k, least>> \notin R
  BY <1>1, WFMin
<1>3. ASSUME NEW k \in S PROVE least <= k
  <2>1. ~(k < least)
    BY <1>2
  <2>2. QED  BY <2>1
<1>4. QED  BY <1>3

\* Induction, with a set in place of a predicate.
LEMMA Induction ==
  ASSUME NEW S, 0 \in S, \A k \in Nat : k \in S => k + 1 \in S
  PROVE  Nat \subseteq S
<1> DEFINE T == Nat \ S
<1> SUFFICES ASSUME T /= {} PROVE FALSE
  OBVIOUS
<1>1. PICK least \in T : \A k \in T : least <= k
  BY Smallest
<1>2. least - 1 \in Nat /\ least - 1 \notin T
  BY <1>1
<1>3. QED  BY <1>2

LEMMA SeqInduction ==
  ASSUME NEW A, NEW S, <<>> \in S,
         \A s \in Seq(A) : s \in S => \A e \in A : Append(s, e) \in S
  PROVE  Seq(A) \subseteq S
<1> DEFINE N == {k \in Nat : \A s \in Seq(A) : Len(s) = k => s \in S}
<1>1. 0 \in N
  OBVIOUS
<1>2. ASSUME NEW k \in Nat, k \in N PROVE k + 1 \in N
  <2> SUFFICES ASSUME NEW s \in Seq(A), Len(s) = k + 1 PROVE s \in S
    OBVIOUS
  <2> DEFINE r == SubSeq(s, 1, k)
  <2>1. r \in Seq(A) /\ Len(r) = k /\ s[k + 1] \in A
    OBVIOUS
  <2>2. s = Append(r, s[k + 1])
    OBVIOUS
  <2>3. r \in S
    BY <1>2, <2>1
  <2> HIDE DEF r
  <2>4. QED  BY <2>1, <2>2, <2>3
<1>3. Nat \subseteq N
  BY <1>1, <1>2, Induction
<1>4. QED  BY <1>3

\* A nonempty set of naturals with a bound has a greatest element.
LEMMA Greatest ==
  ASSUME NEW S \in SUBSET Nat, S /= {}, NEW b \in Nat, \A k \in S : k <= b
  PROVE  \E most \in S : \A k \in S : k <= most
<1> DEFINE R == {r \in Nat : r <= b /\ b - r \in S}
<1>1. R /= {}
  <2>1. PICK k \in S : TRUE
    OBVIOUS
  <2>2. b - k \in R
    BY <2>1
  <2>3. QED  BY <2>2
<1>2. PICK least \in R : \A r \in R : least <= r
  BY <1>1, Smallest
<1>3. b - least \in S
  OBVIOUS
<1>4. ASSUME NEW k \in S PROVE b - least >= k
  <2>1. b - k \in R
    OBVIOUS
  <2>2. least <= b - k
    BY <1>2, <2>1
  <2>3. least \in Nat /\ k \in Nat
    OBVIOUS
  <2>4. QED  BY ONLY b \in Nat, <2>2, <2>3
<1>5. QED  BY <1>3, <1>4

-----------------------------------------------------------------------------
(* Events, and what they count.                                            *)

Glyphs == Letters \cup Ends \cup {"aa", "s"}
Texts == Seq(Glyphs)
Ops == {"text", "bait", "del", "back"}
Events == [op : Ops, text : Texts, own : 0 .. 4, era : Nat]
Sendable == {e \in Events : e.own > 0}
AllBatches == [events : Seq(Sendable), free : BOOLEAN]

Sums(f, events) ==
  f = [k \in 0 .. Len(events) |-> IF k = 0 THEN 0 ELSE f[k - 1] + events[k].own]

LEMMA SumsExist ==
  ASSUME NEW events \in Seq(Events)
  PROVE  \E f : Sums(f, events) /\ Own(events) = f[Len(events)]
<1> DEFINE upto(k) == SubSeq(events, 1, k)
<1> DEFINE N == {k \in Nat : k <= Len(events) => \E f : Sums(f, upto(k))}
<1>1. 0 \in N
  <2>1. Sums([k \in 0 .. 0 |-> 0], upto(0))
    BY DEF Sums
  <2>2. QED  BY <2>1
<1>2. ASSUME NEW k \in Nat, k \in N PROVE k + 1 \in N
  <2> SUFFICES ASSUME k + 1 <= Len(events) PROVE \E f : Sums(f, upto(k + 1))
    OBVIOUS
  <2>1. PICK f : Sums(f, upto(k))
    BY <1>2
  <2> DEFINE g == [m \in 0 .. k + 1 |-> IF m = k + 1 THEN f[k] + events[k + 1].own ELSE f[m]]
  <2>2. /\ Len(upto(k)) = k /\ Len(upto(k + 1)) = k + 1
        /\ \A m \in 1 .. k : upto(k)[m] = events[m] /\ upto(k + 1)[m] = events[m]
        /\ upto(k + 1)[k + 1] = events[k + 1]
    OBVIOUS
  <2>3. ASSUME NEW m \in 0 .. k + 1
        PROVE  g[m] = IF m = 0 THEN 0 ELSE g[m - 1] + upto(k + 1)[m].own
    <3>1. CASE m = k + 1
      BY <2>2, <3>1
    <3>2. CASE m /= k + 1
      BY <2>1, <2>2, <3>2 DEF Sums
    <3>3. QED  BY <3>1, <3>2
  <2>4. Sums(g, upto(k + 1))
    BY <2>2, <2>3 DEF Sums
  <2>5. QED  BY <2>4
<1>3. Nat \subseteq N
  BY <1>1, <1>2, Induction
<1>4. Len(events) \in Nat /\ upto(Len(events)) = events
  OBVIOUS
<1>5. Len(events) \in N
  BY <1>3, <1>4
<1>6. \E f : Sums(f, upto(Len(events)))
  BY <1>4, <1>5
<1> HIDE DEF upto
<1>7. \E f : Sums(f, events)
  BY <1>4, <1>6
<1> DEFINE A == CHOOSE f : Sums(f, events)
<1>8. Sums(A, events)
  BY <1>7
<1>9. Own(events) = A[Len(events)]
  BY DEF Own, Sums
<1> HIDE DEF A
<1>10. QED  BY <1>8, <1>9

\* Two runs over events that agree up to a place agree up to there.
LEMMA SumsAgree ==
  ASSUME NEW a \in Seq(Events), NEW b \in Seq(Events), NEW f, NEW g,
         Sums(f, a), Sums(g, b), Len(a) <= Len(b),
         \A i \in 1 .. Len(a) : a[i] = b[i]
  PROVE  f[Len(a)] = g[Len(a)]
<1> DEFINE m == Len(a)
<1> DEFINE N == {k \in Nat : k <= m => f[k] = g[k]}
<1>1. 0 \in N
  BY DEF Sums
<1>2. ASSUME NEW k \in Nat, k \in N PROVE k + 1 \in N
  <2> SUFFICES ASSUME k + 1 <= m PROVE f[k + 1] = g[k + 1]
    OBVIOUS
  <2>1. f[k] = g[k] /\ a[k + 1] = b[k + 1]
    BY <1>2
  <2>2. f[k + 1] = f[k] + a[k + 1].own
    BY DEF Sums
  <2>3. g[k + 1] = g[k] + b[k + 1].own
    BY DEF Sums
  <2>4. QED  BY <2>1, <2>2, <2>3
<1>3. Nat \subseteq N
  BY <1>1, <1>2, Induction
<1>4. QED  BY <1>3

LEMMA OwnNone ==
  Own(<<>>) = 0
<1>1. <<>> \in Seq(Events) /\ Len(<<>>) = 0
  OBVIOUS
<1>2. PICK f : Sums(f, <<>>) /\ Own(<<>>) = f[Len(<<>>)]
  BY <1>1, SumsExist
<1>3. QED  BY <1>1, <1>2 DEF Sums

LEMMA OwnSnoc ==
  ASSUME NEW q \in Seq(Events), NEW e \in Events
  PROVE  Own(Append(q, e)) = Own(q) + e.own
<1> DEFINE r == Append(q, e)
<1>1. /\ r \in Seq(Events) /\ Len(r) = Len(q) + 1 /\ r[Len(q) + 1] = e
      /\ \A i \in 1 .. Len(q) : r[i] = q[i]
      /\ Len(q) \in Nat
  OBVIOUS
<1> HIDE DEF r
<1>2. PICK f : Sums(f, q) /\ Own(q) = f[Len(q)]
  BY SumsExist
<1>3. PICK g : Sums(g, r) /\ Own(r) = g[Len(r)]
  BY SumsExist, <1>1
<1>4. f[Len(q)] = g[Len(q)]
  <2>1. /\ Len(q) <= Len(r) /\ \A i \in 1 .. Len(q) : q[i] = r[i]
        /\ r \in Seq(Events)
    BY <1>1
  <2>2. Sums(f, q) /\ Sums(g, r)
    BY <1>2, <1>3
  <2>3. QED  BY ONLY <2>1, <2>2, SumsAgree, q \in Seq(Events)
<1>5. g[Len(r)] = g[Len(q)] + e.own
  BY <1>1, <1>3 DEF Sums
<1>6. QED  BY <1>2, <1>3, <1>4, <1>5 DEF r

LEMMA OwnOf ==
  ASSUME NEW e \in Events
  PROVE  e.own \in Nat
BY DEF Events

LEMMA OwnNat ==
  ASSUME NEW s \in Seq(Events)
  PROVE  Own(s) \in Nat
<1> DEFINE S == {r \in Seq(Events) : Own(r) \in Nat}
<1>1. <<>> \in S
  BY OwnNone
<1>2. ASSUME NEW r \in Seq(Events), r \in S, NEW e \in Events
      PROVE  Append(r, e) \in S
  <2>1. Own(Append(r, e)) = Own(r) + e.own /\ e.own \in Nat
    BY OwnSnoc, OwnOf
  <2>2. Append(r, e) \in Seq(Events)
    OBVIOUS
  <2>3. QED  BY <1>2, <2>1, <2>2
<1>3. Seq(Events) \subseteq S
  BY <1>1, <1>2, SeqInduction
<1>4. QED  BY <1>3

LEMMA OwnConcat ==
  ASSUME NEW q \in Seq(Events), NEW s \in Seq(Events)
  PROVE  Own(q \o s) = Own(q) + Own(s)
<1> DEFINE S == {r \in Seq(Events) : Own(q \o r) = Own(q) + Own(r)}
<1>1. <<>> \in S
  <2>1. q \o <<>> = q
    OBVIOUS
  <2>2. QED  BY <2>1, OwnNone, OwnNat
<1>2. ASSUME NEW r \in Seq(Events), r \in S, NEW e \in Events
      PROVE  Append(r, e) \in S
  <2>1. q \o Append(r, e) = Append(q \o r, e) /\ q \o r \in Seq(Events)
    OBVIOUS
  <2>2. Own(q \o Append(r, e)) = Own(q \o r) + e.own
    BY <2>1, OwnSnoc
  <2>3. Own(Append(r, e)) = Own(r) + e.own
    BY OwnSnoc
  <2>4. Own(q) \in Nat /\ Own(r) \in Nat /\ e.own \in Nat
    BY OwnNat, OwnOf
  <2>5. QED  BY <1>2, <2>2, <2>3, <2>4
<1>3. Seq(Events) \subseteq S
  BY <1>1, <1>2, SeqInduction
<1>4. QED  BY <1>3

\* What the hook sends is counted: nothing is in flight if the count is 0.
LEMMA OwnPositive ==
  ASSUME NEW s \in Seq(Sendable), s /= <<>>
  PROVE  Own(s) > 0 /\ Own(s) = Own(Tail(s)) + Head(s).own
<1>1. /\ Head(s) \in Events /\ Head(s).own > 0 /\ Head(s).own \in Nat
      /\ Tail(s) \in Seq(Sendable) /\ s = <<Head(s)>> \o Tail(s)
  BY DEF Sendable, Events
<1>2. Tail(s) \in Seq(Events) /\ <<Head(s)>> \in Seq(Events)
  BY <1>1 DEF Sendable
<1>3. Own(s) = Own(<<Head(s)>>) + Own(Tail(s))
  BY <1>1, <1>2, OwnConcat
<1>4. Own(<<Head(s)>>) = Head(s).own
  <2>1. <<Head(s)>> = Append(<<>>, Head(s)) /\ <<>> \in Seq(Events)
    OBVIOUS
  <2>2. Own(Append(<<>>, Head(s))) = Own(<<>>) + Head(s).own
    BY <1>1, <2>1, OwnSnoc
  <2>3. QED  BY <1>1, <2>1, <2>2, OwnNone
<1>5. Own(Tail(s)) \in Nat
  BY <1>2, OwnNat
<1>6. QED  BY <1>1, <1>3, <1>4, <1>5

-----------------------------------------------------------------------------
(* Batches, and what is sent of them.                                      *)

Cat(s, t) == s \o t

Joins(f, seqs) ==
  f = [i \in 1 .. Len(seqs) |-> IF i = 1 THEN seqs[i] ELSE Cat(f[i - 1], seqs[i])]

LEMMA EventsOf ==
  ASSUME NEW b \in AllBatches
  PROVE  b.events \in Seq(Sendable) /\ b.free \in BOOLEAN
BY DEF AllBatches

LEMMA JoinsAt ==
  ASSUME NEW f, NEW seqs, Joins(f, seqs), NEW i \in 1 .. Len(seqs)
  PROVE  f[i] = IF i = 1 THEN seqs[i] ELSE Cat(f[i - 1], seqs[i])
<1> DEFINE rule(j) == IF j = 1 THEN seqs[j] ELSE Cat(f[j - 1], seqs[j])
<1>1. f = [j \in 1 .. Len(seqs) |-> rule(j)]
  BY Zenon DEF Joins
<1> HIDE DEF rule
<1>2. f[i] = rule(i)
  BY <1>1, Zenon
<1>3. QED  BY <1>2, Zenon DEF rule

LEMMA JoinsExist ==
  ASSUME NEW A, NEW seqs \in Seq(Seq(A)), seqs /= <<>>
  PROVE  \E f : Joins(f, seqs) /\ FlattenSeq(seqs) = f[Len(seqs)]
<1> DEFINE upto(m) == SubSeq(seqs, 1, m)
<1> DEFINE N == {m \in Nat : m + 1 <= Len(seqs) => \E f : Joins(f, upto(m + 1))}
<1>1. 0 \in N
  <2> DEFINE g == [i \in 1 .. 1 |-> seqs[1]]
  <2>1. Len(upto(1)) = 1 /\ upto(1)[1] = seqs[1]
    OBVIOUS
  <2>2. \A i \in 1 .. 1 : g[i] = IF i = 1 THEN upto(1)[i] ELSE Cat(g[i - 1], upto(1)[i])
    BY <2>1
  <2>3. Joins(g, upto(1))
    BY <2>1, <2>2 DEF Joins
  <2> HIDE DEF upto
  <2>4. QED  BY <2>3
<1>2. ASSUME NEW m \in Nat, m \in N PROVE m + 1 \in N
  <2> SUFFICES ASSUME m + 2 <= Len(seqs) PROVE \E f : Joins(f, upto(m + 2))
    OBVIOUS
  <2>1. PICK f : Joins(f, upto(m + 1))
    BY <1>2
  <2> DEFINE g == [i \in 1 .. m + 2 |-> IF i = m + 2 THEN Cat(f[m + 1], seqs[m + 2]) ELSE f[i]]
  <2>2. /\ Len(upto(m + 1)) = m + 1 /\ Len(upto(m + 2)) = m + 2
        /\ \A i \in 1 .. m + 1 : upto(m + 1)[i] = seqs[i] /\ upto(m + 2)[i] = seqs[i]
        /\ upto(m + 2)[m + 2] = seqs[m + 2]
    OBVIOUS
  <2>3. ASSUME NEW i \in 1 .. m + 2
        PROVE  g[i] = IF i = 1 THEN upto(m + 2)[i] ELSE Cat(g[i - 1], upto(m + 2)[i])
    <3>1. CASE i = m + 2
      BY <2>2, <3>1
    <3>2. CASE i /= m + 2
      BY <2>1, <2>2, <3>2 DEF Joins
    <3>3. QED  BY <3>1, <3>2
  <2>4. Joins(g, upto(m + 2))
    <3>1. g = [i \in 1 .. m + 2 |-> g[i]]
      OBVIOUS
    <3>2. g = [i \in 1 .. m + 2 |->
                 IF i = 1 THEN upto(m + 2)[i] ELSE Cat(g[i - 1], upto(m + 2)[i])]
      <4> HIDE DEF g, upto
      <4>1. QED  BY ONLY <2>3, <3>1, Zenon
    <3> HIDE DEF g, upto
    <3>3. QED  BY ONLY <2>2, <3>2, Zenon DEF Joins
  <2>5. QED  BY <2>4
<1>3. Nat \subseteq N
  BY <1>1, <1>2, Induction
<1>4. Len(seqs) - 1 \in Nat /\ upto((Len(seqs) - 1) + 1) = seqs /\ Len(seqs) /= 0
  OBVIOUS
<1>5. Len(seqs) - 1 \in N
  BY <1>3, <1>4
<1>6. \E f : Joins(f, upto((Len(seqs) - 1) + 1))
  BY <1>4, <1>5
<1> HIDE DEF upto
<1>7. \E f : Joins(f, seqs)
  BY <1>4, <1>6
<1> DEFINE J == CHOOSE f : Joins(f, seqs)
<1>8. Joins(J, seqs)
  BY <1>7
<1>9. FlattenSeq(seqs) = J[Len(seqs)]
  BY <1>4 DEF FlattenSeq, Joins, Cat
<1> HIDE DEF J
<1>10. QED  BY <1>8, <1>9

LEMMA Appended ==
  ASSUME NEW B, NEW q \in Seq(B), NEW s \in B
  PROVE  /\ Append(q, s) \in Seq(B) /\ Len(Append(q, s)) = Len(q) + 1
         /\ Append(q, s)[Len(q) + 1] = s /\ Append(q, s) /= <<>>
         /\ \A i \in 1 .. Len(q) : Append(q, s)[i] = q[i]
         /\ Len(q) \in Nat
OBVIOUS

\* Joining two sequences that agree up to a place gives the same up to there.
LEMMA JoinsAgree ==
  ASSUME NEW A, NEW a \in Seq(Seq(A)), NEW b \in Seq(Seq(A)), NEW f, NEW g,
         Joins(f, a), Joins(g, b), a /= <<>>, Len(a) <= Len(b),
         \A i \in 1 .. Len(a) : a[i] = b[i]
  PROVE  f[Len(a)] = g[Len(a)]
<1> DEFINE N == {m \in Nat : m + 1 <= Len(a) => f[m + 1] = g[m + 1]}
<1>1. 0 \in N
  BY DEF Joins
<1>2. ASSUME NEW m \in Nat, m \in N PROVE m + 1 \in N
  <2> SUFFICES ASSUME m + 2 <= Len(a) PROVE f[m + 2] = g[m + 2]
    OBVIOUS
  <2>1. f[m + 1] = g[m + 1] /\ a[m + 2] = b[m + 2]
    BY <1>2
  <2>5. m + 2 \in 1 .. Len(a) /\ m + 2 \in 1 .. Len(b) /\ m + 2 /= 1
        /\ (m + 2) - 1 = m + 1
    OBVIOUS
  <2>2. f[m + 2] = Cat(f[m + 1], a[m + 2])
    BY ONLY <2>5, JoinsAt, Joins(f, a)
  <2>3. g[m + 2] = Cat(g[m + 1], b[m + 2])
    BY ONLY <2>5, JoinsAt, Joins(g, b)
  <2>4. QED  BY <2>1, <2>2, <2>3
<1>3. Nat \subseteq N
  BY <1>1, <1>2, Induction
<1>4. Len(a) - 1 \in Nat /\ (Len(a) - 1) + 1 = Len(a)
  OBVIOUS
<1>5. Len(a) - 1 \in N
  BY <1>3, <1>4
<1> HIDE DEF N
<1>6. (Len(a) - 1) + 1 <= Len(a) => f[(Len(a) - 1) + 1] = g[(Len(a) - 1) + 1]
  BY <1>5 DEF N
<1>7. QED  BY <1>4, <1>6

LEMMA FlattenSnoc ==
  ASSUME NEW A, NEW q \in Seq(Seq(A)), NEW s \in Seq(A)
  PROVE  FlattenSeq(Append(q, s)) = FlattenSeq(q) \o s
<1> DEFINE r == Append(q, s)
<1>1. /\ r \in Seq(Seq(A)) /\ Len(r) = Len(q) + 1 /\ r[Len(q) + 1] = s /\ r /= <<>>
      /\ \A i \in 1 .. Len(q) : r[i] = q[i]
      /\ Len(q) \in Nat
  BY Appended
<1> HIDE DEF r
<1>2. PICK g : Joins(g, r) /\ FlattenSeq(r) = g[Len(r)]
  BY <1>1, JoinsExist
<1>3. CASE q = <<>>
  <2>1. g[1] = s /\ Len(r) = 1
    BY <1>1, <1>2, <1>3 DEF Joins
  <2>2. FlattenSeq(q) = <<>>
    BY <1>3 DEF FlattenSeq
  <2>3. <<>> \o s = s
    OBVIOUS
  <2>4. QED  BY <1>2, <2>1, <2>2, <2>3 DEF r
<1>4. CASE q /= <<>>
  <2>1. PICK f : Joins(f, q) /\ FlattenSeq(q) = f[Len(q)]
    BY <1>4, JoinsExist
  <2>2. f[Len(q)] = g[Len(q)]
    <3>1. Len(q) <= Len(r) /\ (\A i \in 1 .. Len(q) : q[i] = r[i]) /\ r \in Seq(Seq(A))
      BY <1>1
    <3>2. Joins(f, q) /\ Joins(g, r)
      BY <1>2, <2>1
    <3>3. QED  BY ONLY <1>4, <3>1, <3>2, JoinsAgree, q \in Seq(Seq(A))
  <2>3. Len(q) > 0
    BY <1>4
  <2>6. /\ Len(r) \in 1 .. Len(r) /\ Len(r) /= 1 /\ Len(r) - 1 = Len(q)
        /\ r[Len(r)] = s
    BY <1>1, <2>3
  <2>4. g[Len(r)] = Cat(g[Len(q)], s)
    BY <1>2, <2>6 DEF Joins
  <2>5. QED  BY <1>2, <2>1, <2>2, <2>4 DEF r, Cat
<1>5. QED  BY <1>3, <1>4

LEMMA FlattenType ==
  ASSUME NEW A, NEW q \in Seq(Seq(A))
  PROVE  FlattenSeq(q) \in Seq(A)
<1> DEFINE S == {r \in Seq(Seq(A)) : FlattenSeq(r) \in Seq(A)}
<1>1. <<>> \in S
  BY DEF FlattenSeq
<1>2. ASSUME NEW r \in Seq(Seq(A)), r \in S, NEW e \in Seq(A)
      PROVE  Append(r, e) \in S
  <2>1. FlattenSeq(Append(r, e)) = FlattenSeq(r) \o e
    BY FlattenSnoc
  <2>2. FlattenSeq(r) \o e \in Seq(A)
    BY <1>2
  <2>3. Append(r, e) \in Seq(Seq(A))
    OBVIOUS
  <2>4. QED  BY <2>1, <2>2, <2>3
<1>3. Seq(Seq(A)) \subseteq S
  BY <1>1, <1>2, SeqInduction
<1>4. QED  BY <1>3

LEMMA SendNone == Send(<<>>) = <<>>
<1>1. [i \in DOMAIN <<>> |-> <<>>[i].events] = <<>>
  OBVIOUS
<1>2. QED  BY <1>1 DEF Send, FlattenSeq

LEMMA SendSnoc ==
  ASSUME NEW q \in Seq(AllBatches), NEW b \in AllBatches
  PROVE  Send(Append(q, b)) = Send(q) \o b.events
<1> DEFINE of(s) == [i \in DOMAIN s |-> s[i].events]
<1>1. of(q) \in Seq(Seq(Sendable)) /\ b.events \in Seq(Sendable)
  <2>1. \A i \in DOMAIN q : q[i] \in AllBatches
    OBVIOUS
  <2>2. \A i \in DOMAIN q : q[i].events \in Seq(Sendable)
    BY <2>1, EventsOf
  <2>3. of(q) \in Seq(Seq(Sendable))
    BY <2>2
  <2>4. QED  BY <2>3, EventsOf
<1>2. of(Append(q, b)) = Append(of(q), b.events)
  <2> HIDE DEF of
  <2>1. /\ Len(of(q)) = Len(q) /\ of(q) \in Seq(Seq(Sendable))
        /\ \A i \in 1 .. Len(q) : of(q)[i] = q[i].events
    BY <1>1 DEF of
  <2>2. /\ of(Append(q, b)) \in Seq(Seq(Sendable)) /\ Len(of(Append(q, b))) = Len(q) + 1
        /\ \A i \in 1 .. Len(q) : of(Append(q, b))[i] = q[i].events
        /\ of(Append(q, b))[Len(q) + 1] = b.events
    <3>1. Append(q, b) \in Seq(AllBatches)
      OBVIOUS
    <3>2. \A i \in DOMAIN Append(q, b) : Append(q, b)[i] \in AllBatches
      BY <3>1
    <3>3. \A i \in DOMAIN Append(q, b) : Append(q, b)[i].events \in Seq(Sendable)
      BY <3>2, EventsOf
    <3>4. QED  BY <3>1, <3>3 DEF of
  <2>3. QED  BY <1>1, <2>1, <2>2
<1> HIDE DEF of
<1>3. FlattenSeq(Append(of(q), b.events)) = FlattenSeq(of(q)) \o b.events
  BY <1>1, FlattenSnoc
<1>4. QED  BY <1>2, <1>3 DEF Send, of

LEMMA SendType ==
  ASSUME NEW q \in Seq(AllBatches)
  PROVE  Send(q) \in Seq(Sendable)
<1> DEFINE S == {r \in Seq(AllBatches) : Send(r) \in Seq(Sendable)}
<1>1. <<>> \in S
  <2>1. <<>> \in Seq(AllBatches) /\ <<>> \in Seq(Sendable)
    OBVIOUS
  <2>2. QED  BY <2>1, SendNone
<1>2. ASSUME NEW r \in Seq(AllBatches), r \in S, NEW b \in AllBatches
      PROVE  Append(r, b) \in S
  <2>0. Append(r, b) \in Seq(AllBatches)
    OBVIOUS
  <2>1. b.events \in Seq(Sendable)
    BY EventsOf
  <2>2. Send(r) \o b.events \in Seq(Sendable)
    BY <1>2, <2>1
  <2>3. QED  BY <2>0, <2>2, SendSnoc
<1>3. Seq(AllBatches) \subseteq S
  BY <1>1, <1>2, SeqInduction
<1>4. QED  BY <1>3

LEMMA SendConcat ==
  ASSUME NEW q \in Seq(AllBatches), NEW s \in Seq(AllBatches)
  PROVE  Send(q \o s) = Send(q) \o Send(s)
<1> DEFINE S == {r \in Seq(AllBatches) : Send(q \o r) = Send(q) \o Send(r)}
<1>1. <<>> \in S
  <2>1. q \o <<>> = q /\ Send(q) \in Seq(Sendable) /\ <<>> \in Seq(AllBatches)
    BY SendType
  <2>2. Send(q) \o <<>> = Send(q)
    BY <2>1
  <2>3. Send(q \o <<>>) = Send(q) \o Send(<<>>)
    BY <2>1, <2>2, SendNone
  <2> QED  BY <2>1, <2>3
<1>2. ASSUME NEW r \in Seq(AllBatches), r \in S, NEW b \in AllBatches
      PROVE  Append(r, b) \in S
  <2>1. q \o Append(r, b) = Append(q \o r, b) /\ q \o r \in Seq(AllBatches)
    OBVIOUS
  <2>2. Send(q \o Append(r, b)) = Send(q \o r) \o b.events
    BY <2>1, SendSnoc
  <2>3. Send(Append(r, b)) = Send(r) \o b.events
    BY SendSnoc
  <2>7. Append(r, b) \in Seq(AllBatches)
    OBVIOUS
  <2>4. /\ Send(q) \in Seq(Sendable) /\ Send(r) \in Seq(Sendable)
        /\ b.events \in Seq(Sendable)
    BY SendType, EventsOf
  <2>5. (Send(q) \o Send(r)) \o b.events = Send(q) \o (Send(r) \o b.events)
    <3> DEFINE x == Send(q)  y == Send(r)  z == b.events
    <3>1. x \in Seq(Sendable) /\ y \in Seq(Sendable) /\ z \in Seq(Sendable)
      BY <2>4
    <3> HIDE DEF x, y, z
    <3>2. (x \o y) \o z = x \o (y \o z)
      BY <3>1
    <3>3. QED  BY <3>2 DEF x, y, z
  <2>8. Send(q \o Append(r, b)) = Send(q) \o Send(Append(r, b))
    BY <1>2, <2>2, <2>3, <2>5
  <2>6. QED  BY <2>7, <2>8
<1>3. Seq(AllBatches) \subseteq S
  BY <1>1, <1>2, SeqInduction
<1>4. QED  BY <1>3

LEMMA SendOne ==
  ASSUME NEW b \in AllBatches
  PROVE  <<b>> \in Seq(AllBatches) /\ Send(<<b>>) = b.events
<1>1. <<b>> = Append(<<>>, b) /\ <<>> \in Seq(AllBatches)
  OBVIOUS
<1>2. Send(Append(<<>>, b)) = Send(<<>>) \o b.events
  BY <1>1, SendSnoc
<1>3. b.events \in Seq(Sendable)
  BY EventsOf
<1>4. <<>> \o b.events = b.events
  BY <1>3
<1>5. Send(<<b>>) = b.events
  BY <1>1, <1>2, <1>4, SendNone
<1>6. QED  BY <1>5

\* However much of it goes out, what goes out is a sequence of own events.
LEMMA SendUpToType ==
  ASSUME NEW q \in Seq(AllBatches), NEW b \in DOMAIN q, NEW k \in Nat,
         k < Len(q[b].events)
  PROVE  SendUpTo(q, b, k) \in Seq(Sendable)
<1> DEFINE part(i) == IF i < b \/ \E j \in b+1..i : q[j].free THEN q[i]
                      ELSE IF i = b THEN Batch(SubSeq(q[i].events, 1, k), FALSE)
                      ELSE Batch(<<>>, FALSE)
           parts == [i \in DOMAIN q |-> part(i)]
<1>1. ASSUME NEW i \in DOMAIN q
      PROVE  part(i) \in AllBatches
  <2>1. q[i] \in AllBatches
    OBVIOUS
  <2>6. q[i].events \in Seq(Sendable)
    BY <2>1, EventsOf
  <2>2. i = b => SubSeq(q[i].events, 1, k) \in Seq(Sendable)
    BY <2>6
  <2>3. i = b => Batch(SubSeq(q[i].events, 1, k), FALSE) \in AllBatches
    BY <2>2 DEF Batch, AllBatches
  <2>4. Batch(<<>>, FALSE) \in AllBatches
    BY DEF Batch, AllBatches
  <2>5. QED  BY <2>1, <2>3, <2>4
<1>2. parts \in Seq(AllBatches)
  <2> HIDE DEF part
  <2>1. QED  BY <1>1
<1>3. SendUpTo(q, b, k) = Send(parts)
  BY DEF SendUpTo
<1> HIDE DEF parts
<1>4. QED  BY <1>2, <1>3, SendType

-----------------------------------------------------------------------------
(* The letters that two words begin with.                                  *)

LEMMA Common ==
  ASSUME NEW old \in Texts, NEW new \in Texts, NEW common,
         common = Len(LongestCommonPrefix({old, new}))
  PROVE  /\ common \in 0 .. Len(old) /\ common <= Len(new)
         /\ SubSeq(old, 1, common) = SubSeq(new, 1, common)
<1> USE DEF Texts
<1> DEFINE P == CommonPrefixes({old, new})
           K == {k \in Nat : k <= Len(old) /\ k <= Len(new)
                             /\ SubSeq(old, 1, k) = SubSeq(new, 1, k)}
<1>1. ASSUME NEW p \in P
      PROVE  Len(p) \in K /\ p = SubSeq(old, 1, Len(p))
  <2>1. IsPrefix(p, old) /\ IsPrefix(p, new)
    BY DEF CommonPrefixes
  <2>2. PICK seq \in {old, new} : p \in Prefixes(seq)
    BY DEF CommonPrefixes
  <2>3. PICK k \in 0 .. Len(seq) : p = SubSeq(seq, 1, k)
    BY <2>2 DEF Prefixes
  <2>4. p \in Seq(Glyphs) /\ Len(p) = k
    BY <2>3
  <2>5. SubSeq(p, 1, Len(p)) = p
    BY <2>4
  <2> HIDE DEF P
  <2>6. /\ Len(p) <= Len(old) /\ p = SubSeq(old, 1, Len(p))
        /\ Len(p) <= Len(new) /\ p = SubSeq(new, 1, Len(p))
    BY <2>1, <2>5 DEF IsPrefix
  <2>7. QED  BY <2>4, <2>6
<1>2. ASSUME NEW k \in K
      PROVE  SubSeq(old, 1, k) \in P /\ Len(SubSeq(old, 1, k)) = k
  <2> DEFINE p == SubSeq(old, 1, k)
  <2>1. p \in Seq(Glyphs) /\ Len(p) = k /\ SubSeq(p, 1, k) = p
    OBVIOUS
  <2>2. p = SubSeq(new, 1, k) /\ k \in 0 .. Len(old) /\ k <= Len(new)
    OBVIOUS
  <2>3. p \in Prefixes(old)
    BY <2>2 DEF Prefixes
  <2> HIDE DEF p
  <2>4. IsPrefix(p, old) /\ IsPrefix(p, new)
    BY <2>1, <2>2 DEF IsPrefix, p
  <2>5. p \in P
    BY <2>3, <2>4 DEF CommonPrefixes
  <2>6. QED  BY <2>1, <2>5 DEF p
<1>3. 0 \in K
  <2>1. SubSeq(old, 1, 0) = <<>> /\ SubSeq(new, 1, 0) = <<>>
    OBVIOUS
  <2>2. Len(old) \in Nat /\ Len(new) \in Nat
    OBVIOUS
  <2>3. QED  BY <2>1, <2>2
<1>4. PICK most \in K : \A k \in K : k <= most
  <2>1. K \in SUBSET Nat /\ K /= {} /\ Len(old) \in Nat /\ \A k \in K : k <= Len(old)
    BY <1>3
  <2> HIDE DEF K
  <2>2. QED  BY <2>1, Greatest
<1> HIDE DEF P, K
<1>5. \E p \in P : \A q \in P : Len(q) <= Len(p)
  <2>1. SubSeq(old, 1, most) \in P /\ Len(SubSeq(old, 1, most)) = most
    BY <1>2
  <2>2. \A q \in P : Len(q) <= most
    BY <1>1, <1>4
  <2>3. QED  BY <2>1, <2>2
<1>6. LongestCommonPrefix({old, new}) \in P
  BY <1>5 DEF LongestCommonPrefix, P
<1>7. common \in K
  BY <1>1, <1>6
<1>8. Len(old) \in Nat /\ common \in Nat /\ common <= Len(old)
  BY <1>7 DEF K
<1>9. common \in 0 .. Len(old)
  BY <1>8
<1>10. QED  BY <1>7, <1>9 DEF K

-----------------------------------------------------------------------------
(* What an edit of the text sends.                                         *)

LEMMA EventType ==
  ASSUME era \in Nat, NEW op \in Ops, NEW text \in Texts, NEW own \in 0 .. 4
  PROVE  Event(op, text, own) \in Events
BY DEF Event, Events

LEMMA SendableType ==
  ASSUME era \in Nat, NEW op \in Ops, NEW text \in Texts, NEW own \in 1 .. 4
  PROVE  Event(op, text, own) \in Sendable
<1>1. own \in 0 .. 4 /\ own > 0
  OBVIOUS
<1>2. Event(op, text, own) \in Events /\ Event(op, text, own).own = own
  BY <1>1, EventType DEF Event
<1>3. QED  BY <1>1, <1>2 DEF Sendable

LEMMA BatchType ==
  ASSUME NEW s \in Seq(Sendable), NEW free \in BOOLEAN
  PROVE  Batch(s, free) \in AllBatches /\ Batch(s, free).events = s
BY DEF Batch, AllBatches

LEMMA TimesType ==
  ASSUME NEW A, NEW count \in Nat, NEW e \in A
  PROVE  Times(count, e) \in Seq(A) /\ Len(Times(count, e)) = count
BY DEF Times

LEMMA CharsType ==
  ASSUME era \in Nat, NEW text \in Texts
  PROVE  Chars(text) \in Seq(Sendable) /\ Len(Chars(text)) = Len(text)
<1>1. ASSUME NEW i \in DOMAIN text
      PROVE  Event("text", <<text[i]>>, 2) \in Sendable
  <2>1. <<text[i]>> \in Texts
    BY DEF Texts
  <2>2. "text" \in Ops /\ 2 \in 1 .. 4
    BY DEF Ops
  <2>3. QED  BY <2>1, <2>2, SendableType
<1>2. DOMAIN text = 1 .. Len(text) /\ Len(text) \in Nat
  BY DEF Texts
<1>3. QED  BY <1>1, <1>2 DEF Chars

LEMMA NoText == <<>> \in Texts
BY DEF Texts

LEMMA KeyTypes ==
  ASSUME era \in Nat
  PROVE  /\ Event("bait", <<>>, 2) \in Sendable
         /\ Event("back", <<>>, 2) \in Sendable
         /\ Event("del", <<>>, 2) \in Sendable
         /\ Event("back", <<>>, 0) \in Events
<1>1. 2 \in 1 .. 4 /\ 0 \in 0 .. 4 /\ {"bait", "back", "del"} \subseteq Ops
  BY DEF Ops
<1>2. QED  BY <1>1, NoText, SendableType, EventType

LEMMA DeletesType ==
  ASSUME era \in Nat, NEW count \in Nat
  PROVE  /\ Times(count, Event("back", <<>>, 2)) \in Seq(Sendable)
         /\ Times(count, Event("del", <<>>, 2)) \in Seq(Sendable)
BY KeyTypes, TimesType

LEMMA PairType ==
  ASSUME NEW A, NEW a \in A, NEW b \in A
  PROVE  <<a, b>> \in Seq(A) /\ <<a, b>> = <<a>> \o <<b>>
<1> DEFINE s == <<a, b>>
           t == <<a>> \o <<b>>
<1>1. s \in Seq(A) /\ Len(s) = 2 /\ s[1] = a /\ s[2] = b
  OBVIOUS
<1>2. t \in Seq(A) /\ Len(t) = 2 /\ t[1] = a /\ t[2] = b
  OBVIOUS
<1> HIDE DEF s, t
<1>3. s = t
  BY <1>1, <1>2
<1>4. QED  BY <1>1, <1>3 DEF s, t

LEMMA BatchesType ==
  ASSUME era \in Nat, NEW bs \in Nat, NEW text \in Texts
  PROVE  Batches(bs, text) \in Seq(AllBatches)
<1> DEFINE bait == ShouldEmitBait(bs, text)
           prefix == IF bait THEN <<Event("bait", <<>>, 2)>> ELSE <<>>
           bare == Injector.bait /\ ~bait
           deletes == Times(IF bait THEN bs + 1 ELSE bs,
                            Event(IF bare THEN "back" ELSE "del", <<>>, 2))
<1>1. prefix \in Seq(Sendable)
  BY KeyTypes
<1>2. deletes \in Seq(Sendable)
  <2>1. (IF bait THEN bs + 1 ELSE bs) \in Nat
    OBVIOUS
  <2> HIDE DEF bait
  <2>2. QED  BY <2>1, DeletesType
<1>3. Chars(text) \in Seq(Sendable)
  BY CharsType
<1>4. CtrlV(text) \in Sendable
  <2>1. 4 \in 1 .. 4 /\ "text" \in Ops
    BY DEF Ops
  <2>2. QED  BY <2>1, SendableType DEF CtrlV
<1> HIDE DEF bait, prefix, deletes
<1>5. CASE Injector.kind = "clip"
  <2> DEFINE sent == IF text = <<>> THEN deletes ELSE Append(deletes, CtrlV(text))
  <2>1. sent \in Seq(Sendable)
    BY <1>2, <1>4
  <2> HIDE DEF sent
  <2>2. <<Batch(sent, TRUE)>> \in Seq(AllBatches)
    BY <2>1, BatchType, SendOne
  <2>3. QED  BY <1>5, <2>2 DEF Batches, sent, deletes, bait, prefix
<1>6. CASE Injector.kind = "split"
  <2>1. prefix \o deletes \in Seq(Sendable)
    BY <1>1, <1>2
  <2>2. Batch(prefix \o deletes, TRUE) \in AllBatches /\ Batch(Chars(text), FALSE) \in AllBatches
    BY <2>1, <1>3, BatchType
  <2>3. <<Batch(prefix \o deletes, TRUE), Batch(Chars(text), FALSE)>> \in Seq(AllBatches)
    BY <2>2, PairType
  <2>4. QED  BY <1>6, <2>3 DEF Batches, deletes, bait, prefix
<1>7. CASE Injector.kind \notin {"clip", "split"}
  <2>1. prefix \o deletes \o Chars(text) \in Seq(Sendable)
    BY <1>1, <1>2, <1>3
  <2>2. <<Batch(prefix \o deletes \o Chars(text), TRUE)>> \in Seq(AllBatches)
    BY <2>1, BatchType, SendOne
  <2>3. QED  BY <1>7, <2>2 DEF Batches, deletes, bait, prefix
<1>8. QED  BY <1>5, <1>6, <1>7

Sends(p, s, all, sent) ==
  /\ pending' = p + Own(sent) /\ sys' = sys \o sent
  /\ \/ sent = all /\ slips' = s
     \/ slips' = s \cup {"partial"}

LEMMA Tracked ==
  ASSUME NEW p, NEW s, NEW q \in Seq(AllBatches), TrackedSendInput(p, s, q)
  PROVE  \E sent \in Seq(Sendable) : Sends(p, s, Send(q), sent)
<1>1. CASE /\ pending' = p + Own(Send(q))
           /\ sys' = sys \o Send(q)
           /\ slips' = s
  BY <1>1, SendType DEF Sends
<1>2. ASSUME NEW b \in DOMAIN q, NEW k \in 0 .. Len(q[b].events) - 1,
             pending' = p + Own(SendUpTo(q, b, k)),
             sys' = sys \o SendUpTo(q, b, k),
             slips' = s \cup {"partial"}
      PROVE  \E sent \in Seq(Sendable) : Sends(p, s, Send(q), sent)
  <2>1. q[b].events \in Seq(Sendable)
    BY EventsOf
  <2>2. k \in Nat /\ k < Len(q[b].events)
    BY <2>1
  <2>3. SendUpTo(q, b, k) \in Seq(Sendable)
    BY <2>2, SendUpToType
  <2>4. QED  BY <1>2, <2>3 DEF Sends
<1>3. QED  BY <1>1, <1>2 DEF TrackedSendInput

-----------------------------------------------------------------------------
(* The state, and what a key does to it.                                   *)

Ways == {"retry", "vb6", "raw", "trigger"}
Edits == [by : Ways, bs : Nat, text : Texts, tries : 0 .. MaxTries,
          next : Seq(Sendable)]

TypeOK ==
  /\ win \in Windows
  /\ word \in Texts /\ committed \in Texts
  /\ screen \in Seq(Glyphs \cup {"bait"})
  /\ era \in Nat /\ pending \in Nat /\ missed \in Nat
  /\ quiet \in BOOLEAN /\ hadSynth \in BOOLEAN /\ sugg \in BOOLEAN
  /\ sys \in Seq(Sendable) /\ appq \in Seq(Events)
  /\ hook \in Edits \cup {Idle} /\ late \in Edits \cup {Idle}

\* The edit is left to the hook thread, which is busy with it.
Held(edit) ==
  /\ hook' = edit
  /\ pending' = Waiting /\ slips' = Watched
  /\ UNCHANGED <<sys, quiet, n, appq>>

Lead(vk) == IF vk = <<>> THEN <<>> ELSE <<Event("text", vk, 1)>>

LEMMA Tries == MaxTries \in Nat
<1>1. {MaxKeys, MaxFaults, MaxTries, MaxPauses} \subseteq Nat
  BY OutputAssumption, Zenon DEF OutputAssumption
<1>2. QED  BY <1>1

LEMMA EditType ==
  ASSUME NEW by \in Ways, NEW bs \in Nat, NEW text \in Texts, NEW next \in Seq(Sendable)
  PROVE  Edit(by, bs, text, next) \in Edits
<1>1. 0 \in 0 .. MaxTries
  BY Tries
<1>2. QED  BY <1>1 DEF Edit, Edits

LEMMA BusyHolds ==
  ASSUME NEW by, NEW bs, NEW text, NEW next, Busy(by, bs, text, next)
  PROVE  Held(Edit(by, bs, text, next))
BY DEF Busy, Held, SentNothing

LEMMA Replaces ==
  ASSUME era \in Nat, NEW bs \in Nat, NEW text \in Texts,
         NEW vk \in Texts, Len(vk) <= bs, NEW next \in Seq(Sendable),
         ReplaceUnicode(bs, text, vk, next)
  PROVE  \/ IsSyncReplaceChannel /\ Held(Edit("retry", bs, text, next))
         \/ /\ ~IsSyncReplaceChannel /\ UseClipboardPaste
            /\ Held(Edit("vb6", bs - Len(vk), text, next))
         \/ /\ ~IsSyncReplaceChannel /\ ~UseClipboardPaste
            /\ \E sent \in Seq(Sendable) :
                 Sends(Waiting, Watched,
                       (Lead(vk) \o Send(Batches(bs, text))) \o next, sent)
            /\ quiet' = FALSE /\ UNCHANGED <<appq, hook>>
<1>1. CASE IsSyncReplaceChannel
  <2>1. Busy("retry", bs, text, next)
    BY <1>1 DEF ReplaceUnicode
  <2>2. QED  BY <1>1, <2>1, BusyHolds
<1>2. CASE ~IsSyncReplaceChannel /\ UseClipboardPaste
  <2>1. Busy("vb6", bs - Len(vk), text, next)
    BY <1>2 DEF ReplaceUnicode
  <2>2. QED  BY <1>2, <2>1, BusyHolds
<1>3. CASE ~IsSyncReplaceChannel /\ ~UseClipboardPaste
  <2> DEFINE lead == IF vk = <<>> THEN <<>> ELSE <<Batch(<<Event("text", vk, 1)>>, TRUE)>>
             tail == IF next = <<>> THEN <<>> ELSE <<Batch(next, TRUE)>>
  <2>1. Dispatch(Waiting, Watched, lead \o Batches(bs, text) \o tail) /\ UNCHANGED <<appq, hook>>
    BY <1>3 DEF ReplaceUnicode
  <2>2. Batches(bs, text) \in Seq(AllBatches)
    BY BatchesType
  <2>3. lead \in Seq(AllBatches) /\ Send(lead) = Lead(vk) /\ Lead(vk) \in Seq(Sendable)
    <3>1. CASE vk = <<>>
      BY <3>1, SendNone DEF Lead
    <3>2. CASE vk /= <<>>
      <4>1. Event("text", vk, 1) \in Sendable
        <5>1. 1 \in 1 .. 4 /\ "text" \in Ops
          BY DEF Ops
        <5>2. QED  BY <5>1, SendableType
      <4>2. <<Event("text", vk, 1)>> \in Seq(Sendable)
        BY <4>1
      <4>3. QED  BY <3>2, <4>2, BatchType, SendOne DEF Lead
    <3>3. QED  BY <3>1, <3>2
  <2>4. tail \in Seq(AllBatches) /\ Send(tail) = next
    <3>1. CASE next = <<>>
      BY <3>1, SendNone
    <3>2. CASE next /= <<>>
      BY <3>2, BatchType, SendOne
    <3>3. QED  BY <3>1, <3>2
  <2> HIDE DEF lead, tail
  <2>5. lead \o Batches(bs, text) \in Seq(AllBatches)
    BY <2>2, <2>3
  <2>6. /\ lead \o Batches(bs, text) \o tail \in Seq(AllBatches)
        /\ lead \o Batches(bs, text) \o tail = (lead \o Batches(bs, text)) \o tail
    BY <2>2, <2>3, <2>4
  <2>7. Send(lead \o Batches(bs, text) \o tail)
          = (Lead(vk) \o Send(Batches(bs, text))) \o next
    <3>1. Send((lead \o Batches(bs, text)) \o tail) = Send(lead \o Batches(bs, text)) \o Send(tail)
      BY <2>4, <2>5, SendConcat
    <3>2. Send(lead \o Batches(bs, text)) = Send(lead) \o Send(Batches(bs, text))
      BY <2>2, <2>3, SendConcat
    <3>3. QED  BY <2>3, <2>4, <2>6, <3>1, <3>2
  <2>8. TrackedSendInput(Waiting, Watched, lead \o Batches(bs, text) \o tail) /\ quiet' = FALSE
    BY <2>1 DEF Dispatch
  <2>9. \E sent \in Seq(Sendable) :
          Sends(Waiting, Watched, Send(lead \o Batches(bs, text) \o tail), sent)
    BY <2>6, <2>8, Tracked
  <2>10. QED  BY <1>3, <2>1, <2>7, <2>8, <2>9
<1>4. QED  BY <1>1, <1>2, <1>3

\* The summary of a key: it passes, is sent, or leaves an edit to be done.
Passed(e) ==
  /\ e.own = 0
  /\ Waiting = 0 \/ (word = <<>> /\ e.text \in {<<c>> : c \in Ends})
  /\ IsSyncReplaceChannel => "posted" \in slips'
  /\ Watched \subseteq slips'
  /\ appq' = Append(appq, e) /\ pending' = Waiting
  /\ UNCHANGED <<sys, quiet, hook>>

Sent(sent) ==
  /\ IsSyncReplaceChannel => "posted" \in slips'
  /\ Watched \subseteq slips'
  /\ pending' = Waiting + Own(sent) /\ sys' = sys \o sent
  /\ quiet' = FALSE /\ UNCHANGED <<appq, hook>>

Left(edit) ==
  /\ (edit.by = "vb6") = ~IsSyncReplaceChannel
  /\ edit.by = "trigger" => Waiting = 0
  /\ Held(edit)

KeyEffect == \/ \E e \in Events : Passed(e)
             \/ \E sent \in Seq(Sendable) : Sent(sent)
             \/ \E edit \in Edits : Left(edit)

LEMMA ReplacesEffect ==
  ASSUME era \in Nat, NEW bs \in Nat, NEW text \in Texts,
         NEW vk \in Texts, Len(vk) <= bs, NEW next \in Seq(Sendable),
         ReplaceUnicode(bs, text, vk, next)
  PROVE  KeyEffect
<1>0. Len(vk) \in Nat
  BY DEF Texts
<1>1. CASE IsSyncReplaceChannel /\ Held(Edit("retry", bs, text, next))
  <2>1. Edit("retry", bs, text, next) \in Edits
    BY EditType DEF Ways
  <2>2. Edit("retry", bs, text, next).by = "retry"
    BY DEF Edit
  <2>3. QED  BY <1>1, <2>1, <2>2 DEF KeyEffect, Left
<1>2. CASE /\ ~IsSyncReplaceChannel /\ UseClipboardPaste
           /\ Held(Edit("vb6", bs - Len(vk), text, next))
  <2>1. bs - Len(vk) \in Nat /\ "vb6" \in Ways
    BY <1>0 DEF Ways
  <2>2. Edit("vb6", bs - Len(vk), text, next) \in Edits
    BY <2>1, EditType
  <2>3. Edit("vb6", bs - Len(vk), text, next).by = "vb6"
    BY DEF Edit
  <2>4. QED  BY <1>2, <2>2, <2>3 DEF KeyEffect, Left
<1>3. CASE /\ ~IsSyncReplaceChannel
           /\ \E sent \in Seq(Sendable) :
                 Sends(Waiting, Watched,
                       (Lead(vk) \o Send(Batches(bs, text))) \o next, sent)
           /\ quiet' = FALSE /\ UNCHANGED <<appq, hook>>
  BY <1>3 DEF KeyEffect, Sent, Sends
<1>4. QED  BY <1>1, <1>2, <1>3, Replaces

LEMMA ComposeEffect ==
  ASSUME era \in Nat, NEW old \in Texts, NEW new \in Texts, NEW next \in Seq(Sendable),
         ReplaceComposition(old, new, <<>>, next)
  PROVE  KeyEffect
<1> DEFINE common == Len(LongestCommonPrefix({old, new}))
<1>1. common \in 0 .. Len(old) /\ common <= Len(new)
  BY Common
<1>2. Len(old) - common \in Nat /\ SubSeq(new, common + 1, Len(new)) \in Texts
  BY <1>1 DEF Texts
<1>3. ReplaceUnicode(Len(old) - common, SubSeq(new, common + 1, Len(new)), <<>>, next)
  BY DEF ReplaceComposition
<1>4. <<>> \in Texts /\ Len(<<>>) <= Len(old) - common
  BY <1>2, NoText
<1> HIDE DEF common
<1>5. QED  BY <1>2, <1>3, <1>4, ReplacesEffect

LEMMA SentEffect ==
  ASSUME NEW s, NEW q \in Seq(AllBatches), Dispatch(Waiting, s, q),
         Watched \subseteq s, IsSyncReplaceChannel => "posted" \in s,
         UNCHANGED <<appq, hook>>
  PROVE  KeyEffect
<1>1. \E sent \in Seq(Sendable) : Sends(Waiting, s, Send(q), sent)
  BY Tracked DEF Dispatch
<1>2. QED  BY <1>1 DEF KeyEffect, Sent, Sends, Dispatch

LEMMA PassEffect ==
  ASSUME NEW e \in Events, e.own = 0, NEW s, Pass(e, s), Watched \subseteq s,
         Waiting = 0 \/ (word = <<>> /\ e.text \in {<<c>> : c \in Ends})
  PROVE  KeyEffect
<1>1. /\ appq' = Append(appq, e) /\ pending' = Waiting /\ slips' = s \cup Posted
      /\ sys' = sys /\ quiet' = quiet /\ hook' = hook
  BY DEF Pass, SentNothing
<1>2. Watched \subseteq slips' /\ (IsSyncReplaceChannel => "posted" \in slips')
  BY <1>1 DEF Posted
<1>3. Passed(e)
  BY <1>1, <1>2 DEF Passed
<1>4. QED  BY <1>3 DEF KeyEffect

KeyTyped == /\ word' \in Texts /\ committed' \in Texts
            /\ era' \in Nat /\ hadSynth' \in BOOLEAN

LEMMA GlyphType ==
  /\ Letters \subseteq Glyphs /\ Ends \subseteq Glyphs
  /\ {"a", "aa", "s"} \subseteq Glyphs /\ Letters \cap Ends = {}
<1>1. "a" \in Letters /\ Letters \cap Ends = {}
  BY OutputAssumption DEF OutputAssumption
<1>2. QED  BY <1>1 DEF Glyphs

LEMMA HadSynthType == TypeOK /\ HadSynth => hadSynth' \in BOOLEAN
BY DEF TypeOK, HadSynth

LEMMA LetterEffect ==
  ASSUME TypeOK, NEW l \in Letters, Letter(l)
  PROVE  KeyEffect /\ KeyTyped
<1>1. word' = Append(word, l) /\ committed' = committed /\ era' = era
  BY DEF Letter
<1>2. word' \in Texts /\ <<l>> \in Texts
  <2>1. word \in Seq(Glyphs) /\ l \in Glyphs
    BY GlyphType DEF TypeOK, Texts
  <2>2. Append(word, l) \in Seq(Glyphs) /\ <<l>> \in Seq(Glyphs)
    BY <2>1
  <2>3. QED  BY <1>1, <2>2 DEF Texts
<1>3. CASE Passes
  <2>1. Event("text", <<l>>, 0) \in Events /\ Event("text", <<l>>, 0).own = 0
    <3>1. "text" \in Ops /\ 0 \in 0 .. 4
      BY DEF Ops
    <3>2. era \in Nat
      BY DEF TypeOK
    <3>3. QED  BY <1>2, <3>1, <3>2, EventType DEF Event
  <2>2. /\ appq' = Append(appq, Event("text", <<l>>, 0))
        /\ SentNothing(Watched) /\ UNCHANGED <<hook, hadSynth>>
    BY <1>3 DEF Letter
  <2>3. ~IsSyncReplaceChannel /\ Waiting = 0
    BY <1>3 DEF Passes
  <2>4. KeyEffect
    <3>1. /\ pending' = Waiting /\ Watched \subseteq slips' /\ sys' = sys
          /\ quiet' = quiet /\ hook' = hook
      BY <2>2 DEF SentNothing
    <3> DEFINE e == Event("text", <<l>>, 0)
    <3>2. e \in Events /\ e.own = 0 /\ appq' = Append(appq, e)
      BY <2>1, <2>2
    <3> HIDE DEF e
    <3>3. Passed(e)
      BY <2>3, <3>1, <3>2 DEF Passed
    <3>4. QED  BY <3>2, <3>3 DEF KeyEffect
  <2>5. QED  BY <1>1, <1>2, <2>2, <2>4 DEF KeyTyped, TypeOK
<1>4. CASE ~Passes
  <2>1. ReplaceComposition(word, word', <<>>, <<>>) /\ HadSynth
    BY <1>4 DEF Letter
  <2>2. word \in Texts /\ era \in Nat /\ <<>> \in Seq(Sendable)
    BY DEF TypeOK
  <2>3. KeyEffect
    BY <1>2, <2>1, <2>2, ComposeEffect
  <2>4. QED  BY <1>1, <1>2, <2>1, <2>3, HadSynthType DEF KeyTyped, TypeOK
<1>5. QED  BY <1>3, <1>4

LEMMA FrontType ==
  ASSUME NEW A, NEW s \in Seq(A), s /= <<>>
  PROVE  /\ Front(s) \in Seq(A) /\ Len(Front(s)) = Len(s) - 1
         /\ Last(s) \in A /\ s = Append(Front(s), Last(s))
         /\ \A i \in 1 .. Len(s) - 1 : Front(s)[i] = s[i]
         /\ Last(s) = s[Len(s)]
<1>1. Len(s) \in Nat /\ Len(s) > 0 /\ Len(s) - 1 \in Nat
  OBVIOUS
<1>2. /\ Front(s) \in Seq(A) /\ Len(Front(s)) = Len(s) - 1
      /\ \A i \in 1 .. Len(s) - 1 : Front(s)[i] = s[i]
  <2> DEFINE m == Len(s) - 1
  <2>1. m \in Nat /\ m <= Len(s) /\ Front(s) = SubSeq(s, 1, m)
    BY <1>1 DEF Front
  <2> HIDE DEF m
  <2>2. /\ SubSeq(s, 1, m) \in Seq(A) /\ Len(SubSeq(s, 1, m)) = m
        /\ \A i \in 1 .. m : SubSeq(s, 1, m)[i] = s[i]
    BY <2>1
  <2>3. QED  BY <2>1, <2>2 DEF m
<1>3. Last(s) \in A /\ Last(s) = s[Len(s)]
  BY <1>1 DEF Last
<1>4. s = Append(Front(s), Last(s))
  BY <1>1, <1>2, <1>3
<1>5. QED  BY <1>2, <1>3, <1>4

LEMMA TonedType ==
  ASSUME TypeOK, word /= <<>>, Last(word) \in {"a", "aa"}
  PROVE  /\ Toned(word) \in Texts
         /\ Len(word) <= Len(Toned(word))
         /\ Toned(word)[Len(word)] /= Last(word)
         /\ \A i \in 1 .. Len(word) - 1 : Toned(word)[i] = word[i]
<1>1. /\ Front(word) \in Seq(Glyphs) /\ Len(Front(word)) = Len(word) - 1
      /\ \A i \in 1 .. Len(word) - 1 : Front(word)[i] = word[i]
      /\ Len(word) \in Nat
  <2>1. word \in Seq(Glyphs)
    BY DEF TypeOK, Texts
  <2>2. QED  BY <2>1, FrontType
<1>2. CASE Last(word) = "a"
  <2>1. Toned(word) = Front(word) \o <<"aa">>
    BY <1>2 DEF Toned
  <2>2. "aa" \in Glyphs
    BY GlyphType
  <2>3. QED  BY <1>1, <1>2, <2>1, <2>2 DEF Texts
<1>3. CASE Last(word) = "aa"
  <2>1. Toned(word) = Front(word) \o <<"a", "s">>
    BY <1>3 DEF Toned
  <2>2. "a" \in Glyphs /\ "s" \in Glyphs
    BY GlyphType
  <2>3. QED  BY <1>1, <1>3, <2>1, <2>2 DEF Texts
<1>4. QED  BY <1>2, <1>3

\* The tone key, sent first and counted as shown, is deleted again.
LEMMA ToneDeletes ==
  ASSUME TypeOK, word /= <<>>, Last(word) \in {"a", "aa"}, NEW common,
         common = Len(LongestCommonPrefix({Append(word, "s"), Toned(word)}))
  PROVE  /\ common \in Nat /\ common < Len(word) /\ common <= Len(Toned(word))
         /\ Append(word, "s") \in Texts
<1> DEFINE old == Append(word, "s")
<1>1. /\ old \in Texts /\ Len(old) = Len(word) + 1 /\ old[Len(word)] = Last(word)
      /\ Len(word) \in Nat /\ Len(word) > 0
  <2>1. word \in Seq(Glyphs) /\ "s" \in Glyphs
    BY GlyphType DEF TypeOK, Texts
  <2>2. QED  BY <2>1 DEF Texts, Last
<1>2. Toned(word) \in Texts /\ Toned(word)[Len(word)] /= Last(word)
  BY TonedType
<1> HIDE DEF old
<1>3. /\ common \in 0 .. Len(old) /\ common <= Len(Toned(word))
      /\ SubSeq(old, 1, common) = SubSeq(Toned(word), 1, common)
  <2>1. old \in Texts /\ Toned(word) \in Texts
    BY <1>1, <1>2
  <2>2. common = Len(LongestCommonPrefix({old, Toned(word)}))
    BY DEF old
  <2>3. QED  BY ONLY <2>1, <2>2, Common
<1>4. ASSUME common >= Len(word) PROVE FALSE
  <2>1. Len(word) \in 1 .. common
    BY <1>1, <1>3, <1>4
  <2>2. SubSeq(old, 1, common)[Len(word)] = old[Len(word)]
    BY <1>1, <1>3, <2>1 DEF Texts
  <2>3. SubSeq(Toned(word), 1, common)[Len(word)] = Toned(word)[Len(word)]
    BY <1>2, <1>3, <2>1 DEF Texts
  <2>4. QED  BY <1>1, <1>2, <1>3, <2>2, <2>3
<1>5. QED  BY <1>1, <1>3, <1>4 DEF old

LEMMA ToneEffect ==
  ASSUME TypeOK, Tone
  PROVE  KeyEffect /\ KeyTyped
<1>1. /\ word' = Toned(word) /\ committed' = committed /\ era' = era /\ HadSynth
      /\ word /= <<>> /\ Last(word) \in {"a", "aa"}
  BY DEF Tone
<1>2. word' \in Texts /\ Toned(word) \in Texts
  BY <1>1, TonedType
<1>3. word \in Texts /\ era \in Nat /\ <<>> \in Seq(Sendable)
  BY DEF TypeOK
<1>4. CASE ~Injector.bait /\ ~SkipEmpty /\ ~IsSyncReplaceChannel
  <2> DEFINE old == Append(word, "s")
             common == Len(LongestCommonPrefix({old, Toned(word)}))
  <2>1. ReplaceComposition(old, word', <<"s">>, <<>>)
    BY <1>4 DEF Tone
  <2>2. ReplaceUnicode(Len(old) - common, SubSeq(Toned(word), common + 1, Len(Toned(word))),
                       <<"s">>, <<>>)
    BY <1>1, <2>1 DEF ReplaceComposition
  <2>3. /\ common \in Nat /\ common < Len(word) /\ common <= Len(Toned(word))
        /\ old \in Texts
    BY <1>1, ToneDeletes
  <2>4. Len(old) = Len(word) + 1
    BY <1>3 DEF Texts
  <2> HIDE DEF old, common
  <2>5. Len(old) - common \in Nat /\ Len(<<"s">>) <= Len(old) - common
    BY <1>3, <2>3, <2>4 DEF Texts
  <2>6. SubSeq(Toned(word), common + 1, Len(Toned(word))) \in Texts
    BY <1>2, <2>3 DEF Texts
  <2>7. <<"s">> \in Texts
    <3>1. "s" \in Glyphs
      BY GlyphType
    <3>2. QED  BY <3>1 DEF Texts
  <2>8. KeyEffect
    BY <1>3, <2>2, <2>5, <2>6, <2>7, ReplacesEffect
  <2>9. QED  BY <1>1, <1>2, <2>8, HadSynthType DEF KeyTyped, TypeOK
<1>5. CASE ~(~Injector.bait /\ ~SkipEmpty /\ ~IsSyncReplaceChannel)
  <2>1. ReplaceComposition(word, word', <<>>, <<>>)
    BY <1>5 DEF Tone
  <2>2. KeyEffect
    BY <1>2, <1>3, <2>1, ComposeEffect
  <2>3. QED  BY <1>1, <1>2, <2>2, HadSynthType DEF KeyTyped, TypeOK
<1>6. QED  BY <1>4, <1>5

LEMMA InjectEffect ==
  ASSUME NEW e \in Sendable, InjectKey(e)
  PROVE  KeyEffect
<1>1. /\ Dispatch(Waiting, Watched \cup Posted, <<Batch(<<e>>, TRUE)>>)
      /\ UNCHANGED <<appq, hook>>
  BY DEF InjectKey
<1>2. <<e>> \in Seq(Sendable)
  OBVIOUS
<1>3. <<Batch(<<e>>, TRUE)>> \in Seq(AllBatches)
  BY <1>2, BatchType, SendOne
<1>4. /\ Watched \subseteq Watched \cup Posted
      /\ IsSyncReplaceChannel => "posted" \in Watched \cup Posted
  BY DEF Posted
<1>5. QED  BY <1>1, <1>3, <1>4, SentEffect

LEMMA BusyEffect ==
  ASSUME NEW by \in Ways, NEW bs \in Nat, NEW text \in Texts,
         Busy(by, bs, text, <<>>), IsSyncReplaceChannel, by /= "vb6",
         by = "trigger" => Waiting = 0
  PROVE  KeyEffect
<1>1. Edit(by, bs, text, <<>>) \in Edits /\ Edit(by, bs, text, <<>>).by = by
  <2>1. <<>> \in Seq(Sendable)
    OBVIOUS
  <2>2. Edit(by, bs, text, <<>>) \in Edits
    BY <2>1, EditType
  <2>3. QED  BY <2>2 DEF Edit
<1>2. Held(Edit(by, bs, text, <<>>))
  BY BusyHolds
<1>3. QED  BY <1>1, <1>2 DEF KeyEffect, Left

LEMMA BackspaceEffect ==
  ASSUME TypeOK, Backspace
  PROVE  KeyEffect /\ KeyTyped
<1>1. era \in Nat /\ word \in Texts /\ committed \in Texts /\ Waiting \in Nat
  BY DEF TypeOK, Waiting
<1>2. KeyEffect
  <2>1. CASE word = <<>> /\ Waiting > 0
    <3>1. InjectKey(Event("back", <<>>, 2))
      BY <1>1, <2>1 DEF Backspace
    <3>2. QED  BY <1>1, <3>1, KeyTypes, InjectEffect
  <2>2. CASE word = <<>> /\ Waiting = 0
    <3>1. Pass(Event("back", <<>>, 0), Watched)
      BY <1>1, <2>2 DEF Backspace
    <3> DEFINE e == Event("back", <<>>, 0)
    <3>2. e \in Events /\ e.own = 0
      BY <1>1, KeyTypes DEF Event
    <3>3. Pass(e, Watched) /\ Waiting = 0 /\ Watched \subseteq Watched
      BY <2>2, <3>1
    <3> HIDE DEF e
    <3>4. QED  BY <3>2, <3>3, PassEffect
  <2>3. CASE Len(word) = 1 /\ IsSyncReplaceChannel
    <3>1. Busy("raw", 1, <<>>, <<>>)
      BY <1>1, <2>3 DEF Backspace, Texts
    <3>2. QED  BY <2>3, <3>1, NoText, BusyEffect DEF Ways
  <2>4. CASE Len(word) = 1 /\ ~IsSyncReplaceChannel
    <3>1. Dispatch(Waiting, Watched, Batches(1, <<>>)) /\ UNCHANGED <<appq, hook>>
      BY <1>1, <2>4 DEF Backspace, Texts
    <3>2. Batches(1, <<>>) \in Seq(AllBatches)
      BY <1>1, NoText, BatchesType
    <3>3. QED  BY <2>4, <3>1, <3>2, SentEffect
  <2>5. CASE word /= <<>> /\ Len(word) /= 1
    <3>1. ReplaceComposition(word, Front(word), <<>>, <<>>)
      BY <2>5 DEF Backspace
    <3>2. Front(word) \in Texts /\ <<>> \in Seq(Sendable)
      BY <1>1, <2>5, FrontType DEF Texts
    <3>3. QED  BY <1>1, <3>1, <3>2, ComposeEffect
  <2>6. QED  BY <1>1, <2>1, <2>2, <2>3, <2>4, <2>5
<1>3. word' \in Texts /\ committed' \in Texts
  <2>1. committed /= <<>> => Front(committed) \in Texts
    BY <1>1, FrontType DEF Texts
  <2>2. word /= <<>> => Front(word) \in Texts
    BY <1>1, FrontType DEF Texts
  <2>3. QED  BY <1>1, <2>1, <2>2 DEF Backspace
<1>4. era' \in Nat /\ hadSynth' \in BOOLEAN
  BY <1>1, HadSynthType DEF Backspace, TypeOK
<1>5. QED  BY <1>2, <1>3, <1>4 DEF KeyTyped

LEMMA RawType ==
  ASSUME NEW w \in Texts
  PROVE  Raw(w) \in Texts
<1> DEFINE of == [i \in DOMAIN w |-> IF w[i] = "aa" THEN <<"a", "s">> ELSE <<w[i]>>]
<1>1. ASSUME NEW i \in DOMAIN w
      PROVE  (IF w[i] = "aa" THEN <<"a", "s">> ELSE <<w[i]>>) \in Seq(Glyphs)
  <2>1. w[i] \in Glyphs
    BY DEF Texts
  <2>2. "a" \in Glyphs /\ "s" \in Glyphs
    BY GlyphType
  <2>3. <<"a", "s">> \in Seq(Glyphs) /\ <<w[i]>> \in Seq(Glyphs)
    BY <2>1, <2>2
  <2>4. QED  BY <2>3
<1>2. DOMAIN w = 1 .. Len(w) /\ Len(w) \in Nat
  BY DEF Texts
<1>3. of \in Seq(Seq(Glyphs))
  BY <1>1, <1>2
<1>4. Raw(w) = FlattenSeq(of)
  BY DEF Raw
<1> HIDE DEF of
<1>5. QED  BY <1>3, <1>4, FlattenType DEF Texts

LEMMA TriggerEffect ==
  ASSUME TypeOK, NEW c \in Ends, Trigger(c)
  PROVE  KeyEffect /\ KeyTyped
<1>1. era \in Nat /\ word \in Texts /\ committed \in Texts /\ Waiting \in Nat
  BY DEF TypeOK, Waiting
<1>2. <<c>> \in Texts /\ Raw(word) \in Texts
  <2>1. c \in Glyphs
    BY GlyphType
  <2>2. QED  BY <1>1, <2>1, RawType DEF Texts
<1>3. /\ Event("text", <<c>>, 2) \in Sendable
      /\ Event("text", <<c>>, 0) \in Events
      /\ Event("text", <<c>>, 0).own = 0 /\ Event("text", <<c>>, 0).text = <<c>>
  <2>1. "text" \in Ops /\ 2 \in 1 .. 4 /\ 0 \in 0 .. 4
    BY DEF Ops
  <2>2. QED  BY <1>1, <1>2, <2>1, SendableType, EventType DEF Event
<1> DEFINE e == Event("text", <<c>>, 0)
           typed == Event("text", <<c>>, 2)
           over == Watched \cup IF sys # <<>> THEN {"overtaken"} ELSE {}
<1>4. \/ word = <<>> /\ Pass(e, over)
      \/ word /= <<>> /\ ReplaceComposition(word, Raw(word), <<>>, <<typed>>)
      \/ Waiting > 0 /\ InjectKey(typed)
      \/ Waiting = 0 /\ IsSyncReplaceChannel /\ Busy("trigger", 0, <<c>>, <<>>)
      \/ Waiting = 0 /\ Pass(e, Watched)
  <2>1. CASE word = <<>>
    BY <2>1 DEF Trigger
  <2>2. CASE word /= <<>> /\ ReplaceComposition(word, Raw(word), <<>>, <<typed>>)
    BY <2>2
  <2>3. CASE /\ word /= <<>>
             /\ CASE Waiting > 0 -> InjectKey(typed)
                  [] Waiting = 0 /\ IsSyncReplaceChannel /\ c = "_" ->
                       Busy("trigger", 0, <<c>>, <<>>)
                  [] OTHER -> Pass(e, Watched)
    <3> HIDE DEF e, typed
    <3>1. Waiting > 0 \/ Waiting = 0
      BY <1>1
    <3>2. QED  BY <1>1, <2>3, <3>1
  <2>4. QED  BY <2>1, <2>2, <2>3 DEF Trigger
<1>5. e \in Events /\ e.own = 0 /\ e.text \in {<<k>> : k \in Ends} /\ typed \in Sendable
  BY <1>3
<1>6. Watched \subseteq over /\ Watched \subseteq Watched
  OBVIOUS
<1> HIDE DEF e, typed, over
<1>7. KeyEffect
  <2>1. CASE word = <<>> /\ Pass(e, over)
    BY <2>1, <1>5, <1>6, PassEffect
  <2>2. CASE word /= <<>> /\ ReplaceComposition(word, Raw(word), <<>>, <<typed>>)
    <3>1. <<typed>> \in Seq(Sendable)
      BY <1>5
    <3>2. QED  BY <1>1, <1>2, <2>2, <3>1, ComposeEffect
  <2>3. CASE Waiting > 0 /\ InjectKey(typed)
    BY <2>3, <1>5, InjectEffect
  <2>4. CASE Waiting = 0 /\ IsSyncReplaceChannel /\ Busy("trigger", 0, <<c>>, <<>>)
    <3>1. "trigger" \in Ways /\ 0 \in Nat /\ "trigger" /= "vb6"
      BY DEF Ways
    <3>2. QED  BY <1>2, <2>4, <3>1, BusyEffect
  <2>5. CASE Waiting = 0 /\ Pass(e, Watched)
    BY <2>5, <1>5, <1>6, PassEffect
  <2>6. QED  BY <1>4, <2>1, <2>2, <2>3, <2>4, <2>5
<1>8. word' = <<>> /\ era' = era + 1 /\ hadSynth' = FALSE
  BY DEF Trigger
<1>9. committed' \in Texts
  <2>1. /\ Append(committed, c) \in Texts
        /\ committed \o Raw(word) \o <<c>> \in Texts
        /\ committed \o word \o <<c>> \in Texts
    <3>1. committed \in Seq(Glyphs) /\ c \in Glyphs /\ <<c>> \in Seq(Glyphs)
          /\ word \in Seq(Glyphs) /\ Raw(word) \in Seq(Glyphs)
      BY <1>1, <1>2, GlyphType DEF Texts
    <3>2. QED  BY <3>1 DEF Texts
  <2>2. committed' \in {Append(committed, c), committed \o Raw(word) \o <<c>>,
                        committed \o word \o <<c>>}
    BY DEF Trigger
  <2>3. QED  BY <2>1, <2>2
<1>10. era' \in Nat
  BY <1>1, <1>8
<1>11. hadSynth' \in BOOLEAN /\ word' \in Texts
  BY <1>8, NoText
<1>12. QED  BY <1>7, <1>9, <1>10, <1>11 DEF KeyTyped

-----------------------------------------------------------------------------
(* The inductive invariant: the counter is exact, a held trigger waits for *)
(* nothing in flight, and a control that takes edit messages has no input  *)
(* to be overtaken.                                                        *)

TriggerAlone == hook.by = "trigger" => sys = <<>> \/ "reset" \in slips

SyncAlone ==
  /\ IsSyncReplaceChannel => (sys = <<>> /\ appq = <<>>) \/ "posted" \in slips
  /\ hook /= Idle => (hook.by = "vb6") = ~IsSyncReplaceChannel

Inv == TypeOK /\ CounterExact /\ TriggerAlone /\ SyncAlone

\* The two action properties, of one step.
StepKeepsOrder ==
  Len(appq') > Len(appq) /\ Last(appq').own = 0 =>
    \/ sys = <<>>
    \/ word = <<>> /\ Last(appq').text \in {<<c>> : c \in Ends}
    \/ "reset" \in slips'

StepKeepsEdits ==
  hook.by \in {"retry", "trigger", "raw"} /\ hook' = Idle /\ screen' # screen
    => appq \o sys = <<>> \/ "posted" \in slips

LEMMA InvInit == Init => Inv
<1> SUFFICES ASSUME Init PROVE Inv
  OBVIOUS
<1>1. <<>> \in Seq(Glyphs \cup {"bait"}) /\ <<>> \in Seq(Sendable) /\ <<>> \in Seq(Events)
  OBVIOUS
<1>2. TypeOK
  BY <1>1, NoText DEF Init, TypeOK
<1>3. CounterExact
  BY OwnNone DEF Init, CounterExact
<1>4. TriggerAlone /\ SyncAlone
  BY DEF Init, TriggerAlone, SyncAlone
<1>5. QED  BY <1>2, <1>3, <1>4 DEF Inv

\* The channel is that of the window, which stays.
LEMMA ChannelStays ==
  ASSUME win' = win
  PROVE  /\ IsSyncReplaceChannel' = IsSyncReplaceChannel
         /\ Injector' = Injector /\ Understands' = Understands
BY DEF IsSyncReplaceChannel, Injector, Understands, NeedBait, ElectronApp,
       ClassifyWindow, IsWebView2App

LEMMA SeqTypes ==
  /\ Seq(Sendable) \subseteq Seq(Events)
  /\ \A s \in Seq(Sendable), t \in Seq(Sendable) : s \o t \in Seq(Sendable)
BY DEF Sendable

LEMMA EmptyCount ==
  ASSUME NEW s \in Seq(Sendable), Own(s) = 0
  PROVE  s = <<>>
BY OwnPositive

\* The watchdog, before anything else of a key.
LEMMA Pressed ==
  ASSUME Inv, Press
  PROVE  /\ Waiting \in Nat /\ missed' \in Nat /\ slips \subseteq Watched
         /\ "reset" \in Watched \/ Waiting = Own(sys) + missed'
         /\ Waiting = 0 => sys = <<>> \/ "reset" \in Watched
         /\ hook = Idle
         /\ win' = win /\ screen' = screen /\ sugg' = sugg /\ late' = late
<1>1. /\ pending \in Nat /\ missed \in Nat /\ quiet \in BOOLEAN
      /\ sys \in Seq(Sendable) /\ Own(sys) \in Nat
  BY SeqTypes, OwnNat DEF Inv, TypeOK
<1>2. pending = Own(sys) + missed \/ "reset" \in slips
  BY DEF Inv, CounterExact
<1>3. /\ hook = Idle /\ missed' = IF quiet THEN 0 ELSE missed
      /\ win' = win /\ screen' = screen /\ sugg' = sugg /\ late' = late
  BY DEF Press
<1>4. slips \subseteq Watched
  BY DEF Watched
<1>5. Own(sys) = 0 => sys = <<>>
  BY <1>1, EmptyCount
<1>6. CASE quiet
  <2>1. Waiting = 0 /\ missed' = 0
    BY <1>3, <1>6 DEF Waiting
  <2>2. CASE sys = <<>>
    <3>1. Own(sys) = 0
      BY <2>2, OwnNone
    <3>2. QED  BY <1>3, <1>4, <2>1, <2>2, <3>1
  <2>3. CASE sys /= <<>>
    <3>1. "reset" \in Watched
      <4>1. CASE pending > 0
        BY <1>6, <2>3, <4>1 DEF Watched
      <4>2. CASE ~(pending > 0)
        <5>1. pending = 0
          BY <1>1, <4>2
        <5>2. "reset" \in slips
          BY <1>1, <1>2, <1>5, <2>3, <5>1
        <5>3. QED  BY <1>4, <5>2
      <4>3. QED  BY <4>1, <4>2
    <3>2. QED  BY <1>3, <1>4, <2>1, <3>1
  <2>4. QED  BY <2>2, <2>3
<1>7. CASE ~quiet
  <2>1. Waiting = pending /\ missed' = missed
    BY <1>3, <1>7 DEF Waiting
  <2>2. "reset" \in Watched \/ Waiting = Own(sys) + missed'
    BY <1>2, <1>4, <2>1
  <2>3. Waiting = 0 => sys = <<>> \/ "reset" \in Watched
    BY <1>1, <1>5, <2>1, <2>2
  <2>4. QED  BY <1>1, <1>3, <1>4, <2>1, <2>2, <2>3
<1>8. QED  BY <1>6, <1>7

LEMMA IdleWay == Idle.by = "nobody" /\ Idle \notin Edits
<1>1. Idle.by = "nobody"
  BY DEF Idle, Edit
<1>2. \A e \in Edits : e.by \in Ways
  BY DEF Edits
<1>3. "nobody" \notin Ways
  BY DEF Ways
<1>4. QED  BY <1>1, <1>2, <1>3

LEMMA LastAppended ==
  ASSUME NEW A, NEW s \in Seq(A), NEW e \in A
  PROVE  /\ Last(Append(s, e)) = e /\ Append(s, e) \in Seq(A)
         /\ Len(Append(s, e)) = Len(s) + 1 /\ Len(s) \in Nat
BY DEF Last

LEMMA KeyKeeps ==
  ASSUME Inv, Press, KeyEffect, KeyTyped
  PROVE  Inv' /\ StepKeepsOrder /\ StepKeepsEdits
<1>1. /\ Waiting \in Nat /\ missed' \in Nat /\ slips \subseteq Watched
      /\ "reset" \in Watched \/ Waiting = Own(sys) + missed'
      /\ Waiting = 0 => sys = <<>> \/ "reset" \in Watched
      /\ hook = Idle
      /\ win' = win /\ screen' = screen /\ sugg' = sugg /\ late' = late
  BY Pressed
<1>2. /\ win \in Windows /\ screen \in Seq(Glyphs \cup {"bait"})
      /\ quiet \in BOOLEAN /\ sugg \in BOOLEAN
      /\ sys \in Seq(Sendable) /\ appq \in Seq(Events)
      /\ hook \in Edits \cup {Idle} /\ late \in Edits \cup {Idle}
  BY DEF Inv, TypeOK
<1>3. Own(sys) \in Nat
  BY <1>2, SeqTypes, OwnNat
<1>4. word' \in Texts /\ committed' \in Texts /\ era' \in Nat /\ hadSynth' \in BOOLEAN
  BY DEF KeyTyped
<1>5. IsSyncReplaceChannel' = IsSyncReplaceChannel
  BY <1>1, ChannelStays
<1>6. /\ IsSyncReplaceChannel => (sys = <<>> /\ appq = <<>>) \/ "posted" \in slips
  BY DEF Inv, SyncAlone
<1>7. StepKeepsEdits
  BY <1>1, IdleWay DEF StepKeepsEdits
<1>8. ASSUME NEW e \in Events, Passed(e)
      PROVE  Inv' /\ StepKeepsOrder
  <2>1. /\ Waiting = 0 \/ (word = <<>> /\ e.text \in {<<c>> : c \in Ends})
        /\ IsSyncReplaceChannel => "posted" \in slips'
        /\ Watched \subseteq slips'
        /\ appq' = Append(appq, e) /\ pending' = Waiting
        /\ sys' = sys /\ quiet' = quiet /\ hook' = hook
    BY <1>8 DEF Passed
  <2>2. appq' \in Seq(Events) /\ Last(appq') = e
    BY <1>2, <2>1, LastAppended
  <2>3. TypeOK'
    BY <1>1, <1>2, <1>4, <2>1, <2>2 DEF TypeOK
  <2>4. CounterExact'
    BY <1>1, <2>1 DEF CounterExact
  <2>5. TriggerAlone' /\ SyncAlone'
    BY <1>1, <1>5, <2>1, IdleWay DEF TriggerAlone, SyncAlone
  <2>6. StepKeepsOrder
    BY <1>1, <2>1, <2>2 DEF StepKeepsOrder
  <2>7. QED  BY <2>3, <2>4, <2>5, <2>6 DEF Inv
<1>9. ASSUME NEW sent \in Seq(Sendable), Sent(sent)
      PROVE  Inv' /\ StepKeepsOrder
  <2>1. /\ IsSyncReplaceChannel => "posted" \in slips'
        /\ Watched \subseteq slips'
        /\ pending' = Waiting + Own(sent) /\ sys' = sys \o sent
        /\ quiet' = FALSE /\ appq' = appq /\ hook' = hook
    BY <1>9 DEF Sent
  <2>2. sys' \in Seq(Sendable) /\ Own(sys') = Own(sys) + Own(sent) /\ Own(sent) \in Nat
    BY <1>2, <2>1, SeqTypes, OwnConcat, OwnNat
  <2>3. TypeOK'
    <3>1. pending' \in Nat
      BY <1>1, <2>1, <2>2
    <3>2. QED  BY <1>1, <1>2, <1>4, <2>1, <2>2, <3>1 DEF TypeOK
  <2>4. CounterExact'
    BY <1>1, <1>3, <2>1, <2>2 DEF CounterExact
  <2>5. TriggerAlone' /\ SyncAlone'
    BY <1>1, <1>5, <2>1, IdleWay DEF TriggerAlone, SyncAlone
  <2>6. StepKeepsOrder
    BY <1>2, <2>1 DEF StepKeepsOrder
  <2>7. QED  BY <2>3, <2>4, <2>5, <2>6 DEF Inv
<1>10. ASSUME NEW edit \in Edits, Left(edit)
       PROVE  Inv' /\ StepKeepsOrder
  <2>1. /\ (edit.by = "vb6") = ~IsSyncReplaceChannel
        /\ edit.by = "trigger" => Waiting = 0
        /\ hook' = edit /\ pending' = Waiting /\ slips' = Watched
        /\ sys' = sys /\ quiet' = quiet /\ appq' = appq
    BY <1>10 DEF Left, Held
  <2>3. TypeOK'
    BY <1>1, <1>2, <1>4, <2>1 DEF TypeOK
  <2>4. CounterExact'
    BY <1>1, <2>1 DEF CounterExact
  <2>5. TriggerAlone'
    BY <1>1, <2>1 DEF TriggerAlone
  <2>8. SyncAlone'
    BY <1>1, <1>5, <1>6, <2>1 DEF SyncAlone
  <2>6. StepKeepsOrder
    BY <1>2, <2>1 DEF StepKeepsOrder
  <2>7. QED  BY <2>3, <2>4, <2>5, <2>6, <2>8 DEF Inv
<1>11. QED  BY <1>7, <1>8, <1>9, <1>10 DEF KeyEffect

-----------------------------------------------------------------------------
(* The edits of a busy hook thread.                                        *)

LEMMA SendKeeps ==
  ASSUME Inv, NEW sent \in Seq(Sendable),
         pending' = pending + Own(sent), sys' = sys \o sent, missed' = missed,
         slips \subseteq slips'
  PROVE  sys' \in Seq(Sendable) /\ pending' \in Nat /\ CounterExact'
<1>1. sys \in Seq(Sendable) /\ pending \in Nat /\ missed \in Nat
  BY DEF Inv, TypeOK
<1>2. /\ sys' \in Seq(Sendable) /\ Own(sys') = Own(sys) + Own(sent)
      /\ Own(sent) \in Nat /\ Own(sys) \in Nat
  BY <1>1, SeqTypes, OwnConcat, OwnNat
<1>3. pending = Own(sys) + missed \/ "reset" \in slips
  BY DEF Inv, CounterExact
<1>4. CounterExact'
  BY <1>1, <1>2, <1>3 DEF CounterExact
<1>5. QED  BY <1>1, <1>2, <1>4

LEMMA EditFields ==
  ASSUME NEW e \in Edits
  PROVE  /\ e.by \in Ways /\ e.bs \in Nat /\ e.text \in Texts
         /\ e.tries \in 0 .. MaxTries /\ e.next \in Seq(Sendable)
BY DEF Edits

LEMMA FallsBack ==
  ASSUME NEW s, NEW q \in Seq(AllBatches), hook \in Edits, FallBack(s, q)
  PROVE  /\ \E sent \in Seq(Sendable) :
              Sends(pending, s, Send(q) \o hook.next, sent)
         /\ quiet' = FALSE /\ hook' = Idle /\ appq' = appq
         /\ hadSynth' = (hadSynth \/ (hook.next = <<>> /\ pending' > 0))
<1>1. hook.next \in Seq(Sendable)
  BY EditFields
<1>2. /\ Batch(hook.next, TRUE) \in AllBatches /\ Batch(hook.next, TRUE).events = hook.next
  BY <1>1, BatchType
<1>3. /\ <<Batch(hook.next, TRUE)>> \in Seq(AllBatches)
      /\ Send(<<Batch(hook.next, TRUE)>>) = hook.next
  BY <1>2, SendOne
<1>4. /\ q \o <<Batch(hook.next, TRUE)>> \in Seq(AllBatches)
      /\ Send(q \o <<Batch(hook.next, TRUE)>>) = Send(q) \o hook.next
  <2> DEFINE b == <<Batch(hook.next, TRUE)>>
  <2>1. b \in Seq(AllBatches) /\ Send(b) = hook.next
    BY <1>3
  <2> HIDE DEF b
  <2>2. Send(q \o b) = Send(q) \o Send(b)
    BY <2>1, SendConcat
  <2>4. q \o b \in Seq(AllBatches)
    BY <2>1
  <2>3. QED  BY <2>1, <2>2, <2>4 DEF b
<1>5. /\ TrackedSendInput(pending, s, q \o <<Batch(hook.next, TRUE)>>)
      /\ quiet' = FALSE /\ hook' = Idle /\ appq' = appq
      /\ hadSynth' = (hadSynth \/ (hook.next = <<>> /\ pending' > 0))
  BY DEF FallBack, Dispatch
<1>6. QED  BY <1>4, <1>5, Tracked

\* What the edit messages fall back to.
LEMMA Vb6Sends ==
  ASSUME TypeOK, hook \in Edits
  PROVE  LET q == <<Batch(Deletes, TRUE),
                    Batch(IF hook.text = <<>> THEN <<>> ELSE <<CtrlV(hook.text)>>, TRUE)>>
         IN /\ q \in Seq(AllBatches)
            /\ Send(q) = Deletes \o (IF hook.text = <<>> THEN <<>> ELSE <<CtrlV(hook.text)>>)
<1> DEFINE paste == IF hook.text = <<>> THEN <<>> ELSE <<CtrlV(hook.text)>>
<1>1. era \in Nat /\ hook.bs \in Nat /\ hook.text \in Texts
  BY EditFields DEF TypeOK
<1>2. Deletes \in Seq(Sendable)
  BY <1>1, DeletesType DEF Deletes
<1>3. paste \in Seq(Sendable)
  <2>1. 4 \in 1 .. 4 /\ "text" \in Ops
    BY DEF Ops
  <2>2. CtrlV(hook.text) \in Sendable
    BY <1>1, <2>1, SendableType DEF CtrlV
  <2>3. QED  BY <2>2
<1> HIDE DEF paste
<1> DEFINE b == Batch(Deletes, TRUE)
           d == Batch(paste, TRUE)
<1>4. b \in AllBatches /\ d \in AllBatches /\ b.events = Deletes /\ d.events = paste
  BY <1>2, <1>3, BatchType
<1> HIDE DEF b, d
<1>5. <<b, d>> \in Seq(AllBatches) /\ <<b, d>> = <<b>> \o <<d>>
  BY <1>4, PairType
<1>6. Send(<<b>> \o <<d>>) = Deletes \o paste
  BY <1>4, SendOne, SendConcat
<1>7. QED  BY <1>5, <1>6 DEF b, d, paste

LEMMA RetrySends ==
  ASSUME TypeOK, hook \in Edits
  PROVE  /\ <<Batch(Deletes \o Chars(hook.text), TRUE)>> \in Seq(AllBatches)
         /\ Send(<<Batch(Deletes \o Chars(hook.text), TRUE)>>) = Deletes \o Chars(hook.text)
<1>1. era \in Nat /\ hook.bs \in Nat /\ hook.text \in Texts
  BY EditFields DEF TypeOK
<1>2. Deletes \in Seq(Sendable) /\ Chars(hook.text) \in Seq(Sendable)
  BY <1>1, DeletesType, CharsType DEF Deletes
<1>3. Deletes \o Chars(hook.text) \in Seq(Sendable)
  BY <1>2
<1>4. QED  BY <1>3, BatchType, SendOne

\* The ways on of an edit that fails.
Failed(s) ==
  \/ /\ hook.by = "retry" /\ hook' \in Edits /\ hook' = [hook EXCEPT !.tries = @ + 1]
     /\ slips' = s /\ UNCHANGED <<pending, quiet, hadSynth, sys, appq>>
  \/ /\ hook.by = "retry" /\ hook' = Idle /\ s \cup {"posted"} \subseteq slips'
     /\ \E sent \in Seq(Sendable) :
          Sends(pending, s \cup {"posted"},
                (Deletes \o Chars(hook.text)) \o hook.next, sent)
     /\ quiet' = FALSE /\ appq' = appq
     /\ hadSynth' = (hadSynth \/ (hook.next = <<>> /\ pending' > 0))
  \/ /\ hook.by = "vb6" /\ hook' = Idle /\ s \subseteq slips'
     /\ \E sent \in Seq(Sendable) :
          Sends(pending, s,
                (Deletes \o (IF hook.text = <<>> THEN <<>> ELSE <<CtrlV(hook.text)>>))
                  \o hook.next, sent)
     /\ quiet' = FALSE /\ appq' = appq
     /\ hadSynth' = (hadSynth \/ (hook.next = <<>> /\ pending' > 0))
  \/ /\ hook.by = "raw" /\ hook' = Idle /\ slips' = s \cup {"refused"}
     /\ quiet' = FALSE /\ UNCHANGED <<pending, hadSynth, sys, appq>>
  \/ /\ hook.by = "trigger" /\ hook' = Idle /\ slips' = s \cup {"posted"}
     /\ appq' = Append(appq, Event("text", hook.text, 0))
     /\ UNCHANGED <<pending, quiet, hadSynth, sys>>

LEMMA Fails ==
  ASSUME TypeOK, hook \in Edits, NEW s, EditFails(s)
  PROVE  Failed(s)
<1>1. hook.by \in Ways /\ hook.tries \in 0 .. MaxTries
  BY EditFields
<1>2. CASE hook.by = "retry" /\ hook.tries < MaxTries
  <2>1. /\ hook' = [hook EXCEPT !.tries = @ + 1] /\ slips' = s
        /\ UNCHANGED <<pending, quiet, hadSynth, sys, appq>>
    <3>1. /\ hook.tries /= MaxTries
          /\ hook.by /= "vb6" /\ hook.by /= "raw" /\ hook.by /= "trigger"
      BY <1>1, <1>2, Tries
    <3>2. QED  BY <1>2, <3>1, Zenon DEF EditFails
  <2>2. hook.tries + 1 \in 0 .. MaxTries
    BY <1>1, <1>2, Tries
  <2>3. [hook EXCEPT !.tries = hook.tries + 1] \in Edits
    BY <2>2 DEF Edits
  <2>4. QED  BY <1>2, <2>1, <2>3 DEF Failed
<1>3. CASE hook.by = "retry" /\ hook.tries = MaxTries
  <2>1. FallBack(s \cup {"posted"}, <<Batch(Deletes \o Chars(hook.text), TRUE)>>)
    BY <1>1, <1>3, Tries DEF EditFails
  <2>2. /\ \E sent \in Seq(Sendable) :
             Sends(pending, s \cup {"posted"},
                   (Deletes \o Chars(hook.text)) \o hook.next, sent)
        /\ quiet' = FALSE /\ hook' = Idle /\ appq' = appq
        /\ hadSynth' = (hadSynth \/ (hook.next = <<>> /\ pending' > 0))
    BY <2>1, RetrySends, FallsBack
  <2>3. s \cup {"posted"} \subseteq slips'
    BY <2>2 DEF Sends
  <2>4. QED  BY <1>3, <2>2, <2>3 DEF Failed
<1>4. CASE hook.by = "vb6"
  <2> DEFINE q == <<Batch(Deletes, TRUE),
                    Batch(IF hook.text = <<>> THEN <<>> ELSE <<CtrlV(hook.text)>>, TRUE)>>
             all == Deletes \o (IF hook.text = <<>> THEN <<>> ELSE <<CtrlV(hook.text)>>)
  <2>1. FallBack(s, q)
    BY <1>4 DEF EditFails
  <2>2. q \in Seq(AllBatches) /\ Send(q) = all
    BY Vb6Sends
  <2> HIDE DEF q
  <2>3. /\ \E sent \in Seq(Sendable) : Sends(pending, s, all \o hook.next, sent)
        /\ quiet' = FALSE /\ hook' = Idle /\ appq' = appq
        /\ hadSynth' = (hadSynth \/ (hook.next = <<>> /\ pending' > 0))
    <3> HIDE DEF all
    <3>1. QED  BY <2>1, <2>2, FallsBack
  <2>4. s \subseteq slips'
    BY <2>3 DEF Sends
  <2>5. QED  BY <1>4, <2>3, <2>4 DEF Failed
<1>5. CASE hook.by = "raw"
  BY <1>5 DEF EditFails, Failed
<1>6. CASE hook.by = "trigger"
  BY <1>6 DEF EditFails, Failed
<1>7. hook.tries < MaxTries \/ hook.tries = MaxTries
  BY <1>1, Tries
<1>8. QED  BY <1>1, <1>2, <1>3, <1>4, <1>5, <1>6, <1>7 DEF Ways

\* The rest of the state, when an edit is tried.
EditFrame ==
  /\ win' = win /\ word' = word /\ committed' = committed /\ era' = era
  /\ missed' = missed /\ sugg' = sugg
  /\ screen' \in Seq(Glyphs \cup {"bait"}) /\ late' \in Edits \cup {Idle}

LEMMA FailKeeps ==
  ASSUME Inv, hook /= Idle, NEW s, slips \subseteq s, EditFails(s),
         EditFrame, screen' = screen
  PROVE  Inv' /\ StepKeepsOrder /\ StepKeepsEdits
<1>1. /\ win \in Windows /\ word \in Texts /\ committed \in Texts /\ era \in Nat
      /\ pending \in Nat /\ missed \in Nat
      /\ quiet \in BOOLEAN /\ hadSynth \in BOOLEAN /\ sugg \in BOOLEAN
      /\ sys \in Seq(Sendable) /\ appq \in Seq(Events)
      /\ hook \in Edits
  BY DEF Inv, TypeOK
<1>2. Failed(s)
  BY <1>1, Fails DEF Inv
<1>3. IsSyncReplaceChannel' = IsSyncReplaceChannel
  BY ChannelStays DEF EditFrame
<1>4. /\ IsSyncReplaceChannel => (sys = <<>> /\ appq = <<>>) \/ "posted" \in slips
      /\ (hook.by = "vb6") = ~IsSyncReplaceChannel
      /\ hook.by = "trigger" => sys = <<>> \/ "reset" \in slips
      /\ pending = Own(sys) + missed \/ "reset" \in slips
  BY DEF Inv, SyncAlone, TriggerAlone, CounterExact
<1>5. StepKeepsEdits
  BY DEF StepKeepsEdits
<1>6. /\ word' \in Texts /\ committed' \in Texts /\ era' \in Nat /\ win' \in Windows
      /\ missed' \in Nat /\ sugg' \in BOOLEAN /\ missed' = missed
      /\ screen' \in Seq(Glyphs \cup {"bait"}) /\ late' \in Edits \cup {Idle}
  BY <1>1 DEF EditFrame
<1>7. CASE /\ hook.by = "retry" /\ hook' \in Edits /\ hook' = [hook EXCEPT !.tries = @ + 1]
           /\ slips' = s /\ UNCHANGED <<pending, quiet, hadSynth, sys, appq>>
  <2>1. hook'.by = hook.by
    BY <1>1, <1>7 DEF Edits
  <2>2. TypeOK'
    BY <1>1, <1>6, <1>7 DEF TypeOK
  <2>3. CounterExact' /\ TriggerAlone' /\ SyncAlone'
    BY <1>3, <1>4, <1>6, <1>7, <2>1 DEF CounterExact, TriggerAlone, SyncAlone
  <2>4. StepKeepsOrder
    BY <1>1, <1>7 DEF StepKeepsOrder
  <2>5. QED  BY <1>5, <2>2, <2>3, <2>4 DEF Inv
<1>8. ASSUME NEW sent \in Seq(Sendable),
             pending' = pending + Own(sent), sys' = sys \o sent,
             hook' = Idle, slips \subseteq slips', quiet' = FALSE, appq' = appq,
             hadSynth' \in BOOLEAN, IsSyncReplaceChannel => "posted" \in slips'
      PROVE  Inv' /\ StepKeepsOrder /\ StepKeepsEdits
  <2>1. sys' \in Seq(Sendable) /\ pending' \in Nat /\ CounterExact'
    BY <1>6, <1>8, SendKeeps
  <2>2. TypeOK'
    BY <1>1, <1>6, <1>8, <2>1 DEF TypeOK
  <2>3. TriggerAlone' /\ SyncAlone'
    BY <1>3, <1>8, IdleWay DEF TriggerAlone, SyncAlone
  <2>4. StepKeepsOrder
    BY <1>1, <1>8 DEF StepKeepsOrder
  <2>5. QED  BY <1>5, <2>1, <2>2, <2>3, <2>4 DEF Inv
<1>9. CASE /\ hook.by = "retry" /\ hook' = Idle /\ s \cup {"posted"} \subseteq slips'
           /\ \E sent \in Seq(Sendable) :
                Sends(pending, s \cup {"posted"},
                      (Deletes \o Chars(hook.text)) \o hook.next, sent)
           /\ quiet' = FALSE /\ appq' = appq
           /\ hadSynth' = (hadSynth \/ (hook.next = <<>> /\ pending' > 0))
  <2>1. PICK sent \in Seq(Sendable) : pending' = pending + Own(sent) /\ sys' = sys \o sent
    BY <1>9 DEF Sends
  <2>2. slips \subseteq slips' /\ "posted" \in slips' /\ hadSynth' \in BOOLEAN
    BY <1>9, <1>1
  <2>3. QED  BY <1>8, <1>9, <2>1, <2>2
<1>10. CASE /\ hook.by = "vb6" /\ hook' = Idle /\ s \subseteq slips'
            /\ \E sent \in Seq(Sendable) :
                 Sends(pending, s,
                   (Deletes \o (IF hook.text = <<>> THEN <<>> ELSE <<CtrlV(hook.text)>>))
                     \o hook.next, sent)
            /\ quiet' = FALSE /\ appq' = appq
            /\ hadSynth' = (hadSynth \/ (hook.next = <<>> /\ pending' > 0))
  <2>1. PICK sent \in Seq(Sendable) : pending' = pending + Own(sent) /\ sys' = sys \o sent
    BY <1>10 DEF Sends
  <2>2. slips \subseteq slips' /\ hadSynth' \in BOOLEAN /\ ~IsSyncReplaceChannel
    BY <1>10, <1>1, <1>4
  <2>3. QED  BY <1>8, <1>10, <2>1, <2>2
<1>11. CASE /\ hook.by = "raw" /\ hook' = Idle /\ slips' = s \cup {"refused"}
            /\ quiet' = FALSE /\ UNCHANGED <<pending, hadSynth, sys, appq>>
  <2>2. TypeOK'
    BY <1>1, <1>6, <1>11 DEF TypeOK
  <2>3. CounterExact' /\ TriggerAlone' /\ SyncAlone'
    BY <1>3, <1>4, <1>6, <1>11, IdleWay DEF CounterExact, TriggerAlone, SyncAlone
  <2>4. StepKeepsOrder
    BY <1>1, <1>11 DEF StepKeepsOrder
  <2>5. QED  BY <1>5, <2>2, <2>3, <2>4 DEF Inv
<1>12. CASE /\ hook.by = "trigger" /\ hook' = Idle /\ slips' = s \cup {"posted"}
            /\ appq' = Append(appq, Event("text", hook.text, 0))
            /\ UNCHANGED <<pending, quiet, hadSynth, sys>>
  <2>1. appq' \in Seq(Events)
    <3>1. "text" \in Ops /\ 0 \in 0 .. 4 /\ hook.text \in Texts
      BY <1>1, EditFields DEF Ops
    <3>2. Event("text", hook.text, 0) \in Events
      BY <1>1, <3>1, EventType
    <3>3. QED  BY <1>1, <1>12, <3>2
  <2>2. TypeOK'
    BY <1>1, <1>6, <1>12, <2>1 DEF TypeOK
  <2>3. CounterExact' /\ TriggerAlone' /\ SyncAlone'
    BY <1>3, <1>4, <1>6, <1>12, IdleWay DEF CounterExact, TriggerAlone, SyncAlone
  <2>4. StepKeepsOrder
    BY <1>4, <1>12 DEF StepKeepsOrder
  <2>5. QED  BY <1>5, <2>2, <2>3, <2>4 DEF Inv
<1>13. QED  BY <1>2, <1>7, <1>9, <1>10, <1>11, <1>12 DEF Failed

LEMMA ReplacedType ==
  ASSUME NEW t \in Seq(Glyphs \cup {"bait"}), NEW bs \in Nat, bs <= Len(t), NEW new \in Texts
  PROVE  Replaced(t, bs, new) \in Seq(Glyphs \cup {"bait"})
<1>1. new \in Seq(Glyphs \cup {"bait"})
  BY DEF Texts
<1>2. SubSeq(t, 1, Len(t) - bs) \in Seq(Glyphs \cup {"bait"})
  OBVIOUS
<1>3. SubSeq(t, 1, Len(t) - bs) \o new \in Seq(Glyphs \cup {"bait"})
  BY <1>1, <1>2
<1>4. QED  BY <1>3 DEF Replaced

LEMMA RefusedStep ==
  ASSUME Inv, EditRefused
  PROVE  Inv' /\ StepKeepsOrder /\ StepKeepsEdits
<1>1. hook /= Idle /\ EditFails(slips) /\ screen' = screen /\ EditFrame
  BY DEF EditRefused, EditStep, EditFrame, Inv, TypeOK
<1>2. slips \subseteq slips
  OBVIOUS
<1>3. QED  BY <1>1, <1>2, FailKeeps

LEMMA TimesOutStep ==
  ASSUME Inv, EditTimesOut
  PROVE  Inv' /\ StepKeepsOrder /\ StepKeepsEdits
<1>1. hook /= Idle /\ EditFails(slips \cup {"timeout"}) /\ screen' = screen /\ EditFrame
  BY DEF EditTimesOut, EditStep, EditFrame, Inv, TypeOK
<1>2. slips \subseteq slips \cup {"timeout"}
  OBVIOUS
<1>3. QED  BY <1>1, <1>2, FailKeeps

LEMMA SucceedsStep ==
  ASSUME Inv, EditSucceeds
  PROVE  Inv' /\ StepKeepsOrder /\ StepKeepsEdits
<1>1. /\ win \in Windows /\ word \in Texts /\ committed \in Texts /\ era \in Nat
      /\ pending \in Nat /\ missed \in Nat
      /\ quiet \in BOOLEAN /\ hadSynth \in BOOLEAN /\ sugg \in BOOLEAN
      /\ sys \in Seq(Sendable) /\ appq \in Seq(Events)
      /\ hook \in Edits /\ late \in Edits \cup {Idle}
      /\ screen \in Seq(Glyphs \cup {"bait"})
  BY DEF Inv, TypeOK, EditSucceeds, EditStep
<1>2. IsSyncReplaceChannel' = IsSyncReplaceChannel
  BY ChannelStays DEF EditSucceeds, EditStep
<1>3. /\ IsSyncReplaceChannel => (sys = <<>> /\ appq = <<>>) \/ "posted" \in slips
      /\ (hook.by = "vb6") = ~IsSyncReplaceChannel
      /\ pending = Own(sys) + missed \/ "reset" \in slips
  BY DEF Inv, SyncAlone, CounterExact, EditSucceeds, EditStep
<1>4. /\ win' = win /\ word' = word /\ committed' = committed /\ era' = era
      /\ missed' = missed /\ sugg' = sugg /\ appq' = appq /\ late' = late
      /\ hook.bs <= Len(screen) /\ screen' = Replaced(screen, hook.bs, hook.text)
  BY DEF EditSucceeds, EditStep
<1>5. screen' \in Seq(Glyphs \cup {"bait"})
  BY <1>1, <1>4, EditFields, ReplacedType
<1> DEFINE s == slips \cup IF appq \o sys # <<>> THEN {"overtook"} ELSE {}
<1>6. Done(s) /\ slips \subseteq s
  BY DEF EditSucceeds
<1> HIDE DEF s
<1>7. hook' = Idle /\ hadSynth' \in BOOLEAN
  BY <1>1, <1>6 DEF Done
<1>8. \E sent \in Seq(Sendable) :
        /\ pending' = pending + Own(sent) /\ sys' = sys \o sent /\ slips \subseteq slips'
        /\ quiet' \in BOOLEAN
        /\ IsSyncReplaceChannel => sys' = sys \/ "posted" \in slips'
  <2>1. CASE hook.next = <<>>
    <3>1. slips' = s /\ pending' = pending /\ sys' = sys /\ quiet' \in BOOLEAN
      BY <1>6, <2>1 DEF Done
    <3>2. <<>> \in Seq(Sendable) /\ pending' = pending + Own(<<>>) /\ sys' = sys \o <<>>
      BY <1>1, <3>1, OwnNone
    <3>3. QED  BY <1>6, <3>1, <3>2
  <2>2. CASE hook.next /= <<>>
    <3> DEFINE q == <<Batch(hook.next, TRUE)>>
    <3>1. q \in Seq(AllBatches)
      BY <1>1, EditFields, BatchType, SendOne
    <3>2. TrackedSendInput(pending, s \cup Posted, q) /\ quiet' = FALSE
      BY <1>6, <2>2 DEF Done, Dispatch
    <3> HIDE DEF q
    <3>3. PICK sent \in Seq(Sendable) : Sends(pending, s \cup Posted, Send(q), sent)
      BY <3>1, <3>2, Tracked
    <3>4. s \cup Posted \subseteq slips'
      BY <3>3 DEF Sends
    <3>5. IsSyncReplaceChannel => "posted" \in slips'
      BY <3>4 DEF Posted
    <3>6. QED  BY <1>6, <3>2, <3>3, <3>4, <3>5 DEF Sends
  <2>3. QED  BY <2>1, <2>2
<1>9. PICK sent \in Seq(Sendable) :
        /\ pending' = pending + Own(sent) /\ sys' = sys \o sent /\ slips \subseteq slips'
        /\ quiet' \in BOOLEAN
        /\ IsSyncReplaceChannel => sys' = sys \/ "posted" \in slips'
  BY <1>8
<1>10. sys' \in Seq(Sendable) /\ pending' \in Nat /\ CounterExact'
  BY <1>4, <1>9, SendKeeps
<1>11. TypeOK'
  BY <1>1, <1>4, <1>5, <1>7, <1>9, <1>10 DEF TypeOK
<1>12. TriggerAlone' /\ SyncAlone'
  BY <1>2, <1>3, <1>4, <1>7, <1>9, IdleWay DEF TriggerAlone, SyncAlone
<1>13. StepKeepsOrder
  BY <1>1, <1>4 DEF StepKeepsOrder
<1>14. StepKeepsEdits
  <2>1. CASE sys = <<>> /\ appq = <<>>
    <3>1. appq \o sys = <<>>
      BY <2>1
    <3>2. QED  BY <3>1 DEF StepKeepsEdits
  <2>2. CASE "posted" \in slips \/ hook.by = "vb6"
    BY <2>2 DEF StepKeepsEdits
  <2>3. QED  BY <1>3, <2>1, <2>2
<1>15. QED  BY <1>10, <1>11, <1>12, <1>13, <1>14 DEF Inv

-----------------------------------------------------------------------------
(* The other steps.                                                        *)

LEMMA TailType ==
  ASSUME NEW s \in Seq(Sendable), s /= <<>>
  PROVE  /\ Head(s) \in Sendable /\ Head(s) \in Events /\ Tail(s) \in Seq(Sendable)
         /\ Head(s).own \in Nat /\ Head(s).own > 0
         /\ Own(Tail(s)) \in Nat /\ Own(s) = Own(Tail(s)) + Head(s).own
<1>1. Head(s) \in Sendable /\ Tail(s) \in Seq(Sendable)
  OBVIOUS
<1>2. Head(s) \in Events /\ Head(s).own > 0 /\ Head(s).own \in Nat
  BY <1>1, OwnOf DEF Sendable
<1>3. Own(Tail(s)) \in Nat
  BY <1>1, SeqTypes, OwnNat
<1>4. Own(s) = Own(Tail(s)) + Head(s).own
  BY OwnPositive
<1>5. QED  BY <1>1, <1>2, <1>3, <1>4

LEMMA DecrementStep ==
  ASSUME Inv, DecrementSynthEvents
  PROVE  Inv' /\ StepKeepsOrder /\ StepKeepsEdits
<1>1. /\ sys \in Seq(Sendable) /\ sys /= <<>> /\ appq \in Seq(Events)
      /\ pending \in Nat /\ missed \in Nat /\ hook = Idle
      /\ sys' = Tail(sys) /\ appq' = Append(appq, Head(sys))
      /\ screen' = screen /\ slips' = slips /\ hook' = hook /\ win' = win
  BY DEF DecrementSynthEvents, Keep, Inv, TypeOK
<1> DEFINE own == Head(sys).own
<1>2. \/ pending' = (IF pending > own THEN pending - own ELSE 0) /\ missed' = missed
      \/ missed' = missed + own /\ pending' = pending
  BY DEF DecrementSynthEvents
<1>3. /\ Head(sys) \in Events /\ Tail(sys) \in Seq(Sendable) /\ own \in Nat /\ own > 0
      /\ Own(Tail(sys)) \in Nat /\ Own(sys) = Own(Tail(sys)) + own
  BY <1>1, TailType
<1> HIDE DEF own
<1>4. pending = Own(sys) + missed \/ "reset" \in slips
  BY DEF Inv, CounterExact
<1>5. pending' \in Nat /\ missed' \in Nat
  BY <1>1, <1>2, <1>3
<1>6. CounterExact'
  <2>1. CASE "reset" \in slips
    BY <1>1, <2>1 DEF CounterExact
  <2>2. CASE pending = Own(sys) + missed
    <3>1. pending' = Own(Tail(sys)) + missed'
      BY <1>1, <1>2, <1>3, <2>2
    <3>2. QED  BY <1>1, <3>1 DEF CounterExact
  <2>3. QED  BY <1>4, <2>1, <2>2
<1>7. TypeOK'
  <2>1. /\ appq' \in Seq(Events) /\ sys' \in Seq(Sendable)
    BY <1>1, <1>3
  <2>2. QED  BY <1>5, <2>1 DEF Inv, TypeOK, DecrementSynthEvents, Keep
<1>8. IsSyncReplaceChannel' = IsSyncReplaceChannel
  BY <1>1, ChannelStays
<1>9. TriggerAlone' /\ SyncAlone'
  BY <1>1, <1>8, IdleWay DEF Inv, TriggerAlone, SyncAlone
<1>10. StepKeepsOrder
  <2>1. Last(appq') = Head(sys)
    BY <1>1, <1>3, LastAppended
  <2>2. QED  BY <1>3, <2>1 DEF StepKeepsOrder, own
<1>11. StepKeepsEdits
  BY <1>1 DEF StepKeepsEdits
<1>12. QED  BY <1>6, <1>7, <1>9, <1>10, <1>11 DEF Inv

LEMMA QuietStep ==
  ASSUME Inv, Pause
  PROVE  Inv' /\ StepKeepsOrder /\ StepKeepsEdits
<1>1. /\ quiet' = TRUE /\ pending' = pending /\ sys' = sys /\ appq' = appq
      /\ screen' = screen /\ sugg' = sugg /\ late' = late
      /\ slips' = slips /\ missed' = missed
      /\ win' = win /\ word' = word /\ hadSynth' = hadSynth /\ hook' = hook
      /\ committed' = committed /\ era' = era
  BY DEF Pause, Keep, app
<1>2. IsSyncReplaceChannel' = IsSyncReplaceChannel
  BY <1>1, ChannelStays
<1>3. TypeOK'
  BY <1>1 DEF Inv, TypeOK
<1>4. CounterExact' /\ TriggerAlone' /\ SyncAlone'
  BY <1>1, <1>2 DEF Inv, CounterExact, TriggerAlone, SyncAlone
<1>5. StepKeepsOrder /\ StepKeepsEdits
  <2>1. Len(appq) \in Nat
    BY DEF Inv, TypeOK
  <2>2. QED  BY <1>1, <2>1 DEF StepKeepsOrder, StepKeepsEdits
<1>6. QED  BY <1>3, <1>4, <1>5 DEF Inv

LEMMA RemovedType ==
  ASSUME NEW A, NEW s \in Seq(A), NEW i \in DOMAIN s
  PROVE  RemoveAt(s, i) \in Seq(A) /\ Len(RemoveAt(s, i)) = Len(s) - 1
<1>1. /\ Len(s) \in Nat /\ i \in 1 .. Len(s)
  OBVIOUS
<1> DEFINE l == SubSeq(s, 1, i - 1)
           r == SubSeq(s, i + 1, Len(s))
<1>2. l \in Seq(A) /\ Len(l) = i - 1
  BY <1>1
<1>3. r \in Seq(A) /\ Len(r) = Len(s) - i
  BY <1>1
<1> HIDE DEF l, r
<1>4. l \o r \in Seq(A) /\ Len(l \o r) = Len(s) - 1
  BY <1>1, <1>2, <1>3
<1>5. QED  BY <1>4 DEF RemoveAt, l, r

\* What an event does to the text, when no suggestion is in the way.
Typed(t, e) == CASE e.op = "text" -> t \o e.text
                 [] e.op = "bait" -> Append(t, "bait")
                 [] OTHER -> IF t = <<>> THEN t ELSE Front(t)

LEMMA TypedType ==
  ASSUME NEW t \in Seq(Glyphs \cup {"bait"}), NEW e \in Events
  PROVE  Typed(t, e) \in Seq(Glyphs \cup {"bait"})
<1>1. CASE e.op = "text"
  <2>1. e.text \in Seq(Glyphs \cup {"bait"})
    BY DEF Events, Texts
  <2>2. t \o e.text \in Seq(Glyphs \cup {"bait"})
    BY <2>1
  <2>3. QED  BY <1>1, <2>2 DEF Typed
<1>2. CASE e.op = "bait"
  <2>1. Append(t, "bait") \in Seq(Glyphs \cup {"bait"})
    OBVIOUS
  <2>2. QED  BY <1>2, <2>1 DEF Typed
<1>3. CASE e.op \notin {"text", "bait"}
  <2>1. t /= <<>> => Front(t) \in Seq(Glyphs \cup {"bait"})
    BY FrontType
  <2>2. QED  BY <1>3, <2>1 DEF Typed
<1>4. QED  BY <1>1, <1>2, <1>3

\* An event is handled, or a backspace only removes the suggestion.
LEMMA HandleEffect ==
  ASSUME Inv, Handle
  PROVE  \E i \in Handled :
           /\ i \in DOMAIN appq /\ appq' = RemoveAt(appq, i)
           /\ \/ screen' = Typed(screen, appq[i])
              \/ /\ appq[i].op \notin {"text", "bait"} /\ sugg /\ screen' = screen
           /\ sugg' \in BOOLEAN
           /\ slips \subseteq slips'
           /\ UNCHANGED <<win, word, hadSynth, hook, committed, era,
                          pending, quiet, sys, late, missed>>
<1>1. PICK i \in Handled :
        LET e == appq[i] IN
        /\ appq' = RemoveAt(appq, i)
        /\ CASE e.op = "text" ->
                  /\ screen' = screen \o e.text
                  /\ sugg' \in IF Suggests THEN BOOLEAN ELSE {FALSE}
             [] e.op = "bait" -> screen' = Append(screen, "bait") /\ sugg' = FALSE
             [] OTHER ->
                  /\ screen' = IF sugg \/ screen = << >> THEN screen ELSE Front(screen)
                  /\ sugg' = FALSE
        /\ slips \subseteq slips'
        /\ Keep /\ UNCHANGED <<pending, quiet, sys, late, missed, n>>
  BY DEF Handle
<1>2. appq /= <<>> /\ appq \in Seq(Events) /\ i \in DOMAIN appq
  <2>1. appq /= <<>> /\ appq \in Seq(Events)
    BY DEF Handled, Inv, TypeOK
  <2>2. 1 \in DOMAIN appq
    BY <2>1
  <2>3. QED  BY <2>1, <2>2 DEF Handled
<1>3. sugg' \in BOOLEAN
  <2>1. CASE appq[i].op = "text"
    BY <1>1, <2>1
  <2>2. CASE appq[i].op = "bait"
    BY <1>1, <2>2
  <2>3. CASE appq[i].op /= "text" /\ appq[i].op /= "bait"
    BY <1>1, <2>3
  <2>4. QED  BY <2>1, <2>2, <2>3
<1>4. \/ screen' = Typed(screen, appq[i])
      \/ /\ appq[i].op \notin {"text", "bait"} /\ sugg /\ screen' = screen
  <2>1. CASE appq[i].op = "text"
    BY <1>1, <2>1 DEF Typed
  <2>2. CASE appq[i].op = "bait"
    BY <1>1, <2>2 DEF Typed
  <2>3. CASE appq[i].op /= "text" /\ appq[i].op /= "bait"
    BY <1>1, <2>3 DEF Typed
  <2>4. QED  BY <2>1, <2>2, <2>3
<1>5. QED  BY <1>1, <1>2, <1>3, <1>4 DEF Keep

LEMMA HandleStep ==
  ASSUME Inv, Handle
  PROVE  Inv' /\ StepKeepsOrder /\ StepKeepsEdits
<1>1. PICK i \in Handled :
        /\ i \in DOMAIN appq /\ appq' = RemoveAt(appq, i)
        /\ \/ screen' = Typed(screen, appq[i])
           \/ /\ appq[i].op \notin {"text", "bait"} /\ sugg /\ screen' = screen
        /\ sugg' \in BOOLEAN
        /\ slips \subseteq slips'
        /\ UNCHANGED <<win, word, hadSynth, hook, committed, era,
                       pending, quiet, sys, late, missed>>
  BY HandleEffect
<1>2. appq \in Seq(Events) /\ screen \in Seq(Glyphs \cup {"bait"}) /\ appq[i] \in Events
  BY <1>1 DEF Inv, TypeOK
<1>3. appq' \in Seq(Events) /\ Len(appq') = Len(appq) - 1 /\ Len(appq) \in Nat
  BY <1>1, <1>2, RemovedType
<1>4. screen' \in Seq(Glyphs \cup {"bait"})
  BY <1>1, <1>2, TypedType
<1>5. /\ sugg' \in BOOLEAN /\ slips \subseteq slips' /\ win' = win /\ word' = word
      /\ hadSynth' = hadSynth /\ hook' = hook /\ committed' = committed /\ era' = era
      /\ pending' = pending /\ quiet' = quiet /\ sys' = sys /\ late' = late
      /\ missed' = missed
  BY <1>1
<1>6. TypeOK'
  BY <1>3, <1>4, <1>5 DEF Inv, TypeOK
<1>7. IsSyncReplaceChannel' = IsSyncReplaceChannel
  BY <1>5, ChannelStays
<1>8. CounterExact' /\ TriggerAlone'
  BY <1>5 DEF Inv, CounterExact, TriggerAlone
<1>9. SyncAlone'
  <2>1. appq /= <<>>
    BY <1>1, <1>2
  <2>2. QED  BY <1>5, <1>7, <2>1 DEF Inv, SyncAlone
<1>10. StepKeepsOrder
  BY <1>3 DEF StepKeepsOrder
<1>11. StepKeepsEdits
  BY <1>5, IdleWay DEF StepKeepsEdits
<1>12. QED  BY <1>6, <1>8, <1>9, <1>10, <1>11 DEF Inv

LEMMA LateStep ==
  ASSUME Inv, LateEdit
  PROVE  Inv' /\ StepKeepsOrder /\ StepKeepsEdits
<1>1. /\ late /= Idle /\ late' = Idle
      /\ screen' = IF late.bs <= Len(screen)
                   THEN Replaced(screen, late.bs, late.text) ELSE screen
      /\ sugg' = sugg /\ slips' = slips /\ win' = win /\ word' = word
      /\ hadSynth' = hadSynth /\ hook' = hook /\ committed' = committed /\ era' = era
      /\ pending' = pending /\ quiet' = quiet /\ sys' = sys /\ appq' = appq
      /\ missed' = missed
  BY DEF LateEdit, Keep
<1>2. late \in Edits /\ screen \in Seq(Glyphs \cup {"bait"}) /\ appq \in Seq(Events)
  BY <1>1 DEF Inv, TypeOK
<1>3. screen' \in Seq(Glyphs \cup {"bait"})
  BY <1>1, <1>2, EditFields, ReplacedType
<1>4. TypeOK'
  BY <1>1, <1>3 DEF Inv, TypeOK
<1>5. IsSyncReplaceChannel' = IsSyncReplaceChannel
  BY <1>1, ChannelStays
<1>6. CounterExact' /\ TriggerAlone' /\ SyncAlone'
  BY <1>1, <1>5 DEF Inv, CounterExact, TriggerAlone, SyncAlone
<1>7. StepKeepsOrder /\ StepKeepsEdits
  <2>1. Len(appq) \in Nat
    BY <1>2
  <2>2. QED  BY <1>1, <2>1, IdleWay DEF StepKeepsOrder, StepKeepsEdits
<1>8. QED  BY <1>4, <1>6, <1>7 DEF Inv

LEMMA ResetStep ==
  ASSUME Inv, ResetComposition
  PROVE  Inv' /\ StepKeepsOrder /\ StepKeepsEdits
<1>1. /\ hook = Idle /\ word' = <<>> /\ committed' = committed \o word
      /\ era' = era + 1 /\ pending' = 0 /\ missed' = 0 /\ hadSynth' = FALSE
      /\ slips' = slips \cup (IF sys # <<>> THEN {"reset"} ELSE {})
      /\ win' = win /\ quiet' = quiet /\ hook' = hook /\ sys' = sys /\ appq' = appq
      /\ screen' = screen /\ sugg' = sugg /\ late' = late
  BY DEF ResetComposition, app
<1>2. /\ word \in Texts /\ committed \in Texts /\ era \in Nat
      /\ sys \in Seq(Sendable) /\ appq \in Seq(Events)
  BY DEF Inv, TypeOK
<1>3. committed' \in Texts /\ word' \in Texts /\ era' \in Nat /\ pending' \in Nat
      /\ missed' \in Nat
  BY <1>1, <1>2, NoText DEF Texts
<1>4. TypeOK'
  BY <1>1, <1>3 DEF Inv, TypeOK
<1>5. CounterExact'
  <2>1. CASE sys = <<>>
    <3>1. Own(sys') = 0
      BY <1>1, <2>1, OwnNone
    <3>2. QED  BY <1>1, <3>1 DEF CounterExact
  <2>2. CASE sys /= <<>>
    BY <1>1, <2>2 DEF CounterExact
  <2>3. QED  BY <2>1, <2>2
<1>6. IsSyncReplaceChannel' = IsSyncReplaceChannel
  BY <1>1, ChannelStays
<1>7. TriggerAlone' /\ SyncAlone'
  BY <1>1, <1>6, IdleWay DEF Inv, TriggerAlone, SyncAlone
<1>8. StepKeepsOrder /\ StepKeepsEdits
  BY <1>1, <1>2 DEF StepKeepsOrder, StepKeepsEdits
<1>9. QED  BY <1>4, <1>5, <1>7, <1>8 DEF Inv

LEMMA NextInv ==
  ASSUME Inv, [Next]_vars
  PROVE  Inv' /\ StepKeepsOrder /\ StepKeepsEdits
<1>1. TypeOK
  BY DEF Inv
<1>2. ASSUME NEW l \in Letters, Letter(l)
      PROVE  Inv' /\ StepKeepsOrder /\ StepKeepsEdits
  <2>1. Press
    BY <1>2 DEF Letter
  <2>2. QED  BY <1>1, <1>2, <2>1, LetterEffect, KeyKeeps
<1>3. CASE Tone
  <2>1. Press
    BY <1>3 DEF Tone
  <2>2. QED  BY <1>1, <1>3, <2>1, ToneEffect, KeyKeeps
<1>4. CASE Backspace
  <2>1. Press
    BY <1>4 DEF Backspace
  <2>2. QED  BY <1>1, <1>4, <2>1, BackspaceEffect, KeyKeeps
<1>5. ASSUME NEW c \in Ends, Trigger(c)
      PROVE  Inv' /\ StepKeepsOrder /\ StepKeepsEdits
  <2>1. Press
    BY <1>5 DEF Trigger
  <2>2. QED  BY <1>1, <1>5, <2>1, TriggerEffect, KeyKeeps
<1>6. CASE UNCHANGED vars
  <2>1. /\ UNCHANGED <<win, word, pending, quiet, hadSynth, hook, sys, committed, era>>
        /\ UNCHANGED <<appq, screen, sugg, late, slips, missed>>
    BY <1>6 DEF vars, app
  <2>2. IsSyncReplaceChannel' = IsSyncReplaceChannel
    BY <2>1, ChannelStays
  <2>3. TypeOK'
    BY <2>1 DEF Inv, TypeOK
  <2>4. CounterExact' /\ TriggerAlone' /\ SyncAlone'
    BY <2>1, <2>2 DEF Inv, CounterExact, TriggerAlone, SyncAlone
  <2>5. Len(appq) \in Nat
    BY DEF Inv, TypeOK
  <2>6. StepKeepsOrder /\ StepKeepsEdits
    BY <2>1, <2>5 DEF StepKeepsOrder, StepKeepsEdits
  <2>7. QED  BY <2>3, <2>4, <2>6 DEF Inv
<1>7. QED
  BY <1>2, <1>3, <1>4, <1>5, <1>6, ResetStep, SucceedsStep, RefusedStep,
     TimesOutStep, DecrementStep, QuietStep, HandleStep, LateStep
  DEF Next, Key, Editing, Around

LEMMA SpecInv == Spec => []Inv
<1>1. Inv /\ [Next]_vars => Inv'
  BY NextInv
<1>2. QED  BY <1>1, InvInit, PTL DEF Spec

-----------------------------------------------------------------------------
(* The text that a sequence of events leaves, when no suggestion is in the *)
(* way of a backspace.                                                     *)

Arrived(t, events) ==
  LET f[k \in 0 .. Len(events)] == IF k = 0 THEN t ELSE Typed(f[k - 1], events[k])
  IN f[Len(events)]

Stages(f, t, events) ==
  f = [k \in 0 .. Len(events) |-> IF k = 0 THEN t ELSE Typed(f[k - 1], events[k])]

LEMMA StagesExist ==
  ASSUME NEW t, NEW events \in Seq(Events)
  PROVE  \E f : Stages(f, t, events) /\ Arrived(t, events) = f[Len(events)]
<1> DEFINE upto(k) == SubSeq(events, 1, k)
<1> DEFINE N == {k \in Nat : k <= Len(events) => \E f : Stages(f, t, upto(k))}
<1>1. 0 \in N
  <2>1. Stages([k \in 0 .. 0 |-> t], t, upto(0))
    BY DEF Stages
  <2>2. QED  BY <2>1
<1>2. ASSUME NEW k \in Nat, k \in N PROVE k + 1 \in N
  <2> SUFFICES ASSUME k + 1 <= Len(events) PROVE \E f : Stages(f, t, upto(k + 1))
    OBVIOUS
  <2>1. PICK f : Stages(f, t, upto(k))
    BY <1>2
  <2> DEFINE g == [m \in 0 .. k + 1 |-> IF m = k + 1 THEN Typed(f[k], events[k + 1]) ELSE f[m]]
  <2>2. /\ Len(upto(k)) = k /\ Len(upto(k + 1)) = k + 1
        /\ \A m \in 1 .. k : upto(k)[m] = events[m] /\ upto(k + 1)[m] = events[m]
        /\ upto(k + 1)[k + 1] = events[k + 1]
    OBVIOUS
  <2>3. ASSUME NEW m \in 0 .. k + 1
        PROVE  g[m] = IF m = 0 THEN t ELSE Typed(g[m - 1], upto(k + 1)[m])
    <3>1. CASE m = k + 1
      BY <2>2, <3>1
    <3>2. CASE m /= k + 1
      BY <2>1, <2>2, <3>2 DEF Stages
    <3>3. QED  BY <3>1, <3>2
  <2>4. Stages(g, t, upto(k + 1))
    BY <2>2, <2>3 DEF Stages
  <2>5. QED  BY <2>4
<1>3. Nat \subseteq N
  BY <1>1, <1>2, Induction
<1>4. Len(events) \in Nat /\ upto(Len(events)) = events
  OBVIOUS
<1>5. Len(events) \in N
  BY <1>3, <1>4
<1>6. \E f : Stages(f, t, upto(Len(events)))
  BY <1>4, <1>5
<1> HIDE DEF upto
<1>7. \E f : Stages(f, t, events)
  BY <1>4, <1>6
<1> DEFINE A == CHOOSE f : Stages(f, t, events)
<1>8. Stages(A, t, events)
  BY <1>7
<1>9. Arrived(t, events) = A[Len(events)]
  BY DEF Arrived, Stages
<1> HIDE DEF A
<1>10. QED  BY <1>8, <1>9

\* Two runs over events that agree up to a place agree up to there.
LEMMA StagesAgree ==
  ASSUME NEW t, NEW a \in Seq(Events), NEW b \in Seq(Events), NEW f, NEW g,
         Stages(f, t, a), Stages(g, t, b), Len(a) <= Len(b),
         \A i \in 1 .. Len(a) : a[i] = b[i]
  PROVE  f[Len(a)] = g[Len(a)]
<1> DEFINE m == Len(a)
<1> DEFINE N == {k \in Nat : k <= m => f[k] = g[k]}
<1>1. 0 \in N
  BY DEF Stages
<1>2. ASSUME NEW k \in Nat, k \in N PROVE k + 1 \in N
  <2> SUFFICES ASSUME k + 1 <= m PROVE f[k + 1] = g[k + 1]
    OBVIOUS
  <2>1. f[k] = g[k] /\ a[k + 1] = b[k + 1]
    BY <1>2
  <2>2. f[k + 1] = Typed(f[k], a[k + 1])
    BY DEF Stages
  <2>3. g[k + 1] = Typed(g[k], b[k + 1])
    BY DEF Stages
  <2>4. QED  BY <2>1, <2>2, <2>3
<1>3. Nat \subseteq N
  BY <1>1, <1>2, Induction
<1>4. QED  BY <1>3

LEMMA ArrivedNone ==
  ASSUME NEW t
  PROVE  Arrived(t, <<>>) = t
<1>1. <<>> \in Seq(Events) /\ Len(<<>>) = 0
  OBVIOUS
<1>2. PICK f : Stages(f, t, <<>>) /\ Arrived(t, <<>>) = f[Len(<<>>)]
  BY <1>1, StagesExist
<1>3. QED  BY <1>1, <1>2 DEF Stages

LEMMA ArrivedSnoc ==
  ASSUME NEW t, NEW q \in Seq(Events), NEW e \in Events
  PROVE  Arrived(t, Append(q, e)) = Typed(Arrived(t, q), e)
<1> DEFINE r == Append(q, e)
<1>1. /\ r \in Seq(Events) /\ Len(r) = Len(q) + 1 /\ r[Len(q) + 1] = e
      /\ \A i \in 1 .. Len(q) : r[i] = q[i]
      /\ Len(q) \in Nat
  OBVIOUS
<1> HIDE DEF r
<1>2. PICK f : Stages(f, t, q) /\ Arrived(t, q) = f[Len(q)]
  BY StagesExist
<1>3. PICK g : Stages(g, t, r) /\ Arrived(t, r) = g[Len(r)]
  BY StagesExist, <1>1
<1>4. f[Len(q)] = g[Len(q)]
  <2>1. /\ Len(q) <= Len(r) /\ \A i \in 1 .. Len(q) : q[i] = r[i]
        /\ r \in Seq(Events)
    BY <1>1
  <2>2. Stages(f, t, q) /\ Stages(g, t, r)
    BY <1>2, <1>3
  <2>3. QED  BY ONLY <2>1, <2>2, StagesAgree, q \in Seq(Events)
<1>5. g[Len(r)] = Typed(g[Len(q)], e)
  BY <1>1, <1>3 DEF Stages
<1>6. QED  BY <1>2, <1>3, <1>4, <1>5 DEF r

LEMMA ArrivedConcat ==
  ASSUME NEW t, NEW q \in Seq(Events), NEW r \in Seq(Events)
  PROVE  Arrived(t, q \o r) = Arrived(Arrived(t, q), r)
<1> DEFINE S == {s \in Seq(Events) : Arrived(t, q \o s) = Arrived(Arrived(t, q), s)}
<1>1. <<>> \in S
  <2>1. q \o <<>> = q
    OBVIOUS
  <2>2. QED  BY <2>1, ArrivedNone
<1>2. ASSUME NEW s \in Seq(Events), s \in S, NEW e \in Events
      PROVE  Append(s, e) \in S
  <2>1. q \o Append(s, e) = Append(q \o s, e) /\ q \o s \in Seq(Events)
    OBVIOUS
  <2>2. Arrived(t, q \o Append(s, e)) = Typed(Arrived(t, q \o s), e)
    BY ONLY <2>1, ArrivedSnoc, e \in Events, ZenonT(60)
  <2>3. Arrived(Arrived(t, q), Append(s, e)) = Typed(Arrived(Arrived(t, q), s), e)
    BY ONLY ArrivedSnoc, s \in Seq(Events), e \in Events, Zenon
  <2>4. QED  BY <1>2, <2>2, <2>3
<1>3. Seq(Events) \subseteq S
  BY <1>1, <1>2, SeqInduction
<1>4. QED  BY <1>3

LEMMA SplitAt ==
  ASSUME NEW A, NEW s \in Seq(A), NEW k \in 0 .. Len(s)
  PROVE  SubSeq(s, 1, k) \o SubSeq(s, k + 1, Len(s)) = s
<1> DEFINE l == SubSeq(s, 1, k)
           r == SubSeq(s, k + 1, Len(s))
<1>1. Len(s) \in Nat /\ k \in Nat /\ k <= Len(s)
  OBVIOUS
<1>2. l \in Seq(A) /\ Len(l) = k /\ \A i \in 1 .. k : l[i] = s[i]
  BY <1>1
<1>3. /\ r \in Seq(A) /\ Len(r) = Len(s) - k
      /\ \A i \in 1 .. Len(s) - k : r[i] = s[k + i]
  BY <1>1
<1> HIDE DEF l, r
<1>4. Len(l \o r) = Len(s) /\ l \o r \in Seq(A)
  BY <1>1, <1>2, <1>3
<1>5. ASSUME NEW i \in 1 .. Len(s) PROVE (l \o r)[i] = s[i]
  <2>1. CASE i <= k
    BY <1>1, <1>2, <1>3, <2>1
  <2>2. CASE i > k
    <3>1. (l \o r)[i] = r[i - k]
      BY <1>1, <1>2, <1>3, <2>2
    <3>2. r[i - k] = s[k + (i - k)] /\ k + (i - k) = i
      BY <1>1, <1>3, <2>2
    <3>3. QED  BY <3>1, <3>2
  <2>3. i \in Nat /\ (i <= k \/ i > k)
    BY <1>1
  <2>4. QED  BY ONLY <2>1, <2>2, <2>3
<1> DEFINE c == l \o r
<1>6. Len(c) = Len(s) /\ c \in Seq(A) /\ \A i \in 1 .. Len(s) : c[i] = s[i]
  BY <1>4, <1>5
<1> HIDE DEF c
<1>7. c = s
  BY ONLY <1>1, <1>6, s \in Seq(A)
<1>8. QED  BY <1>7 DEF c, l, r

\* Sending the difference of two texts turns the one into the other, behind
\* whatever is before it.

LEMMA ArrivedOne ==
  ASSUME NEW t, NEW e \in Events
  PROVE  <<e>> \in Seq(Events) /\ Arrived(t, <<e>>) = Typed(t, e)
<1>1. <<e>> = Append(<<>>, e) /\ <<>> \in Seq(Events)
  OBVIOUS
<1>2. Arrived(t, Append(<<>>, e)) = Typed(Arrived(t, <<>>), e)
  BY <1>1, ArrivedSnoc
<1>3. QED  BY <1>1, <1>2, ArrivedNone

Screens == Seq(Glyphs \cup {"bait"})

LEMMA ArrivedType ==
  ASSUME NEW t \in Screens, NEW q \in Seq(Events)
  PROVE  Arrived(t, q) \in Screens
<1> DEFINE S == {s \in Seq(Events) : Arrived(t, s) \in Screens}
<1>1. <<>> \in S
  BY ArrivedNone
<1>2. ASSUME NEW s \in Seq(Events), s \in S, NEW e \in Events
      PROVE  Append(s, e) \in S
  <2>1. Arrived(t, Append(s, e)) = Typed(Arrived(t, s), e)
    BY ArrivedSnoc
  <2>2. Typed(Arrived(t, s), e) \in Screens
    BY <1>2, TypedType DEF Screens
  <2>3. Append(s, e) \in Seq(Events)
    OBVIOUS
  <2>4. QED  BY <2>1, <2>2, <2>3
<1>3. Seq(Events) \subseteq S
  BY <1>1, <1>2, SeqInduction
<1>4. QED  BY <1>3

\* Backspaces delete as many characters as they are.
LEMMA ArrivedTimes ==
  ASSUME NEW t \in Screens, NEW e \in Events, e.op \in {"back", "del"},
         NEW count \in 0 .. Len(t)
  PROVE  Arrived(t, Times(count, e)) = SubSeq(t, 1, Len(t) - count)
<1> DEFINE N == {k \in Nat : k <= Len(t) =>
                   Arrived(t, Times(k, e)) = SubSeq(t, 1, Len(t) - k)}
<1>0. Len(t) \in Nat
  BY DEF Screens
<1>1. 0 \in N
  <2>1. Times(0, e) = <<>> /\ SubSeq(t, 1, Len(t) - 0) = t
    BY DEF Times, Screens
  <2>2. QED  BY <2>1, ArrivedNone
<1>2. ASSUME NEW k \in Nat, k \in N PROVE k + 1 \in N
  <2> SUFFICES ASSUME k + 1 <= Len(t)
               PROVE  Arrived(t, Times(k + 1, e)) = SubSeq(t, 1, Len(t) - (k + 1))
    OBVIOUS
  <2> DEFINE r == SubSeq(t, 1, Len(t) - k)
  <2>1. Times(k + 1, e) = Append(Times(k, e), e) /\ Times(k, e) \in Seq(Events)
    BY DEF Times
  <2>2. Arrived(t, Times(k + 1, e)) = Typed(Arrived(t, Times(k, e)), e)
    BY <2>1, ArrivedSnoc
  <2>3. Arrived(t, Times(k, e)) = r
    BY <1>0, <1>2
  <2>4. Len(t) - k \in Nat /\ Len(t) - k <= Len(t) /\ Len(t) - k >= 1
    BY <1>0
  <2>5. r \in Screens /\ Len(r) = Len(t) - k
    BY <2>4 DEF Screens
  <2>6. SubSeq(r, 1, Len(r) - 1) = SubSeq(t, 1, Len(t) - (k + 1))
    BY <1>0, <2>4, <2>5 DEF Screens
  <2> HIDE DEF r
  <2>7. r /= <<>>
    BY <2>4, <2>5
  <2>8. Typed(r, e) = Front(r)
    BY <2>7 DEF Typed
  <2>9. QED  BY <2>2, <2>3, <2>6, <2>8 DEF Front
<1>3. Nat \subseteq N
  BY <1>1, <1>2, Induction
<1>4. count \in Nat /\ count <= Len(t)
  BY <1>0
<1>5. QED  BY <1>3, <1>4

LEMMA Associative ==
  ASSUME NEW A, NEW a \in Seq(A), NEW b \in Seq(A), NEW c \in Seq(A)
  PROVE  (a \o b) \o c = a \o (b \o c)
BY ConcatAssociative

LEMMA TextsOnScreen ==
  /\ Texts \subseteq Screens
  /\ \A a \in Screens, b \in Screens : a \o b \in Screens
  /\ \A a \in Screens, b \in Screens, c \in Screens : (a \o b) \o c = a \o (b \o c)
<1>1. Texts \subseteq Screens
  BY DEF Texts, Screens
<1> DEFINE A == Glyphs \cup {"bait"}
<1>2. Screens = Seq(A)
  BY DEF Screens
<1> HIDE DEF A
<1>3. \A a \in Seq(A), b \in Seq(A) : a \o b \in Seq(A)
  OBVIOUS
<1>4. \A a \in Seq(A), b \in Seq(A), c \in Seq(A) : (a \o b) \o c = a \o (b \o c)
  BY Associative
<1>5. QED  BY <1>1, <1>2, <1>3, <1>4

LEMMA ConcatOne ==
  ASSUME NEW A, NEW q \in Seq(A), NEW e \in A
  PROVE  q \o <<e>> = Append(q, e)
OBVIOUS

LEMMA OneMore ==
  ASSUME NEW A, NEW s \in Seq(A), NEW k \in Nat, k + 1 <= Len(s)
  PROVE  /\ SubSeq(s, 1, k) \in Seq(A) /\ <<s[k + 1]>> \in Seq(A)
         /\ SubSeq(s, 1, k) \o <<s[k + 1]>> = SubSeq(s, 1, k + 1)
<1>1. /\ SubSeq(s, 1, k) \in Seq(A) /\ s[k + 1] \in A
      /\ SubSeq(s, 1, k + 1) = Append(SubSeq(s, 1, k), s[k + 1])
  OBVIOUS
<1>2. <<s[k + 1]>> \in Seq(A)
  BY <1>1
<1>3. SubSeq(s, 1, k) \o <<s[k + 1]>> = Append(SubSeq(s, 1, k), s[k + 1])
  BY <1>1, ConcatOne
<1>4. QED  BY <1>1, <1>2, <1>3

\* Characters add themselves.
LEMMA ArrivedChars ==
  ASSUME era \in Nat, NEW t \in Screens, NEW text \in Texts
  PROVE  Arrived(t, Chars(text)) = t \o text
<1> DEFINE c == Chars(text)
           N == {k \in Nat : k <= Len(text) =>
                   Arrived(t, SubSeq(c, 1, k)) = t \o SubSeq(text, 1, k)}
<1>0. Len(text) \in Nat /\ text \in Seq(Glyphs) /\ t \in Seq(Glyphs \cup {"bait"})
  BY DEF Texts, Screens
<1>1. /\ c \in Seq(Events) /\ Len(c) = Len(text)
      /\ \A i \in 1 .. Len(text) : c[i] = Event("text", <<text[i]>>, 2)
  <2>1. c \in Seq(Sendable) /\ Len(c) = Len(text)
    BY CharsType
  <2>2. DOMAIN text = 1 .. Len(text)
    BY <1>0
  <2>3. QED  BY <2>1, <2>2, SeqTypes DEF Chars
<1> HIDE DEF c
<1>2. 0 \in N
  <2>1. SubSeq(c, 1, 0) = <<>> /\ SubSeq(text, 1, 0) = <<>> /\ t \o <<>> = t
    BY <1>0, <1>1
  <2>2. QED  BY <2>1, ArrivedNone
<1>3. ASSUME NEW k \in Nat, k \in N PROVE k + 1 \in N
  <2> SUFFICES ASSUME k + 1 <= Len(text)
               PROVE  Arrived(t, SubSeq(c, 1, k + 1)) = t \o SubSeq(text, 1, k + 1)
    OBVIOUS
  <2>1. /\ SubSeq(c, 1, k + 1) = Append(SubSeq(c, 1, k), c[k + 1])
        /\ SubSeq(c, 1, k) \in Seq(Events) /\ c[k + 1] \in Events
    BY <1>0, <1>1
  <2>2. Arrived(t, SubSeq(c, 1, k + 1)) = Typed(Arrived(t, SubSeq(c, 1, k)), c[k + 1])
    BY <2>1, ArrivedSnoc
  <2>3. Arrived(t, SubSeq(c, 1, k)) = t \o SubSeq(text, 1, k)
    BY <1>0, <1>3
  <2>4. c[k + 1].op = "text" /\ c[k + 1].text = <<text[k + 1]>>
    <3>1. k + 1 \in 1 .. Len(text)
      BY <1>0
    <3>2. c[k + 1] = Event("text", <<text[k + 1]>>, 2)
      BY <1>1, <3>1
    <3>3. QED  BY <3>2 DEF Event
  <2>5. Typed(t \o SubSeq(text, 1, k), c[k + 1]) = (t \o SubSeq(text, 1, k)) \o <<text[k + 1]>>
    BY <2>4 DEF Typed
  <2>6. (t \o SubSeq(text, 1, k)) \o <<text[k + 1]>> = t \o SubSeq(text, 1, k + 1)
    <3>1. /\ SubSeq(text, 1, k) \in Seq(Glyphs) /\ <<text[k + 1]>> \in Seq(Glyphs)
          /\ SubSeq(text, 1, k) \o <<text[k + 1]>> = SubSeq(text, 1, k + 1)
      BY <1>0, OneMore
    <3> DEFINE q == SubSeq(text, 1, k)
               r == <<text[k + 1]>>
    <3>2. q \in Screens /\ r \in Screens /\ q \o r = SubSeq(text, 1, k + 1)
      BY <3>1, TextsOnScreen DEF Texts
    <3> HIDE DEF q, r
    <3>3. (t \o q) \o r = t \o (q \o r)
      BY <3>2, TextsOnScreen
    <3>4. QED  BY <3>2, <3>3 DEF q, r
  <2>7. QED  BY <2>2, <2>3, <2>5, <2>6
<1>4. Nat \subseteq N
  BY <1>2, <1>3, Induction
<1>5. SubSeq(c, 1, Len(text)) = c /\ SubSeq(text, 1, Len(text)) = text
  BY <1>0, <1>1
<1>6. Arrived(t, SubSeq(c, 1, Len(text))) = t \o SubSeq(text, 1, Len(text))
  BY <1>0, <1>4
<1>7. QED  BY <1>5, <1>6 DEF c

LEMMA ArrivedText ==
  ASSUME NEW t, NEW e \in Events, e.op = "text"
  PROVE  Arrived(t, <<e>>) = t \o e.text
BY ArrivedOne DEF Typed

-----------------------------------------------------------------------------
(* What Replace of an injector sends, and what it does to the text.        *)

Shield(bs, text) ==
  IF ShouldEmitBait(bs, text) THEN <<Event("bait", <<>>, 2)>> ELSE <<>>

Erase(bs, text) ==
  LET bait == ShouldEmitBait(bs, text)
      bare == Injector.bait /\ ~bait
  IN Times(IF bait THEN bs + 1 ELSE bs, Event(IF bare THEN "back" ELSE "del", <<>>, 2))

Fill(text) == IF Injector.kind /= "clip" THEN Chars(text)
              ELSE IF text = <<>> THEN <<>> ELSE <<CtrlV(text)>>

LEMMA ShapeTypes ==
  ASSUME era \in Nat, NEW bs \in Nat, NEW text \in Texts
  PROVE  /\ Shield(bs, text) \in Seq(Sendable) /\ Erase(bs, text) \in Seq(Sendable)
         /\ Fill(text) \in Seq(Sendable)
<1>1. Shield(bs, text) \in Seq(Sendable)
  BY KeyTypes DEF Shield
<1>2. Erase(bs, text) \in Seq(Sendable)
  <2> DEFINE count == IF ShouldEmitBait(bs, text) THEN bs + 1 ELSE bs
  <2>1. count \in Nat
    OBVIOUS
  <2> HIDE DEF count
  <2>2. /\ Times(count, Event("back", <<>>, 2)) \in Seq(Sendable)
        /\ Times(count, Event("del", <<>>, 2)) \in Seq(Sendable)
    BY <2>1, DeletesType
  <2>3. Erase(bs, text) \in {Times(count, Event("back", <<>>, 2)),
                             Times(count, Event("del", <<>>, 2))}
    BY DEF Erase, count
  <2>4. QED  BY <2>2, <2>3
<1>3. Fill(text) \in Seq(Sendable)
  <2>1. CASE Injector.kind /= "clip"
    BY <2>1, CharsType DEF Fill
  <2>2. CASE Injector.kind = "clip"
    <3>1. 4 \in 1 .. 4 /\ "text" \in Ops
      BY DEF Ops
    <3>2. CtrlV(text) \in Sendable
      BY <3>1, SendableType DEF CtrlV
    <3>3. QED  BY <2>2, <3>2 DEF Fill
  <2>3. QED  BY <2>1, <2>2
<1>4. QED  BY <1>1, <1>2, <1>3

\* The table of the injectors.
LEMMA Channels ==
  LET of(kind, bait, renderer) == [kind |-> kind, bait |-> bait, renderer |-> renderer]
  IN \/ win.method = 4 /\ Injector = of("edit", FALSE, FALSE)
     \/ win.method = 1 /\ Injector = of("clip", FALSE, FALSE)
     \/ /\ win.method \notin {1, 4}
        /\ \/ win.method \in {2, 3} /\ Injector = of("split", NeedBait, ElectronApp)
           \/ win.host = "notepad" /\ Injector = of("edit", FALSE, FALSE)
           \/ ElectronApp /\ Injector = of("split", NeedBait, TRUE)
           \/ win.host = "console" /\ Injector = of("split", FALSE, FALSE)
           \/ ~ElectronApp /\ Injector = of("batch", NeedBait, FALSE)
<1>1. CASE win.method = 4
  <2>1. Injector = [kind |-> "edit", bait |-> FALSE, renderer |-> FALSE]
    BY <1>1 DEF Injector
  <2>2. QED  BY <1>1, <2>1
<1>2. CASE win.method /= 4 /\ win.method = 1
  <2>1. Injector = [kind |-> "clip", bait |-> FALSE, renderer |-> FALSE]
    BY <1>2 DEF Injector
  <2>2. QED  BY <1>2, <2>1
<1>3. CASE win.method \notin {4, 1} /\ win.method \in {2, 3}
  <2>1. Injector = [kind |-> "split", bait |-> NeedBait, renderer |-> ElectronApp]
    BY <1>3 DEF Injector
  <2>2. QED  BY <1>3, <2>1
<1>4. CASE win.method \notin {4, 1, 2, 3} /\ win.host = "notepad"
  <2>1. Injector = [kind |-> "edit", bait |-> FALSE, renderer |-> FALSE]
    BY <1>4 DEF Injector
  <2>2. QED  BY <1>4, <2>1
<1>5. CASE win.method \notin {4, 1, 2, 3} /\ win.host /= "notepad" /\ ElectronApp
  <2>1. Injector = [kind |-> "split", bait |-> NeedBait, renderer |-> TRUE]
    BY <1>5 DEF Injector
  <2>2. QED  BY <1>5, <2>1
<1>6. CASE /\ win.method \notin {4, 1, 2, 3} /\ win.host /= "notepad" /\ ~ElectronApp
           /\ win.host = "console"
  <2>1. Injector = [kind |-> "split", bait |-> FALSE, renderer |-> FALSE]
    BY <1>6 DEF Injector
  <2>2. QED  BY <1>6, <2>1
<1>7. CASE /\ win.method \notin {4, 1, 2, 3} /\ win.host \notin {"notepad", "console"}
           /\ ~ElectronApp
  <2>1. Injector = [kind |-> "batch", bait |-> NeedBait, renderer |-> FALSE]
    BY <1>7 DEF Injector
  <2>2. QED  BY <1>7, <2>1
<1>8. QED  BY <1>1, <1>2, <1>3, <1>4, <1>5, <1>6, <1>7

LEMMA ClipUnshielded == Injector.kind = "clip" => ~Injector.bait /\ ~Injector.renderer
BY Channels

LEMMA BatchesSend ==
  ASSUME era \in Nat, NEW bs \in Nat, NEW text \in Texts
  PROVE  Send(Batches(bs, text)) = (Shield(bs, text) \o Erase(bs, text)) \o Fill(text)
<1> DEFINE a == Shield(bs, text)
           b == Erase(bs, text)
           c == Fill(text)
<1>1. a \in Seq(Sendable) /\ b \in Seq(Sendable) /\ c \in Seq(Sendable)
  BY ShapeTypes
<1>2. Batches(bs, text) =
        CASE Injector.kind = "clip" ->
               <<Batch(IF text = <<>> THEN b ELSE Append(b, CtrlV(text)), TRUE)>>
          [] Injector.kind = "split" -> <<Batch(a \o b, TRUE), Batch(Chars(text), FALSE)>>
          [] OTHER -> <<Batch((a \o b) \o Chars(text), TRUE)>>
  BY DEF Batches, Shield, Erase
<1> HIDE DEF a, b, c
<1>3. a \o b \in Seq(Sendable) /\ (a \o b) \o c \in Seq(Sendable)
  BY <1>1
<1>4. CASE Injector.kind = "clip"
  <2>1. a = <<>>
    BY <1>4, ClipUnshielded DEF a, Shield, ShouldEmitBait
  <2>2. a \o b = b
    BY <1>1, <2>1
  <2>3. (IF text = <<>> THEN b ELSE Append(b, CtrlV(text))) = b \o c
    <3>1. CASE text = <<>>
      <4>1. c = <<>>
        BY <1>4, <3>1 DEF c, Fill
      <4>2. QED  BY <1>1, <3>1, <4>1
    <3>2. CASE text /= <<>>
      <4>1. c = <<CtrlV(text)>>
        BY <1>4, <3>2 DEF c, Fill
      <4>2. CtrlV(text) \in Sendable
        <5>1. 4 \in 1 .. 4 /\ "text" \in Ops
          BY DEF Ops
        <5>2. QED  BY <5>1, SendableType DEF CtrlV
      <4>3. b \o <<CtrlV(text)>> = Append(b, CtrlV(text))
        BY <1>1, <4>2, ConcatOne
      <4>4. QED  BY <3>2, <4>1, <4>3
    <3>3. QED  BY <3>1, <3>2
  <2>4. Batches(bs, text) = <<Batch(b \o c, TRUE)>>
    BY <1>2, <1>4, <2>3
  <2>5. Batch(b \o c, TRUE) \in AllBatches /\ Batch(b \o c, TRUE).events = b \o c
    BY <1>3, <2>2, BatchType
  <2>6. QED  BY <2>2, <2>4, <2>5, SendOne DEF a, b, c
<1>5. CASE Injector.kind = "split"
  <2>1. c = Chars(text)
    BY <1>5 DEF c, Fill
  <2> DEFINE q == Batch(a \o b, TRUE)
             r == Batch(c, FALSE)
  <2>2. q \in AllBatches /\ r \in AllBatches /\ q.events = a \o b /\ r.events = c
    BY <1>1, <1>3, BatchType
  <2>3. Batches(bs, text) = <<q, r>>
    BY <1>2, <1>5, <2>1
  <2> HIDE DEF q, r
  <2>4. <<q, r>> = <<q>> \o <<r>>
    BY <2>2, PairType
  <2>5. /\ <<q>> \in Seq(AllBatches) /\ <<r>> \in Seq(AllBatches)
        /\ Send(<<q>>) = a \o b /\ Send(<<r>>) = c
    BY <2>2, SendOne
  <2>6. Send(<<q>> \o <<r>>) = (a \o b) \o c
    BY <2>5, SendConcat
  <2>7. QED  BY <2>3, <2>4, <2>6 DEF a, b, c
<1>6. CASE Injector.kind \notin {"clip", "split"}
  <2>1. c = Chars(text)
    BY <1>6 DEF c, Fill
  <2>2. Batches(bs, text) = <<Batch((a \o b) \o c, TRUE)>>
    BY <1>2, <1>6, <2>1
  <2>3. /\ Batch((a \o b) \o c, TRUE) \in AllBatches
        /\ Batch((a \o b) \o c, TRUE).events = (a \o b) \o c
    BY <1>3, BatchType
  <2>4. QED  BY <2>2, <2>3, SendOne DEF a, b, c
<1>7. QED  BY <1>4, <1>5, <1>6

\* Handled on any text, they replace its end.
LEMMA BatchesArrive ==
  ASSUME era \in Nat, NEW bs \in Nat, NEW text \in Texts, NEW t \in Screens, bs <= Len(t)
  PROVE  Arrived(t, Send(Batches(bs, text))) = Replaced(t, bs, text)
<1> DEFINE a == Shield(bs, text)
           b == Erase(bs, text)
           c == Fill(text)
           cut == SubSeq(t, 1, Len(t) - bs)
<1>1. /\ a \in Seq(Events) /\ b \in Seq(Events) /\ c \in Seq(Events)
      /\ a \o b \in Seq(Events)
  <2>1. a \in Seq(Sendable) /\ b \in Seq(Sendable) /\ c \in Seq(Sendable)
    BY ShapeTypes
  <2>2. QED  BY <2>1, SeqTypes
<1>2. Len(t) \in Nat /\ cut \in Screens
  BY DEF Screens
<1>3. Arrived(Arrived(t, a), b) = cut
  <2>1. CASE ShouldEmitBait(bs, text)
    <3> DEFINE e == Event("bait", <<>>, 2)
               d == Event("del", <<>>, 2)
    <3>1. e \in Events /\ e.op = "bait" /\ d \in Events /\ d.op = "del"
      BY KeyTypes DEF Event, Sendable
    <3>2. a = <<e>> /\ b = Times(bs + 1, d)
      BY <2>1 DEF Shield, Erase
    <3> HIDE DEF e, d, a, b
    <3>3. Arrived(t, a) = Append(t, "bait")
      <4>1. Arrived(t, <<e>>) = Typed(t, e)
        BY <3>1, ArrivedOne
      <4>2. Typed(t, e) = Append(t, "bait")
        BY <3>1 DEF Typed
      <4>3. QED  BY <3>2, <4>1, <4>2
    <3> DEFINE u == Append(t, "bait")
    <3>4. u \in Screens /\ Len(u) = Len(t) + 1 /\ SubSeq(u, 1, Len(t) - bs) = cut
      BY <1>2 DEF Screens
    <3>5. Len(u) - (bs + 1) = Len(t) - bs /\ bs + 1 \in 0 .. Len(u)
      BY <1>2, <3>4
    <3> HIDE DEF u
    <3>6. Arrived(u, Times(bs + 1, d)) = SubSeq(u, 1, Len(u) - (bs + 1))
      BY <3>1, <3>4, <3>5, ArrivedTimes
    <3>7. QED  BY <3>2, <3>3, <3>4, <3>5, <3>6 DEF u
  <2>2. CASE ~ShouldEmitBait(bs, text)
    <3> DEFINE d == Event(IF Injector.bait THEN "back" ELSE "del", <<>>, 2)
    <3>1. d \in Events /\ d.op \in {"back", "del"}
      BY KeyTypes DEF Event, Sendable
    <3>2. a = <<>> /\ b = Times(bs, d)
      BY <2>2 DEF Shield, Erase
    <3>3. bs \in 0 .. Len(t)
      BY <1>2
    <3> HIDE DEF d, a, b
    <3>4. QED  BY <3>1, <3>2, <3>3, ArrivedNone, ArrivedTimes
  <2>3. QED  BY <2>1, <2>2
<1>4. Arrived(cut, c) = cut \o text
  <2>1. CASE Injector.kind /= "clip"
    BY <1>2, <2>1, ArrivedChars DEF Fill
  <2>2. CASE Injector.kind = "clip" /\ text = <<>>
    <3>1. c = <<>> /\ cut \o text = cut
      BY <1>2, <2>2 DEF Fill, Screens
    <3>2. QED  BY <3>1, ArrivedNone
  <2>3. CASE Injector.kind = "clip" /\ text /= <<>>
    <3>1. c = <<CtrlV(text)>>
      BY <2>3 DEF Fill
    <3>2. CtrlV(text) \in Events /\ CtrlV(text).op = "text" /\ CtrlV(text).text = text
      <4>1. 4 \in 0 .. 4 /\ "text" \in Ops
        BY DEF Ops
      <4>2. CtrlV(text) \in Events
        BY <4>1, EventType DEF CtrlV
      <4>3. QED  BY <4>2 DEF CtrlV, Event
    <3> HIDE DEF c, cut
    <3>3. QED  BY <3>1, <3>2, ArrivedText
  <2>4. QED  BY <2>1, <2>2, <2>3
<1>5. Send(Batches(bs, text)) = (a \o b) \o c
  BY BatchesSend
<1> HIDE DEF a, b, c, cut
<1>6. /\ Arrived(t, (a \o b) \o c) = Arrived(Arrived(t, a \o b), c)
      /\ Arrived(t, a \o b) = Arrived(Arrived(t, a), b)
  BY <1>1, ArrivedConcat
<1>7. QED  BY <1>3, <1>4, <1>5, <1>6 DEF cut, Replaced

-----------------------------------------------------------------------------
(* The traits of the channels, and events that suggestions do not disturb. *)

\* The clipboard is not forced on a window with suggestions or a renderer:
\* ClipboardInjector has no traits (OutputInjectorFactory.cpp:45-47).
GuardedWindows ==
  \A w \in Windows : w.method = 1 => w.host \notin {"browser", "webview", "electron"}

Rendered == win.host \in {"electron", "webview"}

LEMMA Traits ==
  ASSUME win \in Windows, GuardedWindows
  PROVE  /\ Suggests => IsSyncReplaceChannel \/ Injector.bait
         /\ Rendered => IsSyncReplaceChannel \/ Injector.renderer
         /\ UseClipboardPaste => ~Suggests /\ ~Rendered
         /\ IsSyncReplaceChannel => Understands
<1>1. win.method = 1 => win.host \notin {"browser", "webview", "electron"}
  BY DEF GuardedWindows
<1>2. win.method = 4 => IsSyncReplaceChannel
  <2>1. CASE win.method = 4
    <3>1. Injector.kind = "edit"
      BY <2>1, Channels
    <3>2. QED  BY <2>1, <3>1 DEF IsSyncReplaceChannel
  <2>2. QED  BY <2>1
<1>3. Suggests => NeedBait /\ win.host \notin {"notepad", "console"}
  BY DEF Suggests, NeedBait, IsWebView2App, ClassifyWindow
<1>4. Rendered => ElectronApp /\ win.host \notin {"notepad", "console"}
  BY DEF Rendered, ElectronApp, IsWebView2App, ClassifyWindow
<1>5. Suggests => IsSyncReplaceChannel \/ Injector.bait
  <2> SUFFICES ASSUME Suggests, ~IsSyncReplaceChannel PROVE Injector.bait
    OBVIOUS
  <2>1. \/ win.method \in {2, 3} /\ Injector = [kind |-> "split", bait |-> NeedBait, renderer |-> ElectronApp]
        \/ ElectronApp /\ Injector = [kind |-> "split", bait |-> NeedBait, renderer |-> TRUE]
        \/ ~ElectronApp /\ Injector = [kind |-> "batch", bait |-> NeedBait, renderer |-> FALSE]
    <3>1. win.method /= 4 /\ win.method /= 1 /\ win.host \notin {"notepad", "console"}
      BY <1>1, <1>2, <1>3 DEF Suggests
    <3>2. QED  BY <3>1, Channels
  <2>2. Injector.bait = NeedBait
    BY <2>1
  <2>3. QED  BY <1>3, <2>2
<1>6. Rendered => IsSyncReplaceChannel \/ Injector.renderer
  <2> SUFFICES ASSUME Rendered, ~IsSyncReplaceChannel PROVE Injector.renderer
    OBVIOUS
  <2>1. \/ win.method \in {2, 3} /\ Injector = [kind |-> "split", bait |-> NeedBait, renderer |-> ElectronApp]
        \/ ElectronApp /\ Injector = [kind |-> "split", bait |-> NeedBait, renderer |-> TRUE]
    <3>1. /\ win.method /= 4 /\ win.method /= 1 /\ win.host \notin {"notepad", "console"}
          /\ ElectronApp
      BY <1>1, <1>2, <1>4 DEF Rendered
    <3>2. QED  BY <3>1, Channels
  <2>2. Injector.renderer = ElectronApp \/ Injector.renderer = TRUE
    <3>1. CASE Injector = [kind |-> "split", bait |-> NeedBait, renderer |-> ElectronApp]
      <4>1. Injector.renderer = ElectronApp
        BY <3>1
      <4>2. QED  BY <4>1
    <3>2. CASE Injector = [kind |-> "split", bait |-> NeedBait, renderer |-> TRUE]
      BY <3>2
    <3>3. QED  BY <2>1, <3>1, <3>2
  <2>3. QED  BY <1>4, <2>2
<1>7. UseClipboardPaste => ~Suggests /\ ~Rendered
  BY DEF UseClipboardPaste, ClassifyWindow, Suggests, Rendered
<1>8. IsSyncReplaceChannel => Understands
  BY DEF IsSyncReplaceChannel, Understands
<1>9. QED  BY <1>5, <1>6, <1>7, <1>8

\* Every backspace of a replacement is behind the character typed before it,
\* or behind another one; b says whether a suggestion may be on the screen.
Safe(s, b) ==
  \A i \in DOMAIN s :
    s[i].op = "del" => IF i = 1 THEN ~b ELSE s[i - 1].op \in {"bait", "del"}

LEMMA SafeConcat ==
  ASSUME NEW b \in BOOLEAN, NEW q \in Seq(Events), NEW r \in Seq(Events),
         Safe(q, b), Safe(r, TRUE)
  PROVE  Safe(q \o r, b)
<1> DEFINE s == q \o r
<1>1. /\ Len(s) = Len(q) + Len(r) /\ Len(q) \in Nat /\ Len(r) \in Nat
      /\ \A i \in 1 .. Len(q) : s[i] = q[i]
      /\ \A i \in 1 .. Len(r) : s[Len(q) + i] = r[i]
      /\ DOMAIN s = 1 .. Len(s) /\ DOMAIN q = 1 .. Len(q) /\ DOMAIN r = 1 .. Len(r)
  OBVIOUS
<1> HIDE DEF s
<1>2. ASSUME NEW i \in DOMAIN s, s[i].op = "del"
      PROVE  IF i = 1 THEN ~b ELSE s[i - 1].op \in {"bait", "del"}
  <2>1. CASE i <= Len(q)
    <3>1. i \in 1 .. Len(q) /\ s[i] = q[i] /\ (i /= 1 => i - 1 \in 1 .. Len(q))
      BY <1>1, <2>1
    <3>2. IF i = 1 THEN ~b ELSE q[i - 1].op \in {"bait", "del"}
      BY <1>1, <1>2, <3>1 DEF Safe
    <3>3. QED  BY <1>1, <3>1, <3>2
  <2>2. CASE i > Len(q)
    <3> DEFINE k == i - Len(q)
    <3>1. k \in 1 .. Len(r) /\ i = Len(q) + k
      BY <1>1, <2>2
    <3>2. s[i] = r[k]
      BY <1>1, <3>1
    <3> HIDE DEF k
    <3>3. k /= 1 /\ r[k - 1].op \in {"bait", "del"}
      BY <1>1, <1>2, <3>1, <3>2 DEF Safe
    <3>4. k - 1 \in 1 .. Len(r) /\ i - 1 = Len(q) + (k - 1) /\ i /= 1
      BY <1>1, <3>1, <3>3
    <3>5. s[i - 1] = r[k - 1]
      BY <1>1, <3>4
    <3>6. QED  BY <3>3, <3>4, <3>5
  <2>3. QED  BY <1>1, <2>1, <2>2
<1>3. QED  BY <1>2 DEF Safe, s

LEMMA SafeTail ==
  ASSUME NEW b \in BOOLEAN, NEW d \in BOOLEAN, NEW s \in Seq(Events), s /= <<>>,
         Safe(s, b), d => s[1].op \notin {"bait", "del"}
  PROVE  Safe(Tail(s), d)
<1> DEFINE r == Tail(s)
<1>1. /\ Len(r) = Len(s) - 1 /\ Len(s) \in Nat /\ Len(s) > 0
      /\ \A i \in 1 .. Len(r) : r[i] = s[i + 1]
      /\ DOMAIN r = 1 .. Len(r) /\ DOMAIN s = 1 .. Len(s)
  OBVIOUS
<1> HIDE DEF r
<1>2. ASSUME NEW i \in DOMAIN r, r[i].op = "del"
      PROVE  IF i = 1 THEN ~d ELSE r[i - 1].op \in {"bait", "del"}
  <2>1. i + 1 \in DOMAIN s /\ s[i + 1].op = "del" /\ i \in DOMAIN s /\ i \in Nat /\ i > 0
    BY <1>1, <1>2
  <2>2. s[i].op \in {"bait", "del"}
    <3>1. (i + 1) - 1 = i /\ i + 1 /= 1
      BY <2>1
    <3>2. QED  BY <2>1, <3>1 DEF Safe
  <2>3. CASE i = 1
    BY <2>2, <2>3
  <2>4. CASE i /= 1
    <3>1. i - 1 \in 1 .. Len(r) /\ (i - 1) + 1 = i
      BY <1>1, <2>1, <2>4
    <3>2. r[i - 1] = s[i]
      BY <1>1, <3>1
    <3>3. QED  BY <2>2, <2>4, <3>2
  <2>5. QED  BY <2>3, <2>4
<1>3. QED  BY <1>2 DEF Safe, r

LEMMA SafeWithout ==
  ASSUME NEW b, NEW s \in Seq(Events), \A e \in ToSet(s) : e.op /= "del"
  PROVE  Safe(s, b)
BY DEF Safe, ToSet

\* The events of a sequence, in whatever order.
LEMMA Sets ==
  ASSUME NEW A
  PROVE  /\ ToSet(<<>>) = {}
         /\ \A e : ToSet(<<e>>) = {e}
         /\ \A s \in Seq(A) : ToSet(s) \subseteq A
         /\ \A q \in Seq(A), r \in Seq(A) : ToSet(q \o r) = ToSet(q) \cup ToSet(r)
         /\ \A q \in Seq(A), e \in A : ToSet(Append(q, e)) = ToSet(q) \cup {e}
         /\ \A s \in Seq(A) : s /= <<>> => /\ Head(s) \in ToSet(s)
                                           /\ ToSet(Tail(s)) \subseteq ToSet(s)
                                           /\ ToSet(s) = {Head(s)} \cup ToSet(Tail(s))
<1>1. ToSet(<<>>) = {} /\ \A e : ToSet(<<e>>) = {e}
  BY DEF ToSet
<1>2. \A s \in Seq(A) : ToSet(s) \subseteq A
  BY DEF ToSet
<1>3. ASSUME NEW q \in Seq(A), NEW r \in Seq(A)
      PROVE  ToSet(q \o r) = ToSet(q) \cup ToSet(r)
  <2> DEFINE s == q \o r
  <2>1. /\ Len(s) = Len(q) + Len(r) /\ Len(q) \in Nat /\ Len(r) \in Nat
        /\ \A i \in 1 .. Len(q) : s[i] = q[i]
        /\ \A i \in 1 .. Len(r) : s[Len(q) + i] = r[i]
        /\ DOMAIN s = 1 .. Len(s) /\ DOMAIN q = 1 .. Len(q) /\ DOMAIN r = 1 .. Len(r)
    OBVIOUS
  <2> HIDE DEF s
  <2>2. ToSet(q) \subseteq ToSet(s)
    <3>1. \A i \in DOMAIN q : i \in DOMAIN s /\ q[i] = s[i]
      BY <2>1
    <3>2. QED  BY <3>1 DEF ToSet
  <2>3. ToSet(r) \subseteq ToSet(s)
    <3>1. \A i \in DOMAIN r : Len(q) + i \in DOMAIN s /\ r[i] = s[Len(q) + i]
      BY <2>1
    <3>2. QED  BY <3>1 DEF ToSet
  <2>4. ASSUME NEW i \in DOMAIN s PROVE s[i] \in ToSet(q) \cup ToSet(r)
    <3>1. CASE i <= Len(q)
      <4>1. i \in DOMAIN q /\ s[i] = q[i]
        BY <2>1, <3>1
      <4>2. QED  BY <4>1 DEF ToSet
    <3>2. CASE i > Len(q)
      <4>1. i - Len(q) \in 1 .. Len(r) /\ Len(q) + (i - Len(q)) = i
        BY <2>1, <3>2
      <4>2. i - Len(q) \in DOMAIN r /\ s[i] = r[i - Len(q)]
        BY <2>1, <4>1
      <4>3. QED  BY <4>2 DEF ToSet
    <3>3. QED  BY <2>1, <3>1, <3>2
  <2>5. ToSet(s) \subseteq ToSet(q) \cup ToSet(r)
    BY <2>4 DEF ToSet
  <2>6. QED  BY <2>2, <2>3, <2>5 DEF s
<1>4. ASSUME NEW q \in Seq(A), NEW e \in A
      PROVE  ToSet(Append(q, e)) = ToSet(q) \cup {e}
  <2>1. Append(q, e) = q \o <<e>> /\ <<e>> \in Seq(A)
    OBVIOUS
  <2>2. QED  BY <1>1, <1>3, <2>1
<1>5. ASSUME NEW s \in Seq(A), s /= <<>>
      PROVE  /\ Head(s) \in ToSet(s) /\ ToSet(Tail(s)) \subseteq ToSet(s)
             /\ ToSet(s) = {Head(s)} \cup ToSet(Tail(s))
  <2>1. s = <<Head(s)>> \o Tail(s) /\ <<Head(s)>> \in Seq(A) /\ Tail(s) \in Seq(A)
    <3>1. Head(s) \in A /\ Tail(s) \in Seq(A)
      BY <1>5
    <3>2. <<Head(s)>> \in Seq(A)
      BY <3>1
    <3>3. s = <<Head(s)>> \o Tail(s)
      <4> DEFINE r == Tail(s)
                 t == <<Head(s)>> \o r
      <4>1. /\ Len(r) = Len(s) - 1 /\ \A i \in 1 .. Len(r) : r[i] = s[i + 1]
            /\ Head(s) = s[1] /\ Len(s) \in Nat /\ Len(s) > 0
        BY <1>5
      <4> HIDE DEF r
      <4>2. /\ t \in Seq(A) /\ Len(t) = Len(s) /\ \A i \in 1 .. Len(s) : t[i] = s[i]
        BY <3>1, <3>2, <4>1 DEF r
      <4> HIDE DEF t
      <4>3. s = t
        BY <4>2
      <4>4. QED  BY <4>3 DEF t, r
    <3>4. QED  BY <3>1, <3>2, <3>3
  <2>2. ToSet(s) = ToSet(<<Head(s)>>) \cup ToSet(Tail(s))
    BY <1>3, <2>1
  <2>3. QED  BY <1>1, <2>2
<1>6. QED  BY <1>1, <1>2, <1>3, <1>4, <1>5

-----------------------------------------------------------------------------
(* The invariant behind ScreenMatches: as long as the code has not lost    *)
(* step, what is in flight and what the hook thread is busy with will make *)
(* the text the engine has.                                                *)

Losses == {"partial", "timeout", "refused", "overtook", "overtaken",
           "reset", "reordered", "dismissed"}
InStep == slips \cap Losses = {}
Flight == appq \o sys
Shows == committed \o word

\* The text that comes.
Shown ==
  /\ hook.bs <= Len(Arrived(screen, Flight))
  /\ Arrived(Replaced(Arrived(screen, Flight), hook.bs, hook.text), hook.next) = Shows

\* An edit that deletes, and the keys of a word in a control that takes edits,
\* find nothing in flight.
EditAlone ==
  /\ IsSyncReplaceChannel /\ (IF hook = Idle THEN word /= <<>> ELSE hook.bs > 0)
       => Flight = <<>>
  /\ hook.by = "vb6" => UseClipboardPaste

\* What is sent behind an edit ends the word.
NextLast ==
  hook.next /= <<>> =>
    /\ word = <<>>
    /\ \A e \in ToSet(hook.next) : e.op = "text" /\ e.era < era

\* No suggestion takes a backspace of a replacement.
Shielded ==
  /\ sugg => Suggests
  /\ Suggests => Safe(Flight, sugg)

\* What a renderer could let a letter overtake is of another word, or the word
\* is known to have own events and no letter of it passes.
Eras ==
  Rendered =>
    /\ \A e \in ToSet(appq) \cup ToSet(sys) :
         e.era <= era /\ (e.own > 0 /\ e.era = era => hadSynth /\ word /= <<>>)
    /\ \A j \in DOMAIN appq : \A i \in 1 .. j - 1 :
         appq[i].own > 0 /\ appq[j].own = 0 /\ appq[i].era = appq[j].era
           => appq[j].text \in {<<c>> : c \in Ends}

TextInv ==
  InStep => late = Idle /\ Shown /\ EditAlone /\ NextLast /\ Shielded /\ Eras

\* A key in terms of the text.
PassedText(e) ==
  /\ e.own = 0 /\ e.op /= "del" /\ e.era = era
  /\ sys = <<>> /\ appq' = Append(appq, e) /\ UNCHANGED <<sys, hook>>
  /\ Typed(Shows, e) = Shows'
  /\ IsSyncReplaceChannel => word' = <<>>
  /\ e.text \in {<<c>> : c \in Ends} \/ word = <<>> \/ (Rendered => ~hadSynth)

SentText(all) ==
  /\ sys' = sys \o all /\ UNCHANGED <<appq, hook>>
  /\ Arrived(Shows, all) = Shows'
  /\ IsSyncReplaceChannel => word' = <<>>
  /\ \A e \in ToSet(all) : e.era = era
  /\ Suggests => Safe(all, TRUE)
  /\ era' = era /\ all /= <<>> => hadSynth'

HeldText(edit) ==
  /\ hook' = edit /\ UNCHANGED <<appq, sys>>
  /\ edit.bs <= Len(Shows)
  /\ Arrived(Replaced(Shows, edit.bs, edit.text), edit.next) = Shows'
  /\ IsSyncReplaceChannel /\ edit.bs > 0 => word /= <<>>
  /\ edit.by = "vb6" => UseClipboardPaste
  /\ edit.next /= <<>> => word' = <<>> /\ \A e \in ToSet(edit.next) : e.op = "text" /\ e.era < era'

KeyText == \/ \E e \in Events : PassedText(e)
           \/ \E all \in Seq(Sendable) : SentText(all)
           \/ \E edit \in Edits : HeldText(edit)

KeyEra == /\ era' \in {era, era + 1}
          /\ era' = era => word' /= <<>> /\ (hadSynth => hadSynth')

LEMMA Cut ==
  ASSUME NEW A, NEW c \in Seq(A), NEW w \in Seq(A), NEW k \in 0 .. Len(w)
  PROVE  SubSeq(c \o w, 1, Len(c) + k) = c \o SubSeq(w, 1, k)
<1> DEFINE s == c \o w
           p == SubSeq(w, 1, k)
<1>1. /\ Len(c) \in Nat /\ Len(w) \in Nat /\ k \in Nat /\ k <= Len(w)
      /\ s \in Seq(A) /\ Len(s) = Len(c) + Len(w)
      /\ \A i \in 1 .. Len(c) : s[i] = c[i]
      /\ \A i \in 1 .. Len(w) : s[Len(c) + i] = w[i]
      /\ p \in Seq(A) /\ Len(p) = k /\ \A i \in 1 .. k : p[i] = w[i]
  OBVIOUS
<1> HIDE DEF s, p
<1> DEFINE l == SubSeq(s, 1, Len(c) + k)
           r == c \o p
<1>2. l \in Seq(A) /\ Len(l) = Len(c) + k /\ \A i \in 1 .. Len(c) + k : l[i] = s[i]
  BY <1>1
<1>3. /\ r \in Seq(A) /\ Len(r) = Len(c) + k
      /\ \A i \in 1 .. Len(c) : r[i] = c[i]
      /\ \A i \in 1 .. k : r[Len(c) + i] = p[i]
  <2>1. p \in Seq(A) /\ Len(p) = k
    BY <1>1
  <2>2. /\ c \o p \in Seq(A) /\ Len(c \o p) = Len(c) + Len(p)
        /\ \A i \in 1 .. Len(c) : (c \o p)[i] = c[i]
        /\ \A i \in 1 .. Len(p) : (c \o p)[Len(c) + i] = p[i]
    <3> HIDE DEF p
    <3>1. QED  BY ONLY <2>1, c \in Seq(A), SMTT(30)
  <2> HIDE DEF l
  <2>3. r = c \o p
    OBVIOUS
  <2> HIDE DEF r
  <2>4. QED  BY <2>1, <2>2, <2>3
<1> HIDE DEF l, r
<1>4. ASSUME NEW i \in 1 .. Len(c) + k PROVE l[i] = r[i]
  <2>1. CASE i <= Len(c)
    BY <1>1, <1>2, <1>3, <2>1
  <2>2. CASE i > Len(c)
    <3>1. i - Len(c) \in 1 .. k /\ Len(c) + (i - Len(c)) = i /\ i - Len(c) \in 1 .. Len(w)
      BY <1>1, <2>2
    <3>2. s[i] = w[i - Len(c)] /\ r[i] = p[i - Len(c)] /\ p[i - Len(c)] = w[i - Len(c)]
      BY <1>1, <1>3, <3>1
    <3>3. QED  BY <1>2, <3>2
  <2>3. QED  BY <1>1, <2>1, <2>2
<1>5. l = r
  BY <1>2, <1>3, <1>4
<1>6. QED  BY <1>5 DEF l, r, s, p

\* The difference between two words, applied behind the committed text.
LEMMA Difference ==
  ASSUME NEW c \in Texts, NEW w \in Texts, NEW new \in Texts,
         NEW common \in 0 .. Len(w), common <= Len(new),
         SubSeq(w, 1, common) = SubSeq(new, 1, common)
  PROVE  /\ c \o w \in Screens /\ Len(w) - common \in Nat /\ Len(w) - common <= Len(c \o w)
         /\ SubSeq(new, common + 1, Len(new)) \in Texts
         /\ Replaced(c \o w, Len(w) - common, SubSeq(new, common + 1, Len(new))) = c \o new
<1> DEFINE p == SubSeq(new, 1, common)
           r == SubSeq(new, common + 1, Len(new))
<1>1. /\ c \in Seq(Glyphs) /\ w \in Seq(Glyphs) /\ new \in Seq(Glyphs)
      /\ Len(c) \in Nat /\ Len(w) \in Nat /\ Len(new) \in Nat
      /\ common \in Nat /\ common <= Len(w) /\ common \in 0 .. Len(new)
  BY DEF Texts
<1>2. p \in Seq(Glyphs) /\ r \in Seq(Glyphs)
  BY <1>1
<1>3. p \o r = new
  BY <1>1, SplitAt
<1>4. Len(c \o w) = Len(c) + Len(w) /\ c \o w \in Screens
  BY <1>1, TextsOnScreen
<1>5. Len(c \o w) - (Len(w) - common) = Len(c) + common
  BY <1>1, <1>4
<1>6. SubSeq(c \o w, 1, Len(c) + common) = c \o p
  BY <1>1, Cut
<1> HIDE DEF p, r
<1>7. (c \o p) \o r = c \o (p \o r)
  <2>1. c \in Seq(Glyphs) /\ p \in Seq(Glyphs) /\ r \in Seq(Glyphs)
    BY ONLY <1>1, <1>2
  <2>2. \A x, y, z \in Seq(Glyphs) : (x \o y) \o z = x \o (y \o z)
    BY Associative, SMTT(30)
  <2>3. QED  BY ONLY <2>1, <2>2, Zenon
<1>8. Replaced(c \o w, Len(w) - common, r) = c \o new
  BY <1>3, <1>5, <1>6, <1>7 DEF Replaced
<1>9. r \in Texts /\ Len(w) - common \in Nat /\ Len(w) - common <= Len(c \o w)
  BY <1>1, <1>2, <1>4 DEF Texts
<1>10. QED  BY <1>4, <1>8, <1>9 DEF r

-----------------------------------------------------------------------------
(* A key in terms of the text: what the change of the word sends, or leaves *)
(* to be done, makes the text the engine has.                              *)

LEMMA BothSets ==
  ASSUME NEW q \in Seq(Sendable), NEW r \in Seq(Sendable)
  PROVE  ToSet(q \o r) = ToSet(q) \cup ToSet(r)
BY Sets

LEMMA OfTimes ==
  ASSUME NEW count \in Nat, NEW e
  PROVE  ToSet(Times(count, e)) \subseteq {e}
BY DEF ToSet, Times

LEMMA OfChars ==
  ASSUME NEW text \in Texts
  PROVE  \A e \in ToSet(Chars(text)) : e.op = "text" /\ e.era = era
<1>1. \A i \in DOMAIN text : LET e == Event("text", <<text[i]>>, 2)
                             IN e.op = "text" /\ e.era = era
  BY DEF Event
<1>2. QED  BY <1>1 DEF ToSet, Chars

LEMMA BatchesKeys ==
  ASSUME era \in Nat, NEW bs \in Nat, NEW text \in Texts
  PROVE  /\ Send(Batches(bs, text)) \in Seq(Sendable)
         /\ \A e \in ToSet(Send(Batches(bs, text))) : e.era = era
         /\ Injector.bait => Safe(Send(Batches(bs, text)), TRUE)
<1> DEFINE a == Shield(bs, text)
           b == Erase(bs, text)
           c == Fill(text)
           bait == Event("bait", <<>>, 2)
           del == Event("del", <<>>, 2)
           back == Event("back", <<>>, 2)
<1>1. /\ a \in Seq(Sendable) /\ b \in Seq(Sendable) /\ c \in Seq(Sendable)
      /\ Send(Batches(bs, text)) = (a \o b) \o c
  BY ShapeTypes, BatchesSend
<1>2. /\ a \in {<<>>, <<bait>>}
      /\ b \in {Times(count, del) : count \in {bs, bs + 1}}
             \cup {Times(bs, back)}
      /\ Injector.bait => \/ a = <<bait>> /\ b = Times(bs + 1, del)
                          \/ a = <<>> /\ b = Times(bs, back)
  BY DEF Shield, Erase, ShouldEmitBait
<1>3. /\ bait.op = "bait" /\ del.op = "del" /\ back.op = "back"
      /\ bait.era = era /\ del.era = era /\ back.era = era
      /\ bait \in Sendable /\ del \in Sendable /\ back \in Sendable
  BY KeyTypes DEF Event
<1>4. \A e \in ToSet(c) : e.op = "text" /\ e.era = era
  <2>1. CASE Injector.kind /= "clip"
    BY <2>1, OfChars DEF Fill
  <2>2. CASE Injector.kind = "clip"
    <3>1. CtrlV(text).op = "text" /\ CtrlV(text).era = era
      BY DEF CtrlV, Event
    <3>2. ToSet(<<>>) = {} /\ ToSet(<<CtrlV(text)>>) = {CtrlV(text)}
      BY Sets
    <3>3. QED  BY <2>2, <3>1, <3>2 DEF Fill
  <2>3. QED  BY <2>1, <2>2
<1> HIDE DEF a, b, c, bait, del, back
<1>5. ToSet(a) \subseteq {bait} /\ ToSet(b) \subseteq {del, back}
  <2>1. ToSet(<<>>) = {} /\ ToSet(<<bait>>) = {bait}
    BY Sets
  <2>2. /\ ToSet(Times(bs, del)) \subseteq {del}
        /\ ToSet(Times(bs + 1, del)) \subseteq {del}
        /\ ToSet(Times(bs, back)) \subseteq {back}
    BY OfTimes
  <2>3. b \in {Times(bs, del), Times(bs + 1, del), Times(bs, back)}
    BY <1>2
  <2>4. QED  BY <1>2, <2>1, <2>2, <2>3
<1>6. a \o b \in Seq(Sendable) /\ (a \o b) \o c \in Seq(Sendable)
  BY <1>1, SeqTypes
<1>7. ToSet((a \o b) \o c) = ToSet(a) \cup ToSet(b) \cup ToSet(c)
  <2>1. ToSet(a \o b) = ToSet(a) \cup ToSet(b)
    BY <1>1, BothSets
  <2>2. ToSet((a \o b) \o c) = ToSet(a \o b) \cup ToSet(c)
    BY <1>1, <1>6, BothSets
  <2>3. QED  BY <2>1, <2>2
<1>8. ASSUME Injector.bait PROVE Safe((a \o b) \o c, TRUE)
  <2>1. Safe(c, TRUE)
    <3>1. \A e \in ToSet(c) : e.op /= "del"
      BY <1>4
    <3>2. QED  BY <1>1, <3>1, SeqTypes, SafeWithout
  <2>2. Safe(a \o b, TRUE)
    <3>1. CASE a = <<bait>> /\ b = Times(bs + 1, del)
      <4> DEFINE s == <<bait>> \o Times(bs + 1, del)
      <4>1. /\ Len(s) = bs + 2 /\ DOMAIN s = 1 .. bs + 2
            /\ s[1] = bait /\ \A i \in 2 .. bs + 2 : s[i] = del
        BY <1>3 DEF Times
      <4> HIDE DEF s
      <4>2. Safe(s, TRUE)
        <5>1. ASSUME NEW i \in DOMAIN s, s[i].op = "del"
              PROVE  i /= 1 /\ s[i - 1].op \in {"bait", "del"}
          <6>1. i /= 1
            BY <1>3, <4>1, <5>1
          <6>2. CASE i = 2
            BY <1>3, <4>1, <6>2
          <6>3. CASE i > 2
            BY <1>3, <4>1, <6>3
          <6>4. QED  BY <4>1, <6>1, <6>2, <6>3
        <5>2. QED  BY <5>1 DEF Safe
      <4>3. QED  BY <3>1, <4>2 DEF s
    <3>2. CASE a = <<>> /\ b = Times(bs, back)
      <4>1. a \o b = b
        BY <1>1, <3>2
      <4>2. \A e \in ToSet(b) : e.op /= "del"
        <5>1. ToSet(b) \subseteq {back}
          BY <3>2, OfTimes
        <5>2. QED  BY <1>3, <5>1
      <4>3. QED  BY <1>1, <4>1, <4>2, SeqTypes, SafeWithout
    <3>3. QED  BY <1>2, <1>8, <3>1, <3>2
  <2>3. a \o b \in Seq(Events) /\ c \in Seq(Events)
    BY <1>1, <1>6, SeqTypes
  <2>4. QED  BY <2>1, <2>2, <2>3, SafeConcat
<1>9. QED  BY <1>1, <1>3, <1>4, <1>5, <1>6, <1>7, <1>8

LEMMA Within ==
  ASSUME NEW A, NEW t \in Seq(A), NEW v \in Seq(A), NEW k \in 0 .. Len(t)
  PROVE  SubSeq(t \o v, 1, k) = SubSeq(t, 1, k)
<1> DEFINE s == t \o v
           l == SubSeq(s, 1, k)
           r == SubSeq(t, 1, k)
<1>1. /\ s \in Seq(A) /\ Len(s) = Len(t) + Len(v) /\ Len(t) \in Nat /\ Len(v) \in Nat
      /\ \A i \in 1 .. Len(t) : s[i] = t[i]
      /\ k \in Nat /\ k <= Len(t)
  OBVIOUS
<1> HIDE DEF s
<1>2. l \in Seq(A) /\ Len(l) = k /\ \A i \in 1 .. k : l[i] = s[i]
  BY <1>1
<1>3. r \in Seq(A) /\ Len(r) = k /\ \A i \in 1 .. k : r[i] = t[i]
  BY <1>1
<1> HIDE DEF l, r
<1>4. \A i \in 1 .. k : l[i] = r[i]
  BY <1>1, <1>2, <1>3
<1>5. l = r
  BY <1>2, <1>3, <1>4
<1>6. QED  BY <1>5 DEF l, r, s

\* A key that was held back counts as shown: the edit that is done without
\* sending it deletes one less.
LEMMA ReplacedUnder ==
  ASSUME NEW t \in Screens, NEW vk \in Texts, NEW bs \in Nat, NEW text,
         Len(vk) <= bs, bs <= Len(t \o vk)
  PROVE  /\ bs - Len(vk) \in Nat /\ bs - Len(vk) <= Len(t)
         /\ Replaced(t \o vk, bs, text) = Replaced(t, bs - Len(vk), text)
<1>1. vk \in Screens /\ Len(t) \in Nat /\ Len(vk) \in Nat /\ Len(t \o vk) = Len(t) + Len(vk)
  BY TextsOnScreen DEF Screens, Texts
<1> DEFINE k == Len(t) - (bs - Len(vk))
<1>2. k \in 0 .. Len(t) /\ Len(t \o vk) - bs = k
  BY <1>1
<1> HIDE DEF k
<1>3. SubSeq(t \o vk, 1, k) = SubSeq(t, 1, k)
  BY <1>1, <1>2, Within DEF Screens
<1>4. Replaced(t \o vk, bs, text) = Replaced(t, bs - Len(vk), text)
  BY <1>2, <1>3 DEF Replaced, k
<1>5. QED  BY <1>1, <1>4

\* What waits behind the change ends the word.
Ending(next) ==
  /\ \A e \in ToSet(next) : e.op = "text" /\ e.era = era
  /\ next /= <<>> => word' = <<>> /\ era' = era + 1

LEMMA ReplaceText ==
  ASSUME Inv, GuardedWindows, Press, InStep',
         NEW bs \in Nat, NEW text \in Texts, NEW vk \in Texts, NEW next \in Seq(Sendable),
         ReplaceUnicode(bs, text, vk, next),
         Len(vk) <= bs, bs <= Len(Shows \o vk),
         vk /= <<>> => ~IsSyncReplaceChannel /\ ~Injector.bait,
         Arrived(Replaced(Shows \o vk, bs, text), next) = Shows',
         Ending(next), bs > 0 => word /= <<>>, era' = era => HadSynth
  PROVE  KeyText
<1>1. /\ era \in Nat /\ word \in Texts /\ committed \in Texts /\ win \in Windows
      /\ hook = Idle /\ Waiting \in Nat
  BY Pressed DEF Inv, TypeOK
<1>2. Shows \in Screens /\ Len(vk) \in Nat
  <2>1. committed \in Screens /\ word \in Screens
    BY <1>1, TextsOnScreen
  <2>2. QED  BY <2>1, TextsOnScreen DEF Shows, Texts
<1>3. /\ bs - Len(vk) \in Nat /\ bs - Len(vk) <= Len(Shows)
      /\ Replaced(Shows \o vk, bs, text) = Replaced(Shows, bs - Len(vk), text)
  BY <1>2, ReplacedUnder
<1>4. /\ \A e \in ToSet(next) : e.op = "text" /\ e.era = era
      /\ next /= <<>> => word' = <<>> /\ era' = era + 1
  BY DEF Ending
<1>5. next /= <<>> => word' = <<>> /\ \A e \in ToSet(next) : e.op = "text" /\ e.era < era'
  BY <1>1, <1>4
<1>6. CASE IsSyncReplaceChannel /\ Held(Edit("retry", bs, text, next))
  <2> DEFINE edit == Edit("retry", bs, text, next)
  <2>1. /\ edit \in Edits /\ edit.by = "retry" /\ edit.bs = bs
        /\ edit.text = text /\ edit.next = next
    <3>1. edit \in Edits
      BY EditType DEF Ways
    <3>2. QED  BY <3>1 DEF Edit
  <2>2. hook' = edit /\ appq' = appq /\ sys' = sys
    BY <1>6 DEF Held
  <2> HIDE DEF edit
  <2>3. vk = <<>> /\ Len(vk) = 0
    BY <1>6
  <2>4. bs - Len(vk) = bs
    BY <2>3
  <2>5. HeldText(edit)
    BY <1>3, <1>5, <2>1, <2>2, <2>4 DEF HeldText
  <2>6. QED  BY <2>1, <2>5 DEF KeyText
<1>7. CASE /\ ~IsSyncReplaceChannel /\ UseClipboardPaste
           /\ Held(Edit("vb6", bs - Len(vk), text, next))
  <2> DEFINE edit == Edit("vb6", bs - Len(vk), text, next)
  <2>1. /\ edit \in Edits /\ edit.by = "vb6" /\ edit.bs = bs - Len(vk)
        /\ edit.text = text /\ edit.next = next
    <3>1. edit \in Edits
      BY <1>3, EditType DEF Ways
    <3>2. QED  BY <3>1 DEF Edit
  <2>2. hook' = edit /\ appq' = appq /\ sys' = sys
    BY <1>7 DEF Held
  <2> HIDE DEF edit
  <2>3. HeldText(edit)
    BY <1>3, <1>5, <1>7, <2>1, <2>2 DEF HeldText
  <2>4. QED  BY <2>1, <2>3 DEF KeyText
<1>8. CASE /\ ~IsSyncReplaceChannel
           /\ \E sent \in Seq(Sendable) :
                Sends(Waiting, Watched, (Lead(vk) \o Send(Batches(bs, text))) \o next, sent)
           /\ quiet' = FALSE /\ UNCHANGED <<appq, hook>>
  <2> DEFINE lead == Lead(vk)
             body == Send(Batches(bs, text))
             all == (lead \o body) \o next
  <2>1. PICK sent \in Seq(Sendable) : Sends(Waiting, Watched, all, sent)
    BY <1>8
  <2>2. appq' = appq /\ hook' = hook /\ ~IsSyncReplaceChannel
    BY <1>8
  <2>3. /\ body \in Seq(Sendable) /\ \A e \in ToSet(body) : e.era = era
        /\ Injector.bait => Safe(body, TRUE)
    BY <1>1, BatchesKeys
  <2>4. /\ lead \in Seq(Sendable) /\ \A e \in ToSet(lead) : e.era = era
        /\ Arrived(Shows, lead) = Shows \o vk
    <3>1. CASE vk = <<>>
      <4>1. lead = <<>> /\ Shows \o vk = Shows
        BY <1>2, <3>1 DEF Lead, Screens
      <4>2. QED  BY <4>1, Sets, ArrivedNone
    <3>2. CASE vk /= <<>>
      <4> DEFINE e == Event("text", vk, 1)
      <4>1. e \in Sendable /\ e.era = era /\ e.op = "text" /\ e.text = vk
        <5>1. 1 \in 1 .. 4 /\ "text" \in Ops
          BY DEF Ops
        <5>2. QED  BY <1>1, <5>1, SendableType DEF Event
      <4>2. lead = <<e>>
        BY <3>2 DEF Lead
      <4> HIDE DEF e, lead
      <4>3. e \in Events /\ ToSet(<<e>>) = {e}
        BY <4>1, Sets DEF Sendable
      <4>4. Arrived(Shows, <<e>>) = Shows \o vk
        BY <4>1, <4>3, ArrivedText
      <4>5. <<e>> \in Seq(Sendable)
        BY <4>1
      <4>6. \A k \in ToSet(<<e>>) : k.era = era
        BY <4>1, <4>3
      <4>7. QED  BY <4>2, <4>4, <4>5, <4>6
    <3>3. QED  BY <3>1, <3>2
  <2> HIDE DEF lead, body
  <2>5. lead \o body \in Seq(Sendable) /\ all \in Seq(Sendable)
    BY <2>3, <2>4, SeqTypes
  <2>6. /\ lead \in Seq(Events) /\ body \in Seq(Events) /\ next \in Seq(Events)
        /\ lead \o body \in Seq(Events)
    BY <2>3, <2>4, <2>5, SeqTypes
  <2>7. Arrived(Shows, all) = Shows'
    <3>1. Arrived(Shows, all) = Arrived(Arrived(Shows, lead \o body), next)
      BY <2>6, ArrivedConcat
    <3>2. Arrived(Shows, lead \o body) = Arrived(Arrived(Shows, lead), body)
      BY <2>6, ArrivedConcat
    <3>3. Shows \o vk \in Screens
      BY <1>2, TextsOnScreen
    <3>4. Arrived(Shows \o vk, body) = Replaced(Shows \o vk, bs, text)
      BY <1>1, <3>3, BatchesArrive DEF body
    <3>5. QED  BY <2>4, <3>1, <3>2, <3>4
  <2>8. \A e \in ToSet(all) : e.era = era
    <3>1. ToSet(lead \o body) = ToSet(lead) \cup ToSet(body)
      BY <2>3, <2>4, BothSets
    <3>2. ToSet(all) = ToSet(lead \o body) \cup ToSet(next)
      BY <2>5, BothSets
    <3>3. QED  BY <1>4, <2>3, <2>4, <3>1, <3>2
  <2>9. Suggests => Safe(all, TRUE)
    <3>1. SUFFICES ASSUME Suggests PROVE Safe(all, TRUE)
      OBVIOUS
    <3>2. Injector.bait
      BY <1>1, <2>2, <3>1, Traits
    <3>3. vk = <<>> /\ lead = <<>>
      BY <3>2 DEF lead, Lead
    <3>4. lead \o body = body
      BY <2>3, <3>3
    <3>5. Safe(body, TRUE)
      BY <2>3, <3>2
    <3>6. Safe(next, TRUE)
      <4>1. \A e \in ToSet(next) : e.op /= "del"
        BY <1>4
      <4>2. QED  BY <2>6, <4>1, SafeWithout
    <3>7. Safe(body \o next, TRUE)
      BY <2>6, <3>5, <3>6, SafeConcat
    <3>8. QED  BY <3>4, <3>7
  <2> HIDE DEF all
  <2>10. sent = all /\ sys' = sys \o all /\ pending' = Waiting + Own(all)
    <3>1. "partial" \notin slips'
      BY DEF InStep, Losses
    <3>2. QED  BY <2>1, <3>1 DEF Sends
  <2>11. era' = era /\ all /= <<>> => hadSynth'
    <3>1. SUFFICES ASSUME era' = era, all /= <<>> PROVE hadSynth'
      OBVIOUS
    <3>2. Own(all) > 0 /\ Own(all) \in Nat
      BY <2>5, <3>1, OwnPositive, OwnNat, SeqTypes
    <3>3. pending' > 0 /\ hook' = Idle
      BY <1>1, <2>2, <2>10, <3>2
    <3>4. HadSynth
      BY <3>1
    <3>5. QED  BY <3>3, <3>4 DEF HadSynth
  <2>12. SentText(all)
    BY <2>2, <2>7, <2>8, <2>9, <2>10, <2>11 DEF SentText
  <2>13. QED  BY <2>5, <2>12 DEF KeyText
<1>9. QED  BY <1>1, <1>6, <1>7, <1>8, Replaces

LEMMA ComposeText ==
  ASSUME Inv, GuardedWindows, Press, InStep',
         NEW vk \in Texts, NEW new \in Texts, NEW next \in Seq(Sendable),
         ReplaceComposition(word \o vk, new, vk, next),
         vk /= <<>> =>
           /\ ~IsSyncReplaceChannel /\ ~Injector.bait /\ word /= <<>>
           /\ Len(LongestCommonPrefix({word \o vk, new})) <= Len(word),
         Arrived(committed \o new, next) = Shows',
         Ending(next), era' = era => HadSynth
  PROVE  KeyText
<1> DEFINE old == word \o vk
           common == Len(LongestCommonPrefix({old, new}))
           bs == Len(old) - common
           text == SubSeq(new, common + 1, Len(new))
<1>1. word \in Texts /\ committed \in Texts
  BY DEF Inv, TypeOK
<1>2. old \in Texts /\ Len(old) = Len(word) + Len(vk) /\ Len(word) \in Nat /\ Len(vk) \in Nat
  BY <1>1 DEF Texts
<1>3. Shows \o vk = committed \o old
  <2>1. committed \in Seq(Glyphs) /\ word \in Seq(Glyphs) /\ vk \in Seq(Glyphs)
    BY <1>1 DEF Texts
  <2>2. (committed \o word) \o vk = committed \o (word \o vk)
    BY <2>1, Associative, SMTT(30)
  <2>3. QED  BY <2>2 DEF Shows
<1>4. ReplaceUnicode(bs, text, vk, next)
  BY DEF ReplaceComposition
<1>5. vk /= <<>> => common <= Len(word) /\ word /= <<>>
  OBVIOUS
<1>6. vk = <<>> => Len(vk) = 0 /\ old = word
  BY <1>1 DEF Texts
<1>7. word = <<>> => Len(word) = 0
  OBVIOUS
<1> HIDE DEF old
<1>8. /\ common \in 0 .. Len(old) /\ common <= Len(new)
      /\ SubSeq(old, 1, common) = SubSeq(new, 1, common)
  <2>1. common = Len(LongestCommonPrefix({old, new}))
    OBVIOUS
  <2> HIDE DEF common
  <2>2. QED  BY <1>2, <2>1, Common
<1> HIDE DEF common
<1>9. /\ bs \in Nat /\ bs <= Len(committed \o old) /\ text \in Texts
      /\ Replaced(committed \o old, bs, text) = committed \o new
  <2>1. /\ committed \o old \in Screens /\ bs \in Nat /\ bs <= Len(committed \o old)
        /\ text \in Texts
        /\ Replaced(committed \o old, bs, text) = committed \o new
    BY ONLY <1>1, <1>2, <1>8, new \in Texts, Difference, ZenonT(60)
  <2>2. QED  BY ONLY <2>1
<1>10. Len(vk) <= bs
  <2>1. common \in Nat /\ common <= Len(old)
    BY <1>2, <1>8
  <2>2. CASE vk = <<>>
    BY <1>2, <1>6, <2>1, <2>2
  <2>3. CASE vk /= <<>>
    BY <1>2, <1>5, <2>1, <2>3
  <2>4. QED  BY <2>2, <2>3
<1>11. bs > 0 => word /= <<>>
  BY <1>2, <1>5, <1>6, <1>7, <1>8
<1> HIDE DEF bs, text
<1>12. /\ bs <= Len(Shows \o vk)
       /\ Arrived(Replaced(Shows \o vk, bs, text), next) = Shows'
  BY <1>3, <1>9
<1>13. QED  BY <1>4, <1>9, <1>10, <1>11, <1>12, ReplaceText

\* The other ways of a key.
LEMMA InjectText ==
  ASSUME Inv, InStep', NEW e \in Sendable, InjectKey(e),
         e.op /= "del", e.era = era, Typed(Shows, e) = Shows',
         IsSyncReplaceChannel => word' = <<>>, era' /= era
  PROVE  KeyText
<1> DEFINE q == <<Batch(<<e>>, TRUE)>>
<1>1. <<e>> \in Seq(Sendable) /\ e \in Events /\ <<e>> \in Seq(Events) /\ ToSet(<<e>>) = {e}
  BY Sets DEF Sendable
<1>2. q \in Seq(AllBatches) /\ Send(q) = <<e>>
  BY <1>1, BatchType, SendOne
<1>3. TrackedSendInput(Waiting, Watched \cup Posted, q) /\ appq' = appq /\ hook' = hook
  BY DEF InjectKey, Dispatch
<1> HIDE DEF q
<1>4. PICK sent \in Seq(Sendable) : Sends(Waiting, Watched \cup Posted, <<e>>, sent)
  BY <1>2, <1>3, Tracked
<1>5. sys' = sys \o <<e>>
  <2>1. "partial" \notin slips'
    BY DEF InStep, Losses
  <2>2. QED  BY <1>4, <2>1 DEF Sends
<1>6. Arrived(Shows, <<e>>) = Shows'
  BY <1>1, ArrivedOne
<1>7. Safe(<<e>>, TRUE)
  <2>1. \A k \in ToSet(<<e>>) : k.op /= "del" /\ k.era = era
    BY <1>1
  <2>2. QED  BY <1>1, <2>1, SafeWithout
<1>8. \A k \in ToSet(<<e>>) : k.era = era
  BY <1>1
<1> DEFINE all == <<e>>
<1>9. all \in Seq(Sendable)
  BY <1>1
<1>10. SentText(all)
  BY <1>3, <1>5, <1>6, <1>7, <1>8 DEF SentText
<1> HIDE DEF all
<1>11. QED  BY <1>9, <1>10 DEF KeyText

LEMMA PassText ==
  ASSUME Inv, Press, InStep', NEW e \in Events, NEW s, Pass(e, s), Watched \subseteq s,
         Waiting = 0 \/ (sys /= <<>> => "overtaken" \in s),
         e.own = 0, e.op /= "del", e.era = era, Typed(Shows, e) = Shows',
         IsSyncReplaceChannel => word' = <<>>,
         e.text \in {<<c>> : c \in Ends} \/ word = <<>>
  PROVE  KeyText
<1>1. Watched \subseteq slips' /\ s \subseteq slips' /\ sys' = sys /\ hook' = hook
      /\ appq' = Append(appq, e)
  BY DEF Pass, SentNothing
<1>2. "reset" \notin slips' /\ "overtaken" \notin slips'
  BY DEF InStep, Losses
<1>3. sys = <<>>
  <2>1. CASE Waiting = 0
    BY <1>1, <1>2, <2>1, Pressed
  <2>2. CASE sys /= <<>> => "overtaken" \in s
    BY <1>1, <1>2, <2>2
  <2>3. QED  BY <2>1, <2>2
<1>4. PassedText(e)
  BY <1>1, <1>3 DEF PassedText
<1>5. QED  BY <1>4 DEF KeyText

LEMMA BusyText ==
  ASSUME NEW by \in Ways, by /= "vb6", NEW bs \in Nat, NEW text \in Texts,
         Busy(by, bs, text, <<>>),
         bs <= Len(Shows), Replaced(Shows, bs, text) = Shows', bs > 0 => word /= <<>>
  PROVE  KeyText
<1> DEFINE edit == Edit(by, bs, text, <<>>)
<1>1. /\ edit \in Edits /\ edit.by = by /\ edit.bs = bs
      /\ edit.text = text /\ edit.next = <<>>
  <2>1. <<>> \in Seq(Sendable)
    OBVIOUS
  <2>2. edit \in Edits
    BY <2>1, EditType
  <2>3. QED  BY <2>2 DEF Edit
<1>2. hook' = edit /\ appq' = appq /\ sys' = sys
  BY DEF Busy, SentNothing
<1> HIDE DEF edit
<1>3. Arrived(Replaced(Shows, bs, text), <<>>) = Shows'
  BY ArrivedNone
<1>4. HeldText(edit)
  BY <1>1, <1>2, <1>3 DEF HeldText
<1>5. QED  BY <1>1, <1>4 DEF KeyText

LEMMA LetterText ==
  ASSUME Inv, GuardedWindows, InStep', NEW l \in Letters, Letter(l)
  PROVE  KeyEra /\ KeyText
<1>1. /\ Press /\ word' = Append(word, l) /\ committed' = committed /\ era' = era
  BY DEF Letter
<1>2. /\ word \in Texts /\ committed \in Texts /\ era \in Nat /\ win \in Windows
      /\ hadSynth \in BOOLEAN
  BY DEF Inv, TypeOK
<1>3. /\ l \in Glyphs /\ <<l>> \in Texts /\ word' \in Texts /\ word' /= <<>>
      /\ word' = word \o <<l>> /\ word \o <<>> = word
  <2>1. l \in Glyphs
    BY GlyphType
  <2>2. QED  BY <1>1, <1>2, <2>1, ConcatOne DEF Texts
<1>4. Shows' = Shows \o <<l>> /\ Shows' = committed \o word'
  BY <1>1, <1>2, <1>3, Associative DEF Shows, Texts
<1>5. CASE Passes
  <2> DEFINE e == Event("text", <<l>>, 0)
  <2>1. e \in Events /\ e.own = 0 /\ e.op = "text" /\ e.era = era /\ e.text = <<l>>
    <3>1. "text" \in Ops /\ 0 \in 0 .. 4
      BY DEF Ops
    <3>2. QED  BY <1>2, <1>3, <3>1, EventType DEF Event
  <2>2. /\ appq' = Append(appq, e) /\ slips' = Watched /\ sys' = sys
        /\ hook' = hook /\ hadSynth' = hadSynth
    BY <1>5 DEF Letter, SentNothing
  <2>3. ~(hadSynth /\ Injector.renderer) /\ ~IsSyncReplaceChannel /\ Waiting = 0
    BY <1>5 DEF Passes
  <2>4. sys = <<>>
    <3>1. "reset" \notin slips'
      BY DEF InStep, Losses
    <3>2. QED  BY <1>1, <2>2, <2>3, <3>1, Pressed
  <2>5. Rendered => ~hadSynth
    BY <1>2, <2>3, Traits
  <2> HIDE DEF e
  <2>6. Typed(Shows, e) = Shows'
    BY <1>4, <2>1 DEF Typed
  <2>7. PassedText(e)
    BY <2>1, <2>2, <2>3, <2>4, <2>5, <2>6 DEF PassedText
  <2>8. KeyEra
    BY <1>1, <1>3, <2>2 DEF KeyEra
  <2>9. QED  BY <2>1, <2>7, <2>8 DEF KeyText
<1>6. CASE ~Passes
  <2>1. ReplaceComposition(word, word', <<>>, <<>>) /\ HadSynth
    BY <1>6 DEF Letter
  <2>2. KeyEra
    BY <1>1, <1>2, <1>3, <2>1 DEF KeyEra, HadSynth
  <2>3. <<>> \in Seq(Sendable) /\ Ending(<<>>) /\ <<>> \in Texts
    BY Sets, NoText DEF Ending
  <2>4. Arrived(committed \o word', <<>>) = Shows'
    BY <1>4, ArrivedNone
  <2>5. ReplaceComposition(word \o <<>>, word', <<>>, <<>>)
    BY <1>3, <2>1
  <2>6. KeyText
    <3> DEFINE new == word'
               vk == <<>>
    <3>1. new \in Texts /\ vk \in Texts /\ vk \in Seq(Sendable) /\ vk = <<>>
      BY <1>3, <2>3
    <3>2. ReplaceComposition(word \o vk, new, vk, vk) /\ Ending(vk)
          /\ Arrived(committed \o new, vk) = Shows'
      BY <2>3, <2>4, <2>5
    <3> HIDE DEF new, vk
    <3>3. QED  BY <1>1, <2>1, <3>1, <3>2, ComposeText
  <2>7. QED  BY <2>2, <2>6
<1>7. QED  BY <1>5, <1>6

LEMMA ToneText ==
  ASSUME Inv, GuardedWindows, InStep', Tone
  PROVE  KeyEra /\ KeyText
<1>1. /\ Press /\ HadSynth /\ word /= <<>> /\ Last(word) \in {"a", "aa"}
      /\ word' = Toned(word) /\ committed' = committed /\ era' = era
  BY DEF Tone
<1>2. /\ word \in Texts /\ committed \in Texts /\ TypeOK
  BY DEF Inv, TypeOK
<1>3. Toned(word) \in Texts /\ Toned(word) /= <<>>
  <2>1. Toned(word) \in Texts /\ Len(word) <= Len(Toned(word))
    BY <1>1, <1>2, TonedType
  <2>2. Len(word) \in Nat /\ Len(word) > 0
    BY <1>1, <1>2 DEF Texts
  <2>3. QED  BY <2>1, <2>2
<1>4. KeyEra
  BY <1>1, <1>2, <1>3 DEF KeyEra, HadSynth, TypeOK
<1>5. Shows' = committed \o Toned(word)
  BY <1>1 DEF Shows
<1>6. <<>> \in Seq(Sendable) /\ Ending(<<>>) /\ <<>> \in Texts
  BY Sets, NoText DEF Ending
<1>7. Arrived(committed \o Toned(word), <<>>) = Shows'
  BY <1>5, ArrivedNone
<1> DEFINE new == Toned(word)
           none == <<>>
           s == <<"s">>
<1>8. CASE ~Injector.bait /\ ~SkipEmpty /\ ~IsSyncReplaceChannel
  <2>1. ReplaceComposition(Append(word, "s"), word', s, none)
    BY <1>8 DEF Tone
  <2>2. "s" \in Glyphs /\ s \in Texts
    BY GlyphType DEF Texts
  <2>3. Append(word, "s") = word \o s
    BY <1>2, <2>2, ConcatOne DEF Texts
  <2> DEFINE common == Len(LongestCommonPrefix({word \o s, new}))
  <2>4. common \in Nat /\ common < Len(word)
    <3>1. common = Len(LongestCommonPrefix({Append(word, "s"), Toned(word)}))
      BY <2>3
    <3> HIDE DEF common
    <3>2. QED  BY <1>1, <1>2, <3>1, ToneDeletes
  <2>5. common <= Len(word)
    <3>1. Len(word) \in Nat
      BY <1>2 DEF Texts
    <3> HIDE DEF common
    <3>2. QED  BY <2>4, <3>1
  <2>6. ReplaceComposition(word \o s, new, s, none)
    BY <1>1, <2>1, <2>3
  <2>7. new \in Texts /\ none \in Seq(Sendable) /\ Ending(none)
        /\ Arrived(committed \o new, none) = Shows'
    BY <1>3, <1>6, <1>7
  <2> HIDE DEF new, none, s
  <2>8. KeyText
    BY <1>1, <1>8, <2>2, <2>5, <2>6, <2>7, ComposeText
  <2>9. QED  BY <1>4, <2>8
<1>9. CASE ~(~Injector.bait /\ ~SkipEmpty /\ ~IsSyncReplaceChannel)
  <2>1. ReplaceComposition(word, word', none, none)
    BY <1>9 DEF Tone
  <2>2. word \o none = word
    BY <1>2 DEF Texts
  <2>3. ReplaceComposition(word \o none, new, none, none)
    BY <1>1, <2>1, <2>2
  <2>4. new \in Texts /\ none \in Seq(Sendable) /\ none \in Texts /\ Ending(none)
        /\ Arrived(committed \o new, none) = Shows' /\ none = <<>>
    BY <1>3, <1>6, <1>7
  <2> HIDE DEF new, none
  <2>5. KeyText
    BY <1>1, <2>3, <2>4, ComposeText
  <2>6. QED  BY <1>4, <2>5
<1>10. QED  BY <1>8, <1>9

\* The text without its last character.
LEMMA Shorter ==
  ASSUME NEW c \in Texts, NEW w \in Texts, w /= <<>>
  PROVE  /\ 1 <= Len(c \o w) /\ Replaced(c \o w, 1, <<>>) = c \o Front(w)
         /\ c \o w /= <<>> /\ Front(c \o w) = c \o Front(w)
<1>1. /\ c \in Seq(Glyphs) /\ w \in Seq(Glyphs) /\ Len(c) \in Nat /\ Len(w) \in Nat
      /\ Len(w) > 0
  BY DEF Texts
<1> DEFINE k == Len(w) - 1
<1>2. k \in 0 .. Len(w) /\ Front(w) = SubSeq(w, 1, k)
  BY <1>1 DEF Front
<1>3. Len(c \o w) = Len(c) + Len(w) /\ c \o w \in Seq(Glyphs) /\ c \o w /= <<>>
  BY <1>1
<1>4. SubSeq(c \o w, 1, Len(c) + k) = c \o SubSeq(w, 1, k)
  BY <1>1, <1>2, Cut
<1>5. Len(c \o w) - 1 = Len(c) + k
  BY <1>1, <1>3
<1> DEFINE r == c \o Front(w)
<1>6. r \in Seq(Glyphs)
  BY <1>1, <1>2
<1>7. SubSeq(c \o w, 1, Len(c \o w) - 1) = r
  BY <1>2, <1>4, <1>5
<1> HIDE DEF r
<1>8. r \o <<>> = r
  BY <1>6
<1>9. Replaced(c \o w, 1, <<>>) = r
  BY <1>7, <1>8 DEF Replaced
<1>10. Front(c \o w) = r
  BY <1>7 DEF Front
<1>11. 1 <= Len(c \o w)
  BY <1>1, <1>3
<1>12. QED  BY <1>3, <1>9, <1>10, <1>11 DEF r

LEMMA BackspaceText ==
  ASSUME Inv, GuardedWindows, InStep', Backspace
  PROVE  KeyEra /\ KeyText
<1>1. /\ Press /\ word \in Texts /\ committed \in Texts /\ era \in Nat
      /\ Waiting \in Nat /\ hadSynth \in BOOLEAN /\ win \in Windows
  BY DEF Backspace, Inv, TypeOK, Waiting
<1>2. CASE word = <<>>
  <2>1. /\ committed' = (IF committed = <<>> THEN committed ELSE Front(committed))
        /\ word' = <<>> /\ era' = era + 1
    <3>1. Len(word) = 0
      BY <1>2
    <3>2. QED  BY <1>2, <3>1 DEF Backspace
  <2>2. Shows = committed /\ Shows' = committed'
    <3>1. committed' \in Texts
      BY <1>1, <2>1, FrontType DEF Texts
    <3>2. QED  BY <1>1, <1>2, <2>1, <3>1 DEF Shows, Texts
  <2>3. ASSUME NEW e, e.op = "back" PROVE Typed(Shows, e) = Shows'
    BY <2>1, <2>2, <2>3 DEF Typed
  <2>4. KeyEra
    BY <1>1, <2>1 DEF KeyEra
  <2>5. CASE Waiting > 0
    <3> DEFINE e == Event("back", <<>>, 2)
    <3>1. InjectKey(e)
      BY <1>1, <1>2, <2>5 DEF Backspace
    <3>2. e \in Sendable /\ e.op = "back" /\ e.era = era
      BY <1>1, KeyTypes DEF Event
    <3> HIDE DEF e
    <3>3. Typed(Shows, e) = Shows'
      BY <2>3, <3>2
    <3>4. era' /= era
      BY <1>1, <2>1
    <3>5. KeyText
      BY <2>1, <3>1, <3>2, <3>3, <3>4, InjectText
    <3>6. QED  BY <2>4, <3>5
  <2>6. CASE Waiting = 0
    <3> DEFINE e == Event("back", <<>>, 0)
    <3>1. Pass(e, Watched)
      BY <1>1, <1>2, <2>6 DEF Backspace
    <3>2. e \in Events /\ e.op = "back" /\ e.era = era /\ e.own = 0
      BY <1>1, KeyTypes DEF Event
    <3> HIDE DEF e
    <3>3. Typed(Shows, e) = Shows'
      BY <2>3, <3>2
    <3>4. Watched \subseteq Watched
      OBVIOUS
    <3>5. KeyText
      BY <1>1, <1>2, <2>1, <2>6, <3>1, <3>2, <3>3, <3>4, PassText
    <3>6. QED  BY <2>4, <3>5
  <2>7. QED  BY <1>1, <2>5, <2>6
<1>3. CASE word /= <<>>
  <2>1. committed' = committed /\ word' = Front(word)
    BY <1>3 DEF Backspace
  <2>2. /\ Front(word) \in Texts /\ Len(Front(word)) = Len(word) - 1
        /\ Len(word) \in Nat /\ Len(word) > 0
    BY <1>1, <1>3, FrontType DEF Texts
  <2>3. Shows' = committed \o Front(word) /\ Shows = committed \o word
    BY <2>1 DEF Shows
  <2>4. /\ 1 <= Len(Shows) /\ Replaced(Shows, 1, <<>>) = Shows'
    BY <1>1, <1>3, <2>3, Shorter
  <2>5. CASE Len(word) = 1
    <3>1. era' = era + 1
      BY <2>5 DEF Backspace
    <3>2. KeyEra
      BY <1>1, <3>1 DEF KeyEra
    <3>3. CASE IsSyncReplaceChannel
      <4>1. Busy("raw", 1, <<>>, <<>>)
        BY <1>3, <2>5, <3>3 DEF Backspace
      <4>2. KeyText
        BY <1>3, <2>4, <4>1, NoText, BusyText DEF Ways
      <4>3. QED  BY <3>2, <4>2
    <3>4. CASE ~IsSyncReplaceChannel
      <4> DEFINE q == Batches(1, <<>>)
                 all == Send(q)
      <4>1. Dispatch(Waiting, Watched, q) /\ appq' = appq /\ hook' = hook
        BY <1>3, <2>5, <3>4 DEF Backspace
      <4>2. q \in Seq(AllBatches)
        BY <1>1, NoText, BatchesType
      <4>3. /\ all \in Seq(Sendable) /\ \A e \in ToSet(all) : e.era = era
            /\ Injector.bait => Safe(all, TRUE)
        BY <1>1, NoText, BatchesKeys
      <4>4. Shows \in Screens
        BY <1>1, TextsOnScreen DEF Shows
      <4>5. Arrived(Shows, all) = Shows'
        BY <1>1, <2>4, <4>4, NoText, BatchesArrive
      <4> HIDE DEF q
      <4>6. PICK sent \in Seq(Sendable) : Sends(Waiting, Watched, all, sent)
        BY <4>1, <4>2, Tracked DEF Dispatch
      <4> HIDE DEF all
      <4>7. sys' = sys \o all
        <5>1. "partial" \notin slips'
          BY DEF InStep, Losses
        <5>2. QED  BY <4>6, <5>1 DEF Sends
      <4>8. Suggests => Safe(all, TRUE)
        BY <1>1, <3>4, <4>3, Traits
      <4>9. era' /= era
        BY <1>1, <3>1
      <4>10. SentText(all)
        BY <3>4, <4>1, <4>3, <4>5, <4>7, <4>8, <4>9 DEF SentText
      <4>11. QED  BY <3>2, <4>3, <4>10 DEF KeyText
    <3>5. QED  BY <3>3, <3>4
  <2>6. CASE Len(word) /= 1
    <3>1. Len(word) > 1 /\ Front(word) /= <<>>
      BY <2>2, <2>6
    <3>2. HadSynth /\ era' = era
      BY <3>1 DEF Backspace
    <3> DEFINE new == Front(word)
               none == <<>>
    <3>3. ReplaceComposition(word, new, none, none)
      BY <1>3, <2>6 DEF Backspace
    <3>4. word \o none = word
      BY <1>1 DEF Texts
    <3>5. ReplaceComposition(word \o none, new, none, none)
      BY <3>3, <3>4
    <3>6. /\ new \in Texts /\ none \in Seq(Sendable) /\ none \in Texts
          /\ Ending(none) /\ none = <<>> /\ Arrived(committed \o new, none) = Shows'
      <4>1. Ending(<<>>) /\ <<>> \in Seq(Sendable)
        BY Sets DEF Ending
      <4>2. Arrived(committed \o new, <<>>) = committed \o new
        BY ArrivedNone
      <4>3. QED  BY <2>2, <2>3, <4>1, <4>2, NoText
    <3>7. KeyEra
      BY <1>1, <2>1, <3>1, <3>2 DEF KeyEra, HadSynth
    <3> HIDE DEF new, none
    <3>8. KeyText
      BY <1>1, <3>2, <3>5, <3>6, ComposeText
    <3>9. QED  BY <3>7, <3>8
  <2>7. QED  BY <2>5, <2>6
<1>4. QED  BY <1>2, <1>3

LEMMA TriggerText ==
  ASSUME Inv, GuardedWindows, InStep', NEW c \in Ends, Trigger(c)
  PROVE  KeyEra /\ KeyText
<1>1. /\ Press /\ word \in Texts /\ committed \in Texts /\ era \in Nat
      /\ Waiting \in Nat
      /\ word' = <<>> /\ era' = era + 1 /\ hadSynth' = FALSE
  BY DEF Trigger, Inv, TypeOK, Waiting
<1>2. KeyEra /\ era' /= era
  BY <1>1 DEF KeyEra
<1>3. /\ c \in Glyphs /\ <<c>> \in Texts /\ Raw(word) \in Texts
      /\ committed \in Seq(Glyphs) /\ word \in Seq(Glyphs) /\ Raw(word) \in Seq(Glyphs)
  <2>1. c \in Glyphs
    BY GlyphType
  <2>2. QED  BY <1>1, <2>1, RawType DEF Texts
<1> DEFINE e == Event("text", <<c>>, 0)
           typed == Event("text", <<c>>, 2)
           over == Watched \cup IF sys # <<>> THEN {"overtaken"} ELSE {}
           none == <<>>
<1>4. /\ e \in Events /\ e.own = 0 /\ e.op = "text" /\ e.text = <<c>> /\ e.era = era
      /\ typed \in Sendable /\ typed.op = "text" /\ typed.text = <<c>> /\ typed.era = era
  <2>1. "text" \in Ops /\ 2 \in 1 .. 4 /\ 0 \in 0 .. 4
    BY DEF Ops
  <2>2. QED  BY <1>1, <1>3, <2>1, SendableType, EventType DEF Event
<1>5. \/ word = <<>> /\ Pass(e, over) /\ committed' = Append(committed, c)
      \/ /\ ReplaceComposition(word, Raw(word), none, <<typed>>)
         /\ committed' = committed \o Raw(word) \o <<c>>
      \/ /\ committed' = committed \o word \o <<c>>
         /\ \/ Waiting > 0 /\ InjectKey(typed)
            \/ Waiting = 0 /\ IsSyncReplaceChannel /\ Busy("trigger", 0, <<c>>, <<>>)
            \/ Waiting = 0 /\ Pass(e, Watched)
  <2>1. CASE word = <<>>
    BY <2>1 DEF Trigger
  <2>2. CASE word /= <<>> /\ ReplaceComposition(word, Raw(word), none, <<typed>>)
             /\ committed' = committed \o Raw(word) \o <<c>>
    BY <2>2
  <2>3. CASE /\ word /= <<>> /\ committed' = committed \o word \o <<c>>
             /\ CASE Waiting > 0 -> InjectKey(typed)
                  [] Waiting = 0 /\ IsSyncReplaceChannel /\ c = "_" ->
                       Busy("trigger", 0, <<c>>, <<>>)
                  [] OTHER -> Pass(e, Watched)
    <3> HIDE DEF e, typed
    <3>1. Waiting > 0 \/ Waiting = 0
      BY <1>1
    <3>2. QED  BY <1>1, <2>3, <3>1
  <2>4. QED  BY <2>1, <2>2, <2>3 DEF Trigger
<1>6. Watched \subseteq over /\ Watched \subseteq Watched
      /\ (sys /= <<>> => "overtaken" \in over)
  OBVIOUS
<1>7. e.text \in {<<k>> : k \in Ends}
  BY <1>4
<1> HIDE DEF e, typed, over
<1>8. Typed(Shows, e) = Shows \o <<c>> /\ Typed(Shows, typed) = Shows \o <<c>>
  BY <1>4 DEF Typed
<1>9. CASE word = <<>> /\ Pass(e, over) /\ committed' = Append(committed, c)
  <2>1. Shows = committed /\ Shows' = committed'
    BY <1>1, <1>3, <1>9 DEF Shows
  <2>2. Shows' = Shows \o <<c>>
    BY <1>3, <1>9, <2>1, ConcatOne
  <2>3. Typed(Shows, e) = Shows'
    BY <1>8, <2>2
  <2>4. KeyText
    BY <1>1, <1>4, <1>6, <1>7, <1>9, <2>3, PassText
  <2>5. QED  BY <1>2, <2>4
<1>10. CASE /\ ReplaceComposition(word, Raw(word), none, <<typed>>)
            /\ committed' = committed \o Raw(word) \o <<c>>
  <2> DEFINE new == Raw(word)
             next == <<typed>>
  <2>1. next \in Seq(Sendable) /\ ToSet(next) = {typed} /\ typed \in Events
    BY <1>4, Sets DEF Sendable
  <2>2. \A k \in ToSet(next) : k.op = "text" /\ k.era = era
    BY <1>4, <2>1
  <2>3. Ending(next)
    BY <1>1, <2>2 DEF Ending
  <2>4. Arrived(committed \o new, next) = Shows'
    <3>1. Arrived(committed \o new, <<typed>>) = (committed \o new) \o <<c>>
      BY <1>4, <2>1, ArrivedText
    <3>2. Shows' = committed'
      <4>1. committed \o new \o <<c>> \in Seq(Glyphs)
        BY <1>3
      <4>2. QED  BY <1>1, <1>10, <4>1 DEF Shows
    <3>3. QED  BY <1>10, <3>1, <3>2
  <2>5. ReplaceComposition(word \o none, new, none, next)
    <3>1. word \o none = word
      BY <1>3
    <3>2. QED  BY <1>10, <3>1
  <2>6. new \in Texts /\ none \in Texts /\ none = <<>>
    BY <1>3, NoText
  <2> HIDE DEF new, next, none
  <2>7. KeyText
    BY <1>1, <1>2, <2>1, <2>3, <2>4, <2>5, <2>6, ComposeText
  <2>8. QED  BY <1>2, <2>7
<1>11. CASE /\ committed' = committed \o word \o <<c>>
            /\ \/ Waiting > 0 /\ InjectKey(typed)
               \/ Waiting = 0 /\ IsSyncReplaceChannel /\ Busy("trigger", 0, <<c>>, <<>>)
               \/ Waiting = 0 /\ Pass(e, Watched)
  <2>1. Shows' = Shows \o <<c>>
    <3>1. committed \o word \o <<c>> \in Seq(Glyphs)
      BY <1>3
    <3>2. QED  BY <1>1, <1>11, <3>1 DEF Shows
  <2>2. CASE InjectKey(typed)
    <3>1. KeyText
      BY <1>1, <1>2, <1>4, <1>8, <2>1, <2>2, InjectText
    <3>2. QED  BY <1>2, <3>1
  <2>3. CASE IsSyncReplaceChannel /\ Busy("trigger", 0, <<c>>, <<>>)
    <3>1. Shows \in Seq(Glyphs)
      BY <1>3 DEF Shows
    <3>2. 0 <= Len(Shows) /\ Replaced(Shows, 0, <<c>>) = Shows'
      <4>1. \A t \in Seq(Glyphs) : 0 <= Len(t) /\ SubSeq(t, 1, Len(t) - 0) = t
        OBVIOUS
      <4>2. 0 <= Len(Shows) /\ SubSeq(Shows, 1, Len(Shows) - 0) = Shows
        BY <3>1, <4>1
      <4>3. QED  BY <2>1, <4>2 DEF Replaced
    <3>3. KeyText
      BY <1>3, <2>3, <3>2, BusyText DEF Ways
    <3>4. QED  BY <1>2, <3>3
  <2>4. CASE Waiting = 0 /\ Pass(e, Watched)
    <3>1. KeyText
      BY <1>1, <1>4, <1>6, <1>7, <1>8, <2>1, <2>4, PassText
    <3>2. QED  BY <1>2, <3>1
  <2>5. QED  BY <1>11, <2>2, <2>3, <2>4
<1>12. QED  BY <1>5, <1>9, <1>10, <1>11

-----------------------------------------------------------------------------
(* A key keeps the invariant.                                              *)

LEMMA WindowStays ==
  ASSUME win' = win
  PROVE  /\ Suggests' = Suggests /\ Rendered' = Rendered
         /\ UseClipboardPaste' = UseClipboardPaste
BY DEF Suggests, Rendered, UseClipboardPaste, ClassifyWindow

LEMMA IdleFields ==
  Idle.bs = 0 /\ Idle.text = <<>> /\ Idle.next = <<>> /\ Idle.by = "nobody"
BY DEF Idle, Edit

LEMMA ReplacedNothing ==
  ASSUME NEW t \in Screens
  PROVE  Len(t) \in Nat /\ Replaced(t, 0, <<>>) = t
<1>1. SubSeq(t, 1, Len(t) - 0) = t /\ t \o <<>> = t /\ Len(t) \in Nat
  BY DEF Screens
<1>2. QED  BY <1>1 DEF Replaced

LEMMA InFlight ==
  ASSUME TypeOK
  PROVE  /\ sys \in Seq(Events) /\ appq \in Seq(Events) /\ Flight \in Seq(Events)
         /\ screen \in Screens /\ Arrived(screen, Flight) \in Screens
<1>1. sys \in Seq(Events) /\ appq \in Seq(Events) /\ screen \in Screens
  BY SeqTypes DEF TypeOK, Screens
<1>2. Flight \in Seq(Events)
  BY <1>1 DEF Flight
<1>3. QED  BY <1>1, <1>2, ArrivedType

LEMMA NothingLeft ==
  ASSUME NEW t \in Screens
  PROVE  /\ Idle.bs <= Len(t)
         /\ Arrived(Replaced(t, Idle.bs, Idle.text), Idle.next) = t
<1>1. Len(t) \in Nat /\ Replaced(t, 0, <<>>) = t
  BY ReplacedNothing
<1>2. QED  BY <1>1, IdleFields, ArrivedNone

LEMMA ShownIdle ==
  ASSUME TypeOK, hook = Idle
  PROVE  Shown <=> Arrived(screen, Flight) = Shows
<1> DEFINE t == Arrived(screen, Flight)
<1>1. t \in Screens
  BY InFlight
<1> HIDE DEF t
<1>2. QED  BY <1>1, NothingLeft DEF Shown, t

\* What was in flight before a key is no different after it.
LEMMA OldEras ==
  ASSUME TypeOK, Eras, KeyEra, Rendered, NEW e \in ToSet(appq) \cup ToSet(sys)
  PROVE  e.era <= era' /\ (e.own > 0 /\ e.era = era' => hadSynth' /\ word' /= <<>>)
<1>1. e \in Events
  <2>1. ToSet(appq) \subseteq Events /\ ToSet(sys) \subseteq Events
    BY InFlight, Sets
  <2>2. QED  BY <2>1
<1>2. e.era \in Nat /\ era \in Nat
  BY <1>1 DEF Events, TypeOK
<1>3. e.era <= era /\ (e.own > 0 /\ e.era = era => hadSynth /\ word /= <<>>)
  BY DEF Eras
<1>4. era' \in {era, era + 1} /\ (era' = era => word' /= <<>> /\ (hadSynth => hadSynth'))
  BY DEF KeyEra
<1>5. CASE era' = era
  BY <1>3, <1>4, <1>5
<1>6. CASE era' = era + 1
  <2>1. e.era <= era' /\ e.era /= era'
    BY <1>2, <1>3, <1>6
  <2>2. QED  BY <2>1
<1>7. QED  BY <1>4, <1>5, <1>6

LEMMA KeyKeepsText ==
  ASSUME Inv, Inv', TextInv, InStep, Press, KeyEra, KeyText
  PROVE  TextInv'
<1>1. /\ late = Idle /\ Shown /\ EditAlone /\ NextLast /\ Shielded /\ Eras
  BY DEF TextInv
<1>2. /\ hook = Idle /\ win' = win /\ screen' = screen /\ sugg' = sugg /\ late' = late
  BY Pressed
<1>3. /\ IsSyncReplaceChannel' = IsSyncReplaceChannel
      /\ Suggests' = Suggests /\ Rendered' = Rendered /\ UseClipboardPaste' = UseClipboardPaste
  BY <1>2, ChannelStays, WindowStays
<1>4. TypeOK /\ TypeOK' /\ era \in Nat /\ era' \in Nat /\ sugg \in BOOLEAN
  BY DEF Inv, TypeOK
<1>5. /\ sys \in Seq(Events) /\ appq \in Seq(Events) /\ Flight \in Seq(Events)
      /\ screen \in Screens /\ Arrived(screen, Flight) = Shows
  BY <1>1, <1>2, <1>4, InFlight, ShownIdle
<1>6. Rendered => \A e \in ToSet(appq) \cup ToSet(sys) :
        e.era <= era' /\ (e.own > 0 /\ e.era = era' => hadSynth' /\ word' /= <<>>)
  BY <1>1, <1>4, OldEras
<1>7. late' = Idle
  BY <1>1, <1>2
<1>8. ASSUME hook' = Idle PROVE NextLast' /\ (Arrived(screen', Flight') = Shows' => Shown')
  <2>1. NextLast'
    BY <1>8, IdleFields DEF NextLast
  <2> DEFINE t == Arrived(screen', Flight')
  <2>2. t \in Screens
    <3>1. sys' \in Seq(Events) /\ appq' \in Seq(Events) /\ screen' \in Screens
      BY <1>4, SeqTypes DEF TypeOK, Screens
    <3>2. Flight' \in Seq(Events)
      BY <3>1 DEF Flight
    <3>3. QED  BY <3>1, <3>2, ArrivedType
  <2> HIDE DEF t
  <2>3. t = Shows' => Shown'
    BY <1>8, <2>2, NothingLeft DEF Shown, t
  <2>4. QED  BY <2>1, <2>3 DEF t
<1>9. ASSUME NEW e \in Events, PassedText(e) PROVE TextInv'
  <2>1. /\ e.own = 0 /\ e.op /= "del" /\ e.era = era /\ sys = <<>>
        /\ appq' = Append(appq, e) /\ sys' = <<>> /\ hook' = Idle
        /\ Typed(Shows, e) = Shows'
        /\ IsSyncReplaceChannel => word' = <<>>
        /\ e.text \in {<<c>> : c \in Ends} \/ word = <<>> \/ (Rendered => ~hadSynth)
    BY <1>2, <1>9 DEF PassedText
  <2>2. Flight = appq /\ Flight' = Append(appq, e)
    <3>1. appq \o <<>> = appq /\ Append(appq, e) \o <<>> = Append(appq, e)
      BY <1>5
    <3>2. QED  BY <2>1, <3>1 DEF Flight
  <2>3. Shown'
    <3>1. Arrived(screen, Append(appq, e)) = Typed(Arrived(screen, appq), e)
      BY <1>5, ArrivedSnoc
    <3>2. QED  BY <1>2, <1>5, <1>8, <2>1, <2>2, <3>1
  <2>4. EditAlone'
    BY <1>3, <2>1, IdleFields DEF EditAlone
  <2>5. Shielded'
    <3>1. <<e>> \in Seq(Events) /\ ToSet(<<e>>) = {e}
      BY Sets
    <3>2. Safe(<<e>>, TRUE)
      BY <2>1, <3>1, SafeWithout
    <3>3. Suggests => Safe(appq \o <<e>>, sugg)
      BY <1>1, <1>4, <1>5, <2>2, <3>1, <3>2, SafeConcat DEF Shielded
    <3>4. appq \o <<e>> = Append(appq, e)
      BY <1>5, ConcatOne
    <3>5. QED  BY <1>1, <1>2, <1>3, <2>2, <3>3, <3>4 DEF Shielded
  <2>6. Eras'
    <3> SUFFICES ASSUME Rendered
                 PROVE  /\ \A k \in ToSet(appq') \cup ToSet(sys') :
                             /\ k.era <= era'
                             /\ k.own > 0 /\ k.era = era' => hadSynth' /\ word' /= <<>>
                        /\ \A j \in DOMAIN appq' : \A i \in 1 .. j - 1 :
                             appq'[i].own > 0 /\ appq'[j].own = 0 /\ appq'[i].era = appq'[j].era
                               => appq'[j].text \in {<<c>> : c \in Ends}
      BY <1>3 DEF Eras
    <3>1. ToSet(appq') = ToSet(appq) \cup {e} /\ ToSet(sys') = {}
      BY <1>5, <2>1, Sets
    <3>2. e.era <= era' /\ ~(e.own > 0)
      BY <1>4, <2>1 DEF KeyEra
    <3>3. \A k \in ToSet(appq') \cup ToSet(sys') :
             /\ k.era <= era'
             /\ k.own > 0 /\ k.era = era' => hadSynth' /\ word' /= <<>>
      BY <1>6, <3>1, <3>2
    <3>4. /\ Len(appq) \in Nat /\ DOMAIN appq = 1 .. Len(appq)
          /\ DOMAIN appq' = 1 .. Len(appq) + 1
          /\ \A i \in 1 .. Len(appq) : appq'[i] = appq[i]
          /\ appq'[Len(appq) + 1] = e
      BY <1>5, <2>1
    <3>5. ASSUME NEW j \in DOMAIN appq', NEW i \in 1 .. j - 1,
                 appq'[i].own > 0, appq'[j].own = 0, appq'[i].era = appq'[j].era
          PROVE  appq'[j].text \in {<<c>> : c \in Ends}
      <4>0. i \in 1 .. Len(appq) /\ appq'[i] = appq[i] /\ appq[i] \in ToSet(appq)
        <5>1. i \in 1 .. Len(appq)
          BY <3>4
        <5>2. QED  BY <3>4, <5>1 DEF ToSet
      <4>1. CASE j = Len(appq) + 1
        <5>1. appq'[j] = e
          BY <3>4, <4>1
        <5>2. hadSynth /\ word /= <<>>
          BY <1>1, <2>1, <3>5, <4>0, <5>1 DEF Eras
        <5>3. QED  BY <2>1, <5>1, <5>2
      <4>2. CASE j /= Len(appq) + 1
        <5>1. j \in DOMAIN appq /\ appq'[j] = appq[j]
          BY <3>4, <4>2
        <5>2. QED  BY <1>1, <3>5, <4>0, <5>1 DEF Eras
      <4>3. QED  BY <4>1, <4>2
    <3>6. QED  BY <3>3, <3>5
  <2>7. QED  BY <1>7, <1>8, <2>1, <2>3, <2>4, <2>5, <2>6 DEF TextInv
<1>10. ASSUME NEW all \in Seq(Sendable), SentText(all) PROVE TextInv'
  <2>1. /\ sys' = sys \o all /\ appq' = appq /\ hook' = Idle
        /\ Arrived(Shows, all) = Shows'
        /\ IsSyncReplaceChannel => word' = <<>>
        /\ \A e \in ToSet(all) : e.era = era
        /\ Suggests => Safe(all, TRUE)
        /\ era' = era /\ all /= <<>> => hadSynth'
    BY <1>2, <1>10 DEF SentText
  <2>2. all \in Seq(Events)
    BY SeqTypes
  <2>3. Flight' = Flight \o all
    <3>1. (appq \o sys) \o all = appq \o (sys \o all)
      BY ONLY <1>5, <2>2, Associative, SMTT(30)
    <3>2. QED  BY <2>1, <3>1 DEF Flight
  <2>4. Shown'
    <3>1. Arrived(screen, Flight \o all) = Arrived(Arrived(screen, Flight), all)
      BY <1>5, <2>2, ArrivedConcat
    <3>2. QED  BY <1>2, <1>5, <1>8, <2>1, <2>3, <3>1
  <2>5. EditAlone'
    BY <1>3, <2>1, IdleFields DEF EditAlone
  <2>6. Shielded'
    <3>1. Suggests => Safe(Flight \o all, sugg)
      BY <1>1, <1>4, <1>5, <2>1, <2>2, SafeConcat DEF Shielded
    <3>2. QED  BY <1>1, <1>2, <1>3, <2>3, <3>1 DEF Shielded
  <2>7. Eras'
    <3> SUFFICES ASSUME Rendered
                 PROVE  \A k \in ToSet(appq') \cup ToSet(sys') :
                          /\ k.era <= era'
                          /\ k.own > 0 /\ k.era = era' => hadSynth' /\ word' /= <<>>
      BY <1>1, <1>3, <2>1 DEF Eras
    <3>1. ToSet(sys \o all) = ToSet(sys) \cup ToSet(all)
      BY <1>4, BothSets DEF TypeOK
    <3>2. ASSUME NEW k \in ToSet(all)
          PROVE  k.era <= era' /\ (k.own > 0 /\ k.era = era' => hadSynth' /\ word' /= <<>>)
      <4>1. k.era = era /\ all /= <<>>
        BY <2>1, <3>2, Sets
      <4>2. era <= era' /\ (era' = era => word' /= <<>>)
        BY <1>4 DEF KeyEra
      <4>3. QED  BY <2>1, <4>1, <4>2
    <3>3. QED  BY <1>6, <2>1, <3>1, <3>2
  <2>8. QED  BY <1>7, <1>8, <2>1, <2>4, <2>5, <2>6, <2>7 DEF TextInv
<1>11. ASSUME NEW edit \in Edits, HeldText(edit) PROVE TextInv'
  <2>1. /\ hook' = edit /\ appq' = appq /\ sys' = sys
        /\ edit.bs <= Len(Shows)
        /\ Arrived(Replaced(Shows, edit.bs, edit.text), edit.next) = Shows'
        /\ IsSyncReplaceChannel /\ edit.bs > 0 => word /= <<>>
        /\ edit.by = "vb6" => UseClipboardPaste
        /\ edit.next /= <<>> =>
             word' = <<>> /\ \A e \in ToSet(edit.next) : e.op = "text" /\ e.era < era'
    BY <1>11 DEF HeldText
  <2>2. Flight' = Flight
    BY <2>1 DEF Flight
  <2>3. Shown'
    BY <1>2, <1>5, <2>1, <2>2 DEF Shown
  <2>4. EditAlone'
    <3>1. edit /= Idle
      BY IdleWay
    <3>2. IsSyncReplaceChannel /\ word /= <<>> => Flight = <<>>
      BY <1>1, <1>2 DEF EditAlone
    <3>3. QED  BY <1>3, <2>1, <2>2, <3>1, <3>2 DEF EditAlone
  <2>5. NextLast'
    BY <2>1 DEF NextLast
  <2>6. Shielded'
    BY <1>1, <1>2, <1>3, <2>2 DEF Shielded
  <2>7. Eras'
    BY <1>1, <1>3, <1>6, <2>1 DEF Eras
  <2>8. QED  BY <1>7, <2>3, <2>4, <2>5, <2>6, <2>7 DEF TextInv
<1>12. QED  BY <1>9, <1>10, <1>11 DEF KeyText

-----------------------------------------------------------------------------
(* The other steps keep it.                                                *)

LEMMA BackInStep ==
  ASSUME slips \subseteq slips', InStep'
  PROVE  InStep
BY DEF InStep

LEMMA DecrementText ==
  ASSUME Inv, TextInv, InStep', DecrementSynthEvents
  PROVE  TextInv'
<1>1. /\ sys \in Seq(Sendable) /\ sys /= <<>> /\ appq \in Seq(Events) /\ hook = Idle
      /\ sys' = Tail(sys) /\ appq' = Append(appq, Head(sys))
      /\ screen' = screen /\ slips' = slips /\ hook' = hook /\ win' = win
      /\ sugg' = sugg /\ late' = late /\ word' = word /\ committed' = committed
      /\ era' = era /\ hadSynth' = hadSynth
  BY DEF DecrementSynthEvents, Keep, Inv, TypeOK
<1>2. /\ late = Idle /\ Shown /\ EditAlone /\ NextLast /\ Shielded /\ Eras
  BY <1>1 DEF TextInv, InStep
<1>3. /\ Head(sys) \in Events /\ Head(sys).own > 0 /\ Head(sys).own \in Nat
      /\ Tail(sys) \in Seq(Events) /\ sys \in Seq(Events)
      /\ Head(sys) \in ToSet(sys) /\ ToSet(Tail(sys)) \subseteq ToSet(sys)
  <2>1. /\ Head(sys) \in Events /\ Head(sys).own > 0 /\ Head(sys).own \in Nat
        /\ Tail(sys) \in Seq(Sendable)
    BY <1>1, TailType
  <2>2. Head(sys) \in ToSet(sys) /\ ToSet(Tail(sys)) \subseteq ToSet(sys)
    BY <1>1, Sets
  <2>3. QED  BY <1>1, <2>1, <2>2, SeqTypes
<1>4. Flight' = Flight
  <2>1. \A q \in Seq(Events), s \in Seq(Events) :
          s /= <<>> => Append(q, Head(s)) \o Tail(s) = q \o s
    <3>1. ASSUME NEW q \in Seq(Events), NEW s \in Seq(Events), s /= <<>>
          PROVE  Append(q, Head(s)) \o Tail(s) = q \o s
      <4> DEFINE h == <<Head(s)>>
                 t == Tail(s)
      <4>1. h \in Seq(Events) /\ t \in Seq(Events) /\ Append(q, Head(s)) = q \o h
        BY <3>1
      <4>2. s = h \o t
        <5> DEFINE r == h \o t
        <5>1. r \in Seq(Events) /\ Len(r) = Len(s) /\ \A i \in 1 .. Len(s) : r[i] = s[i]
          BY <3>1
        <5> HIDE DEF r
        <5>2. r = s
          BY <5>1
        <5>3. QED  BY <5>2 DEF r
      <4> HIDE DEF h, t
      <4>3. (q \o h) \o t = q \o (h \o t)
        BY <4>1, Associative
      <4>4. Append(q, Head(s)) \o t = q \o s
        BY <4>1, <4>2, <4>3
      <4>5. QED  BY <4>4 DEF t
    <3>2. QED  BY <3>1
  <2>2. QED  BY <1>1, <1>3, <2>1 DEF Flight
<1>5. /\ IsSyncReplaceChannel' = IsSyncReplaceChannel
      /\ Suggests' = Suggests /\ Rendered' = Rendered /\ UseClipboardPaste' = UseClipboardPaste
  BY <1>1, ChannelStays, WindowStays
<1>6. Shown'
  BY <1>1, <1>2, <1>4 DEF Shown, Shows
<1>7. EditAlone' /\ NextLast' /\ Shielded'
  BY <1>1, <1>2, <1>4, <1>5 DEF EditAlone, NextLast, Shielded
<1>8. Eras'
  <2> SUFFICES ASSUME Rendered
               PROVE  /\ \A e \in ToSet(appq') \cup ToSet(sys') :
                           e.era <= era /\ (e.own > 0 /\ e.era = era => hadSynth /\ word /= <<>>)
                      /\ \A j \in DOMAIN appq' : \A i \in 1 .. j - 1 :
                           appq'[i].own > 0 /\ appq'[j].own = 0 /\ appq'[i].era = appq'[j].era
                             => appq'[j].text \in {<<c>> : c \in Ends}
    BY <1>1, <1>5 DEF Eras
  <2>1. ToSet(appq') = ToSet(appq) \cup {Head(sys)} /\ ToSet(sys') \subseteq ToSet(sys)
    BY <1>1, <1>3, Sets
  <2>2. ToSet(appq') \cup ToSet(sys') \subseteq ToSet(appq) \cup ToSet(sys)
    BY <1>3, <2>1
  <2>3. /\ Len(appq) \in Nat /\ DOMAIN appq = 1 .. Len(appq)
        /\ DOMAIN appq' = 1 .. Len(appq) + 1
        /\ \A i \in 1 .. Len(appq) : appq'[i] = appq[i]
        /\ appq'[Len(appq) + 1] = Head(sys)
    BY <1>1, <1>3
  <2>4. ASSUME NEW j \in DOMAIN appq', NEW i \in 1 .. j - 1,
               appq'[i].own > 0, appq'[j].own = 0, appq'[i].era = appq'[j].era
        PROVE  appq'[j].text \in {<<c>> : c \in Ends}
    <3>1. j /= Len(appq) + 1
      BY <1>3, <2>3, <2>4
    <3>2. j \in DOMAIN appq /\ appq'[j] = appq[j] /\ appq'[i] = appq[i]
      BY <2>3, <3>1
    <3>3. QED  BY <1>2, <2>4, <3>2 DEF Eras
  <2>5. QED  BY <1>2, <2>2, <2>4 DEF Eras
<1>9. QED  BY <1>1, <1>2, <1>6, <1>7, <1>8 DEF TextInv

\* Handling the first event in the queue.
LEMMA HandledFirst ==
  ASSUME Inv, TextInv, InStep', Handle
  PROVE  /\ InStep /\ appq /= <<>> /\ appq \in Seq(Events) /\ appq' = Tail(appq)
         /\ screen' = Typed(screen, appq[1])
         /\ sugg' => appq[1].op = "text" /\ Suggests
         /\ UNCHANGED <<win, word, hadSynth, hook, committed, era, sys, late>>
<1>1. PICK i \in Handled :
        LET e == appq[i]
            strange == \E j \in 1..i-1 : \/ appq[j].era # e.era
                                         \/ e.op # "text"
                                         \/ e.text[1] \notin Letters
        IN /\ appq' = RemoveAt(appq, i)
           /\ CASE e.op = "text" ->
                     /\ screen' = screen \o e.text
                     /\ sugg' \in IF Suggests THEN BOOLEAN ELSE {FALSE}
                [] e.op = "bait" -> screen' = Append(screen, "bait") /\ sugg' = FALSE
                [] OTHER ->
                     /\ screen' = IF sugg \/ screen = << >> THEN screen ELSE Front(screen)
                     /\ sugg' = FALSE
           /\ slips' = slips \cup (IF strange THEN {"reordered"} ELSE {})
                             \cup (IF e.op = "back" /\ sugg THEN {"dismissed"} ELSE {})
           /\ Keep /\ UNCHANGED <<pending, quiet, sys, late, missed, n>>
  BY DEF Handle
<1>2. appq /= <<>> /\ appq \in Seq(Events) /\ i \in DOMAIN appq
  <2>1. appq /= <<>> /\ appq \in Seq(Events)
    BY DEF Handled, Inv, TypeOK
  <2>2. 1 \in DOMAIN appq
    BY <2>1
  <2>3. QED  BY <2>1, <2>2 DEF Handled
<1>3. /\ UNCHANGED <<win, word, hadSynth, hook, committed, era, sys, late>>
      /\ slips \subseteq slips'
  BY <1>1 DEF Keep
<1>4. /\ InStep /\ "reordered" \notin slips' /\ "dismissed" \notin slips'
  BY <1>3, BackInStep DEF InStep, Losses
<1>5. Shielded /\ Eras
  BY <1>4 DEF TextInv
<1>6. /\ \A j \in 1 .. i - 1 : /\ appq[j].era = appq[i].era
                               /\ appq[i].op = "text" /\ appq[i].text[1] \in Letters
      /\ ~(appq[i].op = "back" /\ sugg)
  <2> DEFINE strange == \E j \in 1..i-1 : \/ appq[j].era # appq[i].era
                                          \/ appq[i].op # "text"
                                          \/ appq[i].text[1] \notin Letters
  <2>1. slips' = slips \cup (IF strange THEN {"reordered"} ELSE {})
                   \cup (IF appq[i].op = "back" /\ sugg THEN {"dismissed"} ELSE {})
    BY <1>1
  <2> HIDE DEF strange
  <2>2. ~strange /\ ~(appq[i].op = "back" /\ sugg)
    BY <1>4, <2>1
  <2>3. QED  BY <2>2 DEF strange
<1>7. i = 1
  <2> SUFFICES ASSUME i /= 1 PROVE FALSE
    OBVIOUS
  <2>1. i \in Nat /\ i > 1 /\ 1 \in 1 .. i - 1
    BY <1>2
  <2>2. Rendered /\ appq[i].own = 0 /\ appq[1].own > 0
    BY <2>1, <1>2 DEF Handled, Rendered
  <2>3. appq[1].era = appq[i].era /\ appq[i].text[1] \in Letters
    BY <1>6, <2>1
  <2>4. appq[i].text \in {<<c>> : c \in Ends}
    BY <1>2, <1>5, <2>1, <2>2, <2>3 DEF Eras
  <2>5. PICK c \in Ends : appq[i].text = <<c>>
    BY <2>4
  <2>6. c \in Letters
    BY <2>3, <2>5
  <2>7. QED  BY <2>6, GlyphType
<1>8. appq' = Tail(appq)
  <2>1. RemoveAt(appq, 1) = SubSeq(appq, 1, 0) \o SubSeq(appq, 2, Len(appq))
    BY DEF RemoveAt
  <2>2. SubSeq(appq, 1, 0) = <<>> /\ SubSeq(appq, 2, Len(appq)) = Tail(appq)
        /\ Tail(appq) \in Seq(Events)
    BY <1>2
  <2>3. <<>> \o Tail(appq) = Tail(appq)
    BY <2>2
  <2>4. QED  BY <1>1, <1>7, <2>1, <2>2, <2>3
<1>9. sugg => Suggests /\ appq[1].op /= "del" /\ appq[1].op /= "back"
  <2>1. SUFFICES ASSUME sugg PROVE Suggests /\ appq[1].op /= "del" /\ appq[1].op /= "back"
    OBVIOUS
  <2>2. Suggests /\ Safe(Flight, sugg)
    BY <1>5, <2>1 DEF Shielded
  <2>3. 1 \in DOMAIN Flight /\ Flight[1] = appq[1]
    <3>1. sys \in Seq(Events)
      BY InFlight DEF Inv
    <3>2. Len(appq) \in Nat /\ Len(appq) > 0
      BY <1>2
    <3>3. QED  BY <1>2, <3>1, <3>2 DEF Flight
  <2>4. appq[1].op = "del" => ~sugg
    BY <2>2, <2>3 DEF Safe
  <2>5. QED  BY <1>6, <1>7, <2>1, <2>2, <2>4
<1>10. appq[1] \in Events /\ appq[1].op \in Ops
  <2>1. appq[1] \in Events
    BY <1>2
  <2>2. QED  BY <2>1 DEF Events
<1>11. screen' = Typed(screen, appq[1]) /\ (sugg' => appq[1].op = "text" /\ Suggests)
  <2>1. CASE appq[1].op = "text"
    BY <1>1, <1>7, <2>1 DEF Typed
  <2>2. CASE appq[1].op = "bait"
    BY <1>1, <1>7, <2>2 DEF Typed
  <2>3. CASE appq[1].op /= "text" /\ appq[1].op /= "bait"
    <3>1. ~sugg
      BY <1>9, <1>10, <2>3 DEF Ops
    <3>2. QED  BY <1>1, <1>7, <2>3, <3>1 DEF Typed
  <2>4. QED  BY <2>1, <2>2, <2>3
<1>12. QED  BY <1>2, <1>3, <1>4, <1>8, <1>11

LEMMA TailBehind ==
  ASSUME NEW q \in Seq(Events), NEW s \in Seq(Events), q /= <<>>
  PROVE  q \o s /= <<>> /\ Tail(q \o s) = Tail(q) \o s /\ (q \o s)[1] = q[1]
<1> DEFINE t == Tail(q)
           l == Tail(q \o s)
           r == t \o s
<1>1. t \in Seq(Events) /\ Len(t) = Len(q) - 1 /\ Len(q) \in Nat /\ Len(q) > 0
      /\ \A i \in 1 .. Len(t) : t[i] = q[i + 1]
  OBVIOUS
<1>2. /\ q \o s /= <<>> /\ (q \o s)[1] = q[1]
      /\ l \in Seq(Events) /\ Len(l) = Len(q) + Len(s) - 1 /\ Len(s) \in Nat
      /\ \A i \in 1 .. Len(l) : l[i] = (q \o s)[i + 1]
  OBVIOUS
<1> HIDE DEF t, l
<1>3. /\ r \in Seq(Events) /\ Len(r) = Len(t) + Len(s)
      /\ \A i \in 1 .. Len(t) : r[i] = t[i]
      /\ \A i \in 1 .. Len(s) : r[Len(t) + i] = s[i]
  <2>1. t \in Seq(Events)
    BY <1>1
  <2>2. r = t \o s
    OBVIOUS
  <2>3. t \o s \in Seq(Events) /\ Len(t \o s) = Len(t) + Len(s)
    BY <2>1
  <2>4. /\ \A i \in 1 .. Len(t) : (t \o s)[i] = t[i]
        /\ \A i \in 1 .. Len(s) : (t \o s)[Len(t) + i] = s[i]
    BY <2>1
  <2> HIDE DEF r
  <2>5. QED  BY <2>2, <2>3, <2>4
<1> HIDE DEF r
<1>4. ASSUME NEW i \in 1 .. Len(l) PROVE l[i] = r[i]
  <2>1. CASE i <= Len(t)
    <3>1. (q \o s)[i + 1] = q[i + 1]
      BY <1>1, <1>2, <2>1
    <3>2. QED  BY <1>1, <1>2, <1>3, <2>1, <3>1, SMTT(30)
  <2>2. CASE i > Len(t)
    <3>1. i - Len(t) \in 1 .. Len(s) /\ Len(t) + (i - Len(t)) = i
      BY <1>1, <1>2, <2>2
    <3>2. r[i] = s[i - Len(t)]
      BY <1>3, <3>1
    <3>3. (q \o s)[i + 1] = s[i - Len(t)]
      <4>1. i + 1 = Len(q) + (i - Len(t))
        BY <1>1, <1>2
      <4>2. QED  BY <3>1, <4>1
    <3>4. QED  BY <1>2, <3>2, <3>3
  <2>3. QED  BY <1>1, <1>2, <2>1, <2>2
<1>5. Len(l) = Len(r)
  BY <1>1, <1>2, <1>3
<1>6. l = r
  BY <1>2, <1>3, <1>4, <1>5
<1>7. QED  BY <1>2, <1>6 DEF l, r, t

LEMMA HeadTail ==
  ASSUME NEW s \in Seq(Events), s /= <<>>
  PROVE  s = <<s[1]>> \o Tail(s)
<1> DEFINE r == <<s[1]>> \o Tail(s)
<1>1. r \in Seq(Events) /\ Len(r) = Len(s) /\ \A i \in 1 .. Len(s) : r[i] = s[i]
  OBVIOUS
<1> HIDE DEF r
<1>2. r = s
  BY <1>1
<1>3. QED  BY <1>2 DEF r

LEMMA HandleText ==
  ASSUME Inv, TextInv, InStep', Handle
  PROVE  TextInv'
<1>1. /\ InStep /\ appq /= <<>> /\ appq \in Seq(Events) /\ appq' = Tail(appq)
      /\ screen' = Typed(screen, appq[1])
      /\ sugg' => appq[1].op = "text" /\ Suggests
      /\ UNCHANGED <<win, word, hadSynth, hook, committed, era, sys, late>>
  BY HandledFirst
<1>2. /\ late = Idle /\ Shown /\ EditAlone /\ NextLast /\ Shielded /\ Eras
  BY <1>1 DEF TextInv
<1>3. /\ sys \in Seq(Events) /\ Flight \in Seq(Events) /\ screen \in Screens
  BY InFlight DEF Inv
<1>4. /\ Tail(appq) \in Seq(Events) /\ appq[1] \in Events /\ appq[1] = Head(appq)
      /\ ToSet(Tail(appq)) \subseteq ToSet(appq)
  BY <1>1, Sets
<1>5. Flight /= <<>> /\ Flight' = Tail(Flight) /\ Flight[1] = appq[1]
      /\ Flight = <<appq[1]>> \o Flight'
  <2>1. Flight /= <<>> /\ Flight' = Tail(Flight) /\ Flight[1] = appq[1]
    BY <1>1, <1>3, TailBehind DEF Flight
  <2>2. QED  BY <1>3, <2>1, HeadTail
<1>6. /\ IsSyncReplaceChannel' = IsSyncReplaceChannel
      /\ Suggests' = Suggests /\ Rendered' = Rendered /\ UseClipboardPaste' = UseClipboardPaste
  BY <1>1, ChannelStays, WindowStays
<1>7. Arrived(screen', Flight') = Arrived(screen, Flight)
  <2>1. Flight' \in Seq(Events)
    BY <1>3, <1>5
  <2>2. <<appq[1]>> \in Seq(Events) /\ Arrived(screen, <<appq[1]>>) = Typed(screen, appq[1])
    BY <1>4, ArrivedOne
  <2>3. Arrived(screen, <<appq[1]>> \o Flight') = Arrived(Arrived(screen, <<appq[1]>>), Flight')
    BY <2>1, <2>2, ArrivedConcat
  <2>4. QED  BY <1>1, <1>5, <2>2, <2>3
<1>8. Shown'
  BY <1>1, <1>2, <1>7 DEF Shown, Shows
<1>9. EditAlone' /\ NextLast'
  BY <1>1, <1>2, <1>5, <1>6 DEF EditAlone, NextLast
<1>10. Shielded'
  <2>1. sugg \in BOOLEAN /\ sugg' \in BOOLEAN
    BY HandleEffect DEF Inv, TypeOK
  <2>2. Suggests => Safe(Tail(Flight), sugg')
    <3>1. SUFFICES ASSUME Suggests PROVE Safe(Tail(Flight), sugg')
      OBVIOUS
    <3>2. Safe(Flight, sugg)
      BY <1>2, <3>1 DEF Shielded
    <3>3. sugg' => Flight[1].op \notin {"bait", "del"}
      BY <1>1, <1>5
    <3>4. QED  BY <1>3, <1>5, <2>1, <3>2, <3>3, SafeTail
  <2>3. QED  BY <1>1, <1>5, <1>6, <2>2 DEF Shielded
<1>11. Eras'
  <2> SUFFICES ASSUME Rendered
               PROVE  /\ \A e \in ToSet(appq') \cup ToSet(sys) :
                           e.era <= era /\ (e.own > 0 /\ e.era = era => hadSynth /\ word /= <<>>)
                      /\ \A j \in DOMAIN appq' : \A i \in 1 .. j - 1 :
                           appq'[i].own > 0 /\ appq'[j].own = 0 /\ appq'[i].era = appq'[j].era
                             => appq'[j].text \in {<<c>> : c \in Ends}
    BY <1>1, <1>6 DEF Eras
  <2>1. ToSet(appq') \subseteq ToSet(appq)
    BY <1>1, <1>4
  <2>2. /\ Len(appq) \in Nat /\ DOMAIN appq = 1 .. Len(appq)
        /\ DOMAIN appq' = 1 .. Len(appq) - 1
        /\ \A i \in 1 .. Len(appq) - 1 : appq'[i] = appq[i + 1]
    BY <1>1
  <2>3. ASSUME NEW j \in DOMAIN appq', NEW i \in 1 .. j - 1,
               appq'[i].own > 0, appq'[j].own = 0, appq'[i].era = appq'[j].era
        PROVE  appq'[j].text \in {<<c>> : c \in Ends}
    <3>1. /\ j + 1 \in DOMAIN appq /\ i + 1 \in 1 .. (j + 1) - 1
          /\ appq'[j] = appq[j + 1] /\ appq'[i] = appq[i + 1]
      BY <2>2
    <3>2. QED  BY <1>2, <2>3, <3>1 DEF Eras
  <2>4. QED  BY <1>2, <2>1, <2>3 DEF Eras
<1>12. QED  BY <1>1, <1>2, <1>8, <1>9, <1>10, <1>11 DEF TextInv

-----------------------------------------------------------------------------
(* The edits of a busy hook thread keep it: a message that is taken does   *)
(* what Shown says at once, and a refusal sends keystrokes that do it.     *)

LEMMA NothingInFlight ==
  ASSUME NEW b, NEW t
  PROVE  Safe(<<>>, b) /\ ToSet(<<>>) = {} /\ Arrived(t, <<>>) = t
<1>1. ToSet(<<>>) = {}
  BY Sets
<1>2. Safe(<<>>, b)
  BY DEF Safe
<1>3. QED  BY <1>1, <1>2, ArrivedNone

LEMMA EditEmpty ==
  ASSUME TypeOK, Flight = <<>>
  PROVE  appq = <<>> /\ sys = <<>>
<1>1. appq \in Seq(Events) /\ sys \in Seq(Events)
  BY InFlight
<1>2. QED  BY <1>1 DEF Flight

\* What Done sends when nothing is lost.
LEMMA DoneSends ==
  ASSUME Inv, hook \in Edits, NEW s, Done(s), "partial" \notin slips'
  PROVE  s \subseteq slips' /\ hook' = Idle /\ sys' = sys \o hook.next
<1>1. hook.next \in Seq(Sendable) /\ sys \in Seq(Sendable)
  BY EditFields DEF Inv, TypeOK
<1>2. CASE hook.next = <<>>
  <2>1. slips' = s /\ sys' = sys /\ hook' = Idle
    BY <1>2 DEF Done
  <2>2. sys \o <<>> = sys
    BY <1>1
  <2>3. QED  BY <1>2, <2>1, <2>2
<1>3. CASE hook.next /= <<>>
  <2> DEFINE b == Batch(hook.next, TRUE)
  <2>1. b \in AllBatches /\ b.events = hook.next
    BY <1>1, BatchType
  <2>2. hook' = Idle /\ TrackedSendInput(pending, s \cup Posted, <<b>>)
    BY <1>3 DEF Done, Dispatch
  <2> HIDE DEF b
  <2>3. <<b>> \in Seq(AllBatches) /\ Send(<<b>>) = hook.next
    BY <2>1, SendOne
  <2>4. PICK sent \in Seq(Sendable) : Sends(pending, s \cup Posted, Send(<<b>>), sent)
    BY <2>2, <2>3, Tracked
  <2>5. QED  BY <2>2, <2>3, <2>4 DEF Sends
<1>4. QED  BY <1>2, <1>3

LEMMA SucceedsText ==
  ASSUME Inv, TextInv, InStep', EditSucceeds
  PROVE  TextInv'
<1> DEFINE s == slips \cup IF appq \o sys # <<>> THEN {"overtook"} ELSE {}
<1>1. /\ hook /= Idle /\ hook \in Edits /\ Done(s)
      /\ screen' = Replaced(screen, hook.bs, hook.text)
      /\ UNCHANGED <<win, word, committed, era, sugg, appq, late>>
  BY DEF EditSucceeds, EditStep, Inv, TypeOK
<1>2. /\ "partial" \notin slips' /\ "overtook" \notin slips'
  BY DEF InStep, Losses
<1>3. s \subseteq slips' /\ hook' = Idle /\ sys' = sys \o hook.next
  BY <1>1, <1>2, DoneSends
<1>4. Flight = <<>> /\ slips \subseteq slips'
  BY <1>2, <1>3 DEF Flight
<1>5. InStep
  BY <1>4, BackInStep
<1>6. late = Idle /\ Shown /\ NextLast /\ Shielded
  BY <1>5 DEF TextInv
<1>7. appq = <<>> /\ sys = <<>>
  BY <1>4, EditEmpty DEF Inv
<1>8. hook.next \in Seq(Events) /\ sys' = hook.next /\ Flight' = hook.next
  <2>1. hook.next \in Seq(Events)
    BY <1>1, EditFields, SeqTypes
  <2>2. <<>> \o hook.next = hook.next
    BY <2>1
  <2>3. QED  BY <1>1, <1>3, <1>7, <2>1, <2>2 DEF Flight
<1>9. /\ hook.next /= <<>> => word = <<>>
      /\ \A e \in ToSet(hook.next) : e.op = "text" /\ e.era < era
  <2>1. hook.next /= <<>> =>
          word = <<>> /\ \A e \in ToSet(hook.next) : e.op = "text" /\ e.era < era
    BY <1>6 DEF NextLast
  <2>2. ToSet(<<>>) = {}
    BY Sets
  <2>3. QED  BY <2>1, <2>2
<1>10. Arrived(screen', Flight') = Shows'
  <2>1. Arrived(screen, <<>>) = screen
    BY ArrivedNone
  <2>2. Shows' = Shows
    BY <1>1 DEF Shows
  <2>3. QED  BY <1>1, <1>4, <1>6, <1>8, <2>1, <2>2 DEF Shown
<1>11. Shown'
  <2>1. Shows \in Screens /\ Shows' = Shows
    <3>1. committed \in Screens /\ word \in Screens
      BY TextsOnScreen DEF Inv, TypeOK
    <3>2. QED  BY <1>1, <3>1, TextsOnScreen DEF Shows
  <2>2. /\ Idle.bs <= Len(Shows)
        /\ Arrived(Replaced(Shows, Idle.bs, Idle.text), Idle.next) = Shows
    BY <2>1, NothingLeft
  <2>3. QED  BY <1>3, <1>10, <2>1, <2>2 DEF Shown
<1>12. EditAlone'
  BY <1>1, <1>3, <1>8, <1>9, IdleFields DEF EditAlone
<1>13. NextLast'
  BY <1>3, IdleFields DEF NextLast
<1>14. Suggests' = Suggests /\ Rendered' = Rendered
  BY <1>1, WindowStays
<1>15. Shielded'
  <2>1. Safe(hook.next, sugg)
    <3>1. \A e \in ToSet(hook.next) : e.op /= "del"
      BY <1>9
    <3>2. QED  BY <1>8, <3>1, SafeWithout
  <2>2. QED  BY <1>1, <1>6, <1>8, <1>14, <2>1 DEF Shielded
<1>16. Eras'
  <2>1. ToSet(appq') = {} /\ DOMAIN appq' = {}
    <3>1. DOMAIN <<>> = {} /\ ToSet(<<>>) = {}
      BY Sets
    <3>2. QED  BY <1>1, <1>7, <3>1
  <2>2. \A e \in ToSet(hook.next) : e.era <= era' /\ e.era /= era'
    <3>1. \A e \in ToSet(hook.next) : e.era \in Nat
      <4>1. ToSet(hook.next) \subseteq Events
        BY <1>8, Sets
      <4>2. QED  BY <4>1 DEF Events
    <3>2. era' = era /\ era \in Nat
      BY <1>1 DEF Inv, TypeOK
    <3>3. QED  BY <1>9, <3>1, <3>2
  <2>3. QED  BY <1>8, <2>1, <2>2 DEF Eras
<1>17. QED
  BY <1>1, <1>6, <1>11, <1>12, <1>13, <1>15, <1>16 DEF TextInv

\* In a window whose edits go to the control, an edit is not refused.
LEMMA RefusedWay ==
  ASSUME Inv, TextInv, InStep, GuardedWindows, EditRefused
  PROVE  hook.by = "vb6" /\ ~IsSyncReplaceChannel
<1>1. hook /= Idle /\ hook \in Edits /\ (hook.bs > Len(screen) \/ ~Understands)
  BY DEF EditRefused, EditStep, Inv, TypeOK
<1>2. Shown /\ EditAlone
  BY DEF TextInv
<1>3. ASSUME IsSyncReplaceChannel PROVE FALSE
  <2>1. Understands
    BY <1>3, Traits DEF Inv, TypeOK
  <2>2. hook.bs > Len(screen) /\ Len(screen) \in Nat /\ hook.bs \in Nat
    BY <1>1, <2>1, EditFields DEF Inv, TypeOK
  <2>3. Flight = <<>>
    BY <1>1, <1>2, <1>3, <2>2 DEF EditAlone
  <2>4. hook.bs <= Len(screen)
    BY <1>2, <2>3, ArrivedNone DEF Shown
  <2>5. QED  BY <2>2, <2>4
<1>4. QED  BY <1>1, <1>3 DEF Inv, SyncAlone

\* The keystrokes a refused edit falls back to.
LEMMA FallBackArrives ==
  ASSUME TypeOK, hook \in Edits, NEW t \in Screens, hook.bs <= Len(t),
         NEW paste, paste = IF hook.text = <<>> THEN <<>> ELSE <<CtrlV(hook.text)>>
  PROVE  /\ Deletes \in Seq(Events) /\ paste \in Seq(Events)
         /\ Arrived(t, Deletes \o paste) = Replaced(t, hook.bs, hook.text)
<1>1. era \in Nat /\ hook.bs \in Nat /\ hook.text \in Texts /\ hook.bs \in 0 .. Len(t)
  <2>1. Len(t) \in Nat
    BY DEF Screens
  <2>2. QED  BY <2>1, EditFields DEF TypeOK
<1> DEFINE del == Event("del", <<>>, 2)
           cut == SubSeq(t, 1, Len(t) - hook.bs)
<1>2. del \in Events /\ del.op \in {"back", "del"} /\ Times(hook.bs, del) \in Seq(Sendable)
  BY <1>1, KeyTypes, DeletesType DEF Event, Sendable
<1> HIDE DEF del
<1>3. Deletes \in Seq(Events) /\ Arrived(t, Deletes) = cut
  <2>1. Deletes = Times(hook.bs, del)
    BY DEF Deletes, del
  <2>2. Arrived(t, Times(hook.bs, del)) = cut
    BY <1>1, <1>2, ArrivedTimes
  <2>3. QED  BY <1>2, <2>1, <2>2, SeqTypes
<1>4. cut \in Screens
  BY <1>1 DEF Screens
<1> HIDE DEF cut
<1>5. paste \in Seq(Events) /\ Arrived(cut, paste) = cut \o hook.text
  <2>1. CASE hook.text = <<>>
    <3>1. cut \o <<>> = cut /\ paste = <<>>
      BY <1>4, <2>1 DEF Screens
    <3>2. QED  BY <2>1, <3>1, ArrivedNone
  <2>2. CASE hook.text /= <<>>
    <3>1. CtrlV(hook.text) \in Events
      <4>1. 4 \in 0 .. 4 /\ "text" \in Ops
        BY DEF Ops
      <4>2. QED  BY <1>1, <4>1, EventType DEF CtrlV
    <3>2. CtrlV(hook.text).op = "text" /\ CtrlV(hook.text).text = hook.text
      BY DEF CtrlV, Event
    <3>3. paste = <<CtrlV(hook.text)>>
      BY <2>2
    <3>4. QED  BY <3>1, <3>2, <3>3, ArrivedOne, ArrivedText
  <2>3. QED  BY <2>1, <2>2
<1>6. Arrived(t, Deletes \o paste) = Arrived(Arrived(t, Deletes), paste)
  BY <1>3, <1>5, ArrivedConcat
<1>7. QED  BY <1>3, <1>5, <1>6 DEF Replaced, cut

LEMMA RefusedText ==
  ASSUME Inv, TextInv, InStep', GuardedWindows, EditRefused
  PROVE  TextInv'
<1>1. /\ hook /= Idle /\ hook \in Edits /\ EditFails(slips)
      /\ UNCHANGED <<win, word, committed, era, sugg, screen, late>>
  BY DEF EditRefused, EditStep, Inv, TypeOK
<1>2. Failed(slips)
  BY <1>1, Fails DEF Inv
<1>3. slips \subseteq slips'
  BY <1>2 DEF Failed
<1>4. InStep
  BY <1>3, BackInStep
<1>5. hook.by = "vb6" /\ ~IsSyncReplaceChannel
  BY <1>4, RefusedWay
<1>6. late = Idle /\ Shown /\ EditAlone /\ Shielded
  BY <1>4 DEF TextInv
<1> DEFINE paste == IF hook.text = <<>> THEN <<>> ELSE <<CtrlV(hook.text)>>
           all == (Deletes \o paste) \o hook.next
<1>7. hook' = Idle /\ appq' = appq /\ sys' = sys \o all
  <2>1. /\ hook' = Idle /\ appq' = appq
        /\ \E sent \in Seq(Sendable) : Sends(pending, slips, all, sent)
    BY <1>2, <1>5 DEF Failed
  <2>2. "partial" \notin slips'
    BY DEF InStep, Losses
  <2> HIDE DEF all
  <2>3. QED  BY <2>1, <2>2 DEF Sends
<1> DEFINE t == Arrived(screen, Flight)
<1>8. /\ t \in Screens /\ sys \in Seq(Events) /\ appq \in Seq(Events)
      /\ Flight \in Seq(Events)
  BY InFlight DEF Inv
<1>9. hook.bs <= Len(t) /\ Arrived(Replaced(t, hook.bs, hook.text), hook.next) = Shows
  BY <1>6 DEF Shown
<1> HIDE DEF t, paste
<1>10. /\ Deletes \in Seq(Events) /\ paste \in Seq(Events)
       /\ Arrived(t, Deletes \o paste) = Replaced(t, hook.bs, hook.text)
  BY <1>1, <1>8, <1>9, FallBackArrives DEF Inv, paste
<1>11. hook.next \in Seq(Events) /\ Deletes \o paste \in Seq(Events) /\ all \in Seq(Events)
  <2>1. hook.next \in Seq(Events)
    BY <1>1, EditFields, SeqTypes
  <2>2. Deletes \o paste \in Seq(Events)
    BY <1>10
  <2>3. QED  BY <2>1, <2>2
<1>12. Arrived(t, all) = Shows
  <2> DEFINE q == Deletes \o paste
  <2>1. q \in Seq(Events) /\ all = q \o hook.next
    BY <1>11
  <2>2. Arrived(t, q) = Replaced(t, hook.bs, hook.text)
    BY <1>10
  <2> HIDE DEF q, all
  <2>3. Arrived(t, q \o hook.next) = Arrived(Arrived(t, q), hook.next)
    BY <1>11, <2>1, ArrivedConcat
  <2>4. QED  BY <1>9, <2>1, <2>2, <2>3
<1> HIDE DEF all
<1>13. Arrived(screen', Flight') = Shows'
  <2>1. Flight' = Flight \o all
    <3>1. (appq \o sys) \o all = appq \o (sys \o all)
      BY <1>8, <1>11
    <3>2. Flight' = appq \o (sys \o all)
      BY <1>7 DEF Flight
    <3>3. QED  BY <3>1, <3>2 DEF Flight
  <2>2. Arrived(screen, Flight \o all) = Arrived(t, all)
    BY <1>8, <1>11, ArrivedConcat DEF t
  <2>3. QED  BY <1>1, <1>12, <2>1, <2>2 DEF Shows
<1>14. Shown'
  <2>1. Shows \in Screens /\ Shows' = Shows
    <3>1. committed \in Screens /\ word \in Screens
      BY TextsOnScreen DEF Inv, TypeOK
    <3>2. QED  BY <1>1, <3>1, TextsOnScreen DEF Shows
  <2>2. /\ Idle.bs <= Len(Shows)
        /\ Arrived(Replaced(Shows, Idle.bs, Idle.text), Idle.next) = Shows
    BY <2>1, NothingLeft
  <2>3. QED  BY <1>7, <1>13, <2>1, <2>2 DEF Shown
<1>15. ~IsSyncReplaceChannel' /\ ~Suggests' /\ ~Rendered' /\ ~sugg'
  <2>1. UseClipboardPaste
    BY <1>5, <1>6 DEF EditAlone
  <2>2. ~Suggests /\ ~Rendered
    BY <2>1, Traits DEF Inv, TypeOK
  <2>3. ~sugg
    BY <1>6, <2>2 DEF Shielded
  <2>4. QED  BY <1>1, <1>5, <2>2, <2>3, WindowStays, ChannelStays
<1>16. EditAlone' /\ NextLast' /\ Shielded' /\ Eras'
  BY <1>7, <1>15, IdleFields DEF EditAlone, NextLast, Shielded, Eras
<1>17. QED  BY <1>1, <1>6, <1>14, <1>16 DEF TextInv

-----------------------------------------------------------------------------
(* The rest of the steps, and the invariant.                               *)

LEMMA TimesOutText ==
  ASSUME Inv, EditTimesOut, InStep'
  PROVE  FALSE
<1>1. hook \in Edits /\ EditFails(slips \cup {"timeout"})
  BY DEF EditTimesOut, EditStep, Inv, TypeOK
<1>2. Failed(slips \cup {"timeout"})
  BY <1>1, Fails DEF Inv
<1>3. "timeout" \in slips'
  BY <1>2 DEF Failed
<1>4. QED  BY <1>3 DEF InStep, Losses

LEMMA LateText ==
  ASSUME TextInv, LateEdit, InStep'
  PROVE  FALSE
<1>1. InStep
  BY DEF LateEdit, InStep
<1>2. QED  BY <1>1 DEF TextInv, LateEdit

\* A step that leaves the text and what is in flight as they are.
LEMMA StillText ==
  ASSUME TextInv, InStep',
         UNCHANGED <<win, word, hadSynth, hook, sys, appq, screen, sugg, late,
                     committed, era, slips>>
  PROVE  TextInv'
<1>1. /\ IsSyncReplaceChannel' = IsSyncReplaceChannel /\ Suggests' = Suggests
      /\ Rendered' = Rendered /\ UseClipboardPaste' = UseClipboardPaste
  BY ChannelStays, WindowStays
<1>2. Flight' = Flight /\ Shows' = Shows
  BY DEF Flight, Shows
<1>3. InStep
  BY DEF InStep
<1>4. late = Idle /\ Shown /\ EditAlone /\ NextLast /\ Shielded /\ Eras
  BY <1>3 DEF TextInv
<1>5. Shown' /\ EditAlone' /\ NextLast' /\ Shielded' /\ Eras'
  BY <1>1, <1>2, <1>4 DEF Shown, EditAlone, NextLast, Shielded, Eras
<1>6. QED  BY <1>4, <1>5 DEF TextInv

LEMMA QuietText ==
  ASSUME TextInv, InStep', Pause \/ UNCHANGED vars
  PROVE  TextInv'
<1>1. UNCHANGED <<win, word, hadSynth, hook, sys, appq, screen, sugg, late,
                  committed, era, slips>>
  BY DEF Pause, Keep, app, vars
<1>2. QED  BY <1>1, StillText

\* ResetComposition ends the word with nothing behind the hook.
LEMMA ResetText ==
  ASSUME Inv, TextInv, InStep', ResetComposition
  PROVE  TextInv'
<1>1. /\ hook = Idle /\ word' = <<>> /\ committed' = committed \o word
      /\ era' = era + 1
      /\ slips' = slips \cup (IF sys # <<>> THEN {"reset"} ELSE {})
      /\ UNCHANGED <<win, hook, sys, appq, screen, sugg, late>>
  BY DEF ResetComposition, app
<1>2. "reset" \notin slips' /\ slips \subseteq slips'
  BY <1>1 DEF InStep, Losses
<1>3. InStep /\ sys = <<>>
  BY <1>1, <1>2, BackInStep
<1>4. late = Idle /\ Shown /\ Shielded /\ Eras
  BY <1>3 DEF TextInv
<1>5. /\ IsSyncReplaceChannel' = IsSyncReplaceChannel /\ Suggests' = Suggests
      /\ Rendered' = Rendered
  BY <1>1, ChannelStays, WindowStays
<1>6. Flight' = Flight
  BY <1>1 DEF Flight
<1>7. Shows' = Shows
  <2>1. committed \o word \in Texts
    BY DEF Inv, TypeOK, Texts
  <2>2. (committed \o word) \o <<>> = committed \o word
    BY <2>1 DEF Texts
  <2>3. QED  BY <1>1, <2>2 DEF Shows
<1>8. Shown'
  BY <1>1, <1>4, <1>6, <1>7 DEF Shown
<1>9. EditAlone' /\ NextLast'
  BY <1>1, IdleFields DEF EditAlone, NextLast
<1>10. Shielded'
  BY <1>1, <1>4, <1>5, <1>6 DEF Shielded
<1>11. Eras'
  <2>1. \A e \in ToSet(appq) \cup ToSet(sys) : e.era \in Nat /\ era \in Nat
    <3>1. ToSet(appq) \subseteq Events /\ ToSet(sys) \subseteq Events
      BY InFlight, Sets DEF Inv
    <3>2. QED  BY <3>1 DEF Events, Inv, TypeOK
  <2>2. ASSUME Rendered, NEW e \in ToSet(appq) \cup ToSet(sys)
        PROVE  e.era <= era' /\ e.era /= era'
    BY <1>1, <1>4, <2>1, <2>2 DEF Eras
  <2>3. QED  BY <1>1, <1>4, <1>5, <2>2 DEF Eras
<1>12. QED  BY <1>1, <1>4, <1>8, <1>9, <1>10, <1>11 DEF TextInv

\* A key, whatever it is.
LEMMA AnyKeyText ==
  ASSUME Inv, TextInv, GuardedWindows, InStep', Key
  PROVE  TextInv'
<1>1. ASSUME Press, KeyEffect, KeyTyped, KeyEra, KeyText PROVE TextInv'
  <2>1. Inv'
    BY <1>1, KeyKeeps
  <2>2. slips \subseteq slips'
    <3>1. slips \subseteq Watched
      BY <1>1, Pressed
    <3>2. Watched \subseteq slips'
      BY <1>1 DEF KeyEffect, Passed, Sent, Left, Held
    <3>3. QED  BY <3>1, <3>2
  <2>3. InStep
    BY <2>2, BackInStep
  <2>4. QED  BY <1>1, <2>1, <2>3, KeyKeepsText
<1>2. TypeOK
  BY DEF Inv
<1>3. ASSUME NEW l \in Letters, Letter(l) PROVE TextInv'
  <2>1. Press
    BY <1>3 DEF Letter
  <2>2. QED  BY <1>1, <1>2, <1>3, <2>1, LetterEffect, LetterText
<1>4. CASE Tone
  <2>1. Press
    BY <1>4 DEF Tone
  <2>2. QED  BY <1>1, <1>2, <1>4, <2>1, ToneEffect, ToneText
<1>5. CASE Backspace
  <2>1. Press
    BY <1>5 DEF Backspace
  <2>2. QED  BY <1>1, <1>2, <1>5, <2>1, BackspaceEffect, BackspaceText
<1>6. ASSUME NEW c \in Ends, Trigger(c) PROVE TextInv'
  <2>1. Press
    BY <1>6 DEF Trigger
  <2>2. QED  BY <1>1, <1>2, <1>6, <2>1, TriggerEffect, TriggerText
<1>7. QED  BY <1>3, <1>4, <1>5, <1>6 DEF Key

LEMMA NextText ==
  ASSUME Inv, TextInv, GuardedWindows, [Next]_vars
  PROVE  TextInv'
<1>1. CASE ~InStep'
  BY <1>1 DEF TextInv
<1>2. CASE InStep'
  <2>1. CASE Key
    BY <1>2, <2>1, AnyKeyText
  <2>2. CASE ResetComposition
    BY <1>2, <2>2, ResetText
  <2>3. CASE Editing
    BY <1>2, <2>3, SucceedsText, RefusedText, TimesOutText DEF Editing
  <2>4. CASE Around
    BY <1>2, <2>4, DecrementText, QuietText, HandleText, LateText DEF Around
  <2>5. CASE UNCHANGED vars
    BY <1>2, <2>5, QuietText
  <2>6. QED  BY <2>1, <2>2, <2>3, <2>4, <2>5 DEF Next
<1>3. QED  BY <1>1, <1>2

LEMMA TextInit == Init => TextInv
<1> SUFFICES ASSUME Init PROVE TextInv
  OBVIOUS
<1>1. /\ word = <<>> /\ committed = <<>> /\ screen = <<>> /\ hook = Idle /\ late = Idle
      /\ sys = <<>> /\ appq = <<>> /\ sugg = FALSE
  BY DEF Init
<1>2. Flight = <<>> /\ Shows = <<>>
  <2>1. <<>> \o <<>> = <<>>
    OBVIOUS
  <2>2. QED  BY <1>1, <2>1 DEF Flight, Shows
<1>3. Shown
  <2>1. <<>> \in Screens
    BY DEF Screens
  <2>2. QED  BY <1>1, <1>2, <2>1, NothingInFlight, NothingLeft DEF Shown
<1>4. EditAlone /\ NextLast
  BY <1>1, <1>2, IdleFields DEF EditAlone, NextLast
<1>5. Shielded
  BY <1>1, <1>2, NothingInFlight DEF Shielded
<1>6. Eras
  <2>1. ToSet(appq) = {} /\ ToSet(sys) = {} /\ DOMAIN appq = {}
    BY <1>1, NothingInFlight
  <2>2. QED  BY <2>1 DEF Eras
<1>7. QED  BY <1>1, <1>3, <1>4, <1>5, <1>6 DEF TextInv

\* When nothing is on its way, the text that comes is there.
LEMMA TextThere ==
  ASSUME Inv, TextInv
  PROVE  ScreenMatches
<1> SUFFICES ASSUME sys = <<>>, appq = <<>>, hook = Idle, InStep
             PROVE  screen = committed \o word
  BY DEF ScreenMatches, InStep, Losses
<1>1. Arrived(screen, Flight) = Shows
  BY ShownIdle DEF TextInv, Inv
<1>2. Flight = <<>>
  BY DEF Flight
<1>3. QED  BY <1>1, <1>2, ArrivedNone DEF Shows

-----------------------------------------------------------------------------
(* The theorems.                                                           *)

\* Whatever part of a batch the system takes, and whatever it hands on without
\* the hook: the counter of own events in flight (synthEventsPending_) is the
\* number of calls of the hook they will make, until it is cleared too early.
THEOREM CounterAlwaysExact == Spec => []CounterExact
<1>1. Inv => CounterExact
  BY DEF Inv
<1>2. QED  BY <1>1, SpecInv, PTL

\* A physical key that the hook passes does not overtake the events sent before
\* it (the gate of HandleAlphaKey), except Space and Enter without a word.
THEOREM OrderAlwaysKept == Spec => OrderKept
<1>1. Inv /\ [Next]_vars =>
        [Len(appq') > Len(appq) /\ Last(appq').own = 0 =>
           \/ sys = << >>
           \/ word = << >> /\ Last(appq').text \in {<<c>> : c \in Ends}
           \/ "reset" \in slips']_vars
  BY NextInv DEF StepKeepsOrder
<1>2. QED  BY <1>1, SpecInv, PTL DEF Spec, OrderKept

\* An edit message of the channel that takes them only overtakes input when a
\* key was passed or sent behind an edit.
THEOREM EditsAlwaysInOrder == Spec => EditsInOrder
<1>1. Inv /\ [Next]_vars =>
        [hook.by \in {"retry", "trigger", "raw"} /\ hook' = Idle /\ screen' # screen
           => appq \o sys = << >> \/ "posted" \in slips]_vars
  BY NextInv DEF StepKeepsEdits
<1>2. QED  BY <1>1, SpecInv, PTL DEF Spec, EditsInOrder

\* Where the channel guards its keystrokes as the window needs it: when
\* everything sent has been handled, the screen shows the text the engine has,
\* so that the next backspaces of Replace delete what they are meant to, until
\* the code has lost step in one of its known ways.
THEOREM ScreenAlwaysMatches == GuardedWindows => (Spec => []ScreenMatches)
<1> SUFFICES ASSUME GuardedWindows PROVE Spec => []ScreenMatches
  OBVIOUS
<1>1. Inv /\ TextInv => ScreenMatches
  BY TextThere
<1>2. Inv /\ TextInv /\ [Next]_vars => TextInv'
  BY NextText
<1>3. QED  BY <1>1, <1>2, SpecInv, TextInit, PTL DEF Spec
=============================================================================

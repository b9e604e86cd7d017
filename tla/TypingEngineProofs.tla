------------------------- MODULE TypingEngineProofs -------------------------
(***************************************************************************)
(* Proofs about the typing engine, for every configuration, key map, key    *)
(* and text, and any number of keys.                                        *)
(*                                                                          *)
(* They follow the handlers and never ask what a syllable is: every key     *)
(* leaves a word, the raw keys are the keys that were pressed, the flag of  *)
(* the spell check is brought up to date behind every change, and every     *)
(* letter stands for a raw key of its own that no escape takes away.        *)
(***************************************************************************)
EXTENDS TypingEngine, TLAPS, WellFoundedInduction

-----------------------------------------------------------------------------
(* Words.                                                                   *)

\* A sequence of things that have a letter.
IsWord(w) == \E S : w \in Seq(S) /\ \A s \in S : "base" \in DOMAIN s
\* v is a word if w is, and has letters if w has.
Like(w, v) == IsWord(v) /\ (w # <<>> => v # <<>>)

LEMMA WordOf ==
  ASSUME NEW S, \A s \in S : "base" \in DOMAIN s, NEW w \in Seq(S)
  PROVE  IsWord(w)
BY DEF IsWord

LEMMA EmptyWord == IsWord(<<>>)
<1>1. <<>> \in Seq({}) /\ \A s \in {} : "base" \in DOMAIN s
  OBVIOUS
<1>2. QED  BY <1>1, WordOf

\* Whatever has the places of a word, and fields where the word has them, is one.
LEMMA SamePlaces ==
  ASSUME NEW w, NEW v, IsWord(w), v = [i \in DOMAIN w |-> v[i]],
         \A i \in DOMAIN w : DOMAIN v[i] = DOMAIN w[i]
  PROVE  Like(w, v)
<1> DEFINE S == {v[i] : i \in DOMAIN w}
<1>1. PICK R : w \in Seq(R) /\ \A s \in R : "base" \in DOMAIN s
  BY DEF IsWord
<1>2. Len(w) \in Nat /\ DOMAIN w = 1..Len(w) /\ DOMAIN v = 1..Len(w)
  BY <1>1
<1>3. v \in [1..Len(w) -> S]
  BY <1>2
<1>4. v \in Seq(S)
  BY <1>2, <1>3
<1>5. Len(v) = Len(w)
  BY <1>2, <1>4
<1>6. w # <<>> => v # <<>>
  BY <1>1, <1>4, <1>5
<1>7. \A s \in S : "base" \in DOMAIN s
  <2>1. \A i \in DOMAIN w : w[i] \in R
    BY <1>1
  <2>2. QED  BY <1>1, <2>1
<1> HIDE DEF S
<1>8. QED  BY <1>4, <1>6, <1>7 DEF Like, IsWord

LEMMA AppendWord ==
  ASSUME NEW w, NEW s, IsWord(w), "base" \in DOMAIN s
  PROVE  IsWord(Append(w, s)) /\ Append(w, s) # <<>>
<1>1. PICK R : w \in Seq(R) /\ \A r \in R : "base" \in DOMAIN r
  BY DEF IsWord
<1> DEFINE S == R \cup {s}
<1>2. w \in Seq(S) /\ s \in S
  <2>1. Len(w) \in Nat /\ w \in [1..Len(w) -> R]
    BY <1>1
  <2>2. w \in [1..Len(w) -> S]
    BY <2>1
  <2>3. QED  BY <2>1, <2>2
<1>a. \A r \in S : "base" \in DOMAIN r
  BY <1>1
<1> HIDE DEF S
<1>3. Append(w, s) \in Seq(S) /\ Len(Append(w, s)) = Len(w) + 1 /\ Len(w) \in Nat
  BY <1>2
<1>4. Append(w, s) # <<>>
  <2>1. Len(<<>>) = 0 /\ Len(Append(w, s)) # 0
    BY <1>3
  <2> HIDE DEF S
  <2>2. QED  BY <2>1
<1>5. QED  BY <1>a, <1>3, <1>4 DEF IsWord

LEMMA FrontWord ==
  ASSUME NEW w, IsWord(w), w # <<>>
  PROVE  IsWord(Front(w))
<1>1. PICK R : w \in Seq(R) /\ \A s \in R : "base" \in DOMAIN s
  BY DEF IsWord
<1>2. Front(w) \in Seq(R)
  BY <1>1 DEF Front
<1>3. QED  BY <1>1, <1>2 DEF IsWord

LEMMA OneWord ==
  ASSUME NEW s, "base" \in DOMAIN s PROVE IsWord(<<s>>) /\ <<s>> # <<>>
<1>1. <<s>> \in Seq({s}) /\ \A r \in {s} : "base" \in DOMAIN r
  OBVIOUS
<1>2. QED  BY <1>1, WordOf

LEMMA LikeSelf == ASSUME NEW w, IsWord(w) PROVE Like(w, w)
BY DEF Like
LEMMA LikeTrans ==
  ASSUME NEW u, NEW v, NEW w, Like(u, v), Like(v, w)
  PROVE  Like(u, w)
BY DEF Like

-----------------------------------------------------------------------------
(* Moving the tone and pairing the horns leaves a word its places.          *)

LEMMA MovedLike ==
  ASSUME NEW w, IsWord(w), NEW toned, NEW to
  PROVE  Like(w, MoveTone(w, toned, to))
<1> DEFINE v == [w EXCEPT ![to].tone = w[toned].tone, ![to].toneRawIdx = w[toned].toneRawIdx,
                          ![toned].tone = "None", ![toned].toneRawIdx = 0]
<1>1. v = [i \in DOMAIN w |-> v[i]] /\ \A i \in DOMAIN w : DOMAIN v[i] = DOMAIN w[i]
  OBVIOUS
<1>2. Like(w, v)
  <2> HIDE DEF v
  <2>1. QED  BY <1>1, SamePlaces
<1>3. MoveTone(w, toned, to) \in {w, v}
  BY DEF MoveTone
<1> HIDE DEF v
<1>4. QED  BY <1>2, <1>3, LikeSelf

LEMMA RelocatedLike ==
  ASSUME NEW w, IsWord(w)
  PROVE  Like(w, RelocateToneToTarget(w))
BY MovedLike DEF RelocateToneToTarget

LEMMA ToHornLike ==
  ASSUME NEW w, IsWord(w)
  PROVE  Like(w, RelocateToneToHornVowel(w))
<1> DEFINE v(horn, toned) == [w EXCEPT ![horn].tone = w[toned].tone, ![toned].tone = "None"]
<1>1. ASSUME NEW horn, NEW toned PROVE Like(w, v(horn, toned))
  <2>1. /\ v(horn, toned) = [i \in DOMAIN w |-> v(horn, toned)[i]]
        /\ \A i \in DOMAIN w : DOMAIN v(horn, toned)[i] = DOMAIN w[i]
    OBVIOUS
  <2> HIDE DEF v
  <2>2. QED  BY <2>1, SamePlaces
<1>2. \/ RelocateToneToHornVowel(w) = w
      \/ \E horn, toned : RelocateToneToHornVowel(w) = v(horn, toned)
  BY DEF RelocateToneToHornVowel
<1> HIDE DEF v
<1>3. QED  BY <1>1, <1>2, LikeSelf

\* A mark on one letter.
LEMMA ModLike ==
  ASSUME NEW w, IsWord(w), NEW i, NEW m
  PROVE  Like(w, [w EXCEPT ![i].mod = m])
<1> DEFINE v == [w EXCEPT ![i].mod = m]
<1>1. v = [j \in DOMAIN w |-> v[j]] /\ \A j \in DOMAIN w : DOMAIN v[j] = DOMAIN w[j]
  OBVIOUS
<1> HIDE DEF v
<1>2. Like(w, v)
  BY <1>1, SamePlaces
<1>3. QED  BY <1>2 DEF v

LEMMA PairLike ==
  ASSUME NEW w, IsWord(w), NEW i
  PROVE  Like(w, AutoUOAt(w, i))
<1> DEFINE a == [w EXCEPT ![i].mod = "Horn"]
           b == [w EXCEPT ![i+1].mod = "Horn"]
<1>1. Like(w, a) /\ Like(w, b)
  BY ModLike
<1>2. AutoUOAt(w, i) \in {w, a, RelocateToneToTarget(b)}
  BY DEF AutoUOAt
<1> HIDE DEF a, b
<1>3. Like(b, RelocateToneToTarget(b))
  BY <1>1, RelocatedLike DEF Like
<1>4. QED  BY <1>1, <1>2, <1>3, LikeSelf, LikeTrans

LEMMA PairsLike ==
  ASSUME NEW w, IsWord(w)
  PROVE  Like(w, ApplyAutoUO(w))
<1> DEFINE n == Len(w)
           first == AutoUOAt(w, n - 3)
<1>1. Like(w, first) /\ Like(first, AutoUOAt(first, n - 2))
  <2>1. Like(w, first)
    BY PairLike
  <2> HIDE DEF first
  <2>2. QED  BY <2>1, PairLike DEF Like
<1>2. Like(w, AutoUOAt(w, n - 2))
  BY PairLike
<1>3. ApplyAutoUO(w) \in {w, AutoUOAt(w, n - 2), AutoUOAt(first, n - 2)}
  BY DEF ApplyAutoUO
<1> HIDE DEF first, n
<1>4. QED  BY <1>1, <1>2, <1>3, LikeSelf, LikeTrans

LEMMA UnhornedLike ==
  ASSUME NEW w, IsWord(w), NEW o
  PROVE  Like(w, UndoHornU(w, o))
<1>1. UndoHornU(w, o) \in {w, [w EXCEPT ![o-1].mod = "None"]}
  BY DEF UndoHornU
<1>2. QED  BY <1>1, ModLike, LikeSelf

-----------------------------------------------------------------------------
(* Handlers.                                                                *)

Formed(e) == DOMAIN e = DOMAIN Fresh /\ IsWord(e.states)

\* y is x with another word, which has letters if that of x has.
Framed(x, y) ==
  /\ DOMAIN y = DOMAIN x
  /\ y.hist = x.hist /\ y.quickStart = x.quickStart
  /\ Like(x.states, y.states)

\* Besides, the raw keys of y are those of x unless a mark was escaped.
Keeps(x, y) ==
  /\ Framed(x, y)
  /\ y.esc = "None" => x.esc = "None" /\ y.raw = x.raw

LEMMA FramedSelf == ASSUME NEW x, Formed(x) PROVE Framed(x, x) /\ Keeps(x, x)
BY LikeSelf DEF Formed, Framed, Keeps

LEMMA FramedTrans ==
  ASSUME NEW x, NEW y, NEW z, Framed(x, y), Framed(y, z)
  PROVE  Framed(x, z)
BY LikeTrans DEF Framed

LEMMA KeepsTrans ==
  ASSUME NEW x, NEW y, NEW z, Keeps(x, y), Keeps(y, z)
  PROVE  Keeps(x, z)
BY FramedTrans DEF Keeps

LEMMA FramedFormed ==
  ASSUME NEW x, NEW y, Formed(x), Framed(x, y) \/ Keeps(x, y)
  PROVE  Formed(y)
BY DEF Formed, Framed, Keeps, Like

LEMMA EscapedKeeps ==
  ASSUME NEW x, NEW y, Framed(x, y), y.esc # "None"
  PROVE  Keeps(x, y)
BY DEF Keeps

\* The word is all that changes.
LEMMA StatesKeeps ==
  ASSUME NEW x, Formed(x), NEW w, Like(x.states, w)
  PROVE  Keeps(x, [x EXCEPT !.states = w])
BY DEF Formed, Framed, Keeps, Fresh

\* Nothing of what is kept changes.
LEMMA FlagsKeep ==
  ASSUME NEW x, Formed(x), NEW v
  PROVE  /\ Keeps(x, [x EXCEPT !.took = v]) /\ Keeps(x, [x EXCEPT !.off = v])
         /\ Keeps(x, [x EXCEPT !.bias = v]) /\ Keeps(x, [x EXCEPT !.qc = v])
         /\ Keeps(x, [x EXCEPT !.toneKey = v]) /\ Keeps(x, [x EXCEPT !.insist = v])
BY LikeSelf DEF Formed, Framed, Keeps, Fresh

LEMMA TookKeeps ==
  ASSUME NEW x, Formed(x)
  PROVE  Keeps(x, Took(x)) /\ Took(x).took = TRUE /\ Took(x).states = x.states
BY FlagsKeep DEF Took, Formed, Fresh

LEMMA BiasedKeeps ==
  ASSUME NEW x, Formed(x), NEW b
  PROVE  Keeps(x, Biased(x, b)) /\ Biased(x, b).states = x.states
BY FlagsKeep DEF Biased, Formed, Fresh

LEMMA SpellKeeps ==
  ASSUME NEW x, Formed(x)
  PROVE  Keeps(x, UpdateSpellState(x)) /\ UpdateSpellState(x).states = x.states
BY FlagsKeep DEF UpdateSpellState, Formed, Fresh

LEMMA MarkKeeps ==
  ASSUME NEW x, Formed(x), NEW i, NEW m
  PROVE  Keeps(x, Mark(x, i, m))
<1> DEFINE w == [x.states EXCEPT ![i].mod = m]
<1>1. Like(x.states, w)
  BY ModLike DEF Formed
<1>2. Mark(x, i, m) = [x EXCEPT !.states = w]
  BY DEF Mark
<1> HIDE DEF w
<1>3. QED  BY <1>1, <1>2, StatesKeeps

LEMMA InsertKeeps ==
  ASSUME NEW x, Formed(x), NEW base, NEW mod
  PROVE  Keeps(x, Insert(x, base, mod)) /\ Insert(x, base, mod).states # <<>>
<1> DEFINE w == Append(x.states, NewState(base, mod, x.raw))
<1>1. Like(x.states, w) /\ w # <<>>
  <2>1. "base" \in DOMAIN NewState(base, mod, x.raw)
    BY DEF NewState
  <2>2. QED  BY <2>1, AppendWord DEF Formed, Like
<1>2. Insert(x, base, mod) = [x EXCEPT !.states = w]
  BY DEF Insert
<1> HIDE DEF w
<1>3. [x EXCEPT !.states = w].states = w
  BY DEF Formed, Fresh
<1>4. QED  BY <1>1, <1>2, <1>3, StatesKeeps

LEMMA CharKeeps ==
  ASSUME NEW x, Formed(x), NEW k
  PROVE  Keeps(x, ProcessChar(x, k)) /\ ProcessChar(x, k).states # <<>>
BY InsertKeeps DEF ProcessChar

\* An escape: whatever came before it has kept the frame.
LEMMA EscapeKeeps ==
  ASSUME NEW e, NEW x, Formed(e), Framed(e, x), NEW kind, kind # "None"
  PROVE  Keeps(e, Escape(x, kind))
<1>1. Formed(x)
  BY FramedFormed
<1>2. Framed(e, Escape(x, kind)) /\ Escape(x, kind).esc = kind
  BY <1>1 DEF Escape, Formed, Framed, Fresh
<1>3. QED  BY <1>2, EscapedKeeps

LEMMA ConsumedFrames ==
  ASSUME NEW x, Formed(x), NEW i
  PROVE  Framed(x, EraseConsumedRaw(x, i))
<1> DEFINE raw == RemoveAt(x.raw, i)
           y == EraseConsumedRaw(x, i)
           down(j) == IF j > i THEN j - 1 ELSE j
           w == [j \in DOMAIN x.states |->
                   [x.states[j] EXCEPT !.rawIdx = down(@), !.toneRawIdx = down(@)]]
<1>1. Like(x.states, w)
  <2>1. /\ w = [j \in DOMAIN x.states |-> w[j]]
        /\ \A j \in DOMAIN x.states : DOMAIN w[j] = DOMAIN x.states[j]
    OBVIOUS
  <2> HIDE DEF w
  <2>2. QED  BY <2>1, SamePlaces DEF Formed
<1>2. y \in {x, [x EXCEPT !.raw = raw, !.states = w]}
  BY DEF EraseConsumedRaw
<1> HIDE DEF w, raw, y
<1>3. Framed(x, [x EXCEPT !.raw = raw, !.states = w])
  BY <1>1 DEF Formed, Framed, Fresh
<1>4. Framed(x, y)
  BY <1>2, <1>3, FramedSelf
<1>5. QED  BY <1>4 DEF y

-----------------------------------------------------------------------------
(* Tones.                                                                   *)

\* The flag is the verdict on the word.
Checked(e) == e.off = SpellCheckDisabled(e.states)

\* A key that was not taken before and is now has left a word, and the flag is
\* the verdict on it.
Done(x, y) ==
  /\ Keeps(x, y)
  /\ y.took => x.took \/ (Checked(y) /\ y.states # <<>>)

LEMMA SpellChecks ==
  ASSUME NEW x, Formed(x)
  PROVE  /\ Checked(UpdateSpellState(x)) /\ UpdateSpellState(x).took = x.took
         /\ UpdateSpellState(x).esc = x.esc
BY DEF Checked, UpdateSpellState, Formed, Fresh

LEMMA TookChecked ==
  ASSUME NEW x, Formed(x)
  PROVE  Checked(x) => Checked(Took(x))
BY DEF Checked, Took, Formed, Fresh

LEMMA WordSetKeeps ==
  ASSUME NEW x, Formed(x)
  PROVE  /\ Keeps(x, Completed(x)) /\ Completed(x).took = x.took
         /\ Keeps(x, [x EXCEPT !.states = RelocateToneToTarget(@)])
         /\ Keeps(x, [x EXCEPT !.states = RelocateToneToHornVowel(@)])
         /\ \A o : Keeps(x, [x EXCEPT !.states = UndoHornU(@, o)])
<1>1. IsWord(x.states)
  BY DEF Formed
<1>2. /\ Keeps(x, [x EXCEPT !.states = ApplyAutoUO(x.states)])
      /\ Keeps(x, [x EXCEPT !.states = RelocateToneToTarget(x.states)])
      /\ Keeps(x, [x EXCEPT !.states = RelocateToneToHornVowel(x.states)])
      /\ \A o : Keeps(x, [x EXCEPT !.states = UndoHornU(x.states, o)])
  BY <1>1, PairsLike, RelocatedLike, ToHornLike, UnhornedLike, StatesKeeps
<1>3. Completed(x).took = x.took
  BY DEF Completed, Formed, Fresh
<1>4. QED  BY <1>2, <1>3 DEF Completed

LEMMA RecalcKeeps ==
  ASSUME NEW x, Formed(x)
  PROVE  LET y == RecalcEnglishBias(x) IN
           /\ Keeps(x, y) /\ y.states = x.states /\ y.off = x.off /\ y.took = x.took
           /\ y.esc = x.esc
<1> DEFINE b == IF Len(x.states) >= 2 THEN CheckEnglishBias(x.states, "Unknown") ELSE "Unknown"
           z == [x EXCEPT !.bias = b, !.toneKey = "", !.insist = 0]
<1>1. /\ DOMAIN z = DOMAIN Fresh /\ z.states = x.states /\ z.hist = x.hist /\ z.raw = x.raw
      /\ z.quickStart = x.quickStart /\ z.esc = x.esc /\ z.off = x.off /\ z.took = x.took
  <2> HIDE DEF b
  <2>1. QED  BY DEF Formed, Fresh
<1>2. RecalcEnglishBias(x) = ZwjfBias(z)
  BY DEF RecalcEnglishBias
<1> HIDE DEF z
<1>3. ZwjfBias(z) = z \/ \E c : ZwjfBias(z) = [z EXCEPT !.bias = c]
  BY DEF ZwjfBias, Biased
<1>4. LET y == ZwjfBias(z) IN
        /\ DOMAIN y = DOMAIN Fresh /\ y.states = x.states /\ y.hist = x.hist /\ y.raw = x.raw
        /\ y.quickStart = x.quickStart /\ y.esc = x.esc /\ y.off = x.off /\ y.took = x.took
  BY <1>1, <1>3 DEF Fresh
<1>5. QED  BY <1>2, <1>4, LikeSelf DEF Keeps, Framed, Formed

LEMMA SoftKeeps ==
  ASSUME NEW x, Formed(x), NEW k
  PROVE  LET y == UpdateToneInsistence(x, k) IN
           Keeps(x, y) /\ y.states = x.states /\ y.took = x.took /\ y.esc = x.esc
BY LikeSelf DEF UpdateToneInsistence, Formed, Framed, Keeps, Fresh

LEMMA LiteralDone ==
  ASSUME NEW x, Formed(x), NEW k
  PROVE  Done(x, AsLiteral(x, k))
<1> DEFINE c == ProcessChar(x, k)
           u == UpdateSpellState(c)
<1>1. Keeps(x, c) /\ c.states # <<>> /\ Formed(c)
  BY CharKeeps, FramedFormed
<1> HIDE DEF c
<1>2. Keeps(c, u) /\ Checked(u) /\ u.states = c.states /\ Formed(u)
  BY <1>1, SpellKeeps, SpellChecks, FramedFormed
<1> HIDE DEF u
<1>3. Keeps(u, Took(u)) /\ Checked(Took(u)) /\ Took(u).states = u.states
  BY <1>2, TookKeeps, TookChecked
<1>4. AsLiteral(x, k) = Took(u)
  BY DEF AsLiteral, u, c
<1>5. QED  BY <1>1, <1>2, <1>3, <1>4, KeepsTrans DEF Done

\* What a tone key may leave.
Bare(e, to) == [e EXCEPT !.states = [e.states EXCEPT ![to].tone = "None"]]
Erased(e, at) == IF at = 0 THEN e ELSE EraseConsumedRaw(e, at)
Forgotten(e, to) == [e EXCEPT !.states = [e.states EXCEPT ![to].toneRawIdx = 0]]
Toned(e, to, tone) ==
  [e EXCEPT !.states = [e.states EXCEPT ![to].tone = tone, ![to].toneRawIdx = Len(e.raw)],
            !.esc = "None"]

LEMMA ToneForms ==
  ASSUME NEW e, NEW to, NEW tone, NEW k
  PROVE  LET cleared == Forgotten(Erased(Bare(e, to), e.states[to].toneRawIdx), to)
         IN ProcessTone(e, to, tone, k)
              \in {e, Took(Escape(ProcessChar(cleared, k), "Tone")), Took(Toned(e, to, tone))}
<1>1. CASE to = 0
  BY <1>1, Zenon DEF ProcessTone
<1>2. CASE to # 0 /\ e.states[to].tone = tone
  BY <1>2, Zenon DEF ProcessTone, Bare, Erased, Forgotten
<1>3. CASE to # 0 /\ e.states[to].tone # tone
  <2>1. ProcessTone(e, to, tone, k)
          = Took([e EXCEPT !.states[to].tone = tone,
                           !.states[to].toneRawIdx = Len(e.raw), !.esc = "None"])
    BY <1>3, Zenon DEF ProcessTone
  <2>2. [e EXCEPT !.states[to].tone = tone,
                  !.states[to].toneRawIdx = Len(e.raw), !.esc = "None"]
          = Toned(e, to, tone)
    BY ONLY ZenonT(60) DEF Toned
  <2>3. QED  BY ONLY <2>1, <2>2, Zenon
<1>4. QED  BY <1>1, <1>2, <1>3

\* A tone set, or the same tone again: it goes and the key becomes a letter.
LEMMA ToneKeeps ==
  ASSUME NEW x, Formed(x), x.esc = "None", NEW to, NEW tone, NEW k
  PROVE  Keeps(x, ProcessTone(x, to, tone, k))
<1> DEFINE at == x.states[to].toneRawIdx
           w1 == [x.states EXCEPT ![to].tone = "None"]
           bare == [x EXCEPT !.states = w1]
           erased == IF at = 0 THEN bare ELSE EraseConsumedRaw(bare, at)
           w2 == [erased.states EXCEPT ![to].toneRawIdx = 0]
           cleared == [erased EXCEPT !.states = w2]
           w3 == [x.states EXCEPT ![to].tone = tone, ![to].toneRawIdx = Len(x.raw)]
           set == [x EXCEPT !.states = w3, !.esc = "None"]
<1>1. Like(x.states, w1) /\ Like(x.states, w3)
  <2>1. /\ w1 = [i \in DOMAIN x.states |-> w1[i]] /\ w3 = [i \in DOMAIN x.states |-> w3[i]]
        /\ \A i \in DOMAIN x.states : /\ DOMAIN w1[i] = DOMAIN x.states[i]
                                     /\ DOMAIN w3[i] = DOMAIN x.states[i]
    OBVIOUS
  <2> HIDE DEF w1, w3
  <2>2. QED  BY <2>1, SamePlaces DEF Formed
<1>2. /\ ProcessTone(x, to, tone, k)
         \in {x, Took(Escape(ProcessChar(cleared, k), "Tone")), Took(set)}
  BY ToneForms, Zenon DEF Bare, Erased, Forgotten, Toned
<1> HIDE DEF w1, w3, at
<1>3. Framed(x, bare)
  BY <1>1, StatesKeeps DEF Keeps
<1> HIDE DEF bare
<1>4. Framed(x, erased)
  BY <1>3, ConsumedFrames, FramedFormed, FramedTrans
<1> HIDE DEF erased
<1>5. Like(erased.states, w2)
  <2>1. /\ w2 = [i \in DOMAIN erased.states |-> w2[i]]
        /\ \A i \in DOMAIN erased.states : DOMAIN w2[i] = DOMAIN erased.states[i]
    OBVIOUS
  <2> HIDE DEF w2
  <2>2. QED  BY <1>4, <2>1, SamePlaces, FramedFormed DEF Formed
<1> HIDE DEF w2
<1>6. Framed(x, cleared) /\ Formed(cleared)
  BY <1>4, <1>5, StatesKeeps, FramedFormed, FramedTrans DEF Keeps
<1> HIDE DEF cleared
<1>7. Framed(x, ProcessChar(cleared, k))
  BY <1>6, CharKeeps, FramedTrans DEF Keeps
<1>8. Keeps(x, Escape(ProcessChar(cleared, k), "Tone"))
  BY <1>7, EscapeKeeps
<1>9. Keeps(x, set)
  BY <1>1 DEF Keeps, Framed, Formed, Fresh
<1> HIDE DEF set
<1> DEFINE y == Escape(ProcessChar(cleared, k), "Tone")
<1>10. Keeps(x, Took(y)) /\ Keeps(x, Took(set)) /\ Keeps(x, x)
  <2> HIDE DEF y
  <2>1. Keeps(x, y) /\ Keeps(x, set) /\ Formed(y) /\ Formed(set)
    BY <1>8, <1>9, FramedFormed DEF y
  <2>2. Keeps(y, Took(y)) /\ Keeps(set, Took(set))
    BY <2>1, TookKeeps
  <2>3. QED  BY <2>1, <2>2, KeepsTrans, FramedSelf
<1>11. QED  BY <1>2, <1>10

\* Behind a tone the flag is brought up to date.
LEMMA SettledDone ==
  ASSUME NEW e, NEW x, Formed(e), Keeps(e, x), e.states # <<>>
  PROVE  Done(e, ToneSettled(x))
<1>0. Formed(x) /\ x.states # <<>>
  BY FramedFormed DEF Keeps, Framed, Like
<1>1. CASE ~x.took
  BY <1>1 DEF ToneSettled, Done
<1>2. CASE x.took
  <2> DEFINE b == IF x.esc = "None" THEN Biased(x, "Vietnamese") ELSE RecalcEnglishBias(x)
             c == Completed(b)
             u == UpdateSpellState(c)
  <2>1. Keeps(x, b) /\ Formed(b)
    BY <1>0, BiasedKeeps, RecalcKeeps, FramedFormed
  <2> HIDE DEF b
  <2>2. Keeps(b, c) /\ Formed(c)
    BY <2>1, WordSetKeeps, FramedFormed
  <2> HIDE DEF c
  <2>3. Keeps(c, u) /\ Checked(u)
    BY <2>2, SpellKeeps, SpellChecks
  <2>4. ToneSettled(x) = u
    BY <1>2 DEF ToneSettled, u, c, b
  <2> HIDE DEF u
  <2>5. Keeps(e, u)
    BY <2>1, <2>2, <2>3, KeepsTrans
  <2>6. u.states # <<>>
    BY <2>5 DEF Keeps, Framed, Like
  <2>7. QED  BY <2>3, <2>4, <2>5, <2>6 DEF Done
<1>3. QED  BY <1>1, <1>2

LEMMA ToneFsmDone ==
  ASSUME NEW e, Formed(e), e.esc = "None", e.states # <<>>, NEW to, NEW tone, NEW k
  PROVE  Done(e, HandleToneFsm(e, to, tone, k))
<1> DEFINE soft == UpdateToneInsistence(e, k)
           hard(x) == AsLiteral(Biased(x, "HardEnglish"), k)
           Is(x) == /\ Keeps(e, x) /\ Formed(x) /\ x.states # <<>> /\ x.esc = "None"
                    /\ x.took = e.took
<1>1. Is(e) /\ Is(soft)
  BY SoftKeeps, FramedSelf, FramedFormed
<1>2. ASSUME NEW x, Is(x)
      PROVE  /\ Done(e, AsLiteral(x, k)) /\ Done(e, hard(x))
             /\ Done(e, ToneSettled(ProcessTone(x, to, tone, k)))
  <2>1. Done(e, AsLiteral(x, k))
    BY <1>2, LiteralDone, KeepsTrans DEF Done
  <2>2. Done(e, hard(x))
    <3>1. Keeps(x, Biased(x, "HardEnglish")) /\ Formed(Biased(x, "HardEnglish"))
      BY <1>2, BiasedKeeps, FramedFormed
    <3>2. Biased(x, "HardEnglish").took = x.took
      BY <1>2 DEF Biased, Formed, Fresh
    <3>3. QED  BY <1>2, <3>1, <3>2, LiteralDone, KeepsTrans DEF Done
  <2>3. Keeps(e, ProcessTone(x, to, tone, k))
    BY <1>2, ToneKeeps, KeepsTrans
  <2>4. QED  BY <2>1, <2>2, <2>3, SettledDone
<1>3. \E x \in {e, soft} :
        HandleToneFsm(e, to, tone, k)
          \in {AsLiteral(x, k), hard(x), ToneSettled(ProcessTone(x, to, tone, k))}
  BY DEF HandleToneFsm
<1> HIDE DEF soft, hard, Is
<1>4. QED  BY <1>1, <1>2, <1>3

LEMMA ClearDone ==
  ASSUME NEW e, Formed(e), e.states # <<>>, NEW to, NEW k
  PROVE  Done(e, HandleClearTone(e, to, k))
<1> DEFINE x == ProcessClearTone(e, to)
           w == [e.states EXCEPT ![to].tone = "None", ![to].toneRawIdx = 0]
           y == [e EXCEPT !.states = w]
<1>1. x \in {e, Took(y)}
  BY DEF ProcessClearTone
<1>2. Like(e.states, w)
  <2>1. /\ w = [i \in DOMAIN e.states |-> w[i]]
        /\ \A i \in DOMAIN e.states : DOMAIN w[i] = DOMAIN e.states[i]
    OBVIOUS
  <2> HIDE DEF w
  <2>2. QED  BY <2>1, SamePlaces DEF Formed
<1> HIDE DEF w, x
<1>3. Keeps(e, y) /\ Formed(y)
  BY <1>2, StatesKeeps, FramedFormed
<1> HIDE DEF y
<1>4. Keeps(e, x) /\ Formed(x)
  <2>1. Keeps(e, e) /\ Keeps(y, Took(y))
    BY <1>3, FramedSelf, TookKeeps
  <2>2. Keeps(e, Took(y))
    BY <1>3, <2>1, KeepsTrans
  <2>3. Keeps(e, x)
    BY <1>1, <2>1, <2>2
  <2>4. QED  BY <2>3, FramedFormed
<1>5. Keeps(x, UpdateSpellState(x)) /\ Checked(UpdateSpellState(x))
  BY <1>4, SpellKeeps, SpellChecks
<1>6. Keeps(e, UpdateSpellState(x)) /\ UpdateSpellState(x).states # <<>>
  <2>1. Keeps(e, UpdateSpellState(x))
    BY <1>4, <1>5, KeepsTrans
  <2>2. QED  BY <2>1 DEF Keeps, Framed, Like
<1>7. HandleClearTone(e, to, k)
        = IF EffectiveSpellCheck /\ e.off THEN AsLiteral(e, k)
          ELSE IF x.took THEN UpdateSpellState(x) ELSE x
  BY DEF HandleClearTone, x
<1>8. QED  BY <1>4, <1>5, <1>6, <1>7, LiteralDone DEF Done

LEMMA ToneDone ==
  ASSUME NEW e, Formed(e), NEW act, NEW k
  PROVE  Done(e, ToneRule(e, act, k)) /\ (e.took => ToneRule(e, act, k) = e)
<1>1. Done(e, e)
  BY FramedSelf DEF Done
<1>2. QED  BY <1>1, ClearDone, ToneFsmDone DEF ToneRule


-----------------------------------------------------------------------------
(* Marks.                                                                   *)

\* A key that was not taken before and is now has left a word.
Wrote(x, y) ==
  /\ Keeps(x, y)
  /\ y.took => x.took \/ y.states # <<>>

LEMMA KeptWrote ==
  ASSUME NEW e, NEW x, Keeps(e, x), e.states # <<>>
  PROVE  Wrote(e, x)
BY DEF Wrote, Keeps, Framed, Like

LEMMA SelfWrote == ASSUME NEW e, Formed(e) PROVE Wrote(e, e)
BY FramedSelf DEF Wrote

LEMMA SyntheticKeeps ==
  ASSUME NEW x, Formed(x), NEW i
  PROVE  Keeps(x, Synthetic(x, i))
<1> DEFINE w == [x.states EXCEPT ![i].synthetic = TRUE]
<1>1. Like(x.states, w)
  <2>1. /\ w = [j \in DOMAIN x.states |-> w[j]]
        /\ \A j \in DOMAIN x.states : DOMAIN w[j] = DOMAIN x.states[j]
    OBVIOUS
  <2> HIDE DEF w
  <2>2. QED  BY <2>1, SamePlaces DEF Formed
<1>2. Synthetic(x, i) = [x EXCEPT !.states = w]
  BY DEF Synthetic
<1> HIDE DEF w
<1>3. QED  BY <1>1, <1>2, StatesKeeps

\* What the handlers of marks are made of: each step keeps what the steps
\* before it have kept.
Closed(e) ==
  /\ Keeps(e, e)
  /\ \A x : Keeps(e, x) => Keeps(e, Took(x)) /\ Keeps(e, Moved(x)) /\ Keeps(e, HornMoved(x))
  /\ \A x, i, m : Keeps(e, x) => Keeps(e, Mark(x, i, m))
  /\ \A x, i : Keeps(e, x) => Keeps(e, Unhorned(x, i)) /\ Keeps(e, Synthetic(x, i))
  /\ \A x, b : Keeps(e, x) => Keeps(e, Biased(x, b))
  /\ \A x, k : Keeps(e, x) => Keeps(e, ProcessChar(x, k))
  /\ \A x, k, kind : Keeps(e, x) /\ kind # "None" => Keeps(e, Escaped(x, kind, k))

\* A letter and an escape behind a word with the history of e, which may have
\* lost its last letter.
LEMMA EscapedWrites ==
  ASSUME NEW e, NEW x, Formed(e), Formed(x), NEW k, NEW kind, kind # "None",
         x.hist = e.hist, x.quickStart = e.quickStart
  PROVE  Keeps(e, Escaped(x, kind, k)) /\ Escaped(x, kind, k).states # <<>>
<1> DEFINE c == ProcessChar(x, k)
           d == Escape(c, kind)
<1>1. Keeps(x, c) /\ c.states # <<>> /\ Formed(c)
  BY CharKeeps, FramedFormed
<1> HIDE DEF c
<1>2. Framed(e, c)
  BY <1>1 DEF Framed, Formed, Keeps, Like
<1>3. Keeps(e, d) /\ Formed(d) /\ d.states # <<>>
  BY <1>1, <1>2, EscapeKeeps, FramedFormed DEF Escape, Formed, Fresh
<1> HIDE DEF d
<1>4. Keeps(d, Took(d)) /\ Took(d).states # <<>>
  BY <1>3, TookKeeps
<1>5. Escaped(x, kind, k) = Took(d)
  BY DEF Escaped, d, c
<1>6. QED  BY <1>3, <1>4, <1>5, KeepsTrans

LEMMA ClosedSteps == ASSUME NEW e, Formed(e) PROVE Closed(e)
<1>1. Keeps(e, e)
  BY FramedSelf
<1>2. ASSUME NEW x, Keeps(e, x), NEW i, NEW m, NEW b, NEW k, NEW kind
      PROVE  /\ Keeps(e, Took(x)) /\ Keeps(e, Moved(x)) /\ Keeps(e, HornMoved(x))
             /\ Keeps(e, Mark(x, i, m)) /\ Keeps(e, Unhorned(x, i))
             /\ Keeps(e, Synthetic(x, i)) /\ Keeps(e, Biased(x, b))
             /\ Keeps(e, ProcessChar(x, k))
             /\ kind # "None" => Keeps(e, Escaped(x, kind, k))
  <2>0. Formed(x)
    BY <1>2, FramedFormed
  <2>1. Keeps(x, Took(x)) /\ Keeps(x, Mark(x, i, m)) /\ Keeps(x, Synthetic(x, i))
    BY <2>0, TookKeeps, MarkKeeps, SyntheticKeeps
  <2>2. Keeps(x, Biased(x, b)) /\ Keeps(x, ProcessChar(x, k))
    BY <2>0, BiasedKeeps, CharKeeps
  <2>3. Keeps(x, Unhorned(x, i))
    BY <2>0, WordSetKeeps DEF Unhorned
  <2>4. Keeps(x, Moved(x))
    <3> DEFINE y == [x EXCEPT !.states = RelocateToneToTarget(@)]
    <3>1. Keeps(x, y)
      BY <2>0, WordSetKeeps
    <3> HIDE DEF y
    <3>2. Keeps(y, Took(y))
      BY <2>0, <3>1, TookKeeps, FramedFormed
    <3>3. Keeps(x, Took(y))
      BY <3>1, <3>2, KeepsTrans
    <3>4. QED  BY <3>3 DEF Moved, y
  <2>5. Keeps(x, HornMoved(x))
    <3> DEFINE y == [x EXCEPT !.states = RelocateToneToHornVowel(@)]
    <3>1. Keeps(x, y)
      BY <2>0, WordSetKeeps
    <3> HIDE DEF y
    <3>2. Keeps(y, Took(y))
      BY <2>0, <3>1, TookKeeps, FramedFormed
    <3>3. Keeps(x, Took(y))
      BY <3>1, <3>2, KeepsTrans
    <3>4. QED  BY <3>3 DEF HornMoved, y
  <2>6. kind # "None" => Keeps(x, Escaped(x, kind, k))
    BY <2>0, EscapedWrites
  <2>7. QED  BY <1>2, <2>1, <2>2, <2>3, <2>4, <2>5, <2>6, KeepsTrans
<1>3. QED  BY <1>1, <1>2 DEF Closed

\* The letter before the last is gone.
LEMMA PoppedFormed ==
  ASSUME NEW e, Formed(e), e.states # <<>>
  PROVE  LET x == [e EXCEPT !.states = Front(@)]
         IN Formed(x) /\ x.hist = e.hist /\ x.quickStart = e.quickStart
<1> DEFINE w == Front(e.states)
<1>1. IsWord(w)
  BY FrontWord DEF Formed
<1> HIDE DEF w
<1>2. LET x == [e EXCEPT !.states = w]
      IN Formed(x) /\ x.hist = e.hist /\ x.quickStart = e.quickStart
  BY <1>1 DEF Formed, Fresh
<1>3. QED  BY <1>2 DEF w

LEMMA InsertCharWrote ==
  ASSUME NEW e, Formed(e), NEW base, NEW mod, mod # "None", NEW k
  PROVE  Wrote(e, HandleInsertChar(e, base, mod, k))
<1> DEFINE n == Len(e.states)
           x == [e EXCEPT !.states = Front(@)]
           popped == EraseConsumedRaw(x, e.states[n].rawIdx)
           new == Insert(e, base, mod)
<1>1. n > 0 => e.states # <<>>
  OBVIOUS
<1>2. n > 0 => Wrote(e, Escaped(popped, mod, k))
  <2>1. SUFFICES ASSUME n > 0 PROVE Wrote(e, Escaped(popped, mod, k))
    OBVIOUS
  <2>2. Formed(x) /\ x.hist = e.hist /\ x.quickStart = e.quickStart
    BY <1>1, <2>1, PoppedFormed
  <2> HIDE DEF x, n
  <2>3. Framed(x, popped) /\ Formed(popped)
    BY <2>2, ConsumedFrames, FramedFormed
  <2> HIDE DEF popped
  <2>4. popped.hist = e.hist /\ popped.quickStart = e.quickStart
    BY <2>2, <2>3 DEF Framed
  <2>5. QED  BY <2>3, <2>4, EscapedWrites DEF Wrote
<1>3. Wrote(e, Took(new))
  <2>1. Keeps(e, new) /\ new.states # <<>> /\ Formed(new)
    BY InsertKeeps, FramedFormed
  <2> HIDE DEF new
  <2>2. QED  BY <2>1, TookKeeps, KeepsTrans DEF Wrote
<1>4. \/ n > 0 /\ HandleInsertChar(e, base, mod, k) = Escaped(popped, mod, k)
      \/ HandleInsertChar(e, base, mod, k) = Took(new)
  BY DEF HandleInsertChar
<1> HIDE DEF popped, new, n
<1>5. QED  BY <1>2, <1>3, <1>4

LEMMA HornInsertWrote ==
  ASSUME NEW e, Formed(e), NEW v, NEW k
  PROVE  Wrote(e, HandleHornInsert(e, v, k))
BY InsertCharWrote, SelfWrote DEF HandleHornInsert

LEMMA UndoAllWrote ==
  ASSUME NEW e, Formed(e)
  PROVE  Wrote(e, HandleUndoAllMarks(e))
<1> DEFINE w == [i \in DOMAIN e.states |->
                   [e.states[i] EXCEPT !.mod = "None", !.tone = "None", !.toneRawIdx = 0]]
           x == [e EXCEPT !.states = w]
           y == Escape(x, "Tone")
<1>1. Like(e.states, w)
  <2>1. /\ w = [j \in DOMAIN e.states |-> w[j]]
        /\ \A j \in DOMAIN e.states : DOMAIN w[j] = DOMAIN e.states[j]
    OBVIOUS
  <2> HIDE DEF w
  <2>2. QED  BY <2>1, SamePlaces DEF Formed
<1>2. \/ HandleUndoAllMarks(e) = Took(y) /\ e.states # <<>>
      \/ HandleUndoAllMarks(e) = e
  <2>1. (\E i \in 1..Len(e.states) : HasModifier(e.states[i]) \/ HasTone(e.states[i]))
          => e.states # <<>>
    OBVIOUS
  <2>2. QED  BY <2>1 DEF HandleUndoAllMarks
<1> HIDE DEF w
<1>3. Keeps(e, x)
  BY <1>1, StatesKeeps
<1> HIDE DEF x
<1>4. Keeps(e, y) /\ Formed(y)
  BY <1>3, EscapeKeeps, FramedFormed DEF Keeps
<1> HIDE DEF y
<1>5. Keeps(e, Took(y))
  BY <1>4, TookKeeps, KeepsTrans
<1>6. QED  BY <1>2, <1>5, KeptWrote, SelfWrote

LEMMA CircumflexWrote ==
  ASSUME NEW e, Formed(e), NEW v, NEW k
  PROVE  Wrote(e, HandleAdjacentCircumflex(e, v, k))
<1>0. Closed(e)
  BY ClosedSteps
<1>1. ASSUME NEW i, NEW mod, NEW relocate, NEW key
      PROVE  Keeps(e, MarkUnlessRejected(e, i, mod, relocate, key))
  BY <1>0 DEF MarkUnlessRejected, Closed
<1>2. Keeps(e, CircumflexOnLast(e, v, k))
  BY <1>0, <1>1 DEF CircumflexOnLast, Closed
<1>3. Keeps(e, CircumflexAcross(e, v, k))
  BY <1>0 DEF CircumflexAcross, Closed
<1>4. QED  BY <1>2, <1>3, KeptWrote, SelfWrote DEF HandleAdjacentCircumflex

\* Without letters a w is a new horned u or nothing.
LEMMA LastOfNone == LastOf({}) = 0 /\ FirstOf({}) = 0
BY DEF LastOf, FirstOf

LEMMA HornWrote ==
  ASSUME NEW e, Formed(e), NEW k
  PROVE  Wrote(e, HandleHornW(e, k))
<1>0. Closed(e)
  BY ClosedSteps
<1>1. CASE e.states = <<>>
  <2> DEFINE new == Insert(e, "u", "Horn")
             synthetic == Took(Synthetic(new, 1))
  <2>1. HandleHornW(e, k) \in {e, synthetic}
    BY <1>1, LastOfNone DEF HandleHornW, VowelPairs, FreeVowels
  <2>2. Keeps(e, new) /\ new.states # <<>> /\ Formed(new)
    BY InsertKeeps, FramedFormed
  <2> HIDE DEF new
  <2>3. Wrote(new, synthetic)
    BY <2>2, ClosedSteps, KeptWrote DEF Closed
  <2>4. Keeps(e, synthetic) /\ synthetic.states # <<>>
    BY <2>2, <2>3, KeepsTrans DEF Wrote, Keeps, Framed, Like
  <2>5. QED  BY <2>1, <2>4, SelfWrote DEF Wrote
<1>2. CASE e.states # <<>>
  <2> DEFINE x == [e EXCEPT !.states = Front(@)]
  <2>1. Keeps(e, Escaped(x, "Horn", k))
    BY <1>2, PoppedFormed, EscapedWrites
  <2>2. \A i : Keeps(e, Took(Synthetic(Insert(e, "u", "Horn"), i)))
    BY <1>0, InsertKeeps DEF Closed
  <2>3. Keeps(e, HandleHornW(e, k))
    BY <1>0, <2>1, <2>2 DEF HandleHornW, VowelPairs, FreeVowels, Closed
  <2>4. QED  BY <1>2, <2>3, KeptWrote
<1>3. QED  BY <1>1, <1>2

LEMMA HornOrInsertWrote ==
  ASSUME NEW e, Formed(e), NEW x, Wrote(e, x), NEW k
  PROVE  Wrote(e, HandleHornOrInsertU(e, x, k))
<1> DEFINE new == HandleHornInsert(e, "u", k)
           s == Synthetic(new, Len(e.states) + 1)
<1>1. Wrote(e, new)
  BY HornInsertWrote
<1>2. HandleHornOrInsertU(e, x, k) \in {x, new, s}
  BY DEF HandleHornOrInsertU
<1> HIDE DEF new
<1>3. Keeps(new, s) /\ s.took = new.took
  BY <1>1, SyntheticKeeps, FramedFormed DEF Wrote, Synthetic, Formed, Fresh
<1> HIDE DEF s
<1>4. Wrote(e, s)
  BY <1>1, <1>3, KeepsTrans DEF Wrote, Keeps, Framed, Like
<1>5. QED  BY <1>1, <1>2, <1>4

LEMMA StrokeWrote ==
  ASSUME NEW e, Formed(e), NEW k
  PROVE  Wrote(e, HandleStrokeD(e, k))
<1>0. Closed(e)
  BY ClosedSteps
<1>1. e.states = <<>> => HandleStrokeD(e, k) = e
  <2>1. e.states = <<>> => FindStrokeDTarget(e.states) = 0
    BY LastOfNone DEF FindStrokeDTarget, Where
  <2>2. QED  BY <2>1 DEF HandleStrokeD, IsStrokeDEscapeAllowed
<1>2. Keeps(e, HandleStrokeD(e, k))
  BY <1>0 DEF HandleStrokeD, IsStrokeDEscapeAllowed, Closed
<1>3. QED  BY <1>1, <1>2, SelfWrote, KeptWrote

LEMMA VniVowelWrote ==
  ASSUME NEW e, Formed(e), NEW mod, NEW k
  PROVE  Wrote(e, ProcessVniVowelModifier(e, mod, k))
<1>0. Closed(e)
  BY ClosedSteps
<1>1. ASSUME NEW i, NEW relocate, NEW key
      PROVE  Keeps(e, MarkUnlessRejected(e, i, mod, relocate, key))
  BY <1>0 DEF MarkUnlessRejected, Closed
<1>2. e.states = <<>> => ProcessVniVowelModifier(e, mod, k) = e
  BY DEF ProcessVniVowelModifier
<1>3. Keeps(e, ProcessVniVowelModifier(e, mod, k))
  BY <1>0, <1>1 DEF ProcessVniVowelModifier, Closed
<1>4. QED  BY <1>2, <1>3, SelfWrote, KeptWrote

LEMMA VniHornWrote ==
  ASSUME NEW e, Formed(e), NEW k
  PROVE  Wrote(e, HandleVniHorn(e, k))
<1>0. Closed(e)
  BY ClosedSteps
<1>1. Wrote(e, ProcessVniVowelModifier(e, "Horn", k))
  BY VniVowelWrote
<1>2. e.states = <<>> => HandleVniHorn(e, k) = ProcessVniVowelModifier(e, "Horn", k)
  <2>1. e.states = <<>> => NucleusAt(e.states) = {}
    BY DEF NucleusAt
  <2>2. QED  BY <2>1, LastOfNone DEF HandleVniHorn
<1>3. Keeps(e, HandleVniHorn(e, k))
  BY <1>0, <1>1 DEF HandleVniHorn, Closed, Wrote
<1>4. QED  BY <1>1, <1>2, <1>3, KeptWrote

\* A letter that the user's key map inserts carries a mark.
Marked(act) == act[1] = "InsertChar" => act[3] # "None"

LEMMA ModifierWrote ==
  ASSUME NEW e, Formed(e), NEW act, NEW k, Marked(act),
         \/ IsTelexModifierAction(act) \/ IsVniModifierAction(act)
         \/ IsUserDefinedOnlyAction(act)
  PROVE  Wrote(e, ProcessModifier(e, act, k))
<1>1. \E y \in {e, HandleAdjacentCircumflex(e, act[2], k), HandleHornInsert(e, act[2], k),
                HandleStrokeD(e, k), HandleVniHorn(e, k),
                ProcessVniVowelModifier(e, act[2], k), Horned(e, HandleHornW(e, k), act, k),
                HandleUndoAllMarks(e)} :
        \/ ProcessModifier(e, act, k) = y
        \/ /\ act[1] = "InsertChar"
           /\ ProcessModifier(e, act, k) = HandleInsertChar(e, act[2], act[3], k)
  BY DEF ProcessModifier, IsTelexModifierAction, IsVniModifierAction, IsUserDefinedOnlyAction
<1>2. Wrote(e, Horned(e, HandleHornW(e, k), act, k))
  BY HornWrote, HornOrInsertWrote DEF Horned
<1>3. /\ Wrote(e, e) /\ Wrote(e, HandleAdjacentCircumflex(e, act[2], k))
      /\ Wrote(e, HandleHornInsert(e, act[2], k)) /\ Wrote(e, HandleStrokeD(e, k))
      /\ Wrote(e, HandleVniHorn(e, k)) /\ Wrote(e, ProcessVniVowelModifier(e, act[2], k))
      /\ Wrote(e, HandleUndoAllMarks(e))
  BY SelfWrote, CircumflexWrote, HornInsertWrote, StrokeWrote, VniHornWrote, VniVowelWrote,
     UndoAllWrote
<1>4. act[1] = "InsertChar" => Wrote(e, HandleInsertChar(e, act[2], act[3], k))
  BY InsertCharWrote DEF Marked
<1>5. QED  BY <1>1, <1>2, <1>3, <1>4

LEMMA ModifierDone ==
  ASSUME NEW e, Formed(e), NEW act, NEW k, Marked(act)
  PROVE  Done(e, ModifierRule(e, act, k)) /\ (e.took => ModifierRule(e, act, k) = e)
<1>1. Done(e, e)
  BY FramedSelf DEF Done
<1>2. CASE \/ e.took
           \/ ~(IsTelexModifierAction(act) \/ IsVniModifierAction(act)
                \/ IsUserDefinedOnlyAction(act))
  BY <1>1, <1>2 DEF ModifierRule
<1>3. CASE /\ ~e.took
           /\ \/ IsTelexModifierAction(act) \/ IsVniModifierAction(act)
              \/ IsUserDefinedOnlyAction(act)
  <2> DEFINE hard == Biased(e, "HardEnglish")
             settled(x) == IF x.took THEN UpdateSpellState(Biased(Completed(x), "Vietnamese"))
                           ELSE x
  <2>1. \E e1 \in {e, hard} :
          ModifierRule(e, act, k) \in {e1, settled(ProcessModifier(e1, act, k))}
    BY <1>3 DEF ModifierRule, HandleModifierAction
  <2>2. Keeps(e, hard) /\ Formed(hard) /\ hard.took = e.took /\ Keeps(e, e)
    BY BiasedKeeps, FramedFormed, FramedSelf DEF Biased, Formed, Fresh
  <2> HIDE DEF hard
  <2>3. ASSUME NEW e1 \in {e, hard}
        PROVE  Done(e, e1) /\ Done(e, settled(ProcessModifier(e1, act, k)))
    <3>1. Keeps(e, e1) /\ Formed(e1) /\ e1.took = e.took
      BY <2>2
    <3> DEFINE x == ProcessModifier(e1, act, k)
               b == Biased(Completed(x), "Vietnamese")
               u == UpdateSpellState(b)
    <3>2. Wrote(e1, x) /\ Formed(x)
      BY <1>3, <3>1, ModifierWrote, FramedFormed DEF Wrote
    <3> HIDE DEF x
    <3>3. Keeps(x, b) /\ Formed(b)
      BY <3>2, WordSetKeeps, BiasedKeeps, FramedFormed, KeepsTrans
    <3> HIDE DEF b
    <3>4. Keeps(b, u) /\ Checked(u)
      BY <3>3, SpellKeeps, SpellChecks
    <3> HIDE DEF u
    <3>5. Keeps(e, x) /\ Keeps(e, u) /\ (x.took => u.states # <<>>)
      <4>1. Keeps(e, x) /\ Keeps(x, u)
        BY <3>1, <3>2, <3>3, <3>4, KeepsTrans DEF Wrote
      <4>2. x.took => x.states # <<>>
        BY <1>3, <3>1, <3>2 DEF Wrote
      <4>3. QED  BY <4>1, <4>2, KeepsTrans DEF Keeps, Framed, Like
    <3>6. settled(x) = IF x.took THEN u ELSE x
      BY DEF u, b
    <3>7. Done(e, e1)
      BY <1>3, <3>1 DEF Done
    <3>8. Done(e, settled(x))
      BY <3>4, <3>5, <3>6 DEF Done
    <3>9. QED  BY <3>7, <3>8 DEF x
  <2> HIDE DEF settled
  <2>4. QED  BY <1>3, <2>1, <2>3
<1>4. QED  BY <1>2, <1>3

-----------------------------------------------------------------------------
(* A key.                                                                   *)

\* A leading w that was turned back behind the spell check.
Reverted(e) ==
  /\ config.method = "Telex" /\ e.bias = "HardEnglish"
  /\ e.states # <<>> /\ e.states[1].base = "w" /\ IsHardEnglishRawStart(e.raw)
Settled(e) == Checked(e) \/ Reverted(e)

\* A rule that is not asked once the key was taken.
Rule(x, y) == Done(x, y) /\ (x.took => y = x)

LEMMA RuleTrans ==
  ASSUME NEW x, NEW y, NEW z, Rule(x, y), Rule(y, z)
  PROVE  Rule(x, z)
BY KeepsTrans DEF Rule, Done

LEMMA RuleSelf == ASSUME NEW x, Formed(x) PROVE Rule(x, x)
BY FramedSelf DEF Rule, Done

LEMMA RuleFormed == ASSUME NEW x, NEW y, Formed(x), Rule(x, y) PROVE Formed(y)
BY FramedFormed DEF Rule, Done

\* Two letters, the flag brought up to date.
LEMMA TwoLetters ==
  ASSUME NEW e, Formed(e), NEW a, NEW b
  PROVE  LET u == UpdateSpellState(ProcessChar(ProcessChar(e, a), b))
         IN Keeps(e, u) /\ Checked(u) /\ u.states # <<>>
<1> DEFINE c == ProcessChar(e, a)
           d == ProcessChar(c, b)
           u == UpdateSpellState(d)
<1>1. Keeps(e, c) /\ Formed(c)
  BY CharKeeps, FramedFormed
<1> HIDE DEF c
<1>2. Keeps(c, d) /\ d.states # <<>> /\ Formed(d)
  BY <1>1, CharKeeps, FramedFormed
<1> HIDE DEF d
<1>3. Keeps(d, u) /\ Checked(u) /\ u.states = d.states
  BY <1>2, SpellKeeps, SpellChecks
<1> HIDE DEF u
<1>4. Keeps(e, u) /\ Checked(u) /\ u.states # <<>>
  BY <1>1, <1>2, <1>3, KeepsTrans
<1>5. QED  BY <1>4 DEF u, d, c

LEMMA QuickEndDone ==
  ASSUME NEW e, Formed(e), NEW k
  PROVE  Rule(e, QuickEndRule(e, k))
<1> DEFINE u == UpdateSpellState(ProcessChar(ProcessChar(e, QuickEnd(k)[1]), QuickEnd(k)[2]))
<1>1. Keeps(e, u) /\ Checked(u) /\ u.states # <<>> /\ Formed(u)
  BY TwoLetters, FramedFormed
<1>2. QuickEndRule(e, k) = e \/ (~e.took /\ QuickEndRule(e, k) = Took(u))
  BY DEF QuickEndRule
<1> HIDE DEF u
<1>3. Keeps(e, Took(u)) /\ Checked(Took(u)) /\ Took(u).states # <<>>
  BY <1>1, TookKeeps, TookChecked, KeepsTrans
<1>4. QED  BY <1>2, <1>3, RuleSelf DEF Rule, Done

\* The bias that a leading w, z, j or f gives stays hard English.
LEMMA ZwjfKeeps ==
  ASSUME NEW x, Formed(x)
  PROVE  LET z == ZwjfBias(x)
         IN /\ Keeps(x, z) /\ z.states = x.states /\ z.off = x.off /\ z.took = x.took
            /\ z.raw = x.raw /\ (x.bias = "HardEnglish" => z.bias = "HardEnglish")
<1> DEFINE b == CheckZwjfInitialBias(x.states, x.bias, config.spell, config.zwjf)
<1>1. ZwjfBias(x) \in {x, Biased(x, b)}
  BY DEF ZwjfBias
<1>2. x.bias = "HardEnglish" => b = "HardEnglish"
  BY DEF CheckZwjfInitialBias
<1> HIDE DEF b
<1>3. LET z == Biased(x, b)
      IN /\ z.states = x.states /\ z.off = x.off /\ z.took = x.took /\ z.raw = x.raw
         /\ z.bias = b
  BY DEF Biased, Formed, Fresh
<1>4. QED  BY <1>1, <1>2, <1>3, BiasedKeeps, FramedSelf

\* The w comes back: the letters stay as many, the raw keys as they are.
LEMMA TurnedKeeps ==
  ASSUME NEW x, Formed(x), Checked(x)
  PROVE  LET y == UndoSyntheticHornIfEnglish(x)
         IN Keeps(x, y) /\ Settled(y) /\ y.took = x.took
<1> DEFINE w == [x.states EXCEPT ![1].base = "w", ![1].mod = "None", ![1].synthetic = FALSE]
           y == [x EXCEPT !.bias = "HardEnglish", !.states = w]
           turns == /\ config.method = "Telex" /\ x.states # <<>>
                    /\ IsHardEnglishRawStart(x.raw)
<1>1. Like(x.states, w)
  <2>1. /\ w = [i \in DOMAIN x.states |-> w[i]]
        /\ \A i \in DOMAIN x.states : DOMAIN w[i] = DOMAIN x.states[i]
    OBVIOUS
  <2> HIDE DEF w
  <2>2. QED  BY <2>1, SamePlaces DEF Formed
<1>2. x.states # <<>> => w[1].base = "w"
  <2>1. SUFFICES ASSUME x.states # <<>> PROVE w[1].base = "w"
    OBVIOUS
  <2>2. PICK R : x.states \in Seq(R) /\ \A s \in R : "base" \in DOMAIN s
    BY DEF Formed, IsWord
  <2>3. 1 \in DOMAIN x.states /\ x.states[1] \in R
    BY <2>1, <2>2
  <2>4. "base" \in DOMAIN x.states[1]
    BY <2>2, <2>3
  <2>5. QED  BY <2>3, <2>4
<1>3. \/ UndoSyntheticHornIfEnglish(x) = x
      \/ turns /\ UndoSyntheticHornIfEnglish(x) = y
  BY DEF UndoSyntheticHornIfEnglish
<1> HIDE DEF w
<1>4. /\ Keeps(x, y) /\ y.states = w /\ y.bias = "HardEnglish" /\ y.took = x.took
      /\ y.raw = x.raw
  BY <1>1 DEF Keeps, Framed, Formed, Fresh
<1> HIDE DEF y
<1>5. turns => Reverted(y)
  BY <1>1, <1>2, <1>4 DEF Reverted, Like
<1>6. QED  BY <1>3, <1>4, <1>5, FramedSelf DEF Settled

\* Behind a letter the flag is up to date, or the w came back after it was.
LEMMA FinalSettled ==
  ASSUME NEW e, Formed(e), e.states # <<>>
  PROVE  LET y == FinalizeRegularChar(e)
         IN Keeps(e, y) /\ Settled(y) /\ y.took = e.took /\ y.states # <<>>
<1> DEFINE s == [e EXCEPT !.states = RelocateToneToTarget(@)]
           c == Completed(s)
           g == [c EXCEPT !.bias = CheckEnglishBias(c.states, @)]
           u == UpdateSpellState(g)
           v == UndoSyntheticHornIfEnglish(u)
           z == ZwjfBias(v)
<1>1. Keeps(e, s) /\ Formed(s) /\ s.took = e.took
  BY WordSetKeeps, FramedFormed DEF Formed, Fresh
<1> HIDE DEF s
<1>2. Keeps(s, c) /\ Formed(c) /\ c.took = s.took
  BY <1>1, WordSetKeeps, FramedFormed
<1> HIDE DEF c
<1>3. Keeps(c, g) /\ Formed(g) /\ g.took = c.took
  BY <1>2, FlagsKeep, FramedFormed DEF Formed, Fresh
<1> HIDE DEF g
<1>4. Keeps(g, u) /\ Formed(u) /\ Checked(u) /\ u.took = g.took
  BY <1>3, SpellKeeps, SpellChecks, FramedFormed
<1> HIDE DEF u
<1>5. Keeps(u, v) /\ Formed(v) /\ Settled(v) /\ v.took = u.took
  BY <1>4, TurnedKeeps, FramedFormed
<1> HIDE DEF v
<1>6. Keeps(v, z) /\ Settled(z) /\ z.took = v.took
  BY <1>5, ZwjfKeeps DEF Settled, Checked, Reverted
<1> HIDE DEF z
<1>7. Keeps(e, z)
  BY <1>1, <1>2, <1>3, <1>4, <1>5, <1>6, KeepsTrans
<1>8. z.states # <<>>
  BY <1>7 DEF Keeps, Framed, Like
<1>9. FinalizeRegularChar(e) = z
  BY DEF FinalizeRegularChar, z, v, u, g, c, s
<1>10. QED  BY <1>1, <1>2, <1>3, <1>4, <1>5, <1>6, <1>7, <1>8, <1>9

\* A quick pair that takes the key leaves a settled word.
Finished(x, y) ==
  /\ Keeps(x, y)
  /\ y.took => x.took \/ (Settled(y) /\ y.states # <<>>)

LEMMA QuickFinished ==
  ASSUME NEW e, Formed(e), NEW k
  PROVE  Finished(e, QuickConsonant(e, k))
<1> DEFINE n == Len(e.states)
           e1 == [e EXCEPT !.qc.escaped = FALSE, !.qc.key = IF @ = k THEN @ ELSE ""]
           f == [e1 EXCEPT !.qc.at = n + 1, !.qc.key = k, !.qc.only = (n = 1)]
           pair == FinalizeRegularChar(ProcessChar(f, QuickPair(k)))
           uo == UpdateSpellState(Insert(Mark(f, n, "Horn"), "o", "Horn"))
<1>1. QuickConsonant(e, k) \in {e1, Took(pair), Took(uo)}
  BY DEF QuickConsonant
<1>2. Keeps(e, e1) /\ e1.took = e.took /\ Formed(e1)
  <2>1. Keeps(e, e1)
    BY LikeSelf DEF Keeps, Framed, Formed, Fresh
  <2>2. QED  BY <2>1, FramedFormed DEF Formed, Fresh
<1>3. Keeps(e1, f) /\ Formed(f)
  <2> HIDE DEF e1
  <2>1. Keeps(e1, f)
    BY <1>2, LikeSelf DEF Keeps, Framed, Formed, Fresh
  <2>2. QED  BY <1>2, <2>1, FramedFormed
<1> HIDE DEF e1, n, f
<1>4. Keeps(e, f)
  BY <1>2, <1>3, KeepsTrans
<1>5. Keeps(e, pair) /\ Settled(pair) /\ pair.states # <<>> /\ Formed(pair)
  <2> DEFINE c == ProcessChar(f, QuickPair(k))
  <2>1. Keeps(f, c) /\ Formed(c) /\ c.states # <<>>
    BY <1>3, CharKeeps, FramedFormed
  <2> HIDE DEF c
  <2>2. /\ Keeps(c, FinalizeRegularChar(c)) /\ Settled(FinalizeRegularChar(c))
        /\ FinalizeRegularChar(c).states # <<>> /\ Formed(FinalizeRegularChar(c))
    BY <2>1, FinalSettled, FramedFormed
  <2>3. Keeps(e, FinalizeRegularChar(c))
    BY <1>4, <2>1, <2>2, KeepsTrans
  <2>4. QED  BY <2>2, <2>3 DEF c
<1>6. Keeps(e, uo) /\ Settled(uo) /\ uo.states # <<>> /\ Formed(uo)
  <2> DEFINE m == Mark(f, n, "Horn")
             i == Insert(m, "o", "Horn")
  <2>1. Keeps(f, m) /\ Formed(m)
    BY <1>3, MarkKeeps, FramedFormed
  <2> HIDE DEF m
  <2>2. Keeps(m, i) /\ Formed(i) /\ i.states # <<>>
    BY <2>1, InsertKeeps, FramedFormed
  <2> HIDE DEF i
  <2>3. /\ Keeps(i, UpdateSpellState(i)) /\ Checked(UpdateSpellState(i))
        /\ UpdateSpellState(i).states # <<>> /\ Formed(UpdateSpellState(i))
    BY <2>2, SpellKeeps, SpellChecks, FramedFormed
  <2>4. Keeps(e, UpdateSpellState(i))
    BY <1>4, <2>1, <2>2, <2>3, KeepsTrans
  <2>5. QED  BY <2>3, <2>4 DEF i, m, Settled
<1> HIDE DEF pair, uo
<1>7. ASSUME NEW x, Keeps(e, x), Settled(x), x.states # <<>>, Formed(x)
      PROVE  Finished(e, Took(x))
  <2>1. Keeps(e, Took(x))
    BY <1>7, TookKeeps, KeepsTrans
  <2>2. Settled(Took(x)) /\ Took(x).states # <<>>
    BY <1>7 DEF Took, Settled, Checked, Reverted, Formed, Fresh
  <2>3. QED  BY <2>1, <2>2 DEF Finished
<1>8. QED  BY <1>1, <1>2, <1>5, <1>6, <1>7 DEF Finished

\* What the rule of the quick consonants leaves of the engine e that key k has
\* been added to: it may have started a word, or given back the key of a start.
Started(e, k, y) ==
  /\ Formed(y) /\ y.hist = e.hist
  /\ e.states # <<>> => y.states # <<>>
  /\ y.took => Settled(y) /\ y.states # <<>>
  /\ y.quickStart = "" \/ (y.took /\ y.quickStart = k /\ e.states = <<>>)
  /\ y.esc = "None" => /\ e.esc = "None"
                       /\ \/ y.raw = e.raw
                          \/ e.quickStart # "" /\ y.raw = <<e.quickStart, k>>

LEMMA QuickStarted ==
  ASSUME NEW e, Formed(e), e.took = FALSE, NEW k
  PROVE  Started(e, k, HandleQuickStartConsonant(e, k))
<1> DEFINE y == HandleQuickStartConsonant(e, k)
<1>1. CASE config.quickStart /\ e.states = <<>> /\ k \in {"f", "j", "w"}
  <2> DEFINE c == ProcessChar(ProcessChar(e, QuickStart(k)[1]), QuickStart(k)[2])
             q == [c EXCEPT !.quickStart = k]
             u == UpdateSpellState(q)
  <2>1. Keeps(e, c) /\ c.states # <<>> /\ Formed(c)
    <3> DEFINE b == ProcessChar(e, QuickStart(k)[1])
    <3>1. Keeps(e, b) /\ Formed(b)
      BY CharKeeps, FramedFormed
    <3> HIDE DEF b
    <3>2. LET d == ProcessChar(b, QuickStart(k)[2])
          IN Keeps(b, d) /\ d.states # <<>> /\ Formed(d) /\ Keeps(e, d)
      BY <3>1, CharKeeps, FramedFormed, KeepsTrans
    <3>3. QED  BY <3>2 DEF b
  <2> HIDE DEF c
  <2>2. /\ Formed(q) /\ q.hist = e.hist /\ q.quickStart = k /\ q.states # <<>>
        /\ q.esc = "None" => e.esc = "None" /\ q.raw = e.raw
    BY <2>1 DEF Formed, Fresh, Keeps, Framed
  <2> HIDE DEF q
  <2>3. Keeps(q, u) /\ Checked(u) /\ u.states # <<>> /\ Formed(u)
    BY <2>2, SpellKeeps, SpellChecks, FramedFormed
  <2> HIDE DEF u
  <2>4. /\ Keeps(u, Took(u)) /\ Settled(Took(u)) /\ Took(u).states # <<>> /\ Formed(Took(u))
        /\ Took(u).took = TRUE
    BY <2>3, TookKeeps, TookChecked, FramedFormed DEF Settled
  <2>5. y = Took(u)
    BY <1>1 DEF HandleQuickStartConsonant, u, q, c
  <2>6. Keeps(q, Took(u))
    BY <2>3, <2>4, KeepsTrans
  <2> HIDE DEF y
  <2>7. QED  BY <1>1, <2>2, <2>4, <2>5, <2>6 DEF Started, Keeps, Framed, y
<1>2. CASE ~(config.quickStart /\ e.states = <<>> /\ k \in {"f", "j", "w"})
  <2> DEFINE u == UndoQuickStart(e, k)
             first == NewState(e.quickStart, "None", <<e.quickStart>>)
  <2>1. /\ Formed(u) /\ u.hist = e.hist /\ u.quickStart = "" /\ u.took = FALSE /\ u.esc = e.esc
        /\ e.states # <<>> => u.states # <<>>
        /\ u.raw = e.raw \/ (e.quickStart # "" /\ u.raw = <<e.quickStart, k>>)
    <3>1. "base" \in DOMAIN first
      BY DEF NewState
    <3> HIDE DEF first
    <3>2. IsWord(<<first>>) /\ <<first>> # <<>>
      BY <3>1, OneWord
    <3>3. \/ u = [e EXCEPT !.quickStart = ""]
          \/ /\ e.quickStart # ""
             /\ u = [e EXCEPT !.quickStart = "", !.states = <<first>>,
                              !.raw = <<e.quickStart, k>>]
      BY DEF UndoQuickStart, first
    <3> HIDE DEF u
    <3>4. QED  BY <3>2, <3>3 DEF Formed, Fresh
  <2> HIDE DEF u
  <2>2. Finished(u, QuickConsonant(u, k)) /\ Formed(QuickConsonant(u, k))
    BY <2>1, QuickFinished, FramedFormed DEF Finished
  <2>3. y = QuickConsonant(u, k)
    BY <1>2 DEF HandleQuickStartConsonant, u
  <2> HIDE DEF y
  <2>4. QED  BY <2>1, <2>2, <2>3 DEF Started, Finished, Keeps, Framed, Like, y
<1>3. QED  BY <1>1, <1>2

LEMMA ActionMarked ==
  ASSUME NEW e, NEW k, config \in Configs
  PROVE  Marked(ActionOf(e, k))
<1>1. \A telex, vni : Marked(ClassifyKey(k, telex, vni))
  BY DEF Marked, ClassifyKey
<1>2. Marked(<<"None">>)
  BY DEF Marked
<1>3. k \in DOMAIN config.keyMap => Marked(config.keyMap[k])
  BY InsertsAreMarked DEF Marked
<1>4. QED  BY <1>1, <1>2, <1>3 DEF ActionOf

LEMMA RulesDone ==
  ASSUME NEW e, Formed(e), NEW act, NEW k, Marked(act)
  PROVE  Rule(e, ApplyRules(e, act, k))
<1> DEFINE t == ToneRule(e, act, k)
           m == ModifierRule(t, act, k)
<1>1. Rule(e, t) /\ Formed(t)
  BY ToneDone, RuleFormed DEF Rule
<1> HIDE DEF t
<1>2. Rule(t, m) /\ Formed(m)
  BY <1>1, ModifierDone, RuleFormed DEF Rule
<1> HIDE DEF m
<1>3. Rule(m, QuickEndRule(m, k))
  BY <1>2, QuickEndDone
<1>4. Rule(e, QuickEndRule(m, k))
  BY <1>1, <1>2, <1>3, RuleTrans
<1>5. QED  BY <1>4 DEF ApplyRules, m, t

\* What a key leaves of engine e.
Pressed(e, k, y) ==
  /\ Formed(y) /\ Settled(y) /\ y.states # <<>>
  /\ y.hist = Append(e.hist, k)
  /\ y.quickStart = "" \/ (y.quickStart = k /\ e.states = <<>>)
  /\ y.esc = "None" => /\ e.esc = "None"
                       /\ \/ y.raw = Append(e.raw, k)
                          \/ e.quickStart # "" /\ y.raw = <<e.quickStart, k>>

LEMMA KeyPressed ==
  ASSUME NEW e, Formed(e), NEW k, config \in Configs
  PROVE  Pressed(e, k, PushChar(e, k))
<1> DEFINE p == [e EXCEPT !.raw = Append(@, k), !.hist = Append(@, k),
                          !.qc.only = FALSE, !.took = FALSE]
           h == HandleQuickStartConsonant(p, k)
           d == DispatchKey(h, k)
           c == ProcessChar(d, k)
           f == FinalizeRegularChar(c)
<1>1. /\ Formed(p) /\ p.took = FALSE /\ p.hist = Append(e.hist, k) /\ p.raw = Append(e.raw, k)
      /\ p.states = e.states /\ p.esc = e.esc /\ p.quickStart = e.quickStart
  BY DEF Formed, Fresh
<1> HIDE DEF p
<1>2. Started(p, k, h) /\ Formed(h)
  <2>1. Started(p, k, h)
    BY <1>1, QuickStarted
  <2> HIDE DEF h
  <2>2. QED  BY <2>1 DEF Started
<1> HIDE DEF h
<1>3. Rule(h, d) /\ Formed(d)
  BY <1>2, ActionMarked, RulesDone, RuleFormed DEF DispatchKey
<1>4. PushChar(e, k) = IF d.took THEN d ELSE f
  BY DEF PushChar, RegularChar, f, c, d, h, p
<1> HIDE DEF d
<1>5. CASE d.took
  <2>1. Keeps(h, d)
    BY <1>3 DEF Rule, Done
  <2>2. Settled(d) /\ d.states # <<>>
    BY <1>2, <1>3, <1>5 DEF Started, Rule, Done, Settled
  <2>3. d.quickStart = "" \/ (d.quickStart = k /\ e.states = <<>>)
    BY <1>1, <1>2, <2>1 DEF Started, Keeps, Framed
  <2>4. QED  BY <1>1, <1>2, <1>3, <1>4, <1>5, <2>1, <2>2, <2>3
             DEF Started, Keeps, Framed, Pressed
<1>6. CASE ~d.took
  <2>1. Keeps(d, c) /\ c.states # <<>> /\ Formed(c)
    BY <1>3, CharKeeps, FramedFormed
  <2> HIDE DEF c
  <2>2. Keeps(c, f) /\ Settled(f) /\ f.states # <<>> /\ Formed(f)
    BY <2>1, FinalSettled, FramedFormed
  <2> HIDE DEF f
  <2>3. Keeps(h, f)
    BY <1>3, <2>1, <2>2, KeepsTrans DEF Rule, Done
  <2>4. ~h.took
    BY <1>3, <1>6 DEF Rule
  <2>5. f.quickStart = ""
    BY <1>2, <2>3, <2>4 DEF Started, Keeps, Framed
  <2>6. QED  BY <1>1, <1>2, <1>4, <1>6, <2>2, <2>3, <2>5
             DEF Started, Keeps, Framed, Pressed
<1>7. QED  BY <1>5, <1>6

-----------------------------------------------------------------------------
(* The other operations.                                                    *)

LEMMA FreshSettled == Formed(Fresh) /\ Settled(Fresh)
<1>1. DOMAIN Fresh = DOMAIN Fresh /\ Fresh.states = <<>> /\ Fresh.off = FALSE
  BY DEF Fresh
<1>2. QED  BY <1>1, EmptyWord DEF Formed, Settled, Checked, SpellCheckDisabled

\* The bias looked at anew leaves the word and the flag alone.
LEMMA RecalcSettled ==
  ASSUME NEW x, Formed(x)
  PROVE  LET y == RecalcEnglishBias(UpdateSpellState(x)) IN Formed(y) /\ Settled(y)
<1> DEFINE u == UpdateSpellState(x)
<1>1. Formed(u) /\ Checked(u)
  BY SpellKeeps, SpellChecks, FramedFormed
<1> HIDE DEF u
<1>2. Formed(RecalcEnglishBias(u)) /\ Checked(RecalcEnglishBias(u))
  BY <1>1, RecalcKeeps, FramedFormed DEF Checked
<1>3. QED  BY <1>2 DEF u, Settled

\* The last letter is taken out, or what a quick consonant has made.
LEMMA BackSettled ==
  ASSUME NEW e, Formed(e), Settled(e)
  PROVE  Formed(Backspace(e)) /\ Settled(Backspace(e))
<1>1. CASE e.states = <<>>
  BY <1>1 DEF Backspace
<1>2. CASE e.states # <<>>
  <2> DEFINE w == e.states
             n == Len(w)
             undone == Front(UndoHornU(w, n))
             left == Front(w)
             first == <<NewState(e.quickStart, "None", <<e.quickStart>>)>>
             e0 == [e EXCEPT !.esc = "None", !.quickStart = ""]
             start == [e0 EXCEPT !.raw = <<e.quickStart>>, !.states = first]
             back == [e0 EXCEPT !.states = undone,
                                !.qc.at = 0, !.qc.key = "", !.qc.escaped = TRUE]
             typed == IF e.qc.key = "" THEN back ELSE ProcessChar(back, e.qc.key)
             cut == [e0 EXCEPT !.states = left, !.qc.at = 0, !.qc.key = "",
                               !.raw = SubSeq(@, 1, Min({Len(@), w[n].rawIdx - 1})),
                               !.hist = IF n = 1 \/ @ = <<>> THEN <<>> ELSE Front(@)]
  <2>1. IsWord(left) /\ IsWord(undone) /\ IsWord(first)
    <3>1. IsWord(left)
      BY <1>2, FrontWord DEF Formed
    <3>2. IsWord(undone)
      BY <1>2, UnhornedLike, FrontWord DEF Formed, Like
    <3>3. IsWord(first)
      BY OneWord DEF NewState
    <3>4. QED  BY <3>1, <3>2, <3>3
  <2>2. \/ Backspace(e) = UpdateSpellState(start)
        \/ Backspace(e) \in {RecalcEnglishBias(UpdateSpellState(typed)),
                             RecalcEnglishBias(UpdateSpellState(cut))}
    BY <1>2 DEF Backspace
  <2> HIDE DEF left, undone, first, w, n
  <2>3. Formed(start) /\ Formed(back) /\ Formed(cut)
    BY <2>1 DEF Formed, Fresh
  <2> HIDE DEF start, back, cut
  <2>4. Formed(typed)
    <3>1. Formed(ProcessChar(back, e.qc.key))
      BY ONLY <2>3, CharKeeps, FramedFormed, ZenonT(60)
    <3>2. QED  BY ONLY <2>3, <3>1
  <2> HIDE DEF typed
  <2>5. Formed(UpdateSpellState(start)) /\ Settled(UpdateSpellState(start))
    BY <2>3, SpellKeeps, SpellChecks, FramedFormed DEF Settled
  <2>6. QED  BY <2>2, <2>3, <2>4, <2>5, RecalcSettled
<1>3. QED  BY <1>1, <1>2

LEMMA SeedSettled ==
  ASSUME NEW text \in Texts
  PROVE  Formed(SeedFrom(text)) /\ Settled(SeedFrom(text))
<1> DEFINE states == [i \in 1..Len(text) |->
             [base |-> text[i][1], mod |-> text[i][2], tone |-> text[i][3],
              synthetic |-> FALSE, rawIdx |-> i, toneRawIdx |-> 0]]
           raw == [i \in 1..Len(text) |-> text[i][1]]
           e == [Fresh EXCEPT !.states = states, !.raw = raw]
           b == CheckEnglishBias(states, "Unknown")
<1>1. IsWord(states)
  <2> DEFINE S == {states[i] : i \in 1..Len(text)}
  <2>1. Len(text) \in Nat
    BY TextsAreGlyphs
  <2>2. \A s \in S : "base" \in DOMAIN s
    OBVIOUS
  <2>3. states \in [1..Len(text) -> S]
    OBVIOUS
  <2> HIDE DEF S, states
  <2>4. states \in Seq(S)
    BY <2>1, <2>3
  <2>5. QED  BY <2>2, <2>4 DEF IsWord
<1>2. SeedFrom(text) \in {Fresh, UpdateSpellState(Biased(e, b))}
  BY DEF SeedFrom
<1> HIDE DEF states, raw, b
<1>3. Formed(e)
  BY <1>1 DEF Formed, Fresh
<1> HIDE DEF e
<1>4. Formed(Biased(e, b))
  BY <1>3, BiasedKeeps, FramedFormed
<1>5. LET u == UpdateSpellState(Biased(e, b)) IN Formed(u) /\ Settled(u)
  BY <1>4, SpellKeeps, SpellChecks, FramedFormed DEF Settled
<1>6. QED  BY <1>2, <1>5, FreshSettled

-----------------------------------------------------------------------------
(* Theorems.                                                                *)

\* What Press, Erase, Commit, Reset and SeedFromText keep of the buffer.
FlagInv == config \in Configs /\ Formed(eng) /\ Settled(eng)

LEMMA FlagKept ==
  ASSUME config' = config, FlagInv, Formed(eng'), Settled(eng')
  PROVE  FlagInv'
BY DEF FlagInv, Formed, Fresh, Settled, Checked, Reverted, SpellCheckDisabled, Validate

LEMMA InitFlag == ASSUME Init PROVE FlagInv
BY FreshSettled DEF Init, FlagInv

LEMMA NextFlag == ASSUME FlagInv, [Next]_vars PROVE FlagInv'
<1>0. config \in Configs /\ Formed(eng) /\ Settled(eng)
  BY DEF FlagInv
<1>1. ASSUME NEW k \in KeysOf(config), Press(k) PROVE FlagInv'
  <2>1. eng' = PushChar(eng, k) /\ config' = config
    BY <1>1 DEF Press
  <2>2. Pressed(eng, k, eng')
    BY <1>0, <2>1, KeyPressed
  <2>3. QED  BY <2>1, <2>2, FlagKept DEF Pressed
<1>2. CASE Erase
  <2> DEFINE b == Backspace(eng)
             y == [b EXCEPT !.took = FALSE]
  <2>1. eng' = y /\ config' = config
    BY <1>2 DEF Erase
  <2>2. Formed(b) /\ Settled(b)
    BY <1>0, BackSettled
  <2> HIDE DEF b
  <2>3. Formed(y) /\ Settled(y)
    BY <2>2 DEF Formed, Fresh, Settled, Checked, Reverted
  <2> HIDE DEF y
  <2>4. QED  BY <2>1, <2>3, FlagKept
<1>3. CASE Commit \/ Reset
  BY <1>3, FreshSettled, FlagKept DEF Commit, Reset
<1>4. CASE SeedFromText
  <2>1. PICK text \in Texts : eng' = SeedFrom(text)
    BY <1>4 DEF SeedFromText
  <2>2. QED  BY <1>4, <2>1, SeedSettled, FlagKept DEF SeedFromText
<1>5. CASE UNCHANGED vars
  BY <1>0, <1>5, FlagKept DEF vars
<1>6. QED  BY <1>1, <1>2, <1>3, <1>4, <1>5 DEF Next

LEMMA SpecFlag == Spec => []FlagInv
<1>1. Init => FlagInv
  BY InitFlag
<1>2. FlagInv /\ [Next]_vars => FlagInv'
  BY NextFlag
<1>3. QED  BY <1>1, <1>2, PTL DEF Spec

\* The flag that gates tones and marks is the verdict on the word as it is,
\* whatever keys came in whatever order, or the leading w was turned back into
\* a letter (UpdateSpellState, FinalizeRegularChar).
THEOREM SpellFlagAlwaysFresh == Spec => []SpellFlagFresh
<1>1. FlagInv => SpellFlagFresh
  BY DEF FlagInv, Settled, Checked, Reverted, SpellFlagFresh, TurnedBack
<1>2. QED  BY <1>1, SpecFlag, PTL

\* The raw keys and the history.  While only keys were pressed, a start of a
\* quick consonant that may still be undone was the only key.
RawInv ==
  /\ DOMAIN word = DOMAIN NoWord /\ word.back \in Nat
  /\ Untouched =>
       /\ eng.states = <<>> => eng.raw = <<>> /\ eng.hist = <<>>
       /\ eng.quickStart # "" => eng.hist = <<eng.quickStart>>
       /\ eng.esc = "None" => eng.raw = eng.hist

LEMMA FreshRaw ==
  /\ NoWord.back \in Nat
  /\ Fresh.raw = Fresh.hist /\ Fresh.raw = <<>> /\ Fresh.quickStart = ""
BY DEF NoWord, Fresh

LEMMA InitRaw == ASSUME Init PROVE RawInv
<1>1. word = NoWord /\ eng = Fresh
  BY DEF Init
<1>2. word.back \in Nat /\ eng.raw = eng.hist /\ eng.raw = <<>> /\ eng.quickStart = ""
  BY <1>1, FreshRaw
<1>3. QED  BY <1>1, <1>2 DEF RawInv

LEMMA NextRaw == ASSUME FlagInv, RawInv, [Next]_vars PROVE RawInv'
<1>1. ASSUME NEW k \in KeysOf(config), Press(k) PROVE RawInv'
  <2>1. eng' = PushChar(eng, k) /\ word' = [word EXCEPT !.keys = @ + 1]
    BY <1>1 DEF Press
  <2>2. Pressed(eng, k, eng')
    BY <2>1, KeyPressed DEF FlagInv
  <2>3. /\ DOMAIN word' = DOMAIN NoWord /\ word'.back = word.back
        /\ word'.seeded = word.seeded /\ word'.back \in Nat
    BY <2>1 DEF RawInv, NoWord
  <2>4. ASSUME Untouched'
        PROVE  /\ eng'.quickStart # "" => eng'.hist = <<eng'.quickStart>>
               /\ eng'.esc = "None" => eng'.raw = eng'.hist
    <3>1. /\ eng.states = <<>> => eng.raw = <<>> /\ eng.hist = <<>>
          /\ eng.quickStart # "" => eng.hist = <<eng.quickStart>>
          /\ eng.esc = "None" => eng.raw = eng.hist
      BY <2>3, <2>4 DEF RawInv, Untouched
    <3>2. Append(<<>>, k) = <<k>>
      OBVIOUS
    <3>3. ASSUME NEW a PROVE Append(<<a>>, k) = <<a, k>>
      <4>1. Append(<<a>>, k) = [i \in 1..2 |-> IF i = 2 THEN k ELSE <<a>>[i]]
        OBVIOUS
      <4>2. <<a, k>> = [i \in 1..2 |-> IF i = 2 THEN k ELSE <<a>>[i]]
        OBVIOUS
      <4>3. QED  BY <4>1, <4>2
    <3>4. QED  BY <2>2, <3>1, <3>2, <3>3 DEF Pressed
  <2>5. eng'.states # <<>>
    BY <2>2 DEF Pressed
  <2>6. QED  BY <2>3, <2>4, <2>5 DEF RawInv
<1>2. CASE Erase
  <2>1. word' = [word EXCEPT !.keys = @ + 1, !.back = @ + 1]
    BY <1>2 DEF Erase
  <2>2. DOMAIN word' = DOMAIN NoWord /\ word'.back = word.back + 1
    BY <2>1 DEF RawInv, NoWord
  <2>0. word.back \in Nat
    BY DEF RawInv
  <2>3. word'.back \in Nat /\ word'.back # 0
    BY <2>0, <2>2
  <2>4. QED  BY <2>2, <2>3 DEF RawInv, Untouched
<1>3. CASE Commit \/ Reset
  <2>1. word' = NoWord /\ eng' = Fresh
    BY <1>3 DEF Commit, Reset
  <2>2. /\ word'.back \in Nat /\ eng'.raw = eng'.hist /\ eng'.raw = <<>>
        /\ eng'.quickStart = ""
    BY <2>1, FreshRaw
  <2>3. QED  BY <2>1, <2>2 DEF RawInv
<1>4. CASE SeedFromText
  <2>1. word' = [NoWord EXCEPT !.seeded = TRUE]
    BY <1>4 DEF SeedFromText
  <2>2. DOMAIN word' = DOMAIN NoWord /\ word'.back \in Nat /\ word'.seeded
    BY <2>1 DEF NoWord
  <2>3. QED  BY <2>2 DEF RawInv, Untouched
<1>5. CASE UNCHANGED vars
  BY <1>5 DEF vars, RawInv, Untouched
<1>6. QED  BY <1>1, <1>2, <1>3, <1>4, <1>5 DEF Next

\* Until a mark is escaped the raw keys that Esc and auto-restore give back are
\* the keys that were pressed, quick consonants and their undoing among them.
THEOREM RawAlwaysTyped == Spec => []RawIsTyped
<1>1. Init => RawInv
  BY InitRaw
<1>2. FlagInv /\ RawInv /\ [Next]_vars => RawInv'
  BY NextRaw
<1>3. RawInv => RawIsTyped
  BY DEF RawInv, RawIsTyped
<1>4. QED  BY <1>1, <1>2, <1>3, SpecFlag, PTL DEF Spec

\* Whatever the engine was in the middle of, a key leaves it a word and is the
\* last key of its history: no rule takes a key up and drops it (PushChar).
KeysLeaveWords ==
  [][\A k \in KeysOf(config) : Press(k) => /\ eng'.states # <<>>
                                         /\ eng'.hist = Append(eng.hist, k)]_vars
THEOREM KeysAlwaysLeaveWords == Spec => KeysLeaveWords
<1>1. ASSUME FlagInv, NEW k \in KeysOf(config), Press(k)
      PROVE  eng'.states # <<>> /\ eng'.hist = Append(eng.hist, k)
  BY <1>1, KeyPressed, ZenonT(60) DEF FlagInv, Press, Pressed
<1>2. FlagInv /\ [Next]_vars =>
        [\A k \in KeysOf(config) : Press(k) => /\ eng'.states # <<>>
                                             /\ eng'.hist = Append(eng.hist, k)]_vars
  BY <1>1
<1>3. QED  BY <1>2, SpecFlag, PTL DEF Spec, KeysLeaveWords

-----------------------------------------------------------------------------
(* Where the keys are.  Every letter of the buffer stands for one raw key,  *)
(* every tone that came from a key for another, and the letters stand in    *)
(* the order of their keys.                                                 *)

Fields == {"base", "mod", "tone", "synthetic", "rawIdx", "toneRawIdx"}
\* The key a letter stands for: a synthetic u was made of a w.
KeyOf(s) == IF s.synthetic THEN "w" ELSE s.base
IsText(r) == \E S : r \in Seq(S)

Placed(s, r) ==
  /\ DOMAIN s = Fields
  /\ s.rawIdx \in 1..Len(r) /\ r[s.rawIdx] = KeyOf(s)
  /\ s.toneRawIdx \in 0..Len(r)
\* Of two letters: their keys are in order, and a tone has a key of its own.
Apart(w, i, j) ==
  /\ i < j => w[i].rawIdx < w[j].rawIdx
  /\ w[i].toneRawIdx # w[j].rawIdx
  /\ i # j /\ w[i].toneRawIdx = w[j].toneRawIdx => w[i].toneRawIdx = 0
Layout(w, r) ==
  /\ IsWord(w) /\ IsText(r)
  /\ \A i \in 1..Len(w) : Placed(w[i], r)
  /\ \A i, j \in 1..Len(w) : Apart(w, i, j)
\* v is laid out wherever w is.
Holds(w, v) == \A r : Layout(w, r) => Layout(v, r)

LEMMA WordPlaces ==
  ASSUME NEW w, IsWord(w)
  PROVE  Len(w) \in Nat /\ DOMAIN w = 1..Len(w)
BY DEF IsWord

LEMMA TextPlaces ==
  ASSUME NEW r, IsText(r)
  PROVE  Len(r) \in Nat /\ DOMAIN r = 1..Len(r)
BY DEF IsText

LEMMA HoldsSelf == ASSUME NEW w PROVE Holds(w, w)
BY DEF Holds
LEMMA HoldsTrans ==
  ASSUME NEW u, NEW v, NEW w, Holds(u, v), Holds(v, w)
  PROVE  Holds(u, w)
BY DEF Holds

\* The letters keep their keys, and each tone its own or that of another.
SameKey(w, v, i, j) ==
  /\ DOMAIN v[i] = DOMAIN w[i]
  /\ v[i].rawIdx = w[i].rawIdx /\ KeyOf(v[i]) = KeyOf(w[i])
  /\ v[i].toneRawIdx \in {0, w[j].toneRawIdx}

LEMMA ShuffledLays ==
  ASSUME NEW w, NEW v, NEW r, Layout(w, r), NEW src \in [1..Len(w) -> 1..Len(w)],
         \A i, j \in 1..Len(w) : src[i] = src[j] => i = j,
         v = [i \in DOMAIN w |-> v[i]],
         \A i \in 1..Len(w) : SameKey(w, v, i, src[i])
  PROVE  Layout(v, r)
<1>1. IsWord(w) /\ IsText(r) /\ Len(w) \in Nat /\ DOMAIN w = 1..Len(w)
  BY WordPlaces DEF Layout
<1>2. Like(w, v)
  BY <1>1, SamePlaces DEF SameKey
<1>3. IsWord(v) /\ Len(v) = Len(w)
  <2>1. IsWord(v) /\ DOMAIN v = DOMAIN w
    BY <1>2 DEF Like
  <2>2. QED  BY <1>1, <2>1, WordPlaces
<1>4. Len(r) \in Nat
  BY <1>1, TextPlaces
<1>5. ASSUME NEW i \in 1..Len(w) PROVE Placed(v[i], r)
  <2>1. SameKey(w, v, i, src[i]) /\ Placed(w[i], r) /\ Placed(w[src[i]], r)
    BY DEF Layout
  <2>2. QED  BY <1>4, <2>1 DEF SameKey, Placed
<1>6. ASSUME NEW i \in 1..Len(w), NEW j \in 1..Len(w) PROVE Apart(v, i, j)
  <2>1. SameKey(w, v, i, src[i]) /\ SameKey(w, v, j, src[j])
    OBVIOUS
  <2>2. /\ Apart(w, i, j) /\ Apart(w, src[i], j) /\ Apart(w, src[i], src[j])
        /\ Placed(w[j], r)
    BY DEF Layout
  <2>3. src[i] = src[j] => i = j
    OBVIOUS
  <2>4. w[j].rawIdx # 0
    BY <2>2 DEF Placed
  <2>5. QED  BY <2>1, <2>2, <2>3, <2>4 DEF SameKey, Apart
<1>7. QED  BY <1>1, <1>3, <1>5, <1>6 DEF Layout

\* Every tone stays with its letter, or loses its key.
SameKeys(w, v) ==
  /\ v = [i \in DOMAIN w |-> v[i]]
  /\ \A i \in DOMAIN w : DOMAIN w[i] = Fields => SameKey(w, v, i, i)

LEMMA SameKeysHold == ASSUME NEW w, NEW v, SameKeys(w, v) PROVE Holds(w, v)
<1>1. SUFFICES ASSUME NEW r, Layout(w, r) PROVE Layout(v, r)
  BY DEF Holds
<1> DEFINE src == [i \in 1..Len(w) |-> i]
<1>2. DOMAIN w = 1..Len(w)
  BY <1>1, WordPlaces DEF Layout
<1>3. \A i \in 1..Len(w) : SameKey(w, v, i, src[i])
  BY <1>1, <1>2 DEF SameKeys, Layout, Placed
<1>4. /\ src \in [1..Len(w) -> 1..Len(w)]
      /\ \A i, j \in 1..Len(w) : src[i] = src[j] => i = j
  OBVIOUS
<1>5. v = [i \in DOMAIN w |-> v[i]]
  BY DEF SameKeys
<1> HIDE DEF src
<1>6. QED  BY <1>1, <1>3, <1>4, <1>5, ShuffledLays

LEMMA ModHolds ==
  ASSUME NEW w, NEW i, NEW m
  PROVE  Holds(w, [w EXCEPT ![i].mod = m])
<1> DEFINE v == [w EXCEPT ![i].mod = m]
<1>1. v = [j \in DOMAIN w |-> v[j]]
  OBVIOUS
<1>2. ASSUME NEW j \in DOMAIN w, DOMAIN w[j] = Fields PROVE SameKey(w, v, j, j)
  BY <1>2 DEF SameKey, KeyOf, Fields
<1> HIDE DEF v
<1>3. Holds(w, v)
  BY <1>1, <1>2, SameKeysHold DEF SameKeys
<1>4. QED  BY <1>3 DEF v

\* The tone goes; its key stays or is forgotten.
LEMMA ToneHolds ==
  ASSUME NEW w, NEW i
  PROVE  /\ Holds(w, [w EXCEPT ![i].tone = "None"])
         /\ Holds(w, [w EXCEPT ![i].toneRawIdx = 0])
         /\ Holds(w, [w EXCEPT ![i].tone = "None", ![i].toneRawIdx = 0])
<1>1. SameKeys(w, [w EXCEPT ![i].tone = "None"])
  BY DEF SameKeys, SameKey, KeyOf, Fields
<1>2. SameKeys(w, [w EXCEPT ![i].toneRawIdx = 0])
  BY DEF SameKeys, SameKey, KeyOf, Fields
<1>3. SameKeys(w, [w EXCEPT ![i].tone = "None", ![i].toneRawIdx = 0])
  BY DEF SameKeys, SameKey, KeyOf, Fields
<1>4. QED  BY <1>1, <1>2, <1>3, SameKeysHold

LEMMA ToHornHolds == ASSUME NEW w PROVE Holds(w, RelocateToneToHornVowel(w))
<1> DEFINE v(horn, toned) == [w EXCEPT ![horn].tone = w[toned].tone, ![toned].tone = "None"]
<1>1. ASSUME NEW horn, NEW toned PROVE SameKeys(w, v(horn, toned))
  BY DEF SameKeys, SameKey, KeyOf, Fields
<1>2. \/ RelocateToneToHornVowel(w) = w
      \/ \E horn, toned : RelocateToneToHornVowel(w) = v(horn, toned)
  BY DEF RelocateToneToHornVowel
<1> HIDE DEF v
<1>3. QED  BY <1>1, <1>2, HoldsSelf, SameKeysHold

LEMMA UnhornedHolds == ASSUME NEW w, NEW o PROVE Holds(w, UndoHornU(w, o))
<1>1. UndoHornU(w, o) \in {w, [w EXCEPT ![o-1].mod = "None"]}
  BY DEF UndoHornU
<1>2. QED  BY <1>1, ModHolds, HoldsSelf, SMTT(30)

\* A set of natural numbers has a least member.
LEMMA Smallest ==
  ASSUME NEW S \in SUBSET Nat, S # {}
  PROVE  \E least \in S : \A n \in S : least <= n
<1> DEFINE R == {p \in Nat \X Nat : p[1] < p[2]}
<1>1. IsWellFoundedOn(R, Nat)
  BY NatLessThanWellFounded DEF OpToRel
<1>2. PICK least \in S : \A n \in S : <<n, least>> \notin R
  BY <1>1, WFMin
<1>3. ASSUME NEW n \in S PROVE least <= n
  <2>1. ~(n < least)
    BY <1>2
  <2>2. QED  BY <2>1
<1>4. QED  BY <1>3

\* The first and the last of some places of a word are such places.
LEMMA FirstAndLast ==
  ASSUME NEW n \in Nat, NEW S \in SUBSET (1..n)
  PROVE  /\ FirstOf(S) \in S \cup {0} /\ LastOf(S) \in S \cup {0}
         /\ S # {} => FirstOf(S) \in S /\ LastOf(S) \in S
<1>1. CASE S = {}
  BY <1>1 DEF FirstOf, LastOf
<1>2. CASE S # {}
  <2>1. PICK least \in S : \A i \in S : least <= i
    BY <1>2, Smallest
  <2>2. Min(S) \in S
    BY <2>1 DEF Min
  <2> DEFINE R == {i \in Nat : i <= n /\ n - i \in S}
  <2>3. R # {}
    <3>1. PICK i \in S : TRUE
      BY <1>2
    <3>2. n - i \in R
      BY <3>1
    <3>3. QED  BY <3>2
  <2>4. PICK low \in R : \A i \in R : low <= i
    BY <2>3, Smallest
  <2>5. ASSUME NEW i \in S PROVE n - low >= i
    <3>1. n - i \in R
      OBVIOUS
    <3>2. QED  BY <2>4, <3>1
  <2>6. n - low \in S
    OBVIOUS
  <2>7. \E x \in S : \A y \in S : x >= y
    BY <2>5, <2>6
  <2>8. Max(S) \in S
    BY <2>7 DEF Max
  <2>9. QED  BY <1>2, <2>2, <2>8 DEF FirstOf, LastOf
<1>3. QED  BY <1>1, <1>2

LEMMA WherePlaces ==
  ASSUME NEW w, IsWord(w), NEW S, S \subseteq 1..Len(w)
  PROVE  FirstOf(S) \in 0..Len(w) /\ LastOf(S) \in 0..Len(w)
<1>1. Len(w) \in Nat /\ S \in SUBSET (1..Len(w))
  BY WordPlaces
<1>2. FirstOf(S) \in S \cup {0} /\ LastOf(S) \in S \cup {0}
  BY <1>1, FirstAndLast
<1>3. \A i \in S \cup {0} : i \in 0..Len(w)
  BY <1>1
<1>4. QED  BY <1>2, <1>3

\* The tone goes on a letter of the word.
LEMMA TargetPlaces ==
  ASSUME NEW w, IsWord(w)
  PROVE  Target(w) \in 0..Len(w)
<1> DEFINE N == NucleusAt(w)
<1>1. N \subseteq 1..Len(w)
  BY DEF NucleusAt
<1>2. \E n : Target(w) \in {0, Nth(N, n)}
  BY DEF Target, FindToneTarget
<1>3. ASSUME NEW n PROVE Nth(N, n) \in 0..Len(w)
  <2> DEFINE S == {i \in N : Cardinality({j \in N : j <= i}) = n}
  <2>1. S \subseteq 1..Len(w)
    BY <1>1
  <2>2. Nth(N, n) = LastOf(S)
    BY DEF Nth
  <2> HIDE DEF S, N
  <2>3. QED  BY <2>1, <2>2, WherePlaces
<1> HIDE DEF N
<1>4. 0 \in 0..Len(w)
  BY WordPlaces
<1>5. QED  BY <1>2, <1>3, <1>4

LEMMA MovedHolds ==
  ASSUME NEW w, NEW toned \in 0..Len(w), NEW to
  PROVE  Holds(w, MoveTone(w, toned, to))
<1> DEFINE v == [w EXCEPT ![to].tone = w[toned].tone, ![to].toneRawIdx = w[toned].toneRawIdx,
                          ![toned].tone = "None", ![toned].toneRawIdx = 0]
           src == [i \in 1..Len(w) |-> IF i = to THEN toned
                                       ELSE IF i = toned THEN to ELSE i]
           calm == [w EXCEPT ![toned].tone = "None", ![toned].toneRawIdx = 0]
<1>1. SUFFICES ASSUME NEW r, Layout(w, r), MoveTone(w, toned, to) # w
      PROVE  Layout(MoveTone(w, toned, to), r)
  BY DEF Holds
<1>2. MoveTone(w, toned, to) = v /\ toned # 0 /\ to # toned
  BY <1>1 DEF MoveTone
<1>3. DOMAIN w = 1..Len(w) /\ Len(w) \in Nat /\ \A i \in 1..Len(w) : DOMAIN w[i] = Fields
  BY <1>1, WordPlaces DEF Layout, Placed
<1>4. CASE to \in 1..Len(w)
  <2>1. src \in [1..Len(w) -> 1..Len(w)] /\ \A i, j \in 1..Len(w) : src[i] = src[j] => i = j
    BY <1>2, <1>4
  <2>2. v = [i \in DOMAIN w |-> v[i]]
    OBVIOUS
  <2>3. ASSUME NEW i \in 1..Len(w) PROVE SameKey(w, v, i, src[i])
    <3>1. CASE i = to
      BY <1>2, <1>3, <1>4, <3>1, SMTT(30) DEF SameKey, KeyOf, Fields
    <3>2. CASE i = toned
      BY <1>2, <1>3, <3>2 DEF SameKey, KeyOf, Fields
    <3>3. CASE i \notin {to, toned}
      BY <1>3, <3>3 DEF SameKey, KeyOf, Fields
    <3>4. QED  BY <3>1, <3>2, <3>3
  <2> HIDE DEF v, src
  <2>4. Layout(v, r)
    BY <1>1, <2>1, <2>2, <2>3, ShuffledLays
  <2>5. QED  BY <1>2, <2>4
<1>5. CASE to \notin 1..Len(w)
  <2>1. v = calm
    BY <1>3, <1>5
  <2>2. Holds(w, calm)
    BY ToneHolds
  <2> HIDE DEF v, calm
  <2>3. QED  BY <1>1, <1>2, <2>1, <2>2 DEF Holds
<1>6. QED  BY <1>4, <1>5

LEMMA RelocatedHolds == ASSUME NEW w PROVE Holds(w, RelocateToneToTarget(w))
<1> DEFINE S == Where(w, LAMBDA s : IsVowel(s) /\ HasTone(s))
<1>1. SUFFICES ASSUME IsWord(w) PROVE Holds(w, RelocateToneToTarget(w))
  BY DEF Holds, Layout
<1>2. S \subseteq 1..Len(w)
  BY DEF Where
<1>3. RelocateToneToTarget(w) = MoveTone(w, FirstOf(S), Target(w))
  BY DEF RelocateToneToTarget
<1> HIDE DEF S
<1>4. FirstOf(S) \in 0..Len(w)
  BY <1>1, <1>2, WherePlaces
<1>5. QED  BY <1>3, <1>4, MovedHolds

LEMMA PairHolds == ASSUME NEW w, NEW i PROVE Holds(w, AutoUOAt(w, i))
<1> DEFINE a == [w EXCEPT ![i].mod = "Horn"]
           b == [w EXCEPT ![i+1].mod = "Horn"]
<1>1. Holds(w, a) /\ Holds(w, b)
  BY ModHolds
<1>2. AutoUOAt(w, i) \in {w, a, RelocateToneToTarget(b)}
  BY DEF AutoUOAt
<1> HIDE DEF a, b
<1>3. Holds(b, RelocateToneToTarget(b))
  BY RelocatedHolds
<1>4. QED  BY <1>1, <1>2, <1>3, HoldsSelf, HoldsTrans

LEMMA PairsHold == ASSUME NEW w PROVE Holds(w, ApplyAutoUO(w))
<1> DEFINE n == Len(w)
           first == AutoUOAt(w, n - 3)
<1>1. Holds(w, first) /\ Holds(first, AutoUOAt(first, n - 2)) /\ Holds(w, AutoUOAt(w, n - 2))
  BY PairHolds
<1>2. ApplyAutoUO(w) \in {w, AutoUOAt(w, n - 2), AutoUOAt(first, n - 2)}
  BY DEF ApplyAutoUO
<1> HIDE DEF first, n
<1>3. QED  BY <1>1, <1>2, HoldsSelf, HoldsTrans

\* A key more in the raw keys.
LEMMA TextGrows ==
  ASSUME NEW r, IsText(r), NEW k
  PROVE  /\ IsText(Append(r, k)) /\ Len(Append(r, k)) = Len(r) + 1
         /\ \A i \in 1..Len(r) : Append(r, k)[i] = r[i]
         /\ Append(r, k)[Len(r) + 1] = k
<1>1. PICK S : r \in Seq(S)
  BY DEF IsText
<1> DEFINE T == S \cup {k}
<1>2. r \in Seq(T) /\ k \in T
  <2>1. Len(r) \in Nat /\ r \in [1..Len(r) -> S]
    BY <1>1
  <2>2. r \in [1..Len(r) -> T]
    BY <2>1
  <2>3. QED  BY <2>1, <2>2
<1> HIDE DEF T
<1>3. Append(r, k) \in Seq(T)
  BY <1>2
<1>4. QED  BY <1>2, <1>3 DEF IsText

LEMMA WordGrows ==
  ASSUME NEW w, IsWord(w), NEW s, "base" \in DOMAIN s
  PROVE  /\ IsWord(Append(w, s)) /\ Len(Append(w, s)) = Len(w) + 1
         /\ \A i \in 1..Len(w) : Append(w, s)[i] = w[i]
         /\ Append(w, s)[Len(w) + 1] = s
<1>1. IsText(w)
  BY DEF IsText, IsWord
<1>2. QED  BY <1>1, TextGrows, AppendWord

\* A key that no letter stands for yet.
LEMMA GrownLays ==
  ASSUME NEW w, NEW r, Layout(w, r), NEW k
  PROVE  Layout(w, Append(r, k))
<1>1. IsText(r) /\ Len(r) \in Nat /\ IsWord(w)
  BY TextPlaces DEF Layout
<1>2. ASSUME NEW i \in 1..Len(w) PROVE Placed(w[i], Append(r, k))
  <2>1. Placed(w[i], r)
    BY DEF Layout
  <2>2. QED  BY <1>1, <2>1, TextGrows DEF Placed
<1>3. QED  BY <1>1, <1>2, TextGrows DEF Layout

\* A letter for the last key.
LEMMA LetterLays ==
  ASSUME NEW w, NEW r, Layout(w, r), NEW k, NEW s, DOMAIN s = Fields,
         s.rawIdx = Len(r) + 1, KeyOf(s) = k, s.toneRawIdx = 0
  PROVE  Layout(Append(w, s), Append(r, k))
<1> DEFINE v == Append(w, s)
           q == Append(r, k)
           n == Len(w)
<1>1. /\ IsText(r) /\ Len(r) \in Nat /\ IsWord(w) /\ n \in Nat
      /\ \A i \in 1..n : Placed(w[i], r)
      /\ \A i, j \in 1..n : Apart(w, i, j)
  BY TextPlaces, WordPlaces DEF Layout
<1>2. /\ IsText(q) /\ Len(q) = Len(r) + 1 /\ q[Len(r) + 1] = k
      /\ \A i \in 1..Len(r) : q[i] = r[i]
  BY <1>1, TextGrows
<1>3. IsWord(v) /\ Len(v) = n + 1 /\ v[n + 1] = s /\ \A i \in 1..n : v[i] = w[i]
  <2>1. "base" \in DOMAIN s
    BY DEF Fields
  <2>2. QED  BY <1>1, <2>1, WordGrows
<1> HIDE DEF v, q, n
<1>4. ASSUME NEW i \in 1..Len(v) PROVE Placed(v[i], q)
  <2>1. CASE i \in 1..n
    BY <1>1, <1>2, <1>3, <2>1 DEF Placed
  <2>2. CASE i = n + 1
    BY <1>1, <1>2, <1>3, <2>2 DEF Placed
  <2>3. QED  BY <1>1, <1>3, <2>1, <2>2
<1>5. ASSUME NEW i \in 1..Len(v), NEW j \in 1..Len(v) PROVE Apart(v, i, j)
  <2>1. i \in 1..n \/ i = n + 1
    BY <1>1, <1>3
  <2>2. j \in 1..n \/ j = n + 1
    BY <1>1, <1>3
  <2>3. CASE i \in 1..n /\ j \in 1..n
    BY <1>1, <1>3, <2>3 DEF Apart
  <2>4. CASE i \in 1..n /\ j = n + 1
    <3>1. Placed(w[i], r)
      BY <1>1, <2>4
    <3>2. QED  BY <1>1, <1>3, <2>4, <3>1 DEF Apart, Placed
  <2>5. CASE i = n + 1 /\ j \in 1..n
    <3>1. Placed(w[j], r)
      BY <1>1, <2>5
    <3>2. QED  BY <1>1, <1>3, <2>5, <3>1 DEF Apart, Placed
  <2>6. CASE i = n + 1 /\ j = n + 1
    BY <1>1, <1>3, <2>6 DEF Apart
  <2>7. QED  BY <2>1, <2>2, <2>3, <2>4, <2>5, <2>6
<1>6. Layout(v, q)
  BY <1>2, <1>3, <1>4, <1>5 DEF Layout
<1>7. QED  BY <1>6 DEF v, q

\* A tone for the last key.
LEMMA ToneLays ==
  ASSUME NEW w, NEW r, Layout(w, r), NEW k, NEW to \in 1..Len(w), NEW tone
  PROVE  Layout([w EXCEPT ![to].tone = tone, ![to].toneRawIdx = Len(r) + 1], Append(r, k))
<1> DEFINE v == [w EXCEPT ![to].tone = tone, ![to].toneRawIdx = Len(r) + 1]
           q == Append(r, k)
           n == Len(w)
<1>1. /\ IsText(r) /\ Len(r) \in Nat /\ IsWord(w) /\ n \in Nat /\ DOMAIN w = 1..n
      /\ \A i \in 1..n : Placed(w[i], r)
      /\ \A i, j \in 1..n : Apart(w, i, j)
  BY TextPlaces, WordPlaces DEF Layout
<1>2. IsText(q) /\ Len(q) = Len(r) + 1 /\ \A i \in 1..Len(r) : q[i] = r[i]
  BY <1>1, TextGrows
<1>3. /\ v = [i \in DOMAIN w |-> v[i]]
      /\ \A i \in 1..n : DOMAIN v[i] = DOMAIN w[i]
  BY <1>1
<1>4. \A i \in 1..n :
        /\ v[i].rawIdx = w[i].rawIdx /\ KeyOf(v[i]) = KeyOf(w[i])
        /\ v[i].toneRawIdx = IF i = to THEN Len(r) + 1 ELSE w[i].toneRawIdx
  <2>1. \A i \in 1..n : DOMAIN w[i] = Fields
    BY <1>1 DEF Placed
  <2>2. QED  BY <1>1, <2>1 DEF KeyOf, Fields
<1> HIDE DEF v, q
<1>5. IsWord(v) /\ Len(v) = n
  <2>1. IsWord(v)
    BY <1>1, <1>3, SamePlaces DEF Like
  <2>2. DOMAIN v = DOMAIN w
    BY <1>3
  <2>3. QED  BY <1>1, <2>1, <2>2, WordPlaces
<1> HIDE DEF n
<1>6. ASSUME NEW i \in 1..n PROVE Placed(v[i], q)
  BY <1>1, <1>2, <1>3, <1>4, SMTT(30) DEF Placed
<1>7. ASSUME NEW i \in 1..n, NEW j \in 1..n PROVE Apart(v, i, j)
  <2>1. Apart(w, i, j) /\ Placed(w[i], r) /\ Placed(w[j], r)
    BY <1>1
  <2>2. w[i].rawIdx \in 1..Len(r) /\ w[j].rawIdx \in 1..Len(r)
    BY <2>1 DEF Placed
  <2>3. w[i].toneRawIdx \in 0..Len(r) /\ w[j].toneRawIdx \in 0..Len(r)
    BY <2>1 DEF Placed
  <2>4. /\ v[i].rawIdx = w[i].rawIdx /\ v[j].rawIdx = w[j].rawIdx
        /\ v[i].toneRawIdx = IF i = to THEN Len(r) + 1 ELSE w[i].toneRawIdx
        /\ v[j].toneRawIdx = IF j = to THEN Len(r) + 1 ELSE w[j].toneRawIdx
    BY <1>4
  <2>5. QED  BY <1>1, <2>1, <2>2, <2>3, <2>4 DEF Apart
<1>8. Layout(v, q)
  BY <1>2, <1>5, <1>6, <1>7 DEF Layout
<1>9. QED  BY <1>8 DEF v, q

\* The last letter is gone.
LEMMA FrontLays ==
  ASSUME NEW w, NEW r, Layout(w, r), w # <<>>
  PROVE  Layout(Front(w), r)
<1>1. PICK S : w \in Seq(S) /\ \A s \in S : "base" \in DOMAIN s
  BY DEF Layout, IsWord
<1>2. Len(w) \in Nat /\ Len(w) # 0
  BY <1>1
<1>3. /\ Len(Front(w)) = Len(w) - 1
      /\ \A i \in 1..(Len(w) - 1) : Front(w)[i] = w[i]
  <2> DEFINE n == Len(w) - 1
  <2>1. n \in Nat /\ n <= Len(w) /\ Front(w) = SubSeq(w, 1, n)
    BY <1>2 DEF Front
  <2> HIDE DEF n
  <2>2. Len(SubSeq(w, 1, n)) = n
    BY <1>1, <1>2, <2>1
  <2>3. \A i \in 1..n : SubSeq(w, 1, n)[i] = w[i]
    BY <1>1, <1>2, <2>1
  <2>4. QED  BY <2>1, <2>2, <2>3 DEF n
<1>4. IsWord(Front(w))
  BY FrontWord DEF Layout
<1>5. \A i \in 1..Len(Front(w)) : i \in 1..Len(w) /\ Front(w)[i] = w[i]
  BY <1>2, <1>3
<1>6. QED  BY <1>4, <1>5 DEF Layout, Apart

\* Taking out one element.
LEMMA RemovedAt ==
  ASSUME NEW S, NEW s \in Seq(S), NEW at \in 1..Len(s)
  PROVE  /\ RemoveAt(s, at) \in Seq(S) /\ Len(RemoveAt(s, at)) = Len(s) - 1
         /\ \A i \in 1..(Len(s) - 1) :
              RemoveAt(s, at)[i] = IF i < at THEN s[i] ELSE s[i + 1]
<1> DEFINE a == SubSeq(s, 1, at - 1)
           b == SubSeq(s, at + 1, Len(s))
<1>1. Len(s) \in Nat /\ at \in Nat /\ at >= 1 /\ at <= Len(s)
  OBVIOUS
<1>2. a \in Seq(S) /\ Len(a) = at - 1 /\ \A i \in 1..(at - 1) : a[i] = s[i]
  BY <1>1
<1>3. b \in Seq(S) /\ Len(b) = Len(s) - at /\ \A i \in 1..(Len(s) - at) : b[i] = s[at + i]
  BY <1>1
<1>4. RemoveAt(s, at) = a \o b
  BY DEF RemoveAt
<1> HIDE DEF a, b
<1>5. /\ a \o b \in Seq(S) /\ Len(a \o b) = Len(a) + Len(b)
      /\ \A i \in 1..(Len(a) + Len(b)) :
           (a \o b)[i] = IF i <= Len(a) THEN a[i] ELSE b[i - Len(a)]
  <2>1. a \in Seq(S) /\ b \in Seq(S)
    BY <1>2, <1>3
  <2>2. a \o b \in Seq(S) /\ Len(a \o b) = Len(a) + Len(b)
    BY <2>1
  <2>3. \A i \in 1..(Len(a) + Len(b)) :
          (a \o b)[i] = IF i <= Len(a) THEN a[i] ELSE b[i - Len(a)]
    BY <2>1
  <2>4. QED  BY <2>2, <2>3
<1>6. ASSUME NEW i \in 1..(Len(s) - 1)
      PROVE  (a \o b)[i] = IF i < at THEN s[i] ELSE s[i + 1]
  <2>1. CASE i < at
    <3>1. i \in 1..(at - 1) /\ i <= Len(a) /\ i \in 1..(Len(a) + Len(b))
      BY <1>1, <1>2, <1>3, <2>1
    <3>2. QED  BY <1>2, <1>5, <2>1, <3>1
  <2>2. CASE ~(i < at)
    <3>1. /\ i - Len(a) \in 1..(Len(s) - at) /\ ~(i <= Len(a))
          /\ i \in 1..(Len(a) + Len(b)) /\ at + (i - Len(a)) = i + 1
      BY <1>1, <1>2, <1>3, <2>2
    <3>2. (a \o b)[i] = b[i - Len(a)]
      BY <1>5, <3>1
    <3>3. b[i - Len(a)] = s[at + (i - Len(a))]
      BY <1>3, <3>1
    <3>4. QED  BY <2>2, <3>1, <3>2, <3>3
  <2>3. QED  BY <2>1, <2>2
<1>7. a \o b \in Seq(S) /\ Len(a \o b) = Len(s) - 1
  BY <1>1, <1>2, <1>3, <1>5
<1>8. QED  BY <1>4, <1>6, <1>7

\* Taking out a key that is not the last: the last one stays the last.
LEMMA TextShrinks ==
  ASSUME NEW r, IsText(r), NEW at \in 1..Len(r), NEW k
  PROVE  \E q : /\ RemoveAt(Append(r, k), at) = Append(q, k)
                /\ IsText(q) /\ Len(q) = Len(r) - 1
                /\ \A i \in 1..(Len(r) - 1) : q[i] = IF i < at THEN r[i] ELSE r[i + 1]
<1> DEFINE q == RemoveAt(r, at)
           s == Append(r, k)
           x == RemoveAt(s, at)
           y == Append(q, k)
           n == Len(r)
<1>1. PICK R : r \in Seq(R)
  BY DEF IsText
<1>2. n \in Nat /\ at \in Nat /\ at >= 1 /\ at <= n
  BY <1>1
<1>3. /\ q \in Seq(R) /\ Len(q) = n - 1
      /\ \A i \in 1..(n - 1) : q[i] = IF i < at THEN r[i] ELSE r[i + 1]
  BY <1>1, RemovedAt
<1> HIDE DEF q
<1>4. IsText(q)
  BY <1>3 DEF IsText
<1>5. IsText(s) /\ Len(s) = n + 1 /\ s[n + 1] = k /\ \A i \in 1..n : s[i] = r[i]
  BY TextGrows
<1> HIDE DEF s
<1>6. PICK T : s \in Seq(T)
  BY <1>5 DEF IsText
<1>7. at \in 1..Len(s)
  BY <1>2, <1>5
<1>8. /\ x \in Seq(T) /\ Len(x) = n
      /\ \A i \in 1..n : x[i] = IF i < at THEN s[i] ELSE s[i + 1]
  <2>1. /\ RemoveAt(s, at) \in Seq(T) /\ Len(RemoveAt(s, at)) = Len(s) - 1
        /\ \A i \in 1..(Len(s) - 1) :
             RemoveAt(s, at)[i] = IF i < at THEN s[i] ELSE s[i + 1]
    BY <1>6, <1>7, RemovedAt
  <2>2. Len(s) - 1 = n
    BY <1>2, <1>5
  <2>3. QED  BY <2>1, <2>2
<1>9. IsText(y) /\ Len(y) = n /\ y[n] = k /\ \A i \in 1..(n - 1) : y[i] = q[i]
  <2>1. /\ IsText(Append(q, k)) /\ Len(Append(q, k)) = Len(q) + 1
        /\ \A i \in 1..Len(q) : Append(q, k)[i] = q[i]
        /\ Append(q, k)[Len(q) + 1] = k
    BY <1>4, TextGrows
  <2>2. Len(q) + 1 = n /\ Len(q) = n - 1
    BY <1>2, <1>3
  <2>3. QED  BY <2>1, <2>2
<1> HIDE DEF x, y, n
<1>10. ASSUME NEW i \in 1..n PROVE x[i] = y[i]
  <2>1. CASE i = n
    <3>1. ~(n < at)
      BY <1>2
    <3>2. QED  BY <1>5, <1>8, <1>9, <2>1, <3>1
  <2>2. CASE i # n
    <3>1. i \in 1..(n - 1) /\ i + 1 \in 1..n
      BY <1>2, <2>2
    <3>2. s[i] = r[i] /\ s[i + 1] = r[i + 1]
      BY <1>5, <3>1
    <3>3. QED  BY <1>3, <1>8, <1>9, <3>1, <3>2
  <2>3. QED  BY <2>1, <2>2
<1>11. x = y
  <2>1. PICK Z : y \in Seq(Z)
    BY <1>9 DEF IsText
  <2>2. DOMAIN x = 1..n /\ DOMAIN y = 1..n
    BY <1>8, <1>9, <2>1
  <2>3. x = [i \in 1..n |-> x[i]] /\ y = [i \in 1..n |-> y[i]]
    BY <1>8, <2>1, <2>2
  <2>4. QED  BY <1>10, <2>3
<1>12. QED  BY <1>3, <1>4, <1>11 DEF x, y, s, n

\* A place behind the one that goes moves down.
Down(j, at) == IF j > at THEN j - 1 ELSE j
Lowered(w, at) ==
  [j \in DOMAIN w |-> [w[j] EXCEPT !.rawIdx = Down(@, at), !.toneRawIdx = Down(@, at)]]

LEMMA DownOrders ==
  ASSUME NEW at \in Nat, NEW i \in Nat, NEW j \in Nat, i # at, j # at
  PROVE  /\ i < j => Down(i, at) < Down(j, at)
         /\ i # j => Down(i, at) # Down(j, at)
         /\ Down(i, at) = 0 => i = 0 \/ at = 0
BY DEF Down

LEMMA ErasedLays ==
  ASSUME NEW w, NEW r, Layout(w, r), NEW k, NEW to \in 1..Len(w), w[to].toneRawIdx # 0
  PROVE  LET at == w[to].toneRawIdx
         IN /\ at \in 1..Len(r)
            /\ \E q : /\ RemoveAt(Append(r, k), at) = Append(q, k)
                      /\ Layout([Lowered(w, at) EXCEPT ![to].toneRawIdx = 0], q)
<1> DEFINE at == w[to].toneRawIdx
           low == Lowered(w, at)
           v == [low EXCEPT ![to].toneRawIdx = 0]
           n == Len(w)
<1>1. /\ IsText(r) /\ Len(r) \in Nat /\ IsWord(w) /\ n \in Nat /\ DOMAIN w = 1..n
      /\ \A i \in 1..n : Placed(w[i], r)
      /\ \A i, j \in 1..n : Apart(w, i, j)
  BY TextPlaces, WordPlaces DEF Layout
<1>2. at \in 1..Len(r)
  BY <1>1 DEF Placed
<1>3. PICK q : /\ RemoveAt(Append(r, k), at) = Append(q, k)
               /\ IsText(q) /\ Len(q) = Len(r) - 1
               /\ \A i \in 1..(Len(r) - 1) : q[i] = IF i < at THEN r[i] ELSE r[i + 1]
  BY <1>1, <1>2, TextShrinks, ZenonT(60)
<1>4. /\ v = [i \in DOMAIN w |-> v[i]]
      /\ \A i \in 1..n : DOMAIN v[i] = DOMAIN w[i]
  BY <1>1 DEF Lowered
<1>5. \A i \in 1..n :
        /\ v[i].rawIdx = Down(w[i].rawIdx, at) /\ KeyOf(v[i]) = KeyOf(w[i])
        /\ v[i].toneRawIdx = IF i = to THEN 0 ELSE Down(w[i].toneRawIdx, at)
  <2>1. \A i \in 1..n : DOMAIN w[i] = Fields
    BY <1>1 DEF Placed
  <2>2. ASSUME NEW i \in 1..n
        PROVE  /\ DOMAIN low[i] = Fields /\ low[i].rawIdx = Down(w[i].rawIdx, at)
               /\ low[i].toneRawIdx = Down(w[i].toneRawIdx, at)
               /\ low[i].synthetic = w[i].synthetic /\ low[i].base = w[i].base
    BY <1>1, <2>1 DEF Lowered, Fields
  <2>3. DOMAIN low = 1..n
    BY <1>1 DEF Lowered
  <2> HIDE DEF low
  <2>4. ASSUME NEW i \in 1..n
        PROVE  /\ v[i].rawIdx = low[i].rawIdx
               /\ v[i].synthetic = low[i].synthetic /\ v[i].base = low[i].base
               /\ v[i].toneRawIdx = IF i = to THEN 0 ELSE low[i].toneRawIdx
    BY <2>2, <2>3 DEF Fields
  <2> HIDE DEF v
  <2>5. QED  BY <2>2, <2>4 DEF KeyOf
<1> HIDE DEF v, low
<1>6. IsWord(v) /\ Len(v) = n
  <2>1. IsWord(v)
    BY <1>1, <1>4, SamePlaces DEF Like
  <2>2. DOMAIN v = DOMAIN w
    BY <1>4
  <2>3. QED  BY <1>1, <2>1, <2>2, WordPlaces
<1>7. ASSUME NEW i \in 1..n
      PROVE  /\ w[i].rawIdx \in 1..Len(r) /\ w[i].rawIdx # at
             /\ w[i].toneRawIdx \in 0..Len(r) /\ (i # to => w[i].toneRawIdx # at)
  <2>1. Placed(w[i], r) /\ Apart(w, to, i)
    BY <1>1
  <2>2. QED  BY <2>1 DEF Placed, Apart
<1> HIDE DEF at, n
<1>8. ASSUME NEW i \in 1..n PROVE Placed(v[i], q)
  <2> DEFINE p == w[i].rawIdx
  <2>1. Placed(w[i], r) /\ DOMAIN v[i] = Fields
    BY <1>1, <1>4 DEF Placed
  <2>2. /\ v[i].rawIdx = Down(p, at) /\ KeyOf(v[i]) = KeyOf(w[i])
        /\ v[i].toneRawIdx = IF i = to THEN 0 ELSE Down(w[i].toneRawIdx, at)
    BY <1>5
  <2>3. p \in 1..Len(r) /\ p # at /\ r[p] = KeyOf(w[i])
    BY <1>7, <2>1 DEF Placed
  <2> HIDE DEF p
  <2>4. Down(p, at) \in 1..Len(q) /\ q[Down(p, at)] = r[p]
    <3>1. CASE p < at
      <4>1. Down(p, at) = p /\ p \in 1..(Len(r) - 1)
        BY <1>1, <1>2, <2>3, <3>1 DEF Down
      <4>2. QED  BY <1>3, <3>1, <4>1
    <3>2. CASE p > at
      <4>1. /\ Down(p, at) = p - 1 /\ p - 1 \in 1..(Len(r) - 1) /\ ~(p - 1 < at)
            /\ (p - 1) + 1 = p
        BY <1>1, <1>2, <2>3, <3>2 DEF Down
      <4>2. QED  BY <1>3, <4>1
    <3>3. QED  BY <1>2, <2>3, <3>1, <3>2
  <2>5. i # to => Down(w[i].toneRawIdx, at) \in 0..Len(q)
    BY <1>1, <1>2, <1>3, <1>7 DEF Down
  <2>6. 0 \in 0..Len(q)
    BY <1>1, <1>2, <1>3
  <2>7. QED  BY <2>1, <2>2, <2>3, <2>4, <2>5, <2>6 DEF Placed
<1>9. ASSUME NEW i \in 1..n, NEW j \in 1..n PROVE Apart(v, i, j)
  <2>1. Apart(w, i, j)
    BY <1>1
  <2>2. /\ w[i].rawIdx \in Nat /\ w[i].rawIdx # at /\ w[i].rawIdx # 0
        /\ w[j].rawIdx \in Nat /\ w[j].rawIdx # at /\ w[j].rawIdx # 0
        /\ w[i].toneRawIdx \in Nat /\ (i # to => w[i].toneRawIdx # at)
        /\ w[j].toneRawIdx \in Nat /\ (j # to => w[j].toneRawIdx # at)
        /\ at \in Nat /\ at # 0
    BY <1>1, <1>2, <1>7
  <2>3. i < j => v[i].rawIdx < v[j].rawIdx
    BY <1>5, <2>1, <2>2, DownOrders DEF Apart
  <2>4. v[j].rawIdx # 0
    BY <1>5, <2>2, DownOrders
  <2>5. v[i].toneRawIdx # v[j].rawIdx
    BY <1>5, <2>1, <2>2, <2>4, DownOrders DEF Apart
  <2>6. i # j /\ v[i].toneRawIdx = v[j].toneRawIdx => v[i].toneRawIdx = 0
    <3>1. CASE i = to
      BY <1>5, <3>1
    <3>2. CASE j = to
      BY <1>5, <3>2
    <3>3. CASE i # to /\ j # to
      <4>1. /\ v[i].toneRawIdx = Down(w[i].toneRawIdx, at)
            /\ v[j].toneRawIdx = Down(w[j].toneRawIdx, at)
        BY <1>5, <3>3
      <4>2. w[i].toneRawIdx # w[j].toneRawIdx => v[i].toneRawIdx # v[j].toneRawIdx
        BY <2>2, <3>3, <4>1, DownOrders
      <4>3. Down(0, at) = 0
        BY <2>2 DEF Down
      <4>4. QED  BY <2>1, <4>1, <4>2, <4>3 DEF Apart
    <3>4. QED  BY <3>1, <3>2, <3>3
  <2>7. QED  BY <2>3, <2>5, <2>6 DEF Apart
<1>10. Layout(v, q)
  BY <1>3, <1>6, <1>8, <1>9 DEF Layout
<1>11. QED  BY <1>2, <1>3, <1>10 DEF v, low, at

\* The buffer between two keys.
Laid(e) ==
  /\ DOMAIN e = DOMAIN Fresh /\ e.quickStart = "" /\ Layout(e.states, e.raw)
\* Key k is in, and no letter or tone stands for it yet.
Awaits(e, k) ==
  /\ DOMAIN e = DOMAIN Fresh /\ e.quickStart = ""
  /\ \E r : e.raw = Append(r, k) /\ Layout(e.states, r)
\* Key k was taken, or still waits.
Answers(e, k) == Awaits(e, k) \/ (e.took /\ Laid(e))

\* The buffer of y is laid out where that of x is.
Steady(x, y) ==
  /\ DOMAIN y = DOMAIN x /\ y.raw = x.raw /\ y.quickStart = x.quickStart
  /\ Holds(x.states, y.states)
  /\ x.took => y.took

LEMMA SteadyTrans ==
  ASSUME NEW x, NEW y, NEW z, Steady(x, y), Steady(y, z)
  PROVE  Steady(x, z)
BY HoldsTrans DEF Steady

LEMMA SteadyKeeps ==
  ASSUME NEW x, NEW y, Steady(x, y), NEW k
  PROVE  /\ Laid(x) => Laid(y)
         /\ Awaits(x, k) => Awaits(y, k)
         /\ Answers(x, k) => Answers(y, k)
BY DEF Steady, Holds, Laid, Awaits, Answers

\* A key that no letter stands for does no harm.
LEMMA AwaitsLaid == ASSUME NEW e, NEW k, Awaits(e, k) PROVE Laid(e)
BY GrownLays DEF Awaits, Laid

IsEngine(e) == DOMAIN e = DOMAIN Fresh

LEMMA StatesSteady ==
  ASSUME NEW x, IsEngine(x), NEW w, Holds(x.states, w)
  PROVE  Steady(x, [x EXCEPT !.states = w])
BY DEF Steady, IsEngine, Fresh

LEMMA FlagsSteady ==
  ASSUME NEW x, IsEngine(x), NEW v
  PROVE  /\ Steady(x, x) /\ Steady(x, [x EXCEPT !.took = TRUE])
         /\ Steady(x, [x EXCEPT !.off = v]) /\ Steady(x, [x EXCEPT !.bias = v])
         /\ Steady(x, [x EXCEPT !.qc = v]) /\ Steady(x, [x EXCEPT !.esc = v])
         /\ Steady(x, [x EXCEPT !.toneKey = v]) /\ Steady(x, [x EXCEPT !.insist = v])
BY HoldsSelf DEF Steady, IsEngine, Fresh

LEMMA SimpleSteady ==
  ASSUME NEW x, IsEngine(x)
  PROVE  /\ Steady(x, Took(x)) /\ Steady(x, UpdateSpellState(x)) /\ Steady(x, Completed(x))
         /\ \A b : Steady(x, Biased(x, b))
         /\ \A kind : Steady(x, Escape(x, kind))
         /\ \A i, m : Steady(x, Mark(x, i, m))
         /\ \A i : Steady(x, Unhorned(x, i))
<1>1. /\ Steady(x, Took(x)) /\ Steady(x, UpdateSpellState(x))
      /\ \A b : Steady(x, Biased(x, b))
      /\ \A kind : Steady(x, Escape(x, kind))
  BY FlagsSteady DEF Took, UpdateSpellState, Biased, Escape
<1>2. Steady(x, Completed(x))
  <2>1. Holds(x.states, ApplyAutoUO(x.states))
    BY PairsHold
  <2>2. Completed(x) = [x EXCEPT !.states = ApplyAutoUO(x.states)]
    BY DEF Completed
  <2>3. QED  BY <2>1, <2>2, StatesSteady
<1>3. ASSUME NEW i, NEW m PROVE Steady(x, Mark(x, i, m))
  <2> DEFINE w == [x.states EXCEPT ![i].mod = m]
  <2>1. Holds(x.states, w)
    BY ModHolds
  <2>2. Mark(x, i, m) = [x EXCEPT !.states = w]
    BY DEF Mark
  <2> HIDE DEF w
  <2>3. QED  BY <2>1, <2>2, StatesSteady
<1>4. ASSUME NEW i PROVE Steady(x, Unhorned(x, i))
  <2>1. Holds(x.states, UndoHornU(x.states, i))
    BY UnhornedHolds
  <2>2. Unhorned(x, i) = [x EXCEPT !.states = UndoHornU(x.states, i)]
    BY DEF Unhorned
  <2>3. QED  BY <2>1, <2>2, StatesSteady
<1>5. QED  BY <1>1, <1>2, <1>3, <1>4

LEMMA MovedSteady ==
  ASSUME NEW x, IsEngine(x)
  PROVE  /\ Steady(x, [x EXCEPT !.states = RelocateToneToTarget(x.states)])
         /\ Steady(x, Moved(x)) /\ Steady(x, HornMoved(x))
<1> DEFINE a == [x EXCEPT !.states = RelocateToneToTarget(x.states)]
           b == [x EXCEPT !.states = RelocateToneToHornVowel(x.states)]
<1>1. Steady(x, a) /\ Steady(x, b)
  <2>1. /\ Holds(x.states, RelocateToneToTarget(x.states))
        /\ Holds(x.states, RelocateToneToHornVowel(x.states))
    BY RelocatedHolds, ToHornHolds
  <2>2. QED  BY <2>1, StatesSteady
<1>2. Moved(x) = Took(a) /\ HornMoved(x) = Took(b)
  BY DEF Moved, HornMoved
<1>3. IsEngine(a) /\ IsEngine(b)
  BY DEF IsEngine, Fresh
<1> HIDE DEF a, b
<1>4. Steady(a, Took(a)) /\ Steady(b, Took(b))
  BY <1>3, SimpleSteady
<1>5. Steady(x, Moved(x)) /\ Steady(x, HornMoved(x))
  BY <1>1, <1>2, <1>4, SteadyTrans
<1>6. QED  BY <1>1, <1>5 DEF a

\* The key that waits becomes a letter, as itself or as the u of a leading w.
LEMMA NewLetter ==
  ASSUME NEW e, NEW k, Awaits(e, k), NEW s, DOMAIN s = Fields, s.rawIdx = Max({1, Len(e.raw)}),
         KeyOf(s) = k, s.toneRawIdx = 0
  PROVE  Laid([e EXCEPT !.states = Append(e.states, s)])
<1> DEFINE x == [e EXCEPT !.states = Append(e.states, s)]
<1>1. PICK r : e.raw = Append(r, k) /\ Layout(e.states, r)
  BY DEF Awaits
<1>2. Len(r) \in Nat /\ Len(e.raw) = Len(r) + 1
  BY <1>1, TextPlaces, TextGrows DEF Layout
<1>3. \A n \in Nat : n >= 1 => Max({1, n}) = n
  BY DEF Max
<1>4. s.rawIdx = Len(r) + 1
  BY <1>2, <1>3
<1>5. Layout(Append(e.states, s), e.raw)
  BY <1>1, <1>4, LetterLays
<1>6. /\ DOMAIN x = DOMAIN Fresh /\ x.states = Append(e.states, s) /\ x.raw = e.raw
      /\ x.quickStart = e.quickStart
  BY DEF Awaits, Fresh
<1>7. QED  BY <1>5, <1>6 DEF Laid, Awaits

LEMMA LetterLaid ==
  ASSUME NEW e, NEW k, Awaits(e, k)
  PROVE  Laid(ProcessChar(e, k))
<1> DEFINE s == NewState(k, "None", e.raw)
<1>1. /\ DOMAIN s = Fields /\ s.rawIdx = Max({1, Len(e.raw)}) /\ KeyOf(s) = k
      /\ s.toneRawIdx = 0
  BY DEF NewState, Fields, KeyOf
<1>2. ProcessChar(e, k) = [e EXCEPT !.states = Append(e.states, s)]
  BY DEF ProcessChar, Insert
<1> HIDE DEF s
<1>3. Laid([e EXCEPT !.states = Append(e.states, s)])
  BY <1>1, NewLetter
<1>4. QED  BY <1>2, <1>3

LEMMA TookLaid ==
  ASSUME NEW e, Laid(e), NEW k
  PROVE  Answers(Took(e), k)
<1>1. Laid(Took(e))
  BY SimpleSteady, SteadyKeeps DEF Laid, IsEngine
<1>2. Took(e).took
  BY DEF Took, Laid, Fresh
<1>3. QED  BY <1>1, <1>2 DEF Answers

\* The key becomes a letter behind an escape, or because a gate stopped it.
LEMMA LiteralAnswers ==
  ASSUME NEW e, NEW k, Awaits(e, k)
  PROVE  /\ Answers(Took(ProcessChar(e, k)), k) /\ Answers(AsLiteral(e, k), k)
         /\ \A kind : Answers(Escaped(e, kind, k), k)
<1> DEFINE c == ProcessChar(e, k)
<1>1. Laid(c) /\ IsEngine(c)
  BY LetterLaid DEF Laid, IsEngine
<1> HIDE DEF c
<1>2. Laid(UpdateSpellState(c)) /\ \A kind : Laid(Escape(c, kind))
  BY <1>1, SimpleSteady, SteadyKeeps
<1>3. /\ Answers(Took(c), k) /\ Answers(Took(UpdateSpellState(c)), k)
      /\ \A kind : Answers(Took(Escape(c, kind)), k)
  BY <1>1, <1>2, TookLaid
<1>4. QED  BY <1>3 DEF c, AsLiteral, Escaped

LEMMA BiasSteady ==
  ASSUME NEW x, IsEngine(x)
  PROVE  /\ Steady(x, ZwjfBias(x)) /\ Steady(x, RecalcEnglishBias(x))
         /\ \A k : Steady(x, UpdateToneInsistence(x, k))
<1>1. ASSUME NEW y, IsEngine(y) PROVE Steady(y, ZwjfBias(y))
  <2>1. ZwjfBias(y) = y \/ \E b : ZwjfBias(y) = Biased(y, b)
    BY DEF ZwjfBias
  <2>2. Steady(y, y) /\ \A b : Steady(y, Biased(y, b))
    BY <1>1, SimpleSteady, FlagsSteady
  <2>3. QED  BY <2>1, <2>2
<1>2. Steady(x, RecalcEnglishBias(x))
  <2> DEFINE b == IF Len(x.states) >= 2 THEN CheckEnglishBias(x.states, "Unknown") ELSE "Unknown"
             z == [x EXCEPT !.bias = b, !.toneKey = "", !.insist = 0]
  <2>1. RecalcEnglishBias(x) = ZwjfBias(z)
    BY DEF RecalcEnglishBias
  <2> HIDE DEF b
  <2>2. Steady(x, z) /\ IsEngine(z)
    BY HoldsSelf DEF Steady, IsEngine, Fresh
  <2> HIDE DEF z
  <2>3. Steady(z, ZwjfBias(z))
    BY <1>1, <2>2
  <2>4. QED  BY <2>1, <2>2, <2>3, SteadyTrans
<1>3. ASSUME NEW k PROVE Steady(x, UpdateToneInsistence(x, k))
  BY HoldsSelf DEF UpdateToneInsistence, Steady, IsEngine, Fresh
<1>4. QED  BY <1>1, <1>2, <1>3

\* A tone taken off takes its key out of the raw keys, and the key that took it
\* off still waits.
LEMMA ErasedAwaits ==
  ASSUME NEW e, NEW k, Awaits(e, k), NEW to \in 1..Len(e.states)
  PROVE  Awaits(Forgotten(Erased(Bare(e, to), e.states[to].toneRawIdx), to), k)
<1> DEFINE at == e.states[to].toneRawIdx
           w == [e.states EXCEPT ![to].tone = "None"]
           bare == [e EXCEPT !.states = w]
           erased == IF at = 0 THEN bare ELSE EraseConsumedRaw(bare, at)
           cleared == [erased EXCEPT !.states = [erased.states EXCEPT ![to].toneRawIdx = 0]]
<1>1. PICK r : e.raw = Append(r, k) /\ Layout(e.states, r)
  BY DEF Awaits
<1>2. Layout(w, r)
  BY <1>1, ToneHolds DEF Holds
<1>3. /\ IsEngine(bare) /\ bare.states = w /\ bare.raw = Append(r, k) /\ bare.quickStart = ""
      /\ \A v : LET x == [bare EXCEPT !.states = v]
                IN IsEngine(x) /\ x.states = v /\ x.raw = bare.raw /\ x.quickStart = ""
      /\ \A q, v : LET x == [bare EXCEPT !.raw = q, !.states = v]
                   IN IsEngine(x) /\ x.states = v /\ x.raw = q /\ x.quickStart = ""
  <2> HIDE DEF w
  <2>1. /\ IsEngine(bare) /\ bare.states = w /\ bare.raw = Append(r, k)
        /\ bare.quickStart = ""
    BY <1>1 DEF Awaits, IsEngine, Fresh
  <2> HIDE DEF bare
  <2>2. QED  BY <2>1 DEF IsEngine, Fresh
<1>4. Len(w) = Len(e.states) /\ to \in 1..Len(w)
  <2>1. DOMAIN w = DOMAIN e.states /\ IsWord(w) /\ IsWord(e.states)
    BY <1>1, <1>2 DEF Layout
  <2> HIDE DEF w
  <2>2. QED  BY <2>1, WordPlaces
<1>5. w[to].toneRawIdx = at
  <2>1. DOMAIN e.states[to] = Fields /\ to \in DOMAIN e.states
    BY <1>1, WordPlaces DEF Layout, Placed
  <2>2. QED  BY <2>1 DEF Fields
<1> HIDE DEF w, bare, at
<1>6. ASSUME at = 0 PROVE Awaits(cleared, k)
  <2> DEFINE v == [w EXCEPT ![to].toneRawIdx = 0]
  <2>1. Layout(v, r)
    BY <1>2, ToneHolds DEF Holds
  <2>2. cleared = [bare EXCEPT !.states = v]
    BY <1>3, <1>6
  <2>3. /\ IsEngine([bare EXCEPT !.states = v])
        /\ [bare EXCEPT !.states = v].states = v
        /\ [bare EXCEPT !.states = v].raw = Append(r, k)
        /\ [bare EXCEPT !.states = v].quickStart = ""
    <3> HIDE DEF v
    <3>1. QED  BY ONLY <1>3, Zenon
  <2>4. /\ IsEngine(cleared) /\ cleared.states = v
        /\ cleared.raw = Append(r, k) /\ cleared.quickStart = ""
    BY ONLY <2>2, <2>3, Zenon
  <2> HIDE DEF v, cleared
  <2>5. QED  BY ONLY <2>1, <2>4, Zenon DEF Awaits, IsEngine
<1>7. ASSUME at # 0 PROVE Awaits(cleared, k)
  <2> DEFINE low == Lowered(w, at)
             v == [low EXCEPT ![to].toneRawIdx = 0]
             x == [bare EXCEPT !.raw = RemoveAt(bare.raw, at), !.states = low]
  <2>1. PICK q : RemoveAt(Append(r, k), at) = Append(q, k) /\ Layout(v, q)
    BY <1>2, <1>4, <1>5, <1>7, ErasedLays
  <2>2. at \in 1..Len(r)
    BY <1>2, <1>4, <1>5, <1>7, ErasedLays
  <2>3. ~(at > Len(bare.raw))
    <3>1. IsText(r) /\ Len(r) \in Nat /\ Len(Append(r, k)) = Len(r) + 1
      BY <1>1, TextGrows, TextPlaces DEF Layout
    <3>2. Len(bare.raw) = Len(r) + 1
      BY <1>3, <3>1
    <3>3. QED  BY <2>2, <3>1, <3>2
  <2>4. EraseConsumedRaw(bare, at) = x
    BY <1>3, <2>3 DEF EraseConsumedRaw, Lowered, Down
  <2>5. erased = x
    BY <1>7, <2>4
  <2> HIDE DEF low
  <2>6. IsEngine(x) /\ x.states = low /\ x.raw = Append(q, k) /\ x.quickStart = ""
    <3>1. /\ IsEngine(x) /\ x.states = low
          /\ x.raw = RemoveAt(bare.raw, at) /\ x.quickStart = ""
      BY ONLY <1>3, ZenonT(60)
    <3>2. RemoveAt(bare.raw, at) = Append(q, k)
      BY ONLY <1>3, <2>1
    <3>3. QED  BY ONLY <3>1, <3>2, Zenon
  <2> HIDE DEF x, erased
  <2>7. LET y == [x EXCEPT !.states = v]
        IN DOMAIN y = DOMAIN Fresh /\ y.states = v /\ y.raw = Append(q, k) /\ y.quickStart = ""
    BY <2>6 DEF IsEngine, Fresh
  <2>8. cleared = [x EXCEPT !.states = v]
    BY <2>5, <2>6
  <2> HIDE DEF v, cleared
  <2>9. QED  BY <2>1, <2>7, <2>8 DEF Awaits
<1>8. Awaits(cleared, k)
  BY <1>6, <1>7
<1>9. QED  BY <1>8 DEF w, bare, at, Bare, Erased, Forgotten

LEMMA ToneAnswers ==
  ASSUME NEW e, NEW k, Awaits(e, k), NEW to \in 0..Len(e.states), NEW tone
  PROVE  Answers(ProcessTone(e, to, tone, k), k)
<1> DEFINE cleared == Forgotten(Erased(Bare(e, to), e.states[to].toneRawIdx), to)
           w == [e.states EXCEPT ![to].tone = tone, ![to].toneRawIdx = Len(e.raw)]
           set == Toned(e, to, tone)
<1>0. to = 0 => ProcessTone(e, to, tone, k) = e
  BY DEF ProcessTone
<1>1. ProcessTone(e, to, tone, k) \in {e, Escaped(cleared, "Tone", k), Took(set)}
  <2>1. ProcessTone(e, to, tone, k)
          \in {e, Took(Escape(ProcessChar(cleared, k), "Tone")), Took(set)}
    BY ToneForms
  <2> HIDE DEF cleared, set
  <2>2. QED  BY <2>1 DEF Escaped
<1>2. to # 0 => Answers(Escaped(cleared, "Tone", k), k)
  <2>1. SUFFICES ASSUME to # 0 PROVE Answers(Escaped(cleared, "Tone", k), k)
    OBVIOUS
  <2>2. to \in 1..Len(e.states)
    <3>1. IsWord(e.states)
      BY DEF Awaits, Layout
    <3>2. Len(e.states) \in Nat
      BY <3>1, WordPlaces
    <3>3. QED  BY <2>1, <3>2
  <2>3. Awaits(cleared, k)
    BY <2>2, ErasedAwaits
  <2> HIDE DEF cleared
  <2>4. QED  BY <2>3, LiteralAnswers
<1>3. to # 0 => Answers(Took(set), k)
  <2>1. SUFFICES ASSUME to # 0 PROVE Laid(set)
    BY TookLaid
  <2>2. PICK r : e.raw = Append(r, k) /\ Layout(e.states, r)
    BY DEF Awaits
  <2>3. Len(r) \in Nat /\ Len(e.states) \in Nat /\ Len(e.raw) = Len(r) + 1
    BY <2>2, TextPlaces, WordPlaces, TextGrows DEF Layout
  <2>4. Layout(w, e.raw)
    <3>1. to \in 1..Len(e.states)
      BY <2>1, <2>3
    <3>2. w = [e.states EXCEPT ![to].tone = tone, ![to].toneRawIdx = Len(r) + 1]
      BY <2>3
    <3> HIDE DEF w
    <3>3. Layout([e.states EXCEPT ![to].tone = tone, ![to].toneRawIdx = Len(r) + 1],
                 Append(r, k))
      BY <2>2, <3>1, ToneLays
    <3>4. QED  BY <2>2, <3>2, <3>3
  <2>5. set = [e EXCEPT !.states = w, !.esc = "None"]
    BY DEF Toned
  <2> HIDE DEF w, set
  <2>6. DOMAIN set = DOMAIN Fresh /\ set.states = w /\ set.raw = e.raw /\ set.quickStart = ""
    BY <2>5 DEF Awaits, Fresh
  <2>7. QED  BY <2>4, <2>6 DEF Laid
<1> HIDE DEF cleared, set
<1>4. QED  BY <1>0, <1>1, <1>2, <1>3 DEF Answers

LEMMA AnswersEngine ==
  ASSUME NEW x, NEW k, Answers(x, k)
  PROVE  IsEngine(x) /\ Len(x.states) \in Nat /\ IsWord(x.states)
BY WordPlaces DEF Answers, Awaits, Laid, IsEngine, Layout

LEMMA SteadyEngine ==
  ASSUME NEW x, NEW y, IsEngine(x), Steady(x, y) PROVE IsEngine(y)
BY DEF IsEngine, Steady

\* Behind a tone the flags are brought up to date.
LEMMA SettledAnswers ==
  ASSUME NEW x, NEW k, Answers(x, k)
  PROVE  Answers(ToneSettled(x), k)
<1> DEFINE b == IF x.esc = "None" THEN Biased(x, "Vietnamese") ELSE RecalcEnglishBias(x)
           c == Completed(b)
           u == UpdateSpellState(c)
<1>1. ToneSettled(x) \in {x, u}
  BY DEF ToneSettled
<1>2. Steady(x, b) /\ IsEngine(b)
  BY AnswersEngine, SimpleSteady, BiasSteady, SteadyEngine
<1> HIDE DEF b
<1>3. Steady(b, c) /\ IsEngine(c)
  BY <1>2, SimpleSteady, SteadyEngine
<1> HIDE DEF c
<1>4. Steady(c, u)
  BY <1>3, SimpleSteady
<1> HIDE DEF u
<1>5. QED  BY <1>1, <1>2, <1>3, <1>4, SteadyKeeps

LEMMA ToneFsmAnswers ==
  ASSUME NEW e, NEW k, Awaits(e, k), NEW to \in 0..Len(e.states), NEW tone
  PROVE  Answers(HandleToneFsm(e, to, tone, k), k)
<1> DEFINE soft == UpdateToneInsistence(e, k)
           hard(x) == AsLiteral(Biased(x, "HardEnglish"), k)
           Is(x) == Awaits(x, k) /\ x.states = e.states
<1>0. IsEngine(e)
  BY DEF Awaits, IsEngine
<1>1. Is(e) /\ Is(soft)
  <2>1. soft.states = e.states
    BY <1>0 DEF UpdateToneInsistence, IsEngine, Fresh
  <2>2. Steady(e, soft)
    BY <1>0, BiasSteady
  <2>3. QED  BY <2>1, <2>2, SteadyKeeps
<1>2. ASSUME NEW x, Is(x)
      PROVE  /\ Answers(AsLiteral(x, k), k) /\ Answers(hard(x), k)
             /\ Answers(ToneSettled(ProcessTone(x, to, tone, k)), k)
  <2>1. IsEngine(x)
    BY <1>2 DEF Awaits, IsEngine
  <2>2. Awaits(Biased(x, "HardEnglish"), k)
    BY <1>2, <2>1, SimpleSteady, SteadyKeeps
  <2>3. Answers(AsLiteral(x, k), k) /\ Answers(hard(x), k)
    BY <1>2, <2>2, LiteralAnswers
  <2>4. Awaits(x, k) /\ to \in 0..Len(x.states)
    BY <1>2
  <2>5. Answers(ProcessTone(x, to, tone, k), k)
    BY <2>4, ToneAnswers
  <2>6. QED  BY <2>3, <2>5, SettledAnswers
<1>3. \E x \in {e, soft} :
        HandleToneFsm(e, to, tone, k)
          \in {AsLiteral(x, k), hard(x), ToneSettled(ProcessTone(x, to, tone, k))}
  BY DEF HandleToneFsm
<1> HIDE DEF soft, hard, Is
<1>4. QED  BY <1>1, <1>2, <1>3

LEMMA ClearAnswers ==
  ASSUME NEW e, NEW k, Awaits(e, k), NEW to
  PROVE  Answers(HandleClearTone(e, to, k), k)
<1> DEFINE x == ProcessClearTone(e, to)
           w == [e.states EXCEPT ![to].tone = "None", ![to].toneRawIdx = 0]
           y == [e EXCEPT !.states = w]
<1>0. IsEngine(e)
  BY DEF Awaits, IsEngine
<1>1. x \in {e, Took(y)}
  BY DEF ProcessClearTone
<1>2. Steady(e, y)
  <2>1. Holds(e.states, w)
    BY ToneHolds
  <2> HIDE DEF w
  <2>2. QED  BY <1>0, <2>1, StatesSteady
<1> HIDE DEF y, x
<1>3. Awaits(y, k) /\ IsEngine(y)
  BY <1>0, <1>2, SteadyKeeps, SteadyEngine
<1>4. Awaits(Took(y), k)
  BY <1>3, SimpleSteady, SteadyKeeps
<1>5. Awaits(x, k) /\ IsEngine(x)
  BY <1>1, <1>4 DEF Awaits, IsEngine
<1>6. Awaits(UpdateSpellState(x), k)
  BY <1>5, SimpleSteady, SteadyKeeps
<1>7. HandleClearTone(e, to, k) \in {AsLiteral(e, k), UpdateSpellState(x), x}
  BY DEF HandleClearTone, x
<1>8. Answers(AsLiteral(e, k), k)
  BY LiteralAnswers
<1>9. QED  BY <1>5, <1>6, <1>7, <1>8 DEF Answers

LEMMA ToneRuleAnswers ==
  ASSUME NEW e, NEW k, Answers(e, k), NEW act
  PROVE  Answers(ToneRule(e, act, k), k)
<1>1. e.took \/ Awaits(e, k)
  BY DEF Answers
<1>2. CASE e.took
  BY <1>2 DEF ToneRule
<1>3. CASE Awaits(e, k)
  <2>1. Target(e.states) \in 0..Len(e.states)
    BY AnswersEngine, TargetPlaces
  <2>2. /\ Answers(HandleClearTone(e, Target(e.states), k), k)
        /\ \A tone : Answers(HandleToneFsm(e, Target(e.states), tone, k), k)
    BY <1>3, <2>1, ClearAnswers, ToneFsmAnswers
  <2>3. QED  BY <2>2 DEF ToneRule
<1>4. QED  BY <1>1, <1>2, <1>3

\* What the handlers of marks are made of.
Open(k) ==
  /\ \A x : Awaits(x, k) => Awaits(Took(x), k) /\ Awaits(Moved(x), k) /\ Awaits(HornMoved(x), k)
  /\ \A x, i, m : Awaits(x, k) => Awaits(Mark(x, i, m), k)
  /\ \A x, i : Awaits(x, k) => Awaits(Unhorned(x, i), k)
  /\ \A x, b : Awaits(x, k) => Awaits(Biased(x, b), k)
  /\ \A x : Awaits(x, k) => Answers(x, k) /\ Answers(Took(ProcessChar(x, k)), k)
  /\ \A x, kind : Awaits(x, k) => Answers(Escaped(x, kind, k), k)

LEMMA OpenSteps == ASSUME NEW k PROVE Open(k)
<1>1. ASSUME NEW x, Awaits(x, k), NEW i, NEW m
      PROVE  /\ Awaits(Took(x), k) /\ Awaits(Moved(x), k) /\ Awaits(HornMoved(x), k)
             /\ Awaits(Mark(x, i, m), k) /\ Awaits(Unhorned(x, i), k) /\ Awaits(Biased(x, m), k)
  <2>1. IsEngine(x)
    BY <1>1 DEF Awaits, IsEngine
  <2>2. /\ Steady(x, Took(x)) /\ Steady(x, Moved(x)) /\ Steady(x, HornMoved(x))
        /\ Steady(x, Mark(x, i, m)) /\ Steady(x, Unhorned(x, i)) /\ Steady(x, Biased(x, m))
    BY <2>1, SimpleSteady, MovedSteady
  <2>3. QED  BY <1>1, <2>2, SteadyKeeps
<1>2. ASSUME NEW x, Awaits(x, k), NEW kind
      PROVE  Answers(x, k) /\ Answers(Took(ProcessChar(x, k)), k) /\ Answers(Escaped(x, kind, k), k)
  BY <1>2, LiteralAnswers DEF Answers
<1>3. QED  BY <1>1, <1>2 DEF Open

LEMMA MarkedAnswers ==
  ASSUME NEW e, NEW k, Awaits(e, k), NEW i, NEW mod, NEW relocate, NEW key
  PROVE  Answers(MarkUnlessRejected(e, i, mod, relocate, key), k)
BY OpenSteps DEF MarkUnlessRejected, Open

LEMMA CircumflexAnswers ==
  ASSUME NEW e, NEW k, Awaits(e, k), NEW v
  PROVE  Answers(HandleAdjacentCircumflex(e, v, k), k)
<1>0. Open(k)
  BY OpenSteps
<1>1. Answers(CircumflexOnLast(e, v, k), k)
  BY <1>0, MarkedAnswers DEF CircumflexOnLast, Open
<1>2. Answers(CircumflexAcross(e, v, k), k)
  BY <1>0 DEF CircumflexAcross, Open
<1>3. QED  BY <1>0, <1>1, <1>2 DEF HandleAdjacentCircumflex, Open

LEMMA StrokeAnswers ==
  ASSUME NEW e, NEW k, Awaits(e, k)
  PROVE  Answers(HandleStrokeD(e, k), k)
BY OpenSteps DEF HandleStrokeD, Open

LEMMA VniVowelAnswers ==
  ASSUME NEW e, NEW k, Awaits(e, k), NEW mod
  PROVE  Answers(ProcessVniVowelModifier(e, mod, k), k)
<1>0. Open(k)
  BY OpenSteps
<1>1. QED  BY <1>0, MarkedAnswers DEF ProcessVniVowelModifier, Open

LEMMA VniHornAnswers ==
  ASSUME NEW e, NEW k, Awaits(e, k)
  PROVE  Answers(HandleVniHorn(e, k), k)
<1>0. Open(k)
  BY OpenSteps
<1>1. Answers(ProcessVniVowelModifier(e, "Horn", k), k)
  BY VniVowelAnswers
<1>2. QED  BY <1>0, <1>1 DEF HandleVniHorn, Open

\* A leading w makes a u that stands for the w.
LEMMA SyntheticAnswers ==
  ASSUME NEW e, Awaits(e, "w")
  PROVE  Answers(Took(Synthetic(Insert(e, "u", "Horn"), Len(e.states) + 1)), "w")
<1> DEFINE s == NewState("u", "Horn", e.raw)
           t == [s EXCEPT !.synthetic = TRUE]
           n == Len(e.states)
           w == Append(e.states, s)
           x == Synthetic(Insert(e, "u", "Horn"), n + 1)
<1>1. /\ DOMAIN s = Fields /\ DOMAIN t = Fields /\ t.rawIdx = Max({1, Len(e.raw)})
      /\ KeyOf(t) = "w" /\ t.toneRawIdx = 0
  BY DEF NewState, Fields, KeyOf
<1>2. IsWord(e.states)
  BY DEF Awaits, Layout
<1>3. [w EXCEPT ![n + 1].synthetic = TRUE] = Append(e.states, t)
  <2>1. PICK S : e.states \in Seq(S)
    BY <1>2 DEF IsWord
  <2> HIDE DEF s
  <2>2. n \in Nat /\ w = [i \in 1..(n + 1) |-> IF i = n + 1 THEN s ELSE e.states[i]]
    BY <2>1
  <2>3. Append(e.states, t) = [i \in 1..(n + 1) |-> IF i = n + 1 THEN t ELSE e.states[i]]
    BY <2>1
  <2>4. [w EXCEPT ![n + 1].synthetic = TRUE]
          = [i \in 1..(n + 1) |-> IF i = n + 1 THEN t ELSE e.states[i]]
    BY <2>2
  <2>5. QED  BY <2>3, <2>4
<1>4. x = [e EXCEPT !.states = Append(e.states, t)]
  <2>1. Insert(e, "u", "Horn") = [e EXCEPT !.states = w]
    BY DEF Insert
  <2>2. [e EXCEPT !.states = w].states = w
    BY DEF Awaits, Fresh
  <2> HIDE DEF w, t
  <2>3. x = [e EXCEPT !.states = [w EXCEPT ![n + 1].synthetic = TRUE]]
    BY <2>1, <2>2 DEF Synthetic, Awaits, Fresh
  <2>4. QED  BY <1>3, <2>3
<1> HIDE DEF t
<1>5. Laid([e EXCEPT !.states = Append(e.states, t)])
  BY <1>1, NewLetter
<1>6. Laid(x)
  BY <1>4, <1>5
<1> HIDE DEF x
<1>7. Answers(Took(x), "w")
  BY <1>6, TookLaid
<1>8. QED  BY <1>7 DEF x, n

LEMMA HornAnswers ==
  ASSUME NEW e, Awaits(e, "w")
  PROVE  Answers(HandleHornW(e, "w"), "w")
<1> DEFINE x == [e EXCEPT !.states = Front(@)]
           synthetic == Took(Synthetic(Insert(e, "u", "Horn"), Len(e.states) + 1))
<1>0. Open("w")
  BY OpenSteps
<1>1. e.states # <<>> => Answers(Escaped(x, "Horn", "w"), "w")
  <2>1. SUFFICES ASSUME e.states # <<>> PROVE Answers(Escaped(x, "Horn", "w"), "w")
    OBVIOUS
  <2>2. PICK r : e.raw = Append(r, "w") /\ Layout(e.states, r)
    BY DEF Awaits
  <2>3. Layout(Front(e.states), r)
    BY <2>1, <2>2, FrontLays
  <2>4. /\ DOMAIN x = DOMAIN Fresh /\ x.states = Front(e.states) /\ x.raw = e.raw
        /\ x.quickStart = ""
    BY DEF Awaits, Fresh
  <2>5. Awaits(x, "w")
    BY <2>2, <2>3, <2>4 DEF Awaits
  <2> HIDE DEF x
  <2>6. QED  BY <2>5, LiteralAnswers
<1>2. Answers(synthetic, "w")
  BY SyntheticAnswers
<1>3. e.states = <<>> => HandleHornW(e, "w") \in {e, synthetic}
  BY LastOfNone DEF HandleHornW, VowelPairs, FreeVowels
<1>4. e.states # <<>> => Answers(HandleHornW(e, "w"), "w")
  BY <1>0, <1>1, <1>2 DEF HandleHornW, Open
<1>5. QED  BY <1>0, <1>2, <1>3, <1>4 DEF Open

\* The actions in which a key stands for one key at most.
Ordinary(act, k) ==
  /\ act[1] \notin {"HornInsert", "HornOrInsertU", "HornOrInsertUNoStart", "UndoAllMarks",
                    "InsertChar"}
  /\ act[1] = "HornW" => k = "w"

LEMMA ActionOrdinary ==
  ASSUME NEW e, NEW k, config.method # "UserDefined", k \notin {"[", "]"}
  PROVE  Ordinary(ActionOf(e, k), k)
<1>1. ASSUME NEW telex, NEW vni PROVE Ordinary(ClassifyKey(k, telex, vni), k)
  <2>1. ClassifyKey(k, telex, vni)[1]
          \in {"ClearTone", "Tone", "Circumflex", "HornW", "StrokeD", "VniVowel", "VniStroke",
               "None"}
    BY DEF ClassifyKey
  <2>2. k # "w" => ClassifyKey(k, telex, vni)[1] # "HornW"
    BY DEF ClassifyKey
  <2>3. QED  BY <2>1, <2>2 DEF Ordinary
<1>2. Ordinary(<<"None">>, k)
  BY DEF Ordinary
<1>3. QED  BY <1>1, <1>2 DEF ActionOf

LEMMA ProcessAnswers ==
  ASSUME NEW e, NEW k, Awaits(e, k), NEW act, Ordinary(act, k),
         \/ IsTelexModifierAction(act) \/ IsVniModifierAction(act)
         \/ IsUserDefinedOnlyAction(act)
  PROVE  Answers(ProcessModifier(e, act, k), k)
<1>1. \/ ProcessModifier(e, act, k)
            \in {HandleAdjacentCircumflex(e, act[2], k), HandleStrokeD(e, k),
                 HandleVniHorn(e, k), ProcessVniVowelModifier(e, act[2], k)}
      \/ k = "w" /\ ProcessModifier(e, act, k) = HandleHornW(e, k)
  BY DEF ProcessModifier, Horned, IsTelexModifierAction, IsVniModifierAction,
         IsUserDefinedOnlyAction, Ordinary
<1>2. k = "w" => Answers(HandleHornW(e, k), k)
  BY HornAnswers
<1>3. QED  BY <1>1, <1>2, CircumflexAnswers, StrokeAnswers, VniHornAnswers, VniVowelAnswers

LEMMA ModifierAnswers ==
  ASSUME NEW e, NEW k, Answers(e, k), NEW act, Ordinary(act, k)
  PROVE  Answers(ModifierRule(e, act, k), k)
<1>1. CASE \/ e.took
           \/ ~(IsTelexModifierAction(act) \/ IsVniModifierAction(act)
                \/ IsUserDefinedOnlyAction(act))
  BY <1>1 DEF ModifierRule
<1>2. CASE /\ ~e.took
           /\ \/ IsTelexModifierAction(act) \/ IsVniModifierAction(act)
              \/ IsUserDefinedOnlyAction(act)
  <2> DEFINE hard == Biased(e, "HardEnglish")
             settled(x) == IF x.took THEN UpdateSpellState(Biased(Completed(x), "Vietnamese"))
                           ELSE x
  <2>1. \E e1 \in {e, hard} :
          ModifierRule(e, act, k) \in {e1, settled(ProcessModifier(e1, act, k))}
    BY <1>2 DEF ModifierRule, HandleModifierAction
  <2>2. Awaits(e, k)
    BY <1>2 DEF Answers
  <2>3. Awaits(hard, k)
    BY <2>2, OpenSteps DEF Open
  <2>4. ASSUME NEW x, Answers(x, k) PROVE Answers(settled(x), k)
    <3> DEFINE c == Completed(x)
               b == Biased(c, "Vietnamese")
               u == UpdateSpellState(b)
    <3>1. Steady(x, c) /\ IsEngine(c)
      BY <2>4, AnswersEngine, SimpleSteady, SteadyEngine
    <3> HIDE DEF c
    <3>2. Steady(c, b) /\ IsEngine(b)
      BY <3>1, SimpleSteady, SteadyEngine
    <3> HIDE DEF b
    <3>3. Steady(b, u)
      BY <3>2, SimpleSteady
    <3>4. settled(x) \in {x, u}
      BY DEF u, b, c
    <3> HIDE DEF u, settled
    <3>5. Answers(u, k)
      BY <2>4, <3>1, <3>2, <3>3, SteadyKeeps
    <3>6. QED  BY <2>4, <3>4, <3>5
  <2>5. \A e1 \in {e, hard} : Answers(e1, k) /\ Answers(ProcessModifier(e1, act, k), k)
    BY <1>2, <2>2, <2>3, ProcessAnswers DEF Answers
  <2> HIDE DEF hard, settled
  <2>6. QED  BY <2>1, <2>4, <2>5
<1>3. QED  BY <1>1, <1>2

\* The w comes back: the letter stands for the same key.
LEMMA TurnedSteady ==
  ASSUME NEW x, IsEngine(x)
  PROVE  Steady(x, UndoSyntheticHornIfEnglish(x))
<1> DEFINE w == [x.states EXCEPT ![1].base = "w", ![1].mod = "None", ![1].synthetic = FALSE]
           y == [x EXCEPT !.bias = "HardEnglish", !.states = w]
<1>1. \/ UndoSyntheticHornIfEnglish(x) = x
      \/ x.states[1].synthetic /\ UndoSyntheticHornIfEnglish(x) = y
  BY DEF UndoSyntheticHornIfEnglish
<1>2. x.states[1].synthetic => Holds(x.states, w)
  <2>1. x.states[1].synthetic => SameKeys(x.states, w)
    BY DEF SameKeys, SameKey, KeyOf, Fields
  <2> HIDE DEF w
  <2>2. QED  BY <2>1, SameKeysHold
<1> HIDE DEF w
<1>3. x.states[1].synthetic => Steady(x, y)
  BY <1>2 DEF Steady, IsEngine, Fresh
<1> HIDE DEF y
<1>4. Steady(x, x)
  BY FlagsSteady
<1>5. QED  BY <1>1, <1>3, <1>4

LEMMA FinalLaid ==
  ASSUME NEW e, Laid(e)
  PROVE  Laid(FinalizeRegularChar(e))
<1> DEFINE s == [e EXCEPT !.states = RelocateToneToTarget(@)]
           c == Completed(s)
           g == [c EXCEPT !.bias = CheckEnglishBias(c.states, @)]
           u == UpdateSpellState(g)
           v == UndoSyntheticHornIfEnglish(u)
           z == ZwjfBias(v)
<1>0. IsEngine(e)
  BY DEF Laid, IsEngine
<1>1. Steady(e, s) /\ IsEngine(s)
  <2>1. Steady(e, s)
    BY <1>0, MovedSteady
  <2>2. QED  BY <1>0, <2>1, SteadyEngine
<1> HIDE DEF s
<1>2. Steady(s, c) /\ IsEngine(c)
  BY <1>1, SimpleSteady, SteadyEngine
<1> HIDE DEF c
<1>3. Steady(c, g) /\ IsEngine(g)
  <2> DEFINE b == CheckEnglishBias(c.states, c.bias)
  <2>1. g = [c EXCEPT !.bias = b]
    OBVIOUS
  <2> HIDE DEF b, g
  <2>2. Steady(c, [c EXCEPT !.bias = b])
    BY <1>2, FlagsSteady
  <2>3. QED  BY <1>2, <2>1, <2>2, SteadyEngine
<1> HIDE DEF g
<1>4. Steady(g, u) /\ IsEngine(u)
  BY <1>3, SimpleSteady, SteadyEngine
<1> HIDE DEF u
<1>5. Steady(u, v) /\ IsEngine(v)
  BY <1>4, TurnedSteady, SteadyEngine
<1> HIDE DEF v
<1>6. Steady(v, z)
  BY <1>5, BiasSteady
<1> HIDE DEF z
<1>7. Laid(z)
  BY <1>1, <1>2, <1>3, <1>4, <1>5, <1>6, SteadyKeeps
<1>8. FinalizeRegularChar(e) = z
  BY DEF FinalizeRegularChar, z, v, u, g, c, s
<1>9. QED  BY <1>7, <1>8

\* Without quick consonants a key stands for itself.
NoQuick == ~config.quick /\ ~config.quickStart /\ ~config.quickEnd

LEMMA StartAwaits ==
  ASSUME NEW e, NEW k, Awaits(e, k), NoQuick
  PROVE  Awaits(HandleQuickStartConsonant(e, k), k)
<1> DEFINE u == UndoQuickStart(e, k)
           q == QuickConsonant(u, k)
<1>1. HandleQuickStartConsonant(e, k) = q
  BY DEF HandleQuickStartConsonant, NoQuick
<1>2. u = [e EXCEPT !.quickStart = ""]
  BY DEF UndoQuickStart, Awaits
<1> HIDE DEF u
<1>3. DOMAIN u = DOMAIN Fresh /\ u.quickStart = "" /\ u.raw = e.raw /\ u.states = e.states
  BY <1>2 DEF Awaits, Fresh
<1>4. q = [u EXCEPT !.qc.escaped = FALSE, !.qc.key = IF @ = k THEN @ ELSE ""]
  BY DEF QuickConsonant, NoQuick
<1> HIDE DEF q
<1>5. DOMAIN q = DOMAIN Fresh /\ q.quickStart = "" /\ q.raw = e.raw /\ q.states = e.states
  BY <1>3, <1>4 DEF Fresh
<1>6. QED  BY <1>1, <1>5 DEF Awaits

LEMMA KeyLaid ==
  ASSUME NEW e, NEW k, Laid(e), NoQuick, config.method # "UserDefined", k \notin {"[", "]"}
  PROVE  Laid(PushChar(e, k))
<1> DEFINE p == [e EXCEPT !.raw = Append(@, k), !.hist = Append(@, k),
                          !.qc.only = FALSE, !.took = FALSE]
           h == HandleQuickStartConsonant(p, k)
           act == ActionOf(h, k)
           t == ToneRule(h, act, k)
           m == ModifierRule(t, act, k)
           d == DispatchKey(h, k)
           c == ProcessChar(d, k)
<1>1. Awaits(p, k)
  <2>1. /\ DOMAIN p = DOMAIN Fresh /\ p.raw = Append(e.raw, k) /\ p.states = e.states
        /\ p.quickStart = ""
    BY DEF Laid, Fresh
  <2> HIDE DEF p
  <2>2. QED  BY <2>1 DEF Awaits, Laid
<1> HIDE DEF p
<1>2. Awaits(h, k)
  BY <1>1, StartAwaits
<1> HIDE DEF h
<1>3. Ordinary(act, k)
  BY ActionOrdinary
<1>4. d = m
  BY DEF DispatchKey, ApplyRules, QuickEndRule, NoQuick
<1> HIDE DEF act, d, m
<1>5. Answers(t, k)
  BY <1>2, ToneRuleAnswers DEF Answers
<1> HIDE DEF t
<1>6. Answers(d, k)
  BY <1>3, <1>4, <1>5, ModifierAnswers DEF m
<1>7. Laid(d) /\ (d.took \/ Awaits(d, k))
  BY <1>6, AwaitsLaid DEF Answers
<1>8. Awaits(d, k) => Laid(FinalizeRegularChar(c))
  <2>1. Awaits(d, k) => Laid(c)
    BY LetterLaid
  <2> HIDE DEF c
  <2>2. QED  BY <2>1, FinalLaid
<1>9. PushChar(e, k) = IF d.took THEN d ELSE FinalizeRegularChar(c)
  BY DEF PushChar, RegularChar, c, d, h, p
<1>10. QED  BY <1>7, <1>8, <1>9

-----------------------------------------------------------------------------
(* The raw keys of a word without marks.                                    *)

LEMMA Increasing ==
  ASSUME NEW n \in Nat, NEW P \in [1..n -> Nat \ {0}],
         \A i, j \in 1..n : i < j => P[i] < P[j]
  PROVE  \A i \in 1..n : P[i] >= i
<1> DEFINE S == {i \in 1..n : P[i] < i}
<1> SUFFICES ASSUME S # {} PROVE FALSE
  OBVIOUS
<1>1. PICK i \in S : \A j \in S : i <= j
  <2>1. S \in SUBSET Nat
    OBVIOUS
  <2> HIDE DEF S
  <2>2. QED  BY <2>1, Smallest
<1>2. i \in 1..n /\ P[i] \in Nat /\ P[i] < i /\ P[i] # 0
  BY <1>1
<1>3. i - 1 \in 1..n
  BY <1>2
<1>4. P[i - 1] < P[i] /\ P[i - 1] \in Nat
  BY <1>2, <1>3
<1>5. i - 1 \in S
  BY <1>2, <1>3, <1>4
<1>6. i <= i - 1
  BY <1>1, <1>5
<1>7. QED  BY <1>2, <1>6

\* No more keys than letters: each letter stands for the key in its place.
LEMMA Aligned ==
  ASSUME NEW w, NEW r, Layout(w, r), Len(r) <= Len(w)
  PROVE  Len(r) = Len(w) /\ \A i \in 1..Len(w) : r[i] = KeyOf(w[i])
<1> DEFINE n == Len(w)
           m == Len(r)
           P == [i \in 1..n |-> w[i].rawIdx]
           Q == [i \in 1..n |-> m + 1 - w[n + 1 - i].rawIdx]
<1>1. /\ n \in Nat /\ m \in Nat /\ m <= n
      /\ \A i \in 1..n : w[i].rawIdx \in 1..m /\ r[w[i].rawIdx] = KeyOf(w[i])
      /\ \A i, j \in 1..n : i < j => w[i].rawIdx < w[j].rawIdx
  BY TextPlaces, WordPlaces DEF Layout, Placed, Apart
<1> HIDE DEF n, m
<1>2. \A i \in 1..n : P[i] >= i
  <2>1. P \in [1..n -> Nat \ {0}] /\ \A i, j \in 1..n : i < j => P[i] < P[j]
    BY <1>1
  <2> HIDE DEF P
  <2>2. QED  BY <1>1, <2>1, Increasing
<1>3. \A i \in 1..n : Q[i] >= i
  <2>1. ASSUME NEW i \in 1..n PROVE n + 1 - i \in 1..n /\ Q[i] \in Nat \ {0}
    <3>1. n + 1 - i \in 1..n
      BY <1>1
    <3>2. w[n + 1 - i].rawIdx \in 1..m
      BY <1>1, <3>1
    <3>3. QED  BY <1>1, <3>1, <3>2
  <2>2. ASSUME NEW i \in 1..n, NEW j \in 1..n, i < j PROVE Q[i] < Q[j]
    <3>1. n + 1 - i \in 1..n /\ n + 1 - j \in 1..n /\ n + 1 - j < n + 1 - i
      BY <1>1, <2>2
    <3>2. w[n + 1 - j].rawIdx < w[n + 1 - i].rawIdx
      BY <1>1, <3>1
    <3>3. w[n + 1 - j].rawIdx \in 1..m /\ w[n + 1 - i].rawIdx \in 1..m
      BY <1>1, <3>1
    <3>4. /\ Q[i] = m + 1 - w[n + 1 - i].rawIdx
          /\ Q[j] = m + 1 - w[n + 1 - j].rawIdx
      OBVIOUS
    <3>5. ASSUME NEW u \in 1..m, NEW v \in 1..m, u < v
          PROVE  m + 1 - v < m + 1 - u
      BY ONLY <1>1, <3>5, u \in 1..m, v \in 1..m
    <3>6. QED  BY ONLY <3>2, <3>3, <3>4, <3>5
  <2>3. Q \in [1..n -> Nat \ {0}]
    BY <2>1
  <2> HIDE DEF Q
  <2>4. QED  BY <1>1, <2>2, <2>3, Increasing
<1>4. m = n
  <2>1. n # 0 => m >= n
    <3>1. SUFFICES ASSUME n # 0 PROVE m >= n
      OBVIOUS
    <3>2. n \in 1..n
      BY <1>1, <3>1
    <3>3. P[n] >= n /\ P[n] \in 1..m
      BY <1>1, <1>2, <3>2
    <3>4. QED  BY <1>1, <3>3
  <2>2. QED  BY <1>1, <2>1
<1>5. ASSUME NEW i \in 1..n PROVE w[i].rawIdx = i
  <2>1. n + 1 - i \in 1..n /\ n + 1 - (n + 1 - i) = i
    BY <1>1
  <2>2. Q[n + 1 - i] = m + 1 - w[i].rawIdx /\ Q[n + 1 - i] >= n + 1 - i
    BY <1>3, <2>1
  <2>3. w[i].rawIdx \in 1..m /\ w[i].rawIdx >= i
    BY <1>1, <1>2
  <2>4. QED  BY <1>1, <1>4, <2>2, <2>3
<1>6. QED  BY <1>1, <1>4, <1>5 DEF n, m

\* A word that shows no mark is committed as it is shown.
LEMMA PlainCommits ==
  ASSUME NEW e, Laid(e),
         \A i \in DOMAIN e.states : IsPlain(Compose(e.states[i])) /\ ~e.states[i].synthetic
  PROVE  CommitText(e) = ComposeAll(e.states)
<1> DEFINE composed == ComposeAll(e.states)
           raw == RawText(e)
           n == Len(e.states)
<1>1. /\ n \in Nat /\ DOMAIN e.states = 1..n /\ Len(e.raw) \in Nat
      /\ \A i \in 1..n : DOMAIN e.states[i] = Fields
  BY WordPlaces, TextPlaces DEF Laid, Layout, Placed
<1>2. /\ CommitText(e) \in {raw, composed}
      /\ CommitText(e) # composed => ShouldAutoRestore(raw, composed)
  BY DEF CommitText
<1>3. Len(raw) = Len(e.raw) /\ Len(composed) = n /\ DOMAIN composed = 1..n
  BY <1>1 DEF RawText, ComposeAll
<1>4. \A i \in 1..n : IsPlain(composed[i]) /\ composed[i] = Compose(e.states[i])
  BY <1>1 DEF ComposeAll
<1>5. Len(raw) <= Len(composed) => raw = composed
  <2>1. SUFFICES ASSUME Len(raw) <= Len(composed) PROVE raw = composed
    OBVIOUS
  <2>2. Len(e.raw) = n /\ \A i \in 1..n : e.raw[i] = KeyOf(e.states[i])
    BY <1>3, <2>1, Aligned DEF Laid
  <2>3. ASSUME NEW i \in 1..n PROVE Glyph(e.raw[i]) = Compose(e.states[i])
    <3>1. ~e.states[i].synthetic /\ IsPlain(Compose(e.states[i]))
      BY <1>1
    <3>2. e.raw[i] = e.states[i].base
      BY <2>2, <3>1 DEF KeyOf
    <3>3. e.states[i].mod = "None" /\ e.states[i].tone = "None"
      BY <3>1 DEF IsPlain, Compose
    <3>4. QED  BY <3>2, <3>3 DEF Glyph, Compose
  <2>4. QED  BY <2>2, <2>3 DEF RawText, ComposeAll
<1> HIDE DEF composed, raw
<1>6. ~ShouldAutoRestore(raw, composed)
  BY <1>3, <1>4, <1>5 DEF ShouldAutoRestore
<1>7. QED  BY <1>2, <1>6 DEF composed

\* While only keys were pressed, each stands for itself and the buffer is laid out.
Singles == config.method # "UserDefined" /\ Unbracketed /\ NoQuick
PlaceInv == Untouched => IsText(eng.hist) /\ (Singles => Laid(eng))

LEMMA FreshLaid == IsText(Fresh.hist) /\ Laid(Fresh)
<1>1. IsText(<<>>) /\ IsWord(<<>>) /\ Len(<<>>) = 0
  <2>1. <<>> \in Seq({})
    OBVIOUS
  <2>2. QED  BY <2>1, EmptyWord DEF IsText
<1>2. Layout(<<>>, <<>>)
  BY <1>1 DEF Layout
<1>3. Fresh.hist = <<>> /\ Fresh.states = <<>> /\ Fresh.raw = <<>> /\ Fresh.quickStart = ""
  BY DEF Fresh
<1>4. QED  BY <1>1, <1>2, <1>3 DEF Laid

LEMMA InitPlace == ASSUME Init PROVE PlaceInv
BY FreshLaid DEF Init, PlaceInv

LEMMA NextPlace == ASSUME FlagInv, RawInv, PlaceInv, [Next]_vars PROVE PlaceInv'
<1>1. ASSUME NEW k \in KeysOf(config), Press(k) PROVE PlaceInv'
  <2>1. /\ eng' = PushChar(eng, k) /\ word' = [word EXCEPT !.keys = @ + 1]
        /\ config' = config
    BY <1>1 DEF Press
  <2>2. eng'.hist = Append(eng.hist, k)
    BY <2>1, KeyPressed DEF FlagInv, Pressed
  <2>3. Untouched' => Untouched
    <3>1. word'.back = word.back /\ word'.seeded = word.seeded
      BY <2>1 DEF RawInv, NoWord
    <3>2. QED  BY <3>1 DEF Untouched
  <2>4. SUFFICES ASSUME Untouched' PROVE IsText(eng'.hist) /\ (Singles' => Laid(eng'))
    BY DEF PlaceInv, Laid
  <2>5. IsText(eng.hist) /\ (Singles => Laid(eng))
    BY <2>3, <2>4 DEF PlaceInv
  <2>6. /\ IsText(eng'.hist) /\ Len(eng'.hist) = Len(eng.hist) + 1
        /\ \A i \in 1..Len(eng.hist) : eng'.hist[i] = eng.hist[i]
        /\ eng'.hist[Len(eng.hist) + 1] = k
    BY <2>2, <2>5, TextGrows
  <2>7. ASSUME Singles' PROVE Singles /\ k \notin {"[", "]"}
    <3>1. /\ Len(eng.hist) \in Nat /\ DOMAIN eng.hist = 1..Len(eng.hist)
          /\ DOMAIN eng'.hist = 1..(Len(eng.hist) + 1)
      BY <2>5, <2>6, TextPlaces
    <3>2. \A i \in DOMAIN eng'.hist : eng'.hist[i] \notin {"[", "]"}
      BY <2>7 DEF Singles, Unbracketed
    <3>3. k \notin {"[", "]"} /\ \A i \in DOMAIN eng.hist : eng.hist[i] \notin {"[", "]"}
      BY <2>6, <3>1, <3>2
    <3>4. QED  BY <2>1, <2>7, <3>3 DEF Singles, Unbracketed, NoQuick
  <2>8. Singles' => Laid(eng')
    BY <2>1, <2>5, <2>7, KeyLaid DEF Singles
  <2>9. QED  BY <2>6, <2>8
<1>2. CASE Erase
  <2>1. word' = [word EXCEPT !.keys = @ + 1, !.back = @ + 1]
    BY <1>2 DEF Erase
  <2>2. word.back \in Nat /\ word'.back = word.back + 1
    BY <2>1 DEF RawInv, NoWord
  <2>3. word'.back # 0
    BY <2>2
  <2>4. QED  BY <2>3 DEF PlaceInv, Untouched
<1>3. CASE Commit \/ Reset
  <2>1. eng' = Fresh
    BY <1>3 DEF Commit, Reset
  <2>2. IsText(eng'.hist) /\ Laid(eng')
    BY <2>1, FreshLaid
  <2>3. QED  BY <2>2 DEF PlaceInv, Laid
<1>4. CASE SeedFromText
  <2>1. word'.seeded
    BY <1>4 DEF SeedFromText, NoWord
  <2>2. QED  BY <2>1 DEF PlaceInv, Untouched
<1>5. CASE UNCHANGED vars
  BY <1>5 DEF vars, PlaceInv, Untouched, Singles, Unbracketed, NoQuick, Laid
<1>6. QED  BY <1>1, <1>2, <1>3, <1>4, <1>5 DEF Next

\* The raw keys are right for both that use them: until a mark is escaped they
\* are the keys that were pressed, and a word that shows no mark is committed as
\* it is shown (Commit, ShouldAutoRestore, EraseConsumedRaw).
THEOREM RawAlwaysKept == Spec => []RawKept
<1>1. Init => PlaceInv /\ RawInv
  BY InitPlace, InitRaw
<1>2. FlagInv /\ RawInv /\ PlaceInv /\ [Next]_vars => PlaceInv' /\ RawInv'
  BY NextPlace, NextRaw
<1>3. PlaceInv => PlainStays
  <2>1. SUFFICES ASSUME Untouched => (Singles => Laid(eng)) PROVE PlainStays
    BY DEF PlaceInv
  <2>2. QED  BY <2>1, PlainCommits DEF PlainStays, Singles, NoQuick
<1>4. RawInv => RawIsTyped
  BY DEF RawInv, RawIsTyped
<1>5. PlaceInv /\ RawInv => RawKept
  BY <1>3, <1>4 DEF RawKept
<1>6. QED  BY <1>1, <1>2, <1>5, SpecFlag, PTL DEF Spec
=============================================================================

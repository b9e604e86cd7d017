----------------------------- MODULE Phonology -----------------------------
(***************************************************************************)
(* The pure part of the typing engine: what a Vietnamese syllable is, where *)
(* its tone belongs, and what betrays an English word.                      *)
(*                                                                          *)
(* A word is a sequence of character states: a base letter, the mark on it  *)
(* and its tone.  Letter case is left out: no rule below looks at it.       *)
(* Buffers stay far below the 16 places of kVowelCap.                       *)
(***************************************************************************)
EXTENDS Integers, Sequences, FiniteSets, SequencesExt

Vowels == {"a", "e", "i", "o", "u", "y"}
Marks == {"None", "Circ", "Breve", "Horn", "Stroke"}
Tones == {"None", "Acute", "Grave", "Hook", "Tilde", "Dot"}

IsVowel(s) == s.base \in Vowels
IsD(s) == s.base = "d"
HasModifier(s) == s.mod # "None"
HasTone(s) == s.tone # "None"

\* The glyph a state is rendered to, its tone included.
Compose(s) == <<s.base, s.mod, s.tone>>
ComposeAll(w) == [i \in 1..Len(w) |-> Compose(w[i])]

\* A slot of a vowel nucleus, and the places of the rendered alphabet.
Slot(s) == <<s.base, s.mod>>
Bases(w) == [i \in 1..Len(w) |-> w[i].base]
Where(w, P(_)) == {i \in 1..Len(w) : P(w[i])}
LastOf(S) == IF S = {} THEN 0 ELSE Max(S)
FirstOf(S) == IF S = {} THEN 0 ELSE Min(S)
Suffix(w, i) == SubSeq(w, i, Len(w))

(***************************************************************************)
(* Tables.                                                                  *)
(***************************************************************************)
A == <<"a", "None">>
AC == <<"a", "Circ">>
AB == <<"a", "Breve">>
E == <<"e", "None">>
EC == <<"e", "Circ">>
I == <<"i", "None">>
O == <<"o", "None">>
OC == <<"o", "Circ">>
OH == <<"o", "Horn">>
U == <<"u", "None">>
UH == <<"u", "Horn">>
Y == <<"y", "None">>

\* kVowelTable: the nuclei that may be followed by a final consonant ...
OpenNuclei ==
  {<<s>> : s \in {A, AC, AB, E, EC, I, O, OC, OH, U, UH, Y}} \cup
  {<<O, A>>, <<I, EC>>, <<O, AB>>, <<O, E>>, <<O, O>>, <<U, AC>>, <<U, EC>>,
   <<U, OC>>, <<U, OH>>, <<U, Y>>, <<UH, OH>>, <<Y, EC>>, <<U, Y, EC>>}
\* ... and those that end the syllable.
ClosedNuclei ==
  {<<A, I>>, <<A, O>>, <<A, U>>, <<A, Y>>, <<AC, U>>, <<AC, Y>>, <<E, O>>, <<EC, U>>,
   <<I, A>>, <<I, U>>, <<O, I>>, <<OC, I>>, <<OH, I>>, <<U, A>>, <<U, I>>,
   <<UH, A>>, <<UH, I>>, <<UH, U>>, <<I, EC, U>>, <<O, A, I>>, <<O, A, Y>>,
   <<O, E, O>>, <<U, AC, Y>>, <<U, OC, I>>, <<U, Y, A>>, <<U, Y, U>>,
   <<UH, OH, I>>, <<UH, OH, U>>, <<Y, EC, U>>}
Nuclei == OpenNuclei \cup ClosedNuclei

AllFinals == {<<"c">>, <<"c", "h">>, <<"k">>, <<"m">>, <<"n">>, <<"n", "g">>,
              <<"n", "h">>, <<"p">>, <<"t">>}
NoPalatal == AllFinals \ {<<"c", "h">>, <<"n", "h">>}
Plain == NoPalatal \ {<<"k">>}

\* kVCPairRules: the finals each nucleus goes with.
AllowedFinals(n) ==
  CASE n \in {<<A>>, <<E>>, <<O, A>>} -> AllFinals
    [] n \in {<<AC>>, <<AB>>, <<O>>, <<OC>>, <<U>>, <<UH>>} -> NoPalatal
    [] n = <<EC>> -> AllFinals \ {<<"k">>, <<"n", "g">>}
    [] n = <<I>> -> AllFinals \ {<<"n", "g">>}
    [] n = <<OH>> -> {<<"m">>, <<"n">>, <<"p">>, <<"t">>}
    [] n = <<Y>> -> {<<"t">>}
    [] n = <<O, AB>> -> {<<"c">>, <<"n">>, <<"n", "g">>, <<"t">>}
    [] n = <<O, E>> -> {<<"m">>, <<"n">>, <<"n", "g">>, <<"t">>}
    [] n = <<O, O>> -> {<<"c">>, <<"n", "g">>}
    [] n = <<U, AC>> -> {<<"n">>, <<"n", "g">>, <<"t">>}
    [] n = <<U, EC>> -> {<<"c", "h">>, <<"n">>, <<"n", "h">>}
    [] n = <<U, Y>> -> {<<"c", "h">>, <<"n">>, <<"n", "h">>, <<"t">>}
    [] n = <<U, Y, EC>> -> {<<"n">>, <<"t">>}
    [] OTHER -> Plain

Digraphs == {<<"c", "h">>, <<"g", "h">>, <<"k", "h">>, <<"n", "g">>, <<"n", "h">>,
             <<"p", "h">>, <<"t", "h">>, <<"t", "r">>}
Onsets1(zwjf) ==
  {"b", "c", "d", "g", "h", "k", "l", "m", "n", "p", "q", "r", "s", "t", "v", "x"}
    \cup (IF zwjf THEN {"z", "j", "w", "f"} ELSE {})

\* kDiphthongClassic and kDiphthongModern: 1 the first vowel takes the tone,
\* 2 the second, 3 depends on what follows.
DiphthongRule(x, y, modern) ==
  LET p == <<x, y>> IN
  CASE p \in {<<"a", "i">>, <<"a", "o">>, <<"a", "u">>, <<"a", "y">>, <<"e", "i">>,
              <<"e", "o">>, <<"e", "u">>, <<"i", "a">>, <<"i", "u">>, <<"o", "i">>,
              <<"o", "u">>, <<"u", "a">>, <<"u", "i">>} -> 1
    [] p = <<"u", "e">> -> IF modern THEN 2 ELSE 1
    [] p \in {<<"o", "a">>, <<"o", "e">>, <<"u", "y">>} -> IF modern THEN 2 ELSE 3
    [] p = <<"u", "o">> -> IF modern THEN 2 ELSE 0
    [] p = <<"y", "u">> -> 3
    [] OTHER -> 0

IsTriphthong(x, y, z) ==
  <<x, y, z>> \in {<<"o", "a", "i">>, <<"o", "e", "o">>, <<"u", "y", "a">>,
                   <<"u", "y", "u">>, <<"o", "a", "o">>, <<"o", "a", "y">>}

(***************************************************************************)
(* PhonotacticsValidator: Valid, Prefix (may still become valid), Invalid.  *)
(***************************************************************************)
\* How many states the longest onset at the head of w takes.
ParseInitialConsonant(w, zwjf) ==
  IF w = <<>> \/ IsVowel(w[1]) THEN 0
  ELSE IF IsD(w[1]) /\ HasModifier(w[1]) THEN 1
  ELSE IF Len(w) >= 3 /\ SubSeq(Bases(w), 1, 3) = <<"n", "g", "h">> THEN 3
  ELSE IF Len(w) >= 2 /\ SubSeq(Bases(w), 1, 2) \in Digraphs THEN 2
  ELSE IF w[1].base \in Onsets1(zwjf) THEN 1 ELSE 0

\* How many states the longest final at the head of w takes.
ParseFinalConsonant(w) ==
  CASE w = <<>> -> 0
    [] Len(w) >= 2 /\ SubSeq(Bases(w), 1, 2) \in AllFinals -> 2
    [] OTHER -> IF <<w[1].base>> \in AllFinals THEN 1 ELSE 0

IsVowelPrefix(n) == \E m \in Nuclei : IsStrictPrefix(n, m)

\* TryModifiedVowels: the nuclei one more mark on a plain vowel leads to.
MarkedNuclei(n) ==
  {[n EXCEPT ![i] = <<n[i][1], m>>] :
     i \in {j \in 1..Len(n) : n[j][2] = "None"}, m \in {"Circ", "Breve", "Horn"}} \cap Nuclei

\* A stop final leaves only the acute and the dot tone.
IsStopFinal(w) == w # <<>> /\ w[1].base \in {"p", "t", "c", "k"}
GetTone(w) ==
  LET i == SelectInSeq(w, HasTone) IN IF i = 0 THEN "None" ELSE w[i].tone

\* The verdict on a nucleus n and a final of w; whole: the final is one.
JudgeRime(w, n, final, whole, marked) ==
  IF n \notin Nuclei THEN
    IF \/ final = <<>> /\ (marked # {} \/ (Len(n) <= 2 /\ IsVowelPrefix(n)))
       \/ whole /\ marked \cap OpenNuclei # {}
    THEN "Prefix" ELSE "Invalid"
  ELSE IF final = <<>> THEN "Valid"
  ELSE IF n \in ClosedNuclei THEN
    IF whole /\ marked \cap OpenNuclei # {} THEN "Prefix" ELSE "Invalid"
  ELSE
    IF /\ whole
       /\ Bases(final) = <<"k">> => n = <<AB>>
       /\ Bases(final) \in AllowedFinals(n)
       /\ IsStopFinal(final) => GetTone(w) \in {"None", "Acute", "Dot"}
    THEN "Valid" ELSE "Invalid"
ValidateRime(w, n, final) ==
  IF Len(n) \notin 1..3 THEN "Invalid"
  ELSE JudgeRime(w, n, final, ParseFinalConsonant(final) = Len(final), MarkedNuclei(n))

\* One split of w: an onset of the given length, a nucleus, a final.
ValidateDecomposition(w, onset) ==
  LET rest == Suffix(w, onset + 1)
      stop == SelectInSeq(rest, LAMBDA s : ~IsVowel(s))
      len == IF stop = 0 THEN Len(rest) ELSE stop - 1
  IN IF rest = <<>> THEN "Prefix"
     ELSE ValidateRime(w, [i \in 1..len |-> Slot(rest[i])], Suffix(rest, len + 1))

IsValidConsonantPrefix(w, zwjf) ==
  CASE Len(w) = 1 -> w[1].base \in Onsets1(zwjf)
    [] Len(w) = 2 -> Bases(w) \in Digraphs
    [] Len(w) = 3 -> Bases(w) = <<"n", "g", "h">>
    [] OTHER -> FALSE

\* c and k, g and gh, ng and ngh share the vowels; q wants u.
OnsetMisfits(w, onset) ==
  LET first == w[onset + 1].base
      front == first \in {"e", "i", "y"}
      c == SubSeq(Bases(w), 1, onset)
  IN \/ c \in {<<"k">>, <<"g", "h">>, <<"n", "g", "h">>} /\ ~front
     \/ c = <<"c">> /\ front
     \/ c = <<"q">> /\ first # "u"

Best(S) ==
  IF "Valid" \in S THEN "Valid" ELSE IF "Prefix" \in S THEN "Prefix" ELSE "Invalid"

\* ValidateImpl, with the second reading of an initial gi or qu.
ValidateImpl(w, zwjf) ==
  LET onset == ParseInitialConsonant(w, zwjf)
      two == SubSeq(Bases(w), 1, 2)
      again == /\ Len(w) > 2 /\ IsVowel(w[3])
               /\ two \in {<<"g", "i">>, <<"q", "u">>}
  IN IF w = <<>> THEN "Prefix"
     ELSE IF onset = 0 /\ ~IsVowel(w[1]) THEN "Invalid"
     ELSE IF onset > 0 /\ (onset = Len(w) \/ ~IsVowel(w[onset + 1])) THEN
       IF IsValidConsonantPrefix(w, zwjf) THEN "Prefix" ELSE "Invalid"
     ELSE IF OnsetMisfits(w, onset) THEN "Invalid"
     ELSE IF Len(w) = 2 /\ two = <<"q", "u">> THEN "Prefix"
     ELSE Best({ValidateDecomposition(w, o) :
                  o \in {onset} \cup IF again THEN {2} ELSE {}})

\* A word has one tone, and it sits on a marked vowel when there is one.
CheckToneModInvariant(w) ==
  LET toned == {i \in 1..Len(w) : IsVowel(w[i]) /\ HasTone(w[i])}
      marked == {i \in 1..Len(w) : IsVowel(w[i]) /\ HasModifier(w[i])}
  IN Cardinality(toned) <= 1 /\ (marked # {} => toned \subseteq marked)

ValidateSyllableState(w, zwjf) ==
  IF CheckToneModInvariant(w) THEN ValidateImpl(w, zwjf) ELSE "Invalid"

(***************************************************************************)
(* Phonotactics: where the tone belongs.                                    *)
(***************************************************************************)
\* The i of gi and the u of qu are consonants.
IsClusterConsonant(w, i) ==
  /\ i > 1
  /\ \/ w[i].base = "i" /\ w[i-1].base = "g" /\ i < Len(w) /\ IsVowel(w[i+1])
     \/ w[i].base = "u" /\ w[i-1].base = "q"

NucleusAt(w) == {i \in 1..Len(w) : IsVowel(w[i]) /\ ~IsClusterConsonant(w, i)}

\* ComputeTonePosition, over the slots v of the nucleus.
ComputeTonePosition(v, coda, modern) ==
  LET n == Len(v)
      b(i) == v[i][1]
      rule(i, j) == DiphthongRule(b(i), b(j), modern)
      horned == Where(v, LAMBDA s : s[2] = "Horn")
      marked == Where(v, LAMBDA s : s[2] \in {"Circ", "Breve"})
      shifted == n >= 3 /\ rule(n - 2, n - 1) # 0
      p == IF shifted THEN n - 2 ELSE n - 1
      r == rule(p, p + 1)
      taken == IF r # 3 THEN r
               ELSE IF shifted /\ b(n) = b(n - 1) THEN 1
               ELSE IF p + 1 < n \/ coda THEN 2 ELSE 1
  IN IF horned # {} THEN Max(horned)
     ELSE IF marked # {} THEN Min(marked)
     ELSE IF n = 1 THEN 1
     ELSE IF modern /\ n >= 3 /\ IsTriphthong(b(n - 2), b(n - 1), b(n)) THEN n - 1
     ELSE IF v = <<U, Y, E>> THEN 3
     ELSE CASE taken = 1 -> p [] taken = 2 -> p + 1 [] OTHER -> n

\* The n-th place of S, or 0 when there are fewer.
Nth(S, n) == LastOf({i \in S : Cardinality({j \in S : j <= i}) = n})

\* The place in w, or 0 when the word has no vowel.
FindToneTarget(w, modern) ==
  LET at == NucleusAt(w)
      v == [n \in 1..Cardinality(at) |-> Slot(w[Nth(at, n)])]
  IN IF at = {} THEN 0
     ELSE Nth(at, ComputeTonePosition(v, LastOf(at) < Len(w), modern))

HasConsonantBetween(w, i, j) ==
  \E k \in (Min({i, j}) + 1)..(Max({i, j}) - 1) : ~IsVowel(w[k])

\* Repeated vowels do not drag the tone along.
IsToneRelocBlockedByP4(w, i, modern) ==
  LET last == LastOf(NucleusAt(w))
      second == LastOf(NucleusAt(w) \ {last})
  IN /\ ~HasModifier(w[i])
     /\ i = last /\ second # 0 /\ last = second + 1
     /\ DiphthongRule(w[second].base, w[last].base, modern) = 0

\* A vowel, then one of the stop finals c, k, p, t, ch.
HasStopFinalCoda(w) ==
  LET last == LastOf(Where(w, IsVowel))
  IN last # 0 /\ Bases(Suffix(w, last + 1)) \in {<<"c">>, <<"k">>, <<"p">>, <<"t">>, <<"c", "h">>}

IsToneStopCodaMismatch(w) ==
  HasStopFinalCoda(w) /\ GetTone(w) \in {"Grave", "Hook", "Tilde"}

(***************************************************************************)
(* EnglishProtection: what betrays an English word.                         *)
(***************************************************************************)
HardEnglishStarts ==
  {<<"c", "l">>, <<"c", "r">>, <<"b", "r">>, <<"b", "l">>, <<"d", "r">>, <<"f", "r">>,
   <<"f", "l">>, <<"g", "r">>, <<"g", "l">>, <<"p", "r">>, <<"p", "l">>, <<"s", "m">>,
   <<"s", "n">>, <<"s", "p">>, <<"s", "w">>, <<"s", "t">>, <<"s", "c">>, <<"s", "k">>,
   <<"s", "l">>, <<"w", "h">>, <<"w", "r">>, <<"k", "n">>, <<"p", "n">>, <<"p", "s">>}
HardEnglishEnds == {"x", "r", "z", "f", "s", "j"}
IsHardEnglishRawStart(raw) == Len(raw) >= 2 /\ SubSeq(raw, 1, 2) \in HardEnglishStarts

\* A plain pair of vowels no Vietnamese nucleus holds.
HasInvalidAdjacentVowelPair(w) ==
  \E i \in 1..(Len(w) - 1) :
     LET p == <<w[i].base, w[i+1].base>> IN
     /\ IsVowel(w[i]) /\ IsVowel(w[i+1])
     /\ ~HasModifier(w[i]) /\ ~HasModifier(w[i+1])
     /\ ~IsClusterConsonant(w, i)
     /\ p \notin {<<"i", "e">>, <<"y", "a">>, <<"y", "e">>}
     /\ DiphthongRule(p[1], p[2], FALSE) = 0 /\ DiphthongRule(p[1], p[2], TRUE) = 0

\* Vowels, consonants and vowels again, unless the consonant may close a
\* nucleus that carries a mark.
HasStructuralVCVPattern(w) ==
  /\ Len(w) >= 4
  /\ \E i \in 1..Len(w), j \in 1..Len(w) :
       /\ i + 1 < j /\ IsVowel(w[i]) /\ IsVowel(w[j])
       /\ \A k \in (i+1)..(j-1) : ~IsVowel(w[k])
       /\ ~(/\ j = i + 2 /\ w[i+1].base \in {"c", "k", "m", "n", "p", "t"}
            /\ \E k \in 1..i : HasModifier(w[k]) /\ \A l \in k..i : IsVowel(w[l]))

\* Two consonants behind a vowel that are no final, or three.
IsInvalidVietnameseCoda(w) ==
  LET last == LastOf({i \in 1..Len(w) : IsVowel(w[i]) \/ (IsD(w[i]) /\ i = 1)})
      coda == Bases(Suffix(w, last + 1))
  IN Len(w) >= 3 /\ last # 0 /\ Len(coda) >= 2
     /\ coda \notin {<<"c", "h">>, <<"n", "g">>, <<"n", "h">>}

CheckSoftEnglishBias(w) ==
  /\ Len(w) >= 2 /\ w[1].base = "y" /\ w[2].base \in {"a", "o", "e"}
  /\ ~(/\ w[2].base = "e" /\ HasModifier(w[2])
       /\ Len(w) > 2 => w[3].base \in {"u", "n", "m", "t"})

\* CheckEnglishBias, from an earlier verdict.
CheckEnglishBias(w, bias) ==
  LET n == Len(w)
      start == /\ n >= 2 /\ ~IsVowel(w[1]) /\ ~IsVowel(w[2]) /\ ~IsD(w[1])
               /\ \/ <<w[1].base, w[2].base>> \in HardEnglishStarts
                  \/ w[1].base = "q" /\ w[2].base # "u"
      end == /\ n >= 3 /\ ~IsD(w[n])
             /\ IsVowel(w[n-1]) /\ w[n].base \in HardEnglishEnds
  IN IF bias = "Vietnamese" THEN bias
     ELSE IF start \/ end \/ IsInvalidVietnameseCoda(w) THEN "HardEnglish"
     ELSE IF bias = "Unknown" /\ CheckSoftEnglishBias(w) THEN "SoftEnglish"
     ELSE bias

\* w, z, j or f at the head of a word, when they are not allowed there.
CheckZwjfInitialBias(w, bias, spell, zwjf) ==
  IF /\ ~zwjf /\ spell /\ w # <<>> /\ bias # "Vietnamese"
     /\ w[1].base \in {"w", "z", "j", "f"}
  THEN "HardEnglish" ELSE bias

\* The d a stroke key is meant for, or 0: none behind a vowel.
FindStrokeDTarget(w) ==
  LET d == LastOf(Where(w, IsD))
      before == LastOf({i \in 1..d : ~IsD(w[i])})
  IN IF d = 0 \/ (before # 0 /\ IsVowel(w[before])) THEN 0 ELSE d

ShouldBlockStrokeDAsEnglish(w, d) ==
  LET last == LastOf({i \in 1..Len(w) : IsVowel(w[i]) \/ IsD(w[i])})
  IN \/ last < Len(w) /\ ~(d = 1 /\ Len(w) > 1 /\ IsVowel(w[2]))
     \/ d = 1 /\ HasStructuralVCVPattern(w)

IsUOEdgeCasePrefix(w, u) ==
  \/ u = 2 /\ w[1].base = "h"
  \/ u = 3 /\ Bases(SubSeq(w, 1, 2)) \in {<<"t", "h">>, <<"k", "h">>}

\* The u of a horned pair loses its mark with the o.
UndoHornU(w, o) ==
  IF o > 1 /\ w[o].base = "o" /\ HasModifier(w[o]) /\ w[o-1].base = "u"
  THEN [w EXCEPT ![o-1].mod = "None"] ELSE w

(***************************************************************************)
(* Spell exclusions: words, as sequences of glyphs, the user allows.        *)
(***************************************************************************)
Agree(p, q) == \A i \in 1..Min({Len(p), Len(q)}) : p[i] = q[i]
IsSpellExcluded(w, excl) ==
  \E p \in excl : Len(p) >= 2 /\ IsPrefix(p, ComposeAll(w))
\* The word and the exclusion agree as far as the shorter one goes.
MatchExclusionBuf(w, excl) ==
  w # <<>> /\ \E p \in excl : Len(p) >= 2 /\ Agree(p, ComposeAll(w))
MatchExclusionBufIgnoreTone(w, excl) ==
  LET strip(g) == [i \in 1..Len(g) |-> <<g[i][1], g[i][2]>>]
  IN w # <<>> /\ \E p \in excl : Len(p) >= 2 /\ Agree(strip(p), strip(ComposeAll(w)))
WouldStrokeDMatchExclusion(w, excl) ==
  LET d == FindStrokeDTarget(w)
  IN d # 0 /\ MatchExclusionBuf([w EXCEPT ![d].mod = "Stroke"], excl)
WouldAnyModifierMatchExclusion(w, excl, mod, bases) ==
  \E i \in 1..Len(w) :
     /\ w[i].base \in bases /\ ~HasModifier(w[i])
     /\ MatchExclusionBufIgnoreTone([w EXCEPT ![i].mod = mod], excl)
WouldModifierKeyMatchExclusion(w, excl, k) ==
  CASE k \in {"d", "9"} -> WouldStrokeDMatchExclusion(w, excl)
    [] k = "w" -> \/ WouldAnyModifierMatchExclusion(w, excl, "Horn", {"u", "o"})
                  \/ WouldAnyModifierMatchExclusion(w, excl, "Breve", {"a"})
    [] k \in {"a", "e", "o", "6"} ->
         WouldAnyModifierMatchExclusion(w, excl, "Circ", {"a", "e", "o"})
    [] k = "7" -> WouldAnyModifierMatchExclusion(w, excl, "Horn", {"u", "o"})
    [] k = "8" -> WouldAnyModifierMatchExclusion(w, excl, "Breve", {"a"})
    [] OTHER -> FALSE
=============================================================================

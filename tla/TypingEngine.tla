---------------------------- MODULE TypingEngine ----------------------------
(***************************************************************************)
(* The typing engine: a buffer of character states that keys, Backspace,    *)
(* Commit, Reset and SeedFromText change.                                   *)
(*                                                                          *)
(* A handler is an operator from an engine to an engine.  It raises "took"  *)
(* when it consumed the key; what a handler that declines has changed (the  *)
(* language bias, mostly) stays changed.  Letter case is left out.          *)
(*                                                                          *)
(* Places are counted from 1.  rawIdx is the place in raw of the key that   *)
(* made a state, toneRawIdx that of the key that gave it its tone (0 none). *)
(***************************************************************************)
EXTENDS Phonology

CONSTANTS
  Configs,     \* the configurations the engine may be built with
  KeysOf(_),   \* the keys a user of a configuration presses
  Texts,       \* the texts SeedFromText is given, as sequences of glyphs
  MaxKeys(_),  \* bound: key presses on a word, Backspace among them
  MaxBack      \* bound: how many of them are Backspace

\* The letters a user's key map inserts are those that carry a mark.
ASSUME InsertsAreMarked ==
  \A c \in Configs : \A k \in DOMAIN c.keyMap :
    c.keyMap[k][1] = "InsertChar" => c.keyMap[k][3] \in Marks \ {"None"}
ASSUME TextsAreGlyphs == Texts \subseteq Seq(STRING \X Marks \X Tones)

VARIABLES
  config,      \* config_, fixed when the engine is built
  eng,         \* the buffer and the flags around it
  word,        \* history of the word: keys pressed, Backspaces, taken up or not
  out          \* what the last call of Commit returned, until the next call

vars == <<config, eng, word, out>>

EmptyQC == [at |-> 0, key |-> "", only |-> FALSE, escaped |-> FALSE]
Fresh ==
  [states |-> <<>>, raw |-> <<>>, hist |-> <<>>, off |-> FALSE, esc |-> "None",
   qc |-> EmptyQC, quickStart |-> "", bias |-> "Unknown", toneKey |-> "",
   insist |-> 0, took |-> FALSE]

Letters == {"a", "b", "c", "d", "e", "f", "g", "h", "i", "j", "k", "l", "m", "n", "o", "p",
            "q", "r", "s", "t", "u", "v", "w", "x", "y", "z"}
Digits == {"0", "1", "2", "3", "4", "5", "6", "7", "8", "9"}
IsTelexMode == config.method \notin {"VNI", "UserDefined"}
IsVniMode == config.method \in {"VNI", "Combined"}
\* Free typing lifts every gate the spell check has.
EffectiveSpellCheck == config.spell /\ ~config.bypass

Took(e) == [e EXCEPT !.took = TRUE]
Escape(e, kind) == [e EXCEPT !.esc = kind]
Mark(e, i, mod) == [e EXCEPT !.states[i].mod = mod]
Biased(e, b) == [e EXCEPT !.bias = b]

NewState(base, mod, raw) ==
  [base |-> base, mod |-> mod, tone |-> "None", synthetic |-> FALSE,
   rawIdx |-> Max({1, Len(raw)}), toneRawIdx |-> 0]
Insert(e, base, mod) == [e EXCEPT !.states = Append(@, NewState(base, mod, e.raw))]
ProcessChar(e, k) == Insert(e, k, "None")
Synthetic(e, i) == [e EXCEPT !.states[i].synthetic = TRUE]

(***************************************************************************)
(* Keys and what they ask for.                                              *)
(***************************************************************************)
ClassifyKey(k, telex, vni) ==
  CASE telex /\ k = "z" -> <<"ClearTone">>
    [] telex /\ k = "s" -> <<"Tone", "Acute">>
    [] telex /\ k = "f" -> <<"Tone", "Grave">>
    [] telex /\ k = "r" -> <<"Tone", "Hook">>
    [] telex /\ k = "x" -> <<"Tone", "Tilde">>
    [] telex /\ k = "j" -> <<"Tone", "Dot">>
    [] telex /\ k \in {"a", "e", "o"} -> <<"Circumflex", k>>
    [] telex /\ k = "w" -> <<"HornW">>
    [] telex /\ k = "[" -> <<"HornInsert", "o">>
    [] telex /\ k = "]" -> <<"HornInsert", "u">>
    [] telex /\ k = "d" -> <<"StrokeD">>
    [] vni /\ k = "0" -> <<"ClearTone">>
    [] vni /\ k = "1" -> <<"Tone", "Acute">>
    [] vni /\ k = "2" -> <<"Tone", "Grave">>
    [] vni /\ k = "3" -> <<"Tone", "Hook">>
    [] vni /\ k = "4" -> <<"Tone", "Tilde">>
    [] vni /\ k = "5" -> <<"Tone", "Dot">>
    [] vni /\ k = "6" -> <<"VniVowel", "Circ">>
    [] vni /\ k = "7" -> <<"VniVowel", "Horn">>
    [] vni /\ k = "8" -> <<"VniVowel", "Breve">>
    [] vni /\ k = "9" -> <<"VniStroke">>
    [] OTHER -> <<"None">>

IsToneAction(act) == act[1] \in {"ClearTone", "Tone"}
IsTelexModifierAction(act) == act[1] \in {"Circumflex", "HornW", "HornInsert", "StrokeD"}
IsVniModifierAction(act) == act[1] \in {"VniVowel", "VniStroke"}
IsUserDefinedOnlyAction(act) ==
  act[1] \in {"HornOrInsertU", "HornOrInsertUNoStart", "UndoAllMarks", "InsertChar"}

\* The user's own key map counts in the UserDefined method only; a digit
\* behind a digit is a number.
ActionOf(e, k) ==
  IF /\ IsVniMode /\ k \in Digits
     /\ e.states # <<>> /\ Last(e.states).base \in Digits THEN <<"None">>
  ELSE IF config.method = "UserDefined" THEN
    IF k \in DOMAIN config.keyMap THEN config.keyMap[k] ELSE <<"None">>
  ELSE ClassifyKey(k, IsTelexMode, IsVniMode)

(***************************************************************************)
(* Spell check and tone placement over the buffer w.                        *)
(***************************************************************************)
Target(w) == FindToneTarget(w, config.modern)
Validate(w) == ValidateSyllableState(w, config.zwjf)

SpellCheckDisabled(w) ==
  /\ config.spell /\ w # <<>>
  /\ ~IsSpellExcluded(w, config.exclusions)
  /\ Validate(w) = "Invalid"
UpdateSpellState(e) == [e EXCEPT !.off = SpellCheckDisabled(e.states)]

MoveTone(w, toned, to) ==
  IF \/ toned = 0 \/ to \in {0, toned}
     \/ HasConsonantBetween(w, toned, to)
     \/ IsToneRelocBlockedByP4(w, to, config.modern)
  THEN w
  ELSE [w EXCEPT ![to].tone = w[toned].tone, ![to].toneRawIdx = w[toned].toneRawIdx,
                 ![toned].tone = "None", ![toned].toneRawIdx = 0]
RelocateToneToTarget(w) ==
  MoveTone(w, FirstOf(Where(w, LAMBDA s : IsVowel(s) /\ HasTone(s))), Target(w))

\* The place of the tone key stays behind.
RelocateToneToHornVowel(w) ==
  LET horn == LastOf(Where(w, LAMBDA s : IsVowel(s) /\ s.mod = "Horn"))
      toned == LastOf(Where(w, LAMBDA s : IsVowel(s) /\ HasTone(s)))
  IN IF \/ 0 \in {horn, toned} \/ horn = toned
        \/ w[toned].mod \notin {"None", "Horn"}
        \/ HasConsonantBetween(w, toned, horn)
     THEN w
     ELSE [w EXCEPT ![horn].tone = w[toned].tone, ![toned].tone = "None"]

Moved(e) == Took([e EXCEPT !.states = RelocateToneToTarget(@)])
HornMoved(e) == Took([e EXCEPT !.states = RelocateToneToHornVowel(@)])
Unhorned(e, i) == [e EXCEPT !.states = UndoHornU(@, i)]
\* A mark comes off and its key becomes a letter.
Escaped(e, kind, k) == Took(Escape(ProcessChar(e, k), kind))

\* A u and an o next to each other, one of them horned: the other follows
\* when a letter comes behind them.
AutoUOAt(w, i) ==
  LET pair == w[i].base = "u" /\ w[i+1].base = "o" /\ ~(i > 1 /\ w[i-1].base = "q")
  IN CASE pair /\ w[i].mod = "None" /\ w[i+1].mod = "Horn" -> [w EXCEPT ![i].mod = "Horn"]
       [] pair /\ w[i].mod = "Horn" /\ w[i+1].mod = "None" ->
            RelocateToneToTarget([w EXCEPT ![i+1].mod = "Horn"])
       [] OTHER -> w
ApplyAutoUO(w) ==
  LET n == Len(w)
  IN IF n < 3 THEN w ELSE AutoUOAt(IF n = 3 THEN w ELSE AutoUOAt(w, n - 3), n - 2)

\* Would w still be a syllable with mod at i?  "clear" is a vowel that loses
\* its circumflex with it, "relocate" says whether the caller moves the tone.
Acceptable(w) == Validate(w) # "Invalid" \/ IsToneStopCodaMismatch(w)
WouldBeValidSyllable(w, i, mod, clear, relocate) ==
  LET marked == [w EXCEPT ![i].mod = mod]
      cleared == IF clear # 0 /\ marked[clear].mod = "Circ"
                 THEN [marked EXCEPT ![clear].mod = "None"] ELSE marked
  IN config.spell =>
       Acceptable(IF relocate THEN RelocateToneToTarget(cleared) ELSE cleared)

WouldMatchExclusion(w, k) == WouldModifierKeyMatchExclusion(w, config.exclusions, k)

(***************************************************************************)
(* English protection.                                                      *)
(***************************************************************************)
ZwjfBias(e) ==
  IF IsTelexMode
  THEN Biased(e, CheckZwjfInitialBias(e.states, e.bias, config.spell, config.zwjf)) ELSE e
RecalcEnglishBias(e) ==
  ZwjfBias([e EXCEPT !.bias = IF Len(e.states) >= 2 THEN CheckEnglishBias(e.states, "Unknown")
                              ELSE "Unknown",
                     !.toneKey = "", !.insist = 0])

StartsWith(raw, P) == \E p \in P : IsPrefix(p, raw)
IsBlockedEnglishTone(raw) == StartsWith(raw, {<<"p", "a", "s">>, <<"g", "u", "e", "s">>})
IsBlockedEnglishModifier(raw) == StartsWith(raw, {<<"p", "o", "w">>, <<"u", "p", "w">>})

UpdateToneInsistence(e, k) ==
  [e EXCEPT !.toneKey = k, !.insist = IF k = e.toneKey THEN @ + 1 ELSE 1]

(***************************************************************************)
(* Tones.                                                                   *)
(***************************************************************************)
\* Mutant: the key behind the tone key is erased.
EraseConsumedRawNext(e, i) ==
  LET down(j) == IF j > i THEN j - 1 ELSE j
  IN IF i > Len(e.raw) THEN e
     ELSE [e EXCEPT !.raw = RemoveAt(@, Min({i + 1, Len(@)})),
                    !.states = [j \in DOMAIN @ |->
                       [e.states[j] EXCEPT !.rawIdx = down(@), !.toneRawIdx = down(@)]]]

EraseConsumedRaw(e, i) ==
  LET down(j) == IF j > i THEN j - 1 ELSE j
  IN IF i > Len(e.raw) THEN e
     ELSE [e EXCEPT !.raw = RemoveAt(@, i),
                    !.states = [j \in DOMAIN @ |->
                       [e.states[j] EXCEPT !.rawIdx = down(@), !.toneRawIdx = down(@)]]]

\* Mutant: a tone that is taken off does not type its key.
ProcessToneSilent(e, to, tone, k) ==
  IF to = 0 THEN e
  ELSE IF e.states[to].tone = tone THEN
    Took(Escape([e EXCEPT !.states[to].tone = "None"], "Tone"))
  ELSE Took([e EXCEPT !.states[to].tone = tone,
                      !.states[to].toneRawIdx = Len(e.raw), !.esc = "None"])

\* The same tone again takes it off, forgets its key and adds the letter.
ProcessTone(e, to, tone, k) ==
  LET at == e.states[to].toneRawIdx
      bare == [e EXCEPT !.states[to].tone = "None"]
      erased == IF at = 0 THEN bare ELSE EraseConsumedRaw(bare, at)
  IN IF to = 0 THEN e
     ELSE IF e.states[to].tone = tone THEN
       Took(Escape(ProcessChar([erased EXCEPT !.states[to].toneRawIdx = 0], k), "Tone"))
     ELSE Took([e EXCEPT !.states[to].tone = tone,
                         !.states[to].toneRawIdx = Len(e.raw), !.esc = "None"])

ProcessClearTone(e, to) ==
  IF to = 0 \/ e.states[to].tone = "None" THEN e
  ELSE Took([e EXCEPT !.states[to].tone = "None", !.states[to].toneRawIdx = 0])

ToneMatchesExclusion(w, to, tone) ==
  to # 0 /\ MatchExclusionBuf([w EXCEPT ![to].tone = tone], config.exclusions)

\* The key becomes a letter.
AsLiteral(e, k) == Took(UpdateSpellState(ProcessChar(e, k)))

\* The pair is completed and the flags brought up to date behind a handler
\* that took the key.
Completed(e) == [e EXCEPT !.states = ApplyAutoUO(@)]
ToneSettled(e) ==
  IF e.took
  THEN UpdateSpellState(Completed(
         IF e.esc = "None" THEN Biased(e, "Vietnamese") ELSE RecalcEnglishBias(e)))
  ELSE e

\* The gates a tone key passes: each one that stops it leaves a bias behind
\* and the key becomes a letter.
HandleToneFsm(e, to, tone, k) ==
  LET w == e.states
      letter == k \notin Digits
      matches == ToneMatchesExclusion(w, to, tone)
      escapes == to # 0 /\ w[to].tone = tone
      recovers == /\ to # 0 /\ HasTone(w[to])
                  /\ Validate([w EXCEPT ![to].tone = tone]) = "Valid"
      soft == UpdateToneInsistence(e, k)
      insists == e.bias = "SoftEnglish" /\ soft.insist >= 2
      e1 == IF ~config.bypass /\ e.bias = "SoftEnglish" THEN soft ELSE e
      foreign == \/ (letter => k \in HardEnglishEnds) /\ HasStructuralVCVPattern(w)
                 \/ HasInvalidAdjacentVowelPair(w)
  IN IF \/ EffectiveSpellCheck /\ e.off /\ ~escapes /\ ~matches /\ ~recovers
        \/ letter /\ EffectiveSpellCheck /\ IsBlockedEnglishTone(e.raw) /\ ~matches
        \/ ~config.bypass /\ e.bias = "HardEnglish" THEN AsLiteral(e, k)
     ELSE IF ~config.bypass /\ e.bias = "SoftEnglish" /\ ~insists THEN AsLiteral(soft, k)
     ELSE IF ~config.bypass /\ foreign THEN AsLiteral(Biased(e1, "HardEnglish"), k)
     ELSE IF /\ EffectiveSpellCheck /\ ~e.off /\ HasStopFinalCoda(w)
             /\ tone \in {"Grave", "Hook", "Tilde"} THEN AsLiteral(e1, k)
     ELSE ToneSettled(ProcessTone(e1, to, tone, k))

HandleClearTone(e, to, k) ==
  LET settled(x) == IF x.took THEN UpdateSpellState(x) ELSE x
  IN IF EffectiveSpellCheck /\ e.off THEN AsLiteral(e, k) ELSE settled(ProcessClearTone(e, to))

ToneRule(e, act, k) ==
  IF e.took \/ e.esc # "None" \/ e.states = <<>> \/ ~IsToneAction(act) THEN e
  ELSE IF act[1] = "ClearTone" THEN HandleClearTone(e, Target(e.states), k)
  ELSE HandleToneFsm(e, Target(e.states), act[2], k)

(***************************************************************************)
(* Modifiers.                                                               *)
(***************************************************************************)
\* Insert a marked letter; the same key again takes it out and types itself.
HandleInsertChar(e, base, mod, k) ==
  LET n == Len(e.states)
      r == Len(e.raw)
      popped == EraseConsumedRaw([e EXCEPT !.states = Front(@)], e.states[n].rawIdx)
  IN IF n > 0 /\ r >= 2 /\ e.raw[r-1] = k /\ Slot(e.states[n]) = <<base, mod>>
     THEN Escaped(popped, mod, k)
     ELSE Took(Insert(e, base, mod))

HandleHornInsert(e, v, k) ==
  IF config.method = "SimpleTelex" THEN e ELSE HandleInsertChar(e, v, "Horn", k)

HandleUndoAllMarks(e) ==
  IF \E i \in 1..Len(e.states) : HasModifier(e.states[i]) \/ HasTone(e.states[i])
  THEN Took(Escape([e EXCEPT !.states = [i \in DOMAIN @ |->
         [e.states[i] EXCEPT !.mod = "None", !.tone = "None", !.toneRawIdx = 0]]], "Tone"))
  ELSE e

Triphthong(w, i) ==
  /\ i >= 1 /\ \A j \in i..(i+2) : IsVowel(w[j])
  /\ IsTriphthong(w[i].base, w[i+1].base, w[i+2].base)

\* Mutant: the mark is set without asking what the syllable becomes.
CircumflexOnLastAlways(e, v, k) ==
  LET n == Len(e.states)
      bare == ProcessChar(Mark(e, n, "None"), k)
  IN IF e.states[n].mod = "Circ" THEN Took(IF config.spell THEN Escape(bare, "Circ") ELSE bare)
     ELSE Took(Mark(e, n, "Circ"))

\* The mark is set unless the word is no syllable with it.
MarkUnlessRejected(e, i, mod, relocate, key) ==
  IF /\ ~WouldBeValidSyllable(e.states, i, mod, 0, relocate)
     /\ ~WouldMatchExclusion(e.states, key) THEN e
  ELSE IF relocate THEN Moved(Mark(e, i, mod))
  ELSE Took(Mark(e, i, mod))

\* The vowel v typed behind itself.
CircumflexOnLast(e, v, k) ==
  LET n == Len(e.states)
      bare == Mark(e, n, "None")
      checked(relocate) ==
        MarkUnlessRejected(e, n, "Circ", relocate, IF relocate THEN k ELSE v)
  IN IF Triphthong(e.states, n - 2) THEN Took(e)
     ELSE IF e.states[n].mod = "Circ"
     THEN IF config.spell THEN Escaped(bare, "Circ", k) ELSE Took(ProcessChar(bare, k))
     ELSE checked(Validate(e.states) = "Prefix")

\* The vowel v typed further on: the last v of the word takes the mark if
\* what lies between allows it.
CircumflexAcross(e, v, k) ==
  LET w == e.states
      n == Len(w)
      i == LastOf(Where(w, LAMBDA s : s.base = v))
      mod == w[i].mod
      vowelsBetween == \E j \in (i+1)..n : IsVowel(w[j])
      consonants == {j \in (i+1)..n : ~IsVowel(w[j])}
      marked == Mark(e, i, "Circ")
      english ==
        /\ ~config.spell
        /\ IF vowelsBetween THEN consonants # {}
           ELSE /\ Cardinality(consonants) = 1
                /\ w[Max(consonants)].base \notin {"c", "k", "m", "n", "p", "t"}
      rejected ==
        /\ vowelsBetween \/ consonants # {}
        /\ ~WouldBeValidSyllable(w, i, "Circ", 0, ~vowelsBetween)
        /\ vowelsBetween => ~WouldMatchExclusion(w, v)
  IN IF \/ i = 0
        \/ n >= 2 /\ IsVowel(w[n-1]) /\ IsVowel(w[n]) /\ IsTriphthong(w[n-1].base, w[n].base, v)
        \/ vowelsBetween /\ mod \notin {"Horn", "None", "Circ"} THEN e
     ELSE IF mod = "Circ" THEN Escaped(Mark(e, i, "None"), "Circ", k)
     ELSE IF mod = "Breve" /\ v = "a" THEN Moved(marked)
     ELSE IF mod = "Horn" /\ v = "o" THEN Moved(Unhorned(marked, i))
     ELSE IF mod # "None" THEN e
     ELSE IF english THEN Biased(e, "HardEnglish")
     ELSE IF rejected THEN e
     ELSE Moved(marked)

HandleAdjacentCircumflex(e, v, k) ==
  IF e.states = <<>> THEN e
  ELSE IF Last(e.states).base = v THEN CircumflexOnLast(e, v, k)
  ELSE CircumflexAcross(e, v, k)

IsQUClusterU(w, i) == i > 1 /\ Slot(w[i]) = U /\ w[i-1].base = "q"
IsInQUCluster(w) == \E i \in 1..Len(w) : IsQUClusterU(w, i)
FreeVowels(w) == {i \in 1..Len(w) : IsVowel(w[i]) /\ ~IsQUClusterU(w, i)}
VowelPairs(w, x, y) ==
  {i \in FreeVowels(w) : i < Len(w) /\ w[i].base = x /\ w[i+1].base = y}
HasNonVowelAfter(w, i) == \E j \in (i+1)..Len(w) : ~IsVowel(w[j])

\* w, by the priorities P1 to P8 of the code.
HandleHornW(e, k) ==
  LET w == e.states
      n == Len(w)
      at(base, mods) == {i \in FreeVowels(w) : w[i].base = base /\ w[i].mod \in mods}
      us == at("u", {"None"})
      u == LastOf(us)
      o == LastOf(at("o", {"None", "Circ"}))
      a == LastOf(at("a", {"None", "Circ"}))
      horned == LastOf(at("u", {"Horn"}) \cup at("o", {"Horn"}))
      breved == LastOf(at("a", {"Breve"}))
      pairs(x, y) == VowelPairs(w, x, y)
      p == LastOf(pairs("u", "o"))
      uMod == w[p].mod
      oMod == w[p+1].mod
      edge == IsUOEdgeCasePrefix(w, p)
      plainA(x) == IF a # 0 /\ w[a].mod = "Circ" THEN Mark(x, a, "None") ELSE x
      pu == IF pairs("u", "u") # {} THEN FirstOf(us) ELSE u
      stuck(i, mod, clear) ==
        HasNonVowelAfter(w, i) /\ ~WouldBeValidSyllable(w, i, mod, clear, FALSE)
      single == IF u # 0 THEN <<pu, "Horn", a>>
                ELSE IF o # 0 /\ pairs("o", "a") = {} THEN <<o, "Horn", 0>>
                ELSE IF a # 0 THEN <<a, "Breve", 0>>
                ELSE <<>>
      synthetic == Took(Synthetic(Insert(e, "u", "Horn"), n + 1))
  IN IF /\ config.method = "SimpleTelex"
        /\ \A i \in 1..n : w[i].base \notin {"a", "o", "u"} THEN e
     ELSE IF pairs("u", "a") # {} /\ u # 0 THEN HornMoved(plainA(Mark(e, u, "Horn")))
     ELSE IF p # 0 /\ uMod # "Horn" /\ oMod \in {"None", "Circ"} THEN
       HornMoved(Mark(IF edge THEN e ELSE Mark(e, p, "Horn"), p + 1, "Horn"))
     ELSE IF p # 0 /\ uMod = "Horn" /\ oMod = "None" THEN HornMoved(Mark(e, p + 1, "Horn"))
     ELSE IF p # 0 /\ uMod = "None" /\ oMod = "Horn" /\ edge THEN HornMoved(Mark(e, p, "Horn"))
     ELSE IF p # 0 /\ uMod \in {"None", "Horn"} /\ oMod = "Horn" THEN
       Escaped(Mark(Mark(e, p, "None"), p + 1, "None"), "Horn", k)
     ELSE IF pairs("o", "a") # {} /\ a # 0 THEN Took(Mark(e, a, "Breve"))
     ELSE IF horned # 0 /\ horned = n /\ w[n].synthetic THEN
       Escaped([e EXCEPT !.states = Front(@)], "Horn", k)
     ELSE IF horned # 0 THEN
       Escaped(Mark(Unhorned(e, horned), horned, "None"), "Horn", k)
     ELSE IF breved # 0 THEN Escaped(Mark(e, breved, "None"), "Breve", k)
     ELSE IF single # <<>> THEN
       IF stuck(single[1], single[2], single[3]) THEN e
       ELSE IF single[2] = "Breve" THEN Took(Mark(e, a, "Breve"))
       ELSE HornMoved(Mark(IF u # 0 THEN plainA(e) ELSE e, single[1], "Horn"))
     ELSE
       IF \/ config.method = "SimpleTelex" \/ IsInQUCluster(w)
          \/ \E i \in 1..n : IsVowel(w[i]) /\ ~(i > 1 /\ w[i].base = "i" /\ w[i-1].base = "g")
       THEN e ELSE synthetic

\* A horned vowel, or, where the user's key asks for it, a new horned u that
\* the next press takes out again.
HandleHornOrInsertU(e, horned, k) ==
  LET n == Len(e.states)
      new == HandleHornInsert(e, "u", k)
  IN IF horned.took THEN horned
     ELSE IF Len(new.states) > n THEN Synthetic(new, n + 1)
     ELSE new

\* A stroked d goes back where it is the last letter or the first.
IsStrokeDEscapeAllowed(w, d) == d \in {1, Len(w)}

\* The last d becomes a stroked one.
HandleStrokeD(e, k) ==
  LET w == e.states
      d == FindStrokeDTarget(w)
      keep == d = 1 /\ WouldMatchExclusion(w, k)
  IN IF e.esc = "Stroke" \/ d = 0 THEN e
     ELSE IF w[d].mod = "None" THEN Took(Mark(e, d, "Stroke"))
     ELSE IF IsStrokeDEscapeAllowed(w, d) /\ ~keep THEN
       Escaped(Mark(e, d, "None"), "Stroke", k)
     ELSE e

Eligible(mod) ==
  CASE mod = "Circ" -> {"a", "e", "o"} [] mod = "Horn" -> {"o", "u"} [] mod = "Breve" -> {"a"}
CanSwitch(s, mod) ==
  \/ s.base = "a" /\ {s.mod, mod} = {"Circ", "Breve"}
  \/ s.base = "o" /\ {s.mod, mod} = {"Circ", "Horn"}

\* Mark the last plain vowel that can take the mark, else switch a mark, else
\* take the mark off.
ProcessVniVowelModifier(e, mod, k) ==
  LET w == e.states
      last(P(_)) == LastOf({i \in NucleusAt(w) : P(w[i])})
      plain == last(LAMBDA s : s.base \in Eligible(mod) /\ s.mod = "None")
      switch == last(LAMBDA s : CanSwitch(s, mod))
      same == last(LAMBDA s : s.mod = mod)
  IN IF w = <<>> THEN e
     ELSE IF plain # 0 THEN MarkUnlessRejected(e, plain, mod, Validate(w) = "Prefix", k)
     ELSE IF switch # 0 THEN Moved(Mark(Unhorned(e, switch), switch, mod))
     ELSE IF same # 0 THEN Escaped(Mark(Unhorned(e, same), same, "None"), "Modifier", k)
     ELSE e

HandleVniHorn(e, k) ==
  LET w == e.states
      us == {i \in NucleusAt(w) : w[i].base = "u"}
      u == LastOf(us)
      first == FirstOf(us)
      o == LastOf({i \in NucleusAt(w) : w[i].base = "o"})
      pair == u # 0 /\ o = u + 1
      uHorn == w[u].mod = "Horn"
      oHorn == w[o].mod = "Horn"
      edge == IsUOEdgeCasePrefix(w, u)
  IN IF pair /\ ~uHorn /\ ~oHorn THEN
       Moved(Mark(IF edge THEN e ELSE Mark(e, u, "Horn"), o, "Horn"))
     ELSE IF pair /\ uHorn /\ ~oHorn THEN Moved(Mark(e, o, "Horn"))
     ELSE IF pair /\ ~uHorn /\ edge THEN Moved(Mark(e, u, "Horn"))
     ELSE IF pair /\ uHorn THEN Escaped(Mark(Mark(e, u, "None"), o, "None"), "Horn", k)
     ELSE IF first # u /\ w[first].mod = "None" /\ w[u].mod = "None" THEN
       Moved(Mark(e, first, "Horn"))
     ELSE IF first # u /\ w[first].mod = "Horn" THEN Escaped(Mark(e, first, "None"), "Horn", k)
     ELSE ProcessVniVowelModifier(e, "Horn", k)

Horned(e, horned, act, k) ==
  IF act[1] = "HornW" THEN horned ELSE HandleHornOrInsertU(e, horned, k)

ProcessModifier(e, act, k) ==
  CASE act[1] = "Circumflex" -> HandleAdjacentCircumflex(e, act[2], k)
    [] act[1] = "HornInsert" -> HandleHornInsert(e, act[2], k)
    [] act[1] \in {"StrokeD", "VniStroke"} -> HandleStrokeD(e, k)
    [] act[1] = "VniVowel" /\ act[2] = "Horn" -> HandleVniHorn(e, k)
    [] act[1] = "VniVowel" /\ act[2] # "Horn" -> ProcessVniVowelModifier(e, act[2], k)
    [] act[1] = "HornOrInsertUNoStart" /\ e.states = <<>> -> e
    [] \/ act[1] \in {"HornW", "HornOrInsertU"}
       \/ act[1] = "HornOrInsertUNoStart" /\ e.states # <<>> ->
         Horned(e, HandleHornW(e, k), act, k)
    [] act[1] = "UndoAllMarks" -> HandleUndoAllMarks(e)
    [] act[1] = "InsertChar" -> HandleInsertChar(e, act[2], act[3], k)

\* In a word that is no syllable a modifier may still take itself back,
\* build a word the user allows, or mend a tone that clashes with a stop.
WouldModifierRecoverOrEscape(e, act, k) ==
  LET w == e.states
      n == Len(w)
      r == Len(e.raw)
      marked(mods) == \E i \in 1..n : IsVowel(w[i]) /\ w[i].mod \in mods
      stroke == (\E i \in 1..n : w[i].base = "d" /\ w[i].mod = "Stroke") \/ FindStrokeDTarget(w) # 0
      telex == IF k = "w" THEN marked({"Horn", "Breve"})
               ELSE IF k = "d" THEN stroke
               ELSE IF k \in Vowels THEN n > 0 /\ Slot(w[n]) = <<k, "Circ">>
               ELSE IF act[1] = "HornInsert" THEN
                 n > 0 /\ r >= 2 /\ e.raw[r-1] = k /\ Slot(w[n]) = <<act[2], "Horn">>
               ELSE FALSE
      vni == IF act[1] = "VniStroke" THEN stroke ELSE marked({act[2]})
  IN \/ IF IsTelexModifierAction(act) THEN telex ELSE vni
     \/ WouldMatchExclusion(w, k)
     \/ IsToneStopCodaMismatch(w)

\* The gates a modifier key passes.
HandleModifierAction(e, act, k) ==
  LET w == e.states
      d == FindStrokeDTarget(w)
      drop == /\ act[1] \in {"StrokeD", "VniStroke"} /\ Len(w) >= 3
              /\ d # 0 /\ w[d].mod = "None" /\ ShouldBlockStrokeDAsEnglish(w, d)
      e1 == IF drop THEN Biased(e, "HardEnglish") ELSE e
      blocked == \/ e.esc # "None"
                 \/ ~config.bypass /\ e1.bias = "HardEnglish"
                 \/ /\ EffectiveSpellCheck /\ ~IsVniModifierAction(act)
                    /\ IsBlockedEnglishModifier(e.raw)
      excused == e.esc = "None" /\ WouldMatchExclusion(w, k)
      stuck == /\ ~IsUserDefinedOnlyAction(act) /\ EffectiveSpellCheck /\ e.off
               /\ ~WouldModifierRecoverOrEscape(e, act, k)
      settled(x) == IF x.took THEN UpdateSpellState(Biased(Completed(x), "Vietnamese")) ELSE x
  IN IF (blocked /\ ~excused) \/ stuck THEN e1 ELSE settled(ProcessModifier(e1, act, k))

ModifierRule(e, act, k) ==
  IF \/ e.took
     \/ ~(IsTelexModifierAction(act) \/ IsVniModifierAction(act) \/ IsUserDefinedOnlyAction(act))
  THEN e ELSE HandleModifierAction(e, act, k)

(***************************************************************************)
(* Ordinary letters and quick consonants.                                   *)
(***************************************************************************)
\* A u made of a leading w turns back into it when the raw keys start an
\* English word.
UndoSyntheticHornIfEnglish(e) ==
  IF /\ config.method = "Telex" /\ e.bias # "HardEnglish"
     /\ e.states # <<>> /\ e.states[1].synthetic
     /\ Compose(e.states[1]) = <<"u", "Horn", "None">>
     /\ IsHardEnglishRawStart(e.raw)
  THEN [e EXCEPT !.bias = "HardEnglish",
          !.states = [@ EXCEPT ![1].base = "w", ![1].mod = "None", ![1].synthetic = FALSE]]
  ELSE e

\* Mutant: the tone stays where it is when a letter follows.
FinalizeRegularCharStays(e) ==
  LET grown(x) == [x EXCEPT !.bias = CheckEnglishBias(x.states, @)]
  IN ZwjfBias(UpdateSpellState(grown(Completed(e))))

\* Behind a letter: the tone moves on, the pair is completed, the flags are
\* brought up to date.
FinalizeRegularChar(e) ==
  LET grown(x) == [x EXCEPT !.bias = CheckEnglishBias(x.states, @)]
      settled == [e EXCEPT !.states = RelocateToneToTarget(@)]
  IN ZwjfBias(UndoSyntheticHornIfEnglish(UpdateSpellState(grown(Completed(settled)))))

QuickStart(k) ==
  CASE k = "f" -> <<"p", "h">> [] k = "j" -> <<"g", "i">> [] k = "w" -> <<"q", "u">>
QuickPair(k) ==
  CASE k \in {"c", "k", "p", "t"} -> "h" [] k = "g" -> "i" [] k = "n" -> "g" [] k = "q" -> "u"
    [] OTHER -> ""
QuickEnd(k) ==
  CASE k = "g" -> <<"n", "g">> [] k = "h" -> <<"n", "h">> [] k = "k" -> <<"c", "h">>

\* A quick start is undone by a consonant behind it.
UndoQuickStart(e, k) ==
  LET saved == e.quickStart
      first == NewState(saved, "None", <<saved>>)
  IN IF saved # "" /\ k \notin Vowels
     THEN [e EXCEPT !.quickStart = "", !.states = <<first>>, !.raw = <<saved, k>>]
     ELSE [e EXCEPT !.quickStart = ""]

\* cc, gg, nn, ... and uu: the second key becomes what the pair stands for.
QuickConsonant(e, k) ==
  LET skip == e.qc.escaped \/ e.qc.key = k
      e1 == [e EXCEPT !.qc.escaped = FALSE, !.qc.key = IF @ = k THEN @ ELSE ""]
      w == e.states
      n == Len(w)
      converted(x) == [x EXCEPT !.qc.at = n + 1, !.qc.key = k, !.qc.only = (n = 1)]
  IN IF ~config.quick \/ skip \/ w = <<>> THEN e1
     ELSE IF w[n].base = k /\ QuickPair(k) # "" THEN
       Took(FinalizeRegularChar(ProcessChar(converted(e1), QuickPair(k))))
     ELSE IF k = "u" /\ Slot(w[n]) = U /\ ~Triphthong(w, n - 2) THEN
       Took(UpdateSpellState(Insert(Mark(converted(e1), n, "Horn"), "o", "Horn")))
     ELSE e1

HandleQuickStartConsonant(e, k) ==
  IF config.quickStart /\ e.states = <<>> /\ k \in {"f", "j", "w"}
  THEN Took(UpdateSpellState([ProcessChar(ProcessChar(e, QuickStart(k)[1]), QuickStart(k)[2])
                                EXCEPT !.quickStart = k]))
  ELSE QuickConsonant(UndoQuickStart(e, k), k)

QuickEndRule(e, k) ==
  IF /\ ~e.took /\ config.quickEnd /\ k \in {"g", "h", "k"}
     /\ e.states # <<>> /\ IsVowel(Last(e.states))
  THEN Took(UpdateSpellState(ProcessChar(ProcessChar(e, QuickEnd(k)[1]), QuickEnd(k)[2])))
  ELSE e

(***************************************************************************)
(* The operations.                                                          *)
(***************************************************************************)
\* The rules in turn; the first one that consumes the key ends its way, and
\* a key no rule wants becomes a letter.
ApplyRules(e, act, k) == QuickEndRule(ModifierRule(ToneRule(e, act, k), act, k), k)
DispatchKey(e, k) == ApplyRules(e, ActionOf(e, k), k)
RegularChar(e, k) == IF e.took THEN e ELSE FinalizeRegularChar(ProcessChar(e, k))

PushChar(e, k) ==
  LET pressed == [e EXCEPT !.raw = Append(@, k), !.hist = Append(@, k),
                           !.qc.only = FALSE, !.took = FALSE]
  IN RegularChar(DispatchKey(HandleQuickStartConsonant(pressed, k), k), k)

\* Mutant: the spell flag stays what it was before the letter was taken out.
BackspaceStale(e) ==
  LET w == e.states
      n == Len(w)
  IN IF w = <<>> THEN e
     ELSE RecalcEnglishBias(
       [e EXCEPT !.esc = "None", !.quickStart = "", !.states = Front(w), !.qc.at = 0, !.qc.key = "",
                 !.raw = SubSeq(@, 1, Min({Len(@), w[n].rawIdx - 1})),
                 !.hist = IF n = 1 \/ @ = <<>> THEN <<>> ELSE Front(@)])

Backspace(e) ==
  LET w == e.states
      n == Len(w)
      e0 == [e EXCEPT !.esc = "None", !.quickStart = ""]
      back == [e0 EXCEPT !.states = Front(UndoHornU(w, n)),
                         !.qc.at = 0, !.qc.key = "", !.qc.escaped = TRUE]
      typed == IF e.qc.key = "" THEN back ELSE ProcessChar(back, e.qc.key)
      cut == [e0 EXCEPT !.states = Front(w), !.qc.at = 0, !.qc.key = "",
                        !.raw = SubSeq(@, 1, Min({Len(@), w[n].rawIdx - 1})),
                        !.hist = IF n = 1 \/ @ = <<>> THEN <<>> ELSE Front(@)]
  IN IF w = <<>> THEN e
     ELSE IF e.quickStart # "" /\ n = 2 THEN
       UpdateSpellState([e0 EXCEPT !.raw = <<e.quickStart>>,
         !.states = <<NewState(e.quickStart, "None", <<e.quickStart>>)>>])
     ELSE IF e.qc.at # 0 /\ n = e.qc.at THEN RecalcEnglishBias(UpdateSpellState(typed))
     ELSE RecalcEnglishBias(UpdateSpellState(cut))

Glyph(k) == <<k, "None", "None">>
RawText(e) == [i \in 1..Len(e.raw) |-> Glyph(e.raw[i])]
IsPlain(g) == g[2] = "None" /\ g[3] = "None"

ShouldAutoRestore(raw, composed) ==
  /\ raw # composed
  /\ (\E i \in DOMAIN composed : ~IsPlain(composed[i])) \/ Len(raw) <= Len(composed)

\* dd or d9 was typed, a stroked d is there, and no plain vowel behind it.
HasIntentionalStrokeD(raw, composed) ==
  LET last == LastOf({i \in DOMAIN composed : composed[i] = <<"d", "Stroke", "None">>})
  IN /\ \E i \in 1..(Len(raw) - 1) : raw[i] = "d" /\ raw[i+1] \in {"d", "9"}
     /\ last # 0
     /\ \A i \in (last+1)..Len(composed) : ~(composed[i][1] \in Vowels /\ IsPlain(composed[i]))

\* What Commit hands out; the engine is fresh behind it.
CommitText(e) ==
  LET composed == ComposeAll(e.states)
      raw == RawText(e)
      alone == (e.quickStart # "" /\ Len(raw) = 1) \/ e.qc.only
      spelled == /\ config.spell /\ config.restore /\ e.qc.at = 0
                 /\ e.off \/ (e.states # <<>> /\ Validate(e.states) = "Prefix")
                 /\ ~IsSpellExcluded(e.states, config.exclusions)
                 /\ ~HasIntentionalStrokeD(e.raw, composed)
  IN IF (alone \/ spelled) /\ ShouldAutoRestore(raw, composed) THEN raw ELSE composed

\* Taking up a text of the document: its letters stand for the keys, the
\* history stays empty.
SeedFrom(text) ==
  LET states == [i \in 1..Len(text) |->
        [base |-> text[i][1], mod |-> text[i][2], tone |-> text[i][3], synthetic |-> FALSE,
         rawIdx |-> i, toneRawIdx |-> 0]]
      raw == [i \in 1..Len(text) |-> text[i][1]]
      e == [Fresh EXCEPT !.states = states, !.raw = raw]
  IN IF \E i \in 1..Len(text) : text[i][1] \notin Letters THEN Fresh
     ELSE UpdateSpellState(Biased(e, CheckEnglishBias(states, "Unknown")))

NoWord == [keys |-> 0, back |-> 0, seeded |-> FALSE]

Init ==
  /\ config \in Configs
  /\ eng = Fresh /\ word = NoWord /\ out = <<>>

Press(k) ==
  /\ word.keys < MaxKeys(config)
  /\ eng' = PushChar(eng, k)
  /\ word' = [word EXCEPT !.keys = @ + 1]
  /\ out' = <<>> /\ UNCHANGED config

Erase ==
  /\ word.keys < MaxKeys(config) /\ word.back < MaxBack
  /\ eng' = [Backspace(eng) EXCEPT !.took = FALSE]
  /\ word' = [word EXCEPT !.keys = @ + 1, !.back = @ + 1]
  /\ out' = <<>> /\ UNCHANGED config

Commit ==
  /\ eng.raw # <<>>
  /\ out' = CommitText(eng) /\ eng' = Fresh /\ word' = NoWord
  /\ UNCHANGED config

Reset ==
  /\ eng' = Fresh /\ word' = NoWord /\ out' = <<>>
  /\ UNCHANGED config

SeedFromText ==
  /\ \E text \in Texts : eng' = SeedFrom(text)
  /\ word' = [NoWord EXCEPT !.seeded = TRUE] /\ out' = <<>>
  /\ UNCHANGED config

Next ==
  \/ \E k \in KeysOf(config) : Press(k)
  \/ Erase \/ Commit \/ Reset \/ SeedFromText

Spec == Init /\ [][Next]_vars

(***************************************************************************)
(* Properties.                                                              *)
(***************************************************************************)

\* A leading w that FinalizeRegularChar has turned back: it does so behind
\* UpdateSpellState, so that the flag may be the verdict on the word with the
\* horned u.
TurnedBack ==
  /\ config.method = "Telex" /\ eng.bias = "HardEnglish"
  /\ eng.states # <<>> /\ eng.states[1].base = "w" /\ IsHardEnglishRawStart(eng.raw)

\* The flag that gates tones and marks is the verdict on the buffer as it is:
\* every handler that changes the buffer ends in UpdateSpellState.  Only a word
\* whose w was turned back may have a stale one, and there the bias stops what
\* the flag lets through.
SpellFlagFresh == TurnedBack \/ eng.off = SpellCheckDisabled(eng.states)

Untouched == word.back = 0 /\ ~word.seeded
\* A bracket inserts a horned letter and looks at nothing else.
Unbracketed == \A i \in DOMAIN eng.hist : eng.hist[i] \notin {"[", "]"}

\* A word that shows no mark is committed as it is shown: the raw keys that
\* auto-restore falls back to have lost every key an escape has consumed.
\* Brackets, quick consonants and the user's own key map, where a key stands for
\* other letters, are excepted.
PlainStays ==
  (/\ Untouched /\ config.method # "UserDefined"
   /\ Unbracketed
   /\ ~config.quick /\ ~config.quickStart /\ ~config.quickEnd
   /\ \A i \in DOMAIN eng.states : IsPlain(Compose(eng.states[i])) /\ ~eng.states[i].synthetic)
  => CommitText(eng) = ComposeAll(eng.states)

\* In a complete syllable the one tone sits where the rules of placement put
\* it, whatever the order in which tone, marks and letters were typed
\* (RelocateToneToTarget); the old style of "oa" excepted where P4 says so.
ToneOnTarget ==
  LET w == eng.states
      toned == Where(w, HasTone)
  IN (/\ Untouched /\ Unbracketed /\ ~config.quick /\ ~config.quickEnd
      /\ Validate(w) = "Valid" /\ toned # {})
     => \/ toned = {Target(w)}
        \/ IsToneRelocBlockedByP4(w, Target(w), config.modern)

\* Until a mark is escaped, the raw keys that auto-restore and Esc give back
\* are the keys that were pressed, quick consonants and their undoing among
\* them.
RawIsTyped == (Untouched /\ eng.esc = "None") => eng.raw = eng.hist

\* The raw keys are right for both that use them, Esc and auto-restore.
RawKept == RawIsTyped /\ PlainStays

\* A word deleted to nothing leaves none of its keys to the next: "backspace
\* removes all associated raw entries" (Backspace).
EmptiedForgets == eng.states = <<>> => eng.raw = <<>>

\* The key of this step.
Typed == word'.keys > word.keys /\ word'.back = word.back
TypedKey == Last(eng'.hist)

\* In a word without marks a tone key pressed twice leaves the word and that
\* key as a letter, whichever rule takes the second press.
Literal(w, e1, e2) ==
  (/\ \A i \in DOMAIN w : IsPlain(Compose(w[i]))
   /\ e1.took /\ Len(e1.states) = Len(w) /\ e1.states # w)
  => ComposeAll(e2.states) = Append(ComposeAll(w), Glyph(TypedKey))
TwiceIsLiteral ==
  [][Typed /\ IsToneAction(ActionOf(eng, TypedKey))
       => Literal(eng.states, eng', PushChar(eng', TypedKey))]_vars

\* With the spell check on, a circumflex never makes a syllable into none: the
\* handlers validate the buffer with the mark before they set it, and where
\* they move the tone, as it is behind the move.
IsCircumflex(act) == act[1] = "Circumflex" \/ act = <<"VniVowel", "Circ">>
StaysSyllable(w, e1) ==
  (/\ Validate(w) # "Invalid"
   /\ e1.took /\ Len(e1.states) = Len(w)
   /\ \A i \in DOMAIN w : w[i].mod \in {"None", e1.states[i].mod})
  => Acceptable(e1.states)
CircumflexKeepsSyllable ==
  [][(/\ Typed /\ config.spell /\ config.exclusions = {}
      /\ IsCircumflex(ActionOf(eng, TypedKey)))
     => StaysSyllable(eng.states, eng')]_vars

\* "Once a tone key has already landed on the horned u we cannot safely revert"
\* (FinalizeRegularChar): the u a leading w has made stays once a second key has
\* gone into it, unless it is escaped.
ToneSettlesHorn ==
  [][(/\ Typed /\ eng.states # <<>> /\ eng.states[1].synthetic
      /\ Len(eng.states) = 1 /\ Len(eng.raw) >= 2 /\ eng'.esc = "None")
     => eng'.states[1].base = "u"]_vars

=============================================================================

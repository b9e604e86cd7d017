------------------------- MODULE TextServiceProofs -------------------------
(***************************************************************************)
(* Proofs about the text service, for every set of configurations, keys and *)
(* applications, and any number of steps and disturbances.                  *)
(*                                                                          *)
(* The link to the main program needs nothing of the engine.  What is said  *)
(* of texts holds for every engine of which EngineOK and KeepsKeys hold.    *)
(***************************************************************************)
EXTENDS TextService, TLAPS, WellFoundedInduction

CONSTANTS
  Engines,   \* the engines the service can hold
  Glyphs     \* what a text is made of
-----------------------------------------------------------------------------
(* Handlers: what they take and give has the shape of a state, and they     *)
(* leave the link to the main program and the place in the application      *)
(* alone.                                                                   *)

Shaped(x) ==
  /\ DOMAIN x = {"svc", "host", "eaten", "want"}
  /\ DOMAIN x.svc = DOMAIN NewService
  /\ DOMAIN x.svc.commit = DOMAIN NoCommit
  /\ DOMAIN x.host = {"doc", "caret", "comp", "sel", "ctx", "field", "fg"}

Linked(x, y) ==
  /\ Shaped(y)
  /\ y.svc.up = x.svc.up /\ y.svc.config = x.svc.config
  /\ y.svc.connected = x.svc.connected /\ y.svc.epoch = x.svc.epoch /\ y.svc.abi = x.svc.abi
  /\ y.host.ctx = x.host.ctx /\ y.host.field = x.host.field /\ y.host.fg = x.host.fg

Placed(x, y) ==
  /\ Linked(x, y)
  /\ y.svc.ctx = x.svc.ctx /\ y.svc.blocked = x.svc.blocked

LEMMA PlacedTrans ==
  ASSUME NEW x, NEW y, NEW z, Placed(x, y), Placed(y, z)
  PROVE  Placed(x, z)
BY DEF Placed, Linked

LEMMA PlacedShaped ==
  ASSUME NEW x, NEW y, Placed(x, y)
  PROVE  Shaped(y)
BY DEF Placed, Linked

LEMMA PlacedSelf == ASSUME NEW x, Shaped(x) PROVE Placed(x, x)
BY DEF Placed, Linked

LEMMA EndFrame == ASSUME NEW x, Shaped(x) PROVE Placed(x, EndComposition(x))
BY DEF Shaped, NewService, Placed, Linked, EndComposition

LEMMA StartFrame ==
  ASSUME NEW x, Shaped(x), NEW from
  PROVE  Placed(x, StartComposition(x, from))
BY DEF Shaped, NewService, Placed, Linked, StartComposition

LEMMA SetFrame ==
  ASSUME NEW x, Shaped(x), NEW text
  PROVE  Placed(x, SetCompositionText(x, text))
BY DEF Shaped, NewService, Placed, Linked, SetCompositionText, Replace

LEMMA EatFrame == ASSUME NEW x, Shaped(x) PROVE Placed(x, Eat(x)) /\ Placed(x, Pass(x))
BY DEF Shaped, NewService, Placed, Linked, Eat, Pass

LEMMA SessionFrames ==
  ASSUME NEW x, Shaped(x), NEW g, NEW text
  PROVE  /\ Placed(x, StartSession(x, g, text))
         /\ Placed(x, UpdateSession(x, g, text))
         /\ Placed(x, CommitSession(x, g, text))
<1>1. Placed(x, SetCompositionText(x, text)) /\ Placed(x, x)
  BY SetFrame, PlacedSelf
<1>2. Placed(x, StartSession(x, g, text))
  <2> DEFINE y == StartComposition(x, x.host.caret)
  <2>1. Placed(x, y) /\ Shaped(y)
    BY StartFrame DEF Placed, Linked
  <2>2. Placed(x, SetCompositionText(y, text))
    BY <2>1, SetFrame, PlacedTrans
  <2>3. QED  BY <1>1, <2>2 DEF StartSession
<1>3. Placed(x, EndComposition(SetCompositionText(x, text)))
  <2> DEFINE y == SetCompositionText(x, text)
  <2>1. Placed(x, y) /\ Shaped(y)
    BY <1>1 DEF Placed, Linked
  <2>2. QED  BY <2>1, EndFrame, PlacedTrans
<1>4. QED  BY <1>1, <1>2, <1>3 DEF UpdateSession, CommitSession

LEMMA EngineFrame ==
  ASSUME NEW x, Shaped(x), NEW engine
  PROVE  Placed(x, [x EXCEPT !.svc.eng = engine])
BY DEF Shaped, NewService, Placed, Linked

LEMMA ReviveFrame ==
  ASSUME NEW x, Shaped(x), NEW g, NEW word, NEW engine
  PROVE  Placed(x, ReviveSession(x, g, word, engine))
<1> DEFINE s == StartComposition(x, x.host.caret - Len(word))
           over == SetCompositionText(s, ComposeAll(engine.states))
           done == [over EXCEPT !.svc.eng = engine]
<1>1. Placed(x, s) /\ Shaped(s)
  BY StartFrame DEF Placed, Linked
<1>2. Placed(x, over) /\ Shaped(over)
  <2> HIDE DEF s
  <2>1. Placed(s, over)
    BY <1>1, SetFrame
  <2>2. QED  BY <1>1, <2>1, PlacedTrans DEF Placed, Linked
<1>3. Placed(x, done) /\ Shaped(done)
  <2> HIDE DEF over
  <2>1. Placed(over, done)
    BY <1>2, EngineFrame
  <2>2. QED  BY <1>2, <2>1, PlacedTrans DEF Placed, Linked
<1>4. Placed(x, EndComposition(done))
  <2> HIDE DEF done
  <2>1. QED  BY <1>3, EndFrame, PlacedTrans
<1>5. QED  BY <1>3, <1>4, PlacedSelf DEF ReviveSession

LEMMA UndoFrame ==
  ASSUME NEW x, Shaped(x), NEW text, NEW raw, NEW trailing
  PROVE  /\ Placed(x, ResetCommitUndo(x))
         /\ Placed(x, RecordCommitSnapshot(x, text, raw, trailing))
BY DEF Shaped, NewService, Placed, Linked, ResetCommitUndo, RecordCommitSnapshot, NoCommit

LEMMA FinishFrame ==
  ASSUME NEW x, Shaped(x)
  PROVE  Placed(x, [x EXCEPT !.svc.eng = EngineFresh, !.svc.digitLed = FALSE])
BY DEF Shaped, NewService, Placed, Linked

LEMMA CommitFrame ==
  ASSUME NEW x, Shaped(x), NEW g, NEW text, NEW trailing
  PROVE  /\ Placed(x, CommitAs(x, g, text, trailing))
         /\ Placed(x, CommitThe(x, g, text))
         /\ Placed(x, Commit(x, g))
         /\ Placed(x, CommitWithChar(x, g, text))
         /\ Placed(x, CommitRawAndEnd(x, g))
<1>1. ASSUME NEW t PROVE LET y == [CommitSession(x, g, t) EXCEPT !.svc.eng = EngineFresh,
                                                                !.svc.digitLed = FALSE]
                         IN Placed(x, y) /\ Shaped(y)
  <2> DEFINE s == CommitSession(x, g, t)
  <2>1. Placed(x, s) /\ Shaped(s)
    BY SessionFrames DEF Placed, Linked
  <2> HIDE DEF s
  <2>2. Placed(s, [s EXCEPT !.svc.eng = EngineFresh, !.svc.digitLed = FALSE])
    BY <2>1, FinishFrame
  <2>3. QED  BY <2>1, <2>2, PlacedTrans DEF s, Placed, Linked
<1>2. ASSUME NEW t, NEW u PROVE Placed(x, CommitAs(x, g, t, u))
  <2> DEFINE y == [CommitSession(x, g, t) EXCEPT !.svc.eng = EngineFresh, !.svc.digitLed = FALSE]
  <2>1. Placed(x, y) /\ Shaped(y)
    BY <1>1
  <2> HIDE DEF y
  <2>2. Placed(x, RecordCommitSnapshot(y, t, PeekRaw(x), u))
    BY <2>1, UndoFrame, PlacedTrans
  <2>3. QED  BY <2>2 DEF CommitAs, y
<1>3. QED  BY <1>1, <1>2 DEF CommitThe, Commit, CommitWithChar, CommitRawAndEnd

LEMMA RestoreFrame ==
  ASSUME NEW x, Shaped(x), NEW g
  PROVE  Placed(x, TryRestoreLastCommitRaw(x, g))
<1> DEFINE y == RestoreSession(x, g, Len(x.svc.commit.text) - 1, x.svc.commit.raw)
<1>1. Placed(x, y) /\ Shaped(y)
  BY DEF Shaped, NewService, Placed, Linked, RestoreSession, Replace
<1> HIDE DEF y
<1>2. Placed(x, ResetCommitUndo(y))
  BY <1>1, UndoFrame, PlacedTrans
<1>3. QED  BY <1>2 DEF y, TryRestoreLastCommitRaw

LEMMA WantFrame ==
  ASSUME NEW x, Shaped(x), NEW k
  PROVE  Placed(x, WantKey(x, k))
<1> DEFINE on == x.svc.abi /\ x.svc.connected /\ exe.enabled
           s == IF on THEN [x.svc EXCEPT !.active = exe.active,
                                         !.viet = IF exe.active THEN exe.viet ELSE @]
                ELSE x.svc
           y == [x EXCEPT !.svc = s, !.want = FALSE]
<1>1. Placed(x, y) /\ Shaped(y)
  BY DEF Shaped, NewService, Placed, Linked
<1> HIDE DEF y
<1>2. \A v : Placed(x, [y EXCEPT !.svc.digitLed = v]) /\ Placed(x, [y EXCEPT !.want = v])
  BY <1>1 DEF Shaped, NewService, Placed, Linked
<1>3. QED  BY <1>1, <1>2 DEF WantKey, y

LEMMA PrepareFrame ==
  ASSUME NEW x, Shaped(x), NEW g
  PROVE  Placed(x, PrepareBackspaceRevive(x, g))
BY DEF Shaped, NewService, Placed, Linked, PrepareBackspaceRevive

LEMMA RecoverFrame ==
  ASSUME NEW x, Shaped(x), NEW g
  PROVE  Placed(x, Recover(x, g))
<1>1. Placed(x, Reset(x))
  BY DEF Shaped, NewService, Placed, Linked, Reset
<1>2. QED  BY <1>1, CommitFrame, PlacedSelf DEF Recover

LEMMA CacheFrame ==
  ASSUME NEW x, Shaped(x), NEW k, NEW want
  PROVE  Placed(x, Cache(x, k, want)) /\ Placed(x, Uncached(x))
BY DEF Shaped, NewService, Placed, Linked, Cache, Uncached

LEMMA AnswerFrame ==
  ASSUME NEW x, Shaped(x), NEW k, NEW g
  PROVE  Placed(x, Answer(x, k, g))
<1>1. ASSUME NEW v PROVE Placed(x, Cache(x, k, v)) /\ Shaped(Cache(x, k, v))
  BY CacheFrame DEF Placed, Linked
<1>2. Placed(x, Pass(Commit(Cache(x, k, FALSE), g)))
  <2> DEFINE y == Commit(Cache(x, k, FALSE), g)
  <2>1. Placed(x, y) /\ Shaped(y)
    <3> DEFINE c == Cache(x, k, FALSE)
    <3>1. Placed(x, c) /\ Shaped(c)
      BY <1>1
    <3> HIDE DEF c
    <3>2. Placed(c, Commit(c, g))
      BY <3>1, CommitFrame
    <3>3. QED  BY <3>1, <3>2, PlacedTrans, PlacedShaped DEF c
  <2> HIDE DEF y
  <2>2. Placed(x, Pass(y))
    BY <2>1, EatFrame, PlacedTrans
  <2>3. QED  BY <2>2 DEF y
<1>3. Placed(x, [Cache(x, k, x.want) EXCEPT !.eaten = x.want])
  <2> DEFINE y == Cache(x, k, x.want)
  <2>1. Placed(x, y) /\ Shaped(y)
    BY <1>1
  <2> HIDE DEF y
  <2>2. Placed(x, [y EXCEPT !.eaten = x.want])
    BY <2>1 DEF Shaped, Placed, Linked
  <2>3. QED  BY <2>2 DEF y
<1>4. QED  BY <1>2, <1>3 DEF Answer

LEMMA TestWantedFrame ==
  ASSUME NEW w, Shaped(w), NEW k, NEW g
  PROVE  Placed(w, TestWanted(w, k, g))
<1>1. \A v : Placed(w, [w EXCEPT !.want = v]) /\ Shaped([w EXCEPT !.want = v])
  BY DEF Shaped, Placed, Linked
<1>2. ASSUME NEW want PROVE Placed(w, TestErase(w, g, want)) /\ Shaped(TestErase(w, g, want))
  <2> DEFINE u == IF w.svc.undo = "Primed" THEN ResetCommitUndo(w) ELSE w
  <2>1. Placed(w, u) /\ Shaped(u)
    BY UndoFrame, PlacedSelf DEF Placed, Linked
  <2> HIDE DEF u
  <2>2. Placed(u, [u EXCEPT !.want = TRUE]) /\ Placed(u, PrepareBackspaceRevive(u, g))
    BY <2>1, PrepareFrame DEF Shaped, Placed, Linked
  <2>3. QED  BY <2>1, <2>2, PlacedTrans DEF u, TestErase, Placed, Linked
<1>3. Placed(w, Cache(Pass([w EXCEPT !.svc.undo = "Primed"]), k, FALSE))
  BY DEF Shaped, NewService, Placed, Linked, Pass, Cache
<1>4. ASSUME NEW y, Placed(w, y) PROVE Placed(w, Answer(y, k, g))
  BY <1>4, AnswerFrame, PlacedTrans DEF Placed, Linked
<1>5. QED  BY <1>1, <1>2, <1>3, <1>4 DEF TestWanted

LEMMA TestRecoveredFrame ==
  ASSUME NEW y, Shaped(y), NEW k, NEW g
  PROVE  Placed(y, TestRecovered(y, k, g))
<1>1. ASSUME NEW z, Placed(y, z)
      PROVE  Placed(y, Eat(z)) /\ Placed(y, Pass(z)) /\ Placed(y, Cache(z, k, TRUE))
  <2>1. Shaped(z)
    BY <1>1, PlacedShaped
  <2>2. Placed(z, Eat(z)) /\ Placed(z, Pass(z)) /\ Placed(z, Cache(z, k, TRUE))
    BY <2>1, EatFrame, CacheFrame
  <2>3. QED  BY <1>1, <2>2, PlacedTrans
<1>2. /\ Placed(y, Commit(y, g)) /\ Placed(y, CommitRawAndEnd(y, g))
      /\ Placed(y, TryRestoreLastCommitRaw(y, g)) /\ Placed(y, y)
  BY CommitFrame, RestoreFrame, PlacedSelf
<1>3. Placed(y, TestWanted(WantKey(y, k), k, g))
  BY WantFrame, TestWantedFrame, PlacedTrans DEF Placed, Linked
<1>4. Placed(y, Cache(Eat(y), k, TRUE))
  <2>1. Placed(y, Eat(y)) /\ Shaped(Eat(y))
    BY EatFrame, PlacedShaped
  <2>2. Placed(Eat(y), Cache(Eat(y), k, TRUE))
    BY <2>1, CacheFrame
  <2>3. QED  BY <2>1, <2>2, PlacedTrans
<1>5. QED  BY <1>1, <1>2, <1>3, <1>4 DEF TestRecovered

LEMMA TestUnblockedFrame ==
  ASSUME NEW x, Shaped(x), NEW k, NEW g
  PROVE  Placed(x, TestUnblocked(x, k, g))
<1>1. Placed(x, Cache(Pass(Commit(x, g)), k, FALSE))
  <2>1. Placed(x, Pass(Commit(x, g)))
    BY CommitFrame, EatFrame, PlacedTrans DEF Placed, Linked
  <2> DEFINE c == Pass(Commit(x, g))
  <2>2. Shaped(c)
    BY <2>1, PlacedShaped
  <2> HIDE DEF c
  <2>3. Placed(c, Cache(c, k, FALSE))
    BY <2>2, CacheFrame
  <2>4. QED  BY <2>1, <2>3, PlacedTrans DEF c
<1>2. Placed(x, OnNonRestoreKey(x, k))
  BY UndoFrame, PlacedSelf DEF OnNonRestoreKey
<1>3. Placed(x, Recover(OnNonRestoreKey(x, k), g))
  BY <1>2, RecoverFrame, PlacedTrans DEF Placed, Linked
<1>4. Placed(x, TestRecovered(Recover(OnNonRestoreKey(x, k), g), k, g))
  BY <1>3, TestRecoveredFrame, PlacedTrans DEF Placed, Linked
<1>5. QED  BY <1>1, <1>4 DEF TestUnblocked

LEMMA ContextFrame ==
  ASSUME NEW x, Shaped(x), NEW g
  PROVE  Linked(x, CheckContextBlocked(x, g))
BY DEF Shaped, NewService, Linked, CheckContextBlocked

LEMMA BackspaceFrame ==
  ASSUME NEW x, Shaped(x), NEW g
  PROVE  Placed(x, ProcessBackspace(x, g))
<1> DEFINE y == [x EXCEPT !.svc.eng = EngineBackspace(x.svc.config, @)]
<1>1. Placed(x, y) /\ Shaped(y)
  BY DEF Shaped, NewService, Placed, Linked
<1> HIDE DEF y
<1>2. Placed(y, Shown(y, g)) /\ Placed(y, CommitSession(y, g, <<>>))
  BY <1>1, SessionFrames DEF Shown
<1>3. QED  BY <1>1, <1>2, PlacedTrans DEF ProcessBackspace, y

LEMMA StartWithFrame ==
  ASSUME NEW y, Shaped(y), NEW g
  PROVE  Placed(y, StartWith(y, g))
<1> DEFINE started == StartSession(y, g, Peek(y))
<1>1. Placed(y, started) /\ Shaped(started)
  BY SessionFrames, PlacedShaped
<1> HIDE DEF started
<1>2. Placed(started, Eat(started))
  BY <1>1, EatFrame
<1>3. Placed(started, Pass([started EXCEPT !.svc.eng = EngineFresh]))
  BY <1>1 DEF Shaped, NewService, Placed, Linked, Pass
<1>4. QED  BY <1>1, <1>2, <1>3, PlacedTrans DEF StartWith, started

LEMMA ComposeFrame ==
  ASSUME NEW x, Shaped(x), NEW g, NEW word, NEW k, NEW engine
  PROVE  Placed(x, ComposeWith(x, g, word, k, engine))
<1> DEFINE y == [x EXCEPT !.svc.eng = engine]
<1>1. Placed(x, y) /\ Shaped(y)
  BY EngineFrame, PlacedShaped
<1>2. Placed(x, Eat(ReviveSession(x, g, word, engine)))
  BY ReviveFrame, EatFrame, PlacedTrans, PlacedShaped
<1> HIDE DEF y
<1>3. Placed(y, Shown(y, g)) /\ Placed(y, StartWith(y, g)) /\ Placed(y, Eat(y))
  BY <1>1, SessionFrames, StartWithFrame, EatFrame DEF Shown
<1>4. Placed(y, Eat(Shown(y, g)))
  <2> DEFINE z == Shown(y, g)
  <2>1. Placed(y, z) /\ Shaped(z)
    BY <1>3, PlacedShaped
  <2> HIDE DEF z
  <2>2. Placed(z, Eat(z))
    BY <2>1, EatFrame
  <2>3. QED  BY <2>1, <2>2, PlacedTrans DEF z
<1>5. Placed(x, Eat(Shown(y, g))) /\ Placed(x, StartWith(y, g)) /\ Placed(x, Eat(y))
  BY <1>1, <1>3, <1>4, PlacedTrans
<1>6. QED  BY <1>2, <1>5 DEF ComposeWith, y

LEMMA HandleFrame ==
  ASSUME NEW x, Shaped(x), NEW k, NEW g
  PROVE  Placed(x, HandleKey(x, k, g))
<1>1. ASSUME NEW z, Placed(x, z) PROVE Placed(x, Eat(z)) /\ Placed(x, Pass(z))
  BY <1>1, EatFrame, PlacedTrans, PlacedShaped
<1>2. Placed(x, ProcessBackspace(x, g)) /\ Placed(x, CommitWithChar(x, g, k)) /\ Placed(x, x)
  BY BackspaceFrame, CommitFrame, PlacedSelf
<1>3. Placed(x, HandleLetter(x, k, g))
  BY ComposeFrame DEF HandleLetter, ComposeBehind
<1>4. ASSUME NEW word, NEW engine
      PROVE  Placed(x, [ReviveSession(x, g, word, engine) EXCEPT !.svc.revive = <<>>])
  <2> DEFINE z == ReviveSession(x, g, word, engine)
  <2>1. Placed(x, z) /\ Shaped(z)
    BY ReviveFrame, PlacedShaped
  <2> HIDE DEF z
  <2>2. Placed(z, [z EXCEPT !.svc.revive = <<>>])
    BY <2>1 DEF Shaped, NewService, Placed, Linked
  <2>3. QED  BY <2>1, <2>2, PlacedTrans DEF z
<1>5. QED  BY <1>1, <1>2, <1>3, <1>4 DEF HandleKey

LEMMA KeyWantedFrame ==
  ASSUME NEW w, Shaped(w), NEW k, NEW g, NEW want
  PROVE  Placed(w, KeyWanted(w, k, g, want))
<1>1. Placed(w, Pass(Commit(w, g)))
  BY CommitFrame, EatFrame, PlacedTrans, PlacedShaped
<1>2. QED  BY <1>1, EatFrame, HandleFrame DEF KeyWanted

\* OnKeyDown behind CheckConfigEvent.
KeyDownOf(x, k, g) ==
  LET tested == x.svc.tested = k
      w == IF tested THEN [x EXCEPT !.want = x.svc.wanted] ELSE WantKey(x, k)
  IN IF k = "CTRL" THEN Pass(x)
     ELSE IF Buffered(x) /\ Suggested(x, k, g) THEN Pass(Uncached(Commit(x, g)))
     ELSE IF EscRaw(x, k) THEN Eat(CommitRawAndEnd(x, g))
     ELSE IF EscUndo(x, k) THEN Eat(TryRestoreLastCommitRaw(x, g))
     ELSE IF IsPunctuationKey(k) /\ Buffered(x) /\ ~IsEngineDigitKey(x, k) THEN
       Eat(Uncached(CommitWithChar(x, g, k)))
     ELSE KeyWanted(Uncached(w), k, g, w.want /\ (tested \/ ~Suggested(w, k, g)))

LEMMA KeyDownIs == ASSUME NEW x, NEW k, NEW g
                   PROVE OnKeyDown(x, k, g) = KeyDownOf(CheckConfigEvent(x), k, g)
BY DEF OnKeyDown, KeyDownOf

LEMMA KeyDownFrame ==
  ASSUME NEW x, Shaped(x), NEW k, NEW g
  PROVE  Placed(x, KeyDownOf(x, k, g))
<1>1. ASSUME NEW z, Placed(x, z)
      PROVE  Placed(x, Eat(z)) /\ Placed(x, Pass(z)) /\ Placed(x, Uncached(z))
  BY <1>1, EatFrame, CacheFrame, PlacedTrans, PlacedShaped
<1>2. /\ Placed(x, x) /\ Placed(x, Commit(x, g)) /\ Placed(x, CommitRawAndEnd(x, g))
      /\ Placed(x, TryRestoreLastCommitRaw(x, g)) /\ Placed(x, CommitWithChar(x, g, k))
  BY PlacedSelf, CommitFrame, RestoreFrame
<1>3. Placed(x, Uncached(Commit(x, g))) /\ Placed(x, Uncached(CommitWithChar(x, g, k)))
  BY <1>1, <1>2
<1> DEFINE tested == x.svc.tested = k
           w == IF tested THEN [x EXCEPT !.want = x.svc.wanted] ELSE WantKey(x, k)
<1>4. Placed(x, w)
  <2>1. Placed(x, [x EXCEPT !.want = x.svc.wanted])
    BY DEF Shaped, Placed, Linked
  <2>2. QED  BY <2>1, WantFrame
<1> HIDE DEF w
<1>5. Placed(x, Uncached(w)) /\ Shaped(Uncached(w))
  BY <1>1, <1>4, PlacedShaped
<1>6. ASSUME NEW want PROVE Placed(x, KeyWanted(Uncached(w), k, g, want))
  BY <1>5, KeyWantedFrame, PlacedTrans
<1>7. QED  BY <1>1, <1>2, <1>3, <1>6 DEF KeyDownOf, w

-----------------------------------------------------------------------------
(* The link to the main program.                                            *)

\* What the service s has read of the main program is no younger than what
\* stands there, and is the same when the epoch is.
LinkOK(s) ==
  /\ s.epoch \in Nat
  /\ s.connected => exe.up
  /\ s.epoch > 0 => s.connected
  /\ ~past.restarted =>
       /\ s.epoch <= exe.epoch
       /\ s.epoch = exe.epoch /\ s.connected /\ s.abi /\ exe.abi /\ Stable
            => s.config = Decoded(exe.config)

Current(s) ==
  ~past.restarted /\ s.connected /\ s.abi /\ exe.abi /\ Stable => s.config = Decoded(exe.config)

Shapes ==
  /\ Shaped(X)
  /\ DOMAIN exe = {"up", "abi", "epoch", "enabled", "active", "viet", "tip", "config"}
  /\ DOMAIN past = {"keys", "events", "faults", "moved", "stale", "restarted", "asked"}

LinkInv ==
  /\ Shapes /\ LinkOK(svc)
  /\ exe.epoch \in Nat /\ exe.up \in BOOLEAN
  /\ exe.up <=> exe.epoch > 0
  /\ step.what \in {"test", "down"} => Current(svc)

LEMMA CheckShape ==
  ASSUME NEW x, Shaped(x)
  PROVE  /\ Shaped(CheckConfigEvent(x)) /\ CheckConfigEvent(x).host = x.host
         /\ CheckConfigEvent(x).eaten = x.eaten /\ CheckConfigEvent(x).want = x.want
         /\ Shaped(RefreshFlags(x)) /\ RefreshFlags(x).host = x.host
BY DEF Shaped, NewService, CheckConfigEvent, RefreshFlags, ApplySharedState

LEMMA CheckLink ==
  ASSUME LinkInv, NEW x, Shaped(x), LinkOK(x.svc)
  PROVE  LET s == CheckConfigEvent(x).svc IN LinkOK(s) /\ Current(s)
BY DEF LinkInv, Shaped, NewService, CheckConfigEvent, ApplySharedState, LinkOK, Current,
       Readable, Stable

LEMMA RefreshLink ==
  ASSUME LinkInv, NEW x, Shaped(x), LinkOK(x.svc)
  PROVE  LinkOK(RefreshFlags(x).svc)
BY DEF LinkInv, Shaped, NewService, RefreshFlags, ApplySharedState, LinkOK, Readable, Stable

\* A key, seen as CheckConfigEvent and a step of the service alone.
TestOf(x, k, g) ==
  LET y == CheckContextBlocked(x, g)
  IN IF y.svc.blocked THEN Pass(y) ELSE TestUnblocked(y, k, g)

LEMMA TestIs == ASSUME NEW x, NEW k, NEW g
                PROVE OnTestKeyDown(x, k, g) = TestOf(CheckConfigEvent(x), k, g)
BY DEF OnTestKeyDown, TestOf

LEMMA TestFrame ==
  ASSUME NEW x, Shaped(x), NEW k, NEW g
  PROVE  Linked(x, TestOf(x, k, g))
<1> DEFINE y == CheckContextBlocked(x, g)
<1>1. Linked(x, y) /\ Shaped(y)
  BY ContextFrame DEF Linked
<1> HIDE DEF y
<1>2. Placed(y, Pass(y)) /\ Placed(y, TestUnblocked(y, k, g))
  BY <1>1, EatFrame, TestUnblockedFrame
<1>3. QED  BY <1>1, <1>2 DEF TestOf, y, Placed, Linked

\* The three things a key can be, for all proofs below.
LEMMA KeyStep ==
  ASSUME NEW k \in Keys, TestKey(k) \/ KeyDown(k)
  PROVE  \E g \in Grants :
           \/ /\ svc.up /\ host.fg /\ key = "" /\ app /= "chromium"
              /\ After(TestOf(CheckConfigEvent(X), k, g), "test", k, g)
           \/ /\ svc.up /\ host.fg /\ (key = k \/ app = "chromium")
              /\ After(KeyDownOf(CheckConfigEvent(X), k, g), "down", k, g)
BY TestIs, KeyDownIs DEF TestKey, KeyDown

LEMMA AppKeyShape ==
  ASSUME NEW h, DOMAIN h = {"doc", "caret", "comp", "sel", "ctx", "field", "fg"}, NEW k
  PROVE  /\ DOMAIN AppKey(h, k) = DOMAIN h
         /\ AppKey(h, k).ctx = h.ctx /\ AppKey(h, k).field = h.field /\ AppKey(h, k).fg = h.fg
BY DEF AppKey, Replace

LEMMA AfterShapes ==
  ASSUME Shapes, NEW x, Shaped(x), NEW what, NEW k, NEW g, After(x, what, k, g)
  PROVE  Shapes'
<1>1. DOMAIN host' = {"doc", "caret", "comp", "sel", "ctx", "field", "fg"}
  BY AppKeyShape DEF After, Shaped
<1>2. QED  BY <1>1 DEF After, Shapes, Shaped, X

LEMMA AfterLink ==
  ASSUME LinkInv, NEW k, NEW g, NEW what, NEW x, Linked(CheckConfigEvent(X), x),
         After(x, what, k, g)
  PROVE  LinkInv'
<1> DEFINE y == CheckConfigEvent(X)
<1>1. Shaped(X) /\ LinkOK(X.svc)
  BY DEF LinkInv, Shapes, X
<1>2. LinkOK(y.svc) /\ Current(y.svc)
  BY <1>1, CheckLink
<1>3. Shaped(x) /\ LinkOK(x.svc) /\ Current(x.svc)
  <2> HIDE DEF y
  <2>1. QED  BY <1>2 DEF Linked, LinkOK, Current, y
<1>4. Shapes'
  BY <1>3, AfterShapes DEF LinkInv
<1>5. past'.restarted = past.restarted /\ exe' = exe /\ svc' = x.svc
  BY DEF After, LinkInv, Shapes
<1>6. QED  BY <1>3, <1>4, <1>5 DEF LinkInv, LinkOK, Current, Stable

LEMMA KeyLink ==
  ASSUME LinkInv, NEW k \in Keys, TestKey(k) \/ KeyDown(k)
  PROVE  LinkInv'
<1>1. Shaped(CheckConfigEvent(X))
  BY CheckShape DEF LinkInv, Shapes
<1>2. QED  BY <1>1, KeyStep, TestFrame, KeyDownFrame, AfterLink DEF Placed

\* The application and the user.
HostStep ==
  \/ TerminateComposition \/ Click \/ SwitchField \/ Suggest \/ Wait \/ Deactivate
  \/ ToggleVietnameseMode

LEMMA HostLink ==
  ASSUME LinkInv, HostStep
  PROVE  LinkInv'
<1>1. /\ DOMAIN svc = DOMAIN NewService /\ DOMAIN svc.commit = DOMAIN NoCommit
      /\ DOMAIN host = {"doc", "caret", "comp", "sel", "ctx", "field", "fg"}
  BY DEF LinkInv, Shapes, Shaped, X
<1>2. CASE TerminateComposition
  BY <1>1, <1>2 DEF TerminateComposition, UserEvent, Terminated, Other, NoKey, LinkInv, Shapes,
     Shaped, X, LinkOK, Current, Stable, NewService
<1>3. CASE Click
  BY <1>1, <1>3 DEF Click, Ended, UserEvent, Terminated, Other, NoKey, LinkInv, Shapes,
     Shaped, X, LinkOK, Current, Stable, NewService
<1>4. CASE SwitchField
  BY <1>1, <1>4 DEF SwitchField, Ended, UserEvent, Terminated, Other, NoKey, LinkInv, Shapes,
     Shaped, X, LinkOK, Current, Stable, NewService
<1>5. CASE Suggest
  BY <1>1, <1>5 DEF Suggest, UserEvent, Other, NoKey, LinkInv, Shapes,
     Shaped, X, LinkOK, Current, Stable, NewService
<1>6. CASE Wait
  BY <1>1, <1>6 DEF Wait, Other, NoKey, LinkInv, Shapes,
     Shaped, X, LinkOK, Current, Stable, NewService
<1>7. CASE Deactivate
  <2>1. /\ exe'.epoch = exe.epoch /\ exe'.up = exe.up /\ DOMAIN exe' = DOMAIN exe
        /\ step' = NoKey /\ past'.restarted = past.restarted /\ DOMAIN past' = DOMAIN past
        /\ DOMAIN host' = DOMAIN host
    BY <1>1, <1>7 DEF Deactivate, UserEvent, Other, LinkInv, Shapes
  <2>2. /\ svc'.epoch = 0 /\ ~svc'.connected /\ DOMAIN svc' = DOMAIN NewService
        /\ DOMAIN svc'.commit = DOMAIN NoCommit
    BY <1>7 DEF Deactivate, NewService
  <2>3. LinkOK(svc)'
    BY <2>1, <2>2 DEF LinkOK, LinkInv
  <2>4. QED  BY <1>1, <2>1, <2>2, <2>3 DEF LinkInv, Shapes, Shaped, X, NoKey
<1>8. CASE ToggleVietnameseMode
  BY <1>1, <1>8 DEF ToggleVietnameseMode, UserEvent, Other, NoKey, LinkInv, Shapes,
     Shaped, X, LinkOK, Current, Stable, NewService
<1>9. QED  BY <1>2, <1>3, <1>4, <1>5, <1>6, <1>7, <1>8 DEF HostStep

LEMMA FocusLink ==
  ASSUME LinkInv, OnSetFocus
  PROVE  LinkInv'
<1>1. /\ DOMAIN svc = DOMAIN NewService /\ DOMAIN svc.commit = DOMAIN NoCommit
      /\ DOMAIN host = {"doc", "caret", "comp", "sel", "ctx", "field", "fg"}
      /\ Shaped(X) /\ X.svc = svc /\ LinkOK(svc)
  BY DEF LinkInv, Shapes, Shaped, X
<1> DEFINE s == IF host.fg THEN svc ELSE RefreshFlags(CheckConfigEvent(X)).svc
           y == CheckConfigEvent(X)
           z == [X EXCEPT !.svc = s]
<1>2. DOMAIN s = DOMAIN NewService /\ DOMAIN s.commit = DOMAIN NoCommit /\ LinkOK(s)
  <2>1. Shaped(y) /\ LinkOK(y.svc)
    BY <1>1, CheckShape, CheckLink
  <2> HIDE DEF y
  <2>2. Shaped(RefreshFlags(y)) /\ LinkOK(RefreshFlags(y).svc)
    BY <2>1, CheckShape, RefreshLink
  <2>3. QED  BY <1>1, <2>2 DEF y, Shaped
<1> HIDE DEF s
<1>3. Shaped(z) /\ z.svc = s
  BY <1>1, <1>2 DEF Shaped, X
<1> HIDE DEF z
<1>4. LET t == ResetCommitUndo(z).svc
      IN DOMAIN t = DOMAIN NewService /\ DOMAIN t.commit = DOMAIN NoCommit /\ LinkOK(t)
  <2>1. Placed(z, ResetCommitUndo(z))
    BY <1>3, UndoFrame
  <2>2. QED  BY <1>2, <1>3, <2>1 DEF Placed, Linked, Shaped, LinkOK
<1>5. /\ DOMAIN svc' = DOMAIN NewService /\ DOMAIN svc'.commit = DOMAIN NoCommit
      /\ svc'.epoch \in Nat /\ (svc'.connected => exe.up) /\ (svc'.epoch > 0 => svc'.connected)
      /\ ~past.restarted =>
           /\ svc'.epoch <= exe.epoch
           /\ svc'.epoch = exe.epoch /\ svc'.connected /\ svc'.abi /\ exe.abi /\ Stable
                => svc'.config = Decoded(exe.config)
  <2>1. CASE ~svc.up
    BY <1>1, <2>1 DEF OnSetFocus, LinkOK
  <2>2. CASE svc.up
    <3>1. svc' = ResetCommitUndo(z).svc
      BY <2>2 DEF OnSetFocus, z, s
    <3>2. QED  BY <1>4, <3>1 DEF LinkOK
  <2>3. QED  BY <2>1, <2>2
<1>6. /\ exe'.epoch = exe.epoch /\ exe'.up = exe.up /\ exe'.abi = exe.abi
      /\ exe'.config = exe.config /\ DOMAIN exe' = DOMAIN exe
  BY DEF OnSetFocus, LinkInv, Shapes
<1>7. past'.restarted = past.restarted /\ DOMAIN past' = DOMAIN past /\ step' = NoKey
      /\ DOMAIN host' = DOMAIN host
  BY DEF OnSetFocus, Other, LinkInv, Shapes
<1>8. QED  BY <1>1, <1>5, <1>6, <1>7 DEF LinkInv, Shapes, Shaped, X, LinkOK, Stable, NoKey

LEMMA ActivateLink ==
  ASSUME LinkInv, Activate
  PROVE  LinkInv'
<1>1. /\ DOMAIN Constructed = DOMAIN NewService /\ DOMAIN Constructed.commit = DOMAIN NoCommit
      /\ LinkOK(Constructed)
  BY DEF LinkInv, Constructed, ApplySharedState, NewService, NoCommit, LinkOK, Stable
<1>2. QED  BY <1>1 DEF Activate, Other, NoKey, LinkInv, Shapes, Shaped, X, LinkOK, Stable

ExeStep == ExeFlag \/ ExeWriteBegin \/ ExeWriteEnd \/ ExeExit \/ ExeStart

LEMMA ExeLink ==
  ASSUME LinkInv, ExeStep
  PROVE  LinkInv'
<1>1. CASE ExeFlag
  BY <1>1 DEF ExeFlag, Other, NoKey, LinkInv, Shapes, Shaped, X, LinkOK, Stable
<1> DEFINE Later == /\ Shapes' /\ svc' = svc /\ step' = NoKey /\ exe'.up = exe.up
                    /\ exe'.epoch \in Nat /\ exe'.epoch > exe.epoch /\ exe.up
                    /\ past'.restarted = past.restarted
<1>2. Later => LinkInv'
  <2> SUFFICES ASSUME Later PROVE LinkInv'
    OBVIOUS
  <2>1. exe'.up \in BOOLEAN /\ exe'.up /\ exe'.epoch > 0
    BY DEF LinkInv
  <2>2. svc.epoch \in Nat /\ (svc.epoch < exe'.epoch \/ past'.restarted)
    BY DEF LinkInv, LinkOK
  <2>3. svc'.epoch \in Nat /\ (svc'.connected => exe'.up) /\ (svc'.epoch > 0 => svc'.connected)
    BY <2>1 DEF LinkInv, LinkOK
  <2>4. step'.what = "other"
    BY DEF NoKey
  <2>5. ~past'.restarted => svc'.epoch <= exe'.epoch /\ svc'.epoch # exe'.epoch
    BY <2>2 DEF LinkInv
  <2>6. QED  BY <2>1, <2>3, <2>4, <2>5 DEF LinkInv, LinkOK, Current, Stable
<1>3. /\ DOMAIN svc = DOMAIN NewService /\ DOMAIN svc.commit = DOMAIN NoCommit
      /\ DOMAIN host = {"doc", "caret", "comp", "sel", "ctx", "field", "fg"} /\ exe.epoch \in Nat
      /\ DOMAIN exe = {"up", "abi", "epoch", "enabled", "active", "viet", "tip", "config"}
      /\ DOMAIN past = {"keys", "events", "faults", "moved", "stale", "restarted", "asked"}
  BY DEF LinkInv, Shapes, Shaped, X
<1>4. CASE ExeWriteBegin
  <2>1. /\ DOMAIN exe' = DOMAIN exe /\ exe'.up = exe.up /\ exe'.epoch = exe.epoch + 1
        /\ DOMAIN past' = DOMAIN past /\ past'.restarted = past.restarted
    BY <1>3, <1>4 DEF ExeWriteBegin
  <2>2. svc' = svc /\ host' = host /\ step' = NoKey /\ exe.up
    BY <1>4 DEF ExeWriteBegin, Other
  <2>3. Shapes'
    BY <1>3, <2>1, <2>2 DEF Shapes, Shaped, X
  <2>4. QED  BY <1>2, <1>3, <2>1, <2>2, <2>3
<1>5. CASE ExeWriteEnd
  <2>1. exe.up
    <3>1. exe.epoch % 2 # 0
      BY <1>5 DEF ExeWriteEnd, Stable
    <3>2. exe.epoch # 0
      BY <1>3, <3>1
    <3>3. exe.up <=> exe.epoch > 0
      BY DEF LinkInv
    <3>4. QED  BY <1>3, <3>2, <3>3
  <2>2. PICK c \in Configs : exe' = [exe EXCEPT !.epoch = @ + 1, !.config = c]
    BY <1>5 DEF ExeWriteEnd
  <2>3. DOMAIN exe' = DOMAIN exe /\ exe'.up = exe.up /\ exe'.epoch = exe.epoch + 1
    BY <1>3, <2>2
  <2>4. svc' = svc /\ host' = host /\ step' = NoKey /\ past' = past
    BY <1>5 DEF ExeWriteEnd, Other
  <2>5. Shapes'
    BY <1>3, <2>3, <2>4 DEF Shapes, Shaped, X
  <2>6. QED  BY <1>2, <1>3, <2>1, <2>3, <2>4, <2>5
<1>6. CASE ExeExit
  <2>1. /\ DOMAIN exe' = DOMAIN exe /\ exe'.up = exe.up /\ exe'.epoch = exe.epoch + 2
        /\ DOMAIN past' = DOMAIN past /\ past'.restarted = past.restarted
    BY <1>3, <1>6 DEF ExeExit
  <2>2. svc' = svc /\ host' = host /\ step' = NoKey /\ exe.up
    BY <1>6 DEF ExeExit, Other
  <2>3. Shapes'
    BY <1>3, <2>1, <2>2 DEF Shapes, Shaped, X
  <2>4. QED  BY <1>2, <1>3, <2>1, <2>2, <2>3
<1>7. CASE ExeStart
  <2>1. PICK c \in Configs :
          exe' = [up |-> TRUE, abi |-> exe.abi, epoch |-> 2, enabled |-> TRUE, active |-> TRUE,
                  viet |-> TRUE, tip |-> FALSE, config |-> c]
    BY <1>7 DEF ExeStart
  <2>2. Shapes' /\ svc' = svc /\ step' = NoKey /\ past'.restarted = exe.up
    BY <1>3, <1>7, <2>1 DEF ExeStart, Other, Shapes, Shaped, X
  <2>3. exe'.up = TRUE /\ exe'.epoch = 2
    BY <2>1
  <2>4. ~past'.restarted => svc.epoch = 0
    BY <2>2 DEF LinkInv, LinkOK
  <2>5. LinkOK(svc)'
    BY <2>2, <2>3, <2>4 DEF LinkInv, LinkOK
  <2>6. step'.what = "other"
    BY <2>2 DEF NoKey
  <2>7. exe'.epoch \in Nat /\ exe'.epoch > 0
    BY <2>3
  <2>8. exe'.up \in BOOLEAN /\ exe'.up
    BY <2>3
  <2>9. QED  BY <2>2, <2>5, <2>6, <2>7, <2>8 DEF LinkInv, LinkOK, Current, Stable
<1>8. QED  BY <1>1, <1>4, <1>5, <1>6, <1>7 DEF ExeStep

LEMMA StutterLink ==
  ASSUME LinkInv, UNCHANGED vars
  PROVE  LinkInv'
BY DEF vars, LinkInv, Shapes, Shaped, X, LinkOK, Current, Stable

LEMMA InitLink == Init => LinkInv
<1> SUFFICES ASSUME Init PROVE LinkInv
  OBVIOUS
<1>1. PICK u \in BOOLEAN : \E a \in BOOLEAN, c \in Configs :
        exe = [up |-> u, abi |-> a, epoch |-> IF u THEN 2 ELSE 0, enabled |-> u, active |-> u,
               viet |-> u, tip |-> FALSE, config |-> c]
  BY DEF Init
<1>2. Shapes
  BY <1>1 DEF Init, Shapes, Shaped, X, NewService, NoCommit
<1>3. LinkOK(svc)
  <2>1. svc.epoch = 0 /\ ~svc.connected
    BY DEF Init, NewService
  <2>2. exe.epoch \in Nat
    BY <1>1
  <2>3. QED  BY <2>1, <2>2 DEF LinkOK
<1>4. step.what = "other"
  BY DEF Init, NoKey
<1>5. exe.epoch \in Nat /\ exe.up \in BOOLEAN /\ (exe.up <=> exe.epoch > 0)
  BY <1>1
<1>6. QED  BY <1>2, <1>3, <1>4, <1>5 DEF LinkInv

LEMMA NextCases ==
  ASSUME [Next]_vars
  PROVE  \/ \E k \in Keys : TestKey(k) \/ KeyDown(k)
         \/ HostStep \/ OnSetFocus \/ Activate \/ ExeStep \/ UNCHANGED vars
BY DEF Next, HostStep, ExeStep

LEMMA NextLink == LinkInv /\ [Next]_vars => LinkInv'
BY NextCases, KeyLink, HostLink, FocusLink, ActivateLink, ExeLink, StutterLink

LEMMA SpecLink == Spec => []LinkInv
BY InitLink, NextLink, PTL DEF Spec

\* A key is read under what the service makes of the configuration last
\* published, until the program was started again over the mapping it holds.
THEOREM ConfigAlwaysFollows == Spec => []ConfigFollows
<1>1. LinkInv => ConfigFollows
  BY DEF LinkInv, Current, ConfigFollows
<1>2. QED  BY <1>1, SpecLink, PTL

-----------------------------------------------------------------------------
(* The engine and the composition.                                          *)

\* A new engine holds no word, and Backspace makes none.
EmptyEngine ==
  /\ EngineFresh.states = <<>>
  /\ \A c, e : e.states = <<>> => EngineBackspace(c, e).states = <<>>

\* The service has a composition exactly when the application has.
Paired(x) ==
  /\ x.svc.composing \in BOOLEAN
  /\ IF x.svc.composing THEN DOMAIN x.host.comp = {1, 2} ELSE x.host.comp = <<>>

\* A word is held only in a composition.
Joint(x) == Paired(x) /\ (x.svc.eng.states # <<>> => x.svc.composing)

\* Neither the word nor the text is touched.
Light(x, y) ==
  /\ y.svc.eng = x.svc.eng /\ y.svc.composing = x.svc.composing /\ y.host = x.host

LEMMA LightJoint ==
  ASSUME NEW x, NEW y, Joint(x), Light(x, y)
  PROVE  Joint(y)
BY DEF Joint, Paired, Light

LEMMA LightTrans ==
  ASSUME NEW x, NEW y, NEW z, Light(x, y), Light(y, z)
  PROVE  Light(x, z)
BY DEF Light

LEMMA LightSelf == ASSUME NEW x PROVE Light(x, x)
BY DEF Light

LEMMA LightOps ==
  ASSUME NEW x, Shaped(x)
  PROVE  /\ Light(x, Eat(x)) /\ Light(x, Pass(x)) /\ Light(x, Uncached(x))
         /\ \A k, want : Light(x, Cache(x, k, want))
         /\ Light(x, ResetCommitUndo(x))
         /\ \A text, raw, trailing : Light(x, RecordCommitSnapshot(x, text, raw, trailing))
         /\ \A k : Light(x, OnNonRestoreKey(x, k))
         /\ \A g : Light(x, PrepareBackspaceRevive(x, g)) /\ Light(x, CheckContextBlocked(x, g))
         /\ \A v : Light(x, [x EXCEPT !.want = v]) /\ Light(x, [x EXCEPT !.eaten = v])
         /\ \A v : Light(x, [x EXCEPT !.svc.undo = v])
         /\ \A v : Light(x, [x EXCEPT !.svc.revive = v])
<1>1. /\ Light(x, Eat(x)) /\ Light(x, Pass(x)) /\ Light(x, Uncached(x))
      /\ \A k, want : Light(x, Cache(x, k, want))
  BY DEF Shaped, NewService, Light, Eat, Pass, Uncached, Cache
<1>2. Light(x, ResetCommitUndo(x))
  BY DEF Shaped, NewService, Light, ResetCommitUndo
<1>3. \A text, raw, trailing : Light(x, RecordCommitSnapshot(x, text, raw, trailing))
  BY <1>2 DEF Shaped, NewService, Light, RecordCommitSnapshot
<1>4. \A k : Light(x, OnNonRestoreKey(x, k))
  BY <1>2, LightSelf DEF OnNonRestoreKey
<1>5. \A g : Light(x, PrepareBackspaceRevive(x, g)) /\ Light(x, CheckContextBlocked(x, g))
  BY DEF Shaped, NewService, Light, PrepareBackspaceRevive, CheckContextBlocked
<1>6. /\ \A v : Light(x, [x EXCEPT !.want = v]) /\ Light(x, [x EXCEPT !.eaten = v])
      /\ \A v : Light(x, [x EXCEPT !.svc.undo = v])
      /\ \A v : Light(x, [x EXCEPT !.svc.revive = v])
  BY DEF Shaped, NewService, Light
<1>7. QED  BY <1>1, <1>2, <1>3, <1>4, <1>5, <1>6

LEMMA WantLight ==
  ASSUME NEW x, Shaped(x), NEW k
  PROVE  Light(x, WantKey(x, k))
<1> DEFINE on == x.svc.abi /\ x.svc.connected /\ exe.enabled
           s == IF on THEN [x.svc EXCEPT !.active = exe.active,
                                         !.viet = IF exe.active THEN exe.viet ELSE @]
                ELSE x.svc
           y == [x EXCEPT !.svc = s, !.want = FALSE]
<1>1. Light(x, y) /\ Shaped(y)
  BY DEF Shaped, NewService, Light
<1> HIDE DEF y
<1>2. \A v : Light(x, [y EXCEPT !.svc.digitLed = v]) /\ Light(x, [y EXCEPT !.want = v])
  BY <1>1 DEF Shaped, NewService, Light
<1>3. QED  BY <1>1, <1>2 DEF WantKey, y

LEMMA SetPaired ==
  ASSUME NEW x, Shaped(x), x.svc.composing = TRUE, NEW text
  PROVE  LET y == SetCompositionText(x, text)
         IN y.svc = x.svc /\ Paired(y) /\ Paired(EndComposition(y))
            /\ EndComposition(y).svc.eng = x.svc.eng
<1> DEFINE y == SetCompositionText(x, text)
<1>0. \A a, b : DOMAIN <<a, b>> = {1, 2}
  OBVIOUS
<1>1. y.svc = x.svc /\ DOMAIN y.host.comp = {1, 2} /\ Shaped(y)
  <2>1. Shaped(y)
    BY SetFrame, PlacedShaped
  <2>2. y.svc = x.svc
    BY DEF Shaped, SetCompositionText
  <2>3. y.host.comp = <<x.host.comp[1], x.host.comp[1] + Len(text)>>
    BY DEF Shaped, SetCompositionText, Replace
  <2>4. QED  BY <1>0, <2>1, <2>2, <2>3
<1> HIDE DEF y
<1>2. Paired(y) /\ Paired(EndComposition(y)) /\ EndComposition(y).svc.eng = y.svc.eng
  BY <1>1 DEF Paired, EndComposition, Shaped, NewService
<1>3. QED  BY <1>1, <1>2 DEF y

LEMMA StartPaired ==
  ASSUME NEW x, Shaped(x), NEW from, NEW text
  PROVE  LET s == StartComposition(x, from)
             y == SetCompositionText(s, text)
         IN Shaped(y) /\ Paired(y) /\ y.svc.composing = TRUE /\ y.svc.eng = x.svc.eng
<1> DEFINE s == StartComposition(x, from)
<1>1. Shaped(s) /\ s.svc.composing = TRUE /\ s.svc.eng = x.svc.eng
  BY DEF Shaped, NewService, StartComposition
<1> HIDE DEF s
<1>2. QED  BY <1>1, SetPaired, SetFrame, PlacedShaped DEF s

LEMMA SessionsPaired ==
  ASSUME NEW x, Shaped(x), Paired(x), NEW g, NEW text
  PROVE  /\ LET y == StartSession(x, g, text)
            IN Paired(y) /\ y.svc.eng = x.svc.eng /\ (x.svc.composing => y.svc.composing)
         /\ LET y == UpdateSession(x, g, text)
            IN Paired(y) /\ y.svc.eng = x.svc.eng /\ (x.svc.composing => y.svc.composing)
         /\ LET y == CommitSession(x, g, text)
            IN Paired(y) /\ y.svc.eng = x.svc.eng
<1>1. LET y == StartSession(x, g, text)
      IN Paired(y) /\ y.svc.eng = x.svc.eng /\ (x.svc.composing => y.svc.composing)
  BY StartPaired DEF StartSession
<1>2. x.svc.composing => x.svc.composing = TRUE
  BY DEF Paired
<1>3. x.svc.composing =>
        LET y == SetCompositionText(x, text)
        IN y.svc = x.svc /\ Paired(y) /\ Paired(EndComposition(y))
           /\ EndComposition(y).svc.eng = x.svc.eng
  BY <1>2, SetPaired
<1>4. QED  BY <1>1, <1>3 DEF UpdateSession, CommitSession

LEMMA ReviveJoint ==
  ASSUME NEW x, Shaped(x), Joint(x), NEW g, NEW word, NEW engine
  PROVE  Joint(ReviveSession(x, g, word, engine))
<1> DEFINE over == SetCompositionText(
             StartComposition(x, x.host.caret - Len(word)), ComposeAll(engine.states))
           done == [over EXCEPT !.svc.eng = engine]
<1>1. Shaped(over) /\ Paired(over) /\ over.svc.composing = TRUE
  BY StartPaired
<1> HIDE DEF over
<1>2. Joint(done) /\ (engine.states = <<>> => Joint(EndComposition(done)))
  BY <1>1 DEF Joint, Paired, Shaped, NewService, EndComposition
<1>3. QED  BY <1>2 DEF ReviveSession, over

LEMMA CommitJoint ==
  ASSUME EmptyEngine, NEW x, Shaped(x), Joint(x), NEW g, NEW text, NEW trailing
  PROVE  /\ LET y == CommitAs(x, g, text, trailing) IN Joint(y) /\ y.svc.eng = EngineFresh
         /\ LET y == CommitThe(x, g, text) IN Joint(y) /\ y.svc.eng = EngineFresh
         /\ LET y == Commit(x, g) IN Joint(y) /\ y.svc.eng = EngineFresh
         /\ LET y == CommitWithChar(x, g, text) IN Joint(y) /\ y.svc.eng = EngineFresh
         /\ LET y == CommitRawAndEnd(x, g) IN Joint(y) /\ y.svc.eng = EngineFresh
<1>1. ASSUME NEW t
      PROVE  LET y == [CommitSession(x, g, t)
                         EXCEPT !.svc.eng = EngineFresh, !.svc.digitLed = FALSE]
             IN Joint(y) /\ y.svc.eng = EngineFresh /\ Shaped(y)
  <2> DEFINE s == CommitSession(x, g, t)
  <2>1. Paired(s) /\ Shaped(s)
    BY SessionsPaired, SessionFrames, PlacedShaped DEF Joint
  <2> HIDE DEF s
  <2>2. QED  BY <2>1 DEF Joint, Paired, Shaped, NewService, EmptyEngine, s
<1>2. ASSUME NEW t, NEW u
      PROVE  LET y == CommitAs(x, g, t, u) IN Joint(y) /\ y.svc.eng = EngineFresh
  <2> DEFINE y == [CommitSession(x, g, t) EXCEPT !.svc.eng = EngineFresh, !.svc.digitLed = FALSE]
  <2>1. Joint(y) /\ y.svc.eng = EngineFresh /\ Shaped(y)
    BY <1>1
  <2> HIDE DEF y
  <2>2. Light(y, RecordCommitSnapshot(y, t, PeekRaw(x), u))
    BY <2>1, LightOps
  <2>3. QED  BY <2>1, <2>2, LightJoint DEF Light, CommitAs, y
<1>3. QED  BY <1>1, <1>2 DEF CommitThe, Commit, CommitWithChar, CommitRawAndEnd

LEMMA RestoreJoint ==
  ASSUME NEW x, Shaped(x), Joint(x), NEW g
  PROVE  LET y == TryRestoreLastCommitRaw(x, g) IN Joint(y) /\ y.svc.eng = x.svc.eng
                                                 /\ y.svc.composing = x.svc.composing
<1> DEFINE y == RestoreSession(x, g, Len(x.svc.commit.text) - 1, x.svc.commit.raw)
<1>1. Joint(y) /\ Shaped(y) /\ y.svc = x.svc
  BY DEF Joint, Paired, Shaped, NewService, RestoreSession, Replace
<1> HIDE DEF y
<1>2. Light(y, ResetCommitUndo(y))
  BY <1>1, LightOps
<1>3. QED  BY <1>1, <1>2, LightJoint DEF Light, TryRestoreLastCommitRaw, y

LEMMA RecoverJoint ==
  ASSUME EmptyEngine, NEW x, Shaped(x), Joint(x), NEW g
  PROVE  Joint(Recover(x, g))
<1>1. x.svc.composing \/ ~Buffered(x)
  BY DEF Joint, Buffered
<1>2. QED  BY <1>1, CommitJoint DEF Recover

LEMMA AnswerJoint ==
  ASSUME EmptyEngine, NEW x, Shaped(x), Joint(x), NEW k, NEW g
  PROVE  Joint(Answer(x, k, g))
<1>1. ASSUME NEW v PROVE Joint(Cache(x, k, v)) /\ Shaped(Cache(x, k, v))
  BY CacheFrame, PlacedShaped, LightOps, LightJoint
<1>2. Joint(Pass(Commit(Cache(x, k, FALSE), g)))
  <2> DEFINE c == Cache(x, k, FALSE)
  <2>1. Joint(c) /\ Shaped(c)
    BY <1>1
  <2> HIDE DEF c
  <2>2. Joint(Commit(c, g)) /\ Shaped(Commit(c, g))
    BY <2>1, CommitJoint, CommitFrame, PlacedShaped
  <2>3. QED  BY <2>2, LightOps, LightJoint DEF c
<1>3. Joint([Cache(x, k, x.want) EXCEPT !.eaten = x.want])
  <2> DEFINE c == Cache(x, k, x.want)
  <2>1. Joint(c) /\ Shaped(c)
    BY <1>1
  <2> HIDE DEF c
  <2>2. Light(c, [c EXCEPT !.eaten = x.want])
    BY <2>1, LightOps
  <2>3. QED  BY <2>1, <2>2, LightJoint DEF c
<1>4. QED  BY <1>2, <1>3 DEF Answer

LEMMA TestWantedJoint ==
  ASSUME EmptyEngine, NEW w, Shaped(w), Joint(w), NEW k, NEW g
  PROVE  Joint(TestWanted(w, k, g))
<1>1. ASSUME NEW v PROVE Joint([w EXCEPT !.want = v]) /\ Shaped([w EXCEPT !.want = v])
  <2>1. Light(w, [w EXCEPT !.want = v])
    BY LightOps
  <2>2. QED  BY <2>1, LightJoint DEF Shaped
<1>2. ASSUME NEW want PROVE Joint(TestErase(w, g, want)) /\ Shaped(TestErase(w, g, want))
  <2> DEFINE u == IF w.svc.undo = "Primed" THEN ResetCommitUndo(w) ELSE w
  <2>1. Joint(u) /\ Shaped(u)
    BY UndoFrame, PlacedShaped, LightOps, LightJoint
  <2> HIDE DEF u
  <2>2. Shaped([u EXCEPT !.want = TRUE]) /\ Shaped(PrepareBackspaceRevive(u, g))
    BY <2>1, PrepareFrame, PlacedShaped DEF Shaped
  <2>3. Light(u, [u EXCEPT !.want = TRUE]) /\ Light(u, PrepareBackspaceRevive(u, g))
    BY <2>1, LightOps
  <2>4. QED  BY <2>1, <2>2, <2>3, LightJoint DEF u, TestErase
<1>3. Joint(Cache(Pass([w EXCEPT !.svc.undo = "Primed"]), k, FALSE))
  <2> DEFINE p == [w EXCEPT !.svc.undo = "Primed"]
  <2>1. Light(w, p) /\ Shaped(p)
    BY LightOps DEF Shaped, NewService
  <2> HIDE DEF p
  <2>2. Light(p, Pass(p)) /\ Shaped(Pass(p))
    BY <2>1, LightOps, EatFrame, PlacedShaped
  <2>3. Light(Pass(p), Cache(Pass(p), k, FALSE))
    BY <2>2, LightOps
  <2>4. QED  BY <2>1, <2>2, <2>3, LightJoint, LightTrans DEF p
<1>4. ASSUME NEW y, Joint(y), Shaped(y) PROVE Joint(Answer(y, k, g))
  BY <1>4, AnswerJoint
<1>5. QED  BY <1>1, <1>2, <1>3, <1>4 DEF TestWanted

LEMMA EatJoint ==
  ASSUME NEW x, Shaped(x), Joint(x)
  PROVE  Joint(Eat(x)) /\ Joint(Pass(x)) /\ Joint(Uncached(x))
         /\ \A k, want : Joint(Cache(x, k, want))
BY LightOps, LightJoint

LEMMA TestRecoveredJoint ==
  ASSUME EmptyEngine, NEW y, Shaped(y), Joint(y), NEW k, NEW g
  PROVE  Joint(TestRecovered(y, k, g))
<1>1. /\ Joint(Commit(y, g)) /\ Shaped(Commit(y, g))
      /\ Joint(CommitRawAndEnd(y, g)) /\ Shaped(CommitRawAndEnd(y, g))
      /\ Joint(TryRestoreLastCommitRaw(y, g)) /\ Shaped(TryRestoreLastCommitRaw(y, g))
  BY CommitJoint, CommitFrame, RestoreJoint, RestoreFrame, PlacedShaped
<1>2. /\ Joint(Pass(IF Buffered(y) THEN Commit(y, g) ELSE y))
      /\ Joint(Eat(CommitRawAndEnd(y, g))) /\ Joint(Eat(TryRestoreLastCommitRaw(y, g)))
  BY <1>1, EatJoint
<1>3. Joint(Cache(Eat(y), k, TRUE))
  <2>1. Joint(Eat(y)) /\ Shaped(Eat(y))
    BY EatJoint, EatFrame, PlacedShaped
  <2>2. QED  BY <2>1, EatJoint
<1>4. Joint(TestWanted(WantKey(y, k), k, g))
  <2>1. Joint(WantKey(y, k)) /\ Shaped(WantKey(y, k))
    BY WantLight, WantFrame, PlacedShaped, LightJoint
  <2>2. QED  BY <2>1, TestWantedJoint
<1>5. QED  BY <1>2, <1>3, <1>4 DEF TestRecovered

LEMMA TestUnblockedJoint ==
  ASSUME EmptyEngine, NEW x, Shaped(x), Joint(x), NEW k, NEW g
  PROVE  Joint(TestUnblocked(x, k, g))
<1>1. Joint(Cache(Pass(Commit(x, g)), k, FALSE))
  <2>1. Joint(Commit(x, g)) /\ Shaped(Commit(x, g))
    BY CommitJoint, CommitFrame, PlacedShaped
  <2>2. Joint(Pass(Commit(x, g))) /\ Shaped(Pass(Commit(x, g)))
    BY <2>1, EatJoint, EatFrame, PlacedShaped
  <2>3. QED  BY <2>2, EatJoint
<1> DEFINE y == OnNonRestoreKey(x, k)
<1>2. Joint(y) /\ Shaped(y)
  BY LightOps, LightJoint, UndoFrame, PlacedShaped DEF OnNonRestoreKey
<1> HIDE DEF y
<1>3. Joint(Recover(y, g)) /\ Shaped(Recover(y, g))
  BY <1>2, RecoverJoint, RecoverFrame, PlacedShaped
<1>4. Joint(TestRecovered(Recover(y, g), k, g))
  BY <1>3, TestRecoveredJoint
<1>5. QED  BY <1>1, <1>4 DEF TestUnblocked, y

LEMMA TestJoint ==
  ASSUME EmptyEngine, NEW x, Shaped(x), Joint(x), NEW k, NEW g
  PROVE  Joint(TestOf(x, k, g))
<1> DEFINE y == CheckContextBlocked(x, g)
<1>1. Joint(y) /\ Shaped(y)
  BY LightOps, LightJoint, ContextFrame DEF Linked
<1> HIDE DEF y
<1>2. Joint(Pass(y)) /\ Joint(TestUnblocked(y, k, g))
  BY <1>1, EatJoint, TestUnblockedJoint
<1>3. QED  BY <1>2 DEF TestOf, y

\* A word over a composition, after the session that shows or ends it.
LEMMA ShownJoint ==
  ASSUME NEW x, Shaped(x), Paired(x), x.svc.composing, NEW g, NEW text
  PROVE  Joint(UpdateSession(x, g, text))
BY SessionsPaired DEF Joint

LEMMA BackspaceJoint ==
  ASSUME EmptyEngine, NEW x, Shaped(x), Joint(x), NEW g
  PROVE  Joint(ProcessBackspace(x, g))
<1> DEFINE y == [x EXCEPT !.svc.eng = EngineBackspace(x.svc.config, @)]
<1>1. /\ Shaped(y) /\ Paired(y) /\ y.svc.composing = x.svc.composing
      /\ y.svc.eng = EngineBackspace(x.svc.config, x.svc.eng)
  BY DEF Shaped, NewService, Joint, Paired
<1>2. y.svc.eng.states # <<>> => y.svc.composing
  BY <1>1 DEF EmptyEngine, Joint
<1> HIDE DEF y
<1>3. Buffered(y) => Joint(Shown(y, g))
  BY <1>1, <1>2, ShownJoint DEF Buffered, Shown
<1>4. ~Buffered(y) => Joint(CommitSession(y, g, <<>>))
  <2>1. Paired(CommitSession(y, g, <<>>)) /\ CommitSession(y, g, <<>>).svc.eng = y.svc.eng
    BY <1>1, SessionsPaired
  <2>2. QED  BY <2>1 DEF Buffered, Joint
<1>5. QED  BY <1>3, <1>4 DEF ProcessBackspace, y

LEMMA StartWithJoint ==
  ASSUME EmptyEngine, NEW y, Shaped(y), Paired(y), NEW g
  PROVE  Joint(StartWith(y, g))
<1> DEFINE s == StartSession(y, g, Peek(y))
<1>1. Shaped(s) /\ Paired(s)
  BY SessionFrames, SessionsPaired, PlacedShaped
<1> HIDE DEF s
<1>2. s.svc.composing => Joint(Eat(s))
  BY <1>1, EatJoint DEF Joint
<1>3. Joint(Pass([s EXCEPT !.svc.eng = EngineFresh]))
  <2> DEFINE z == [s EXCEPT !.svc.eng = EngineFresh]
  <2>1. Joint(z) /\ Shaped(z)
    BY <1>1 DEF Joint, Paired, Shaped, NewService, EmptyEngine
  <2> HIDE DEF z
  <2>2. QED  BY <2>1, EatJoint DEF z
<1>4. QED  BY <1>2, <1>3 DEF StartWith, s

LEMMA LettersAreNoDigits == Letters \cap Digits = {}
BY DEF Letters, Digits

LEMMA ComposeJoint ==
  ASSUME EmptyEngine, NEW x, Shaped(x), Joint(x), NEW g, NEW word, NEW k, NEW engine,
         k \in Letters \/ x.svc.composing
  PROVE  Joint(ComposeWith(x, g, word, k, engine))
<1> DEFINE y == [x EXCEPT !.svc.eng = engine]
<1>1. Shaped(y) /\ Paired(y) /\ y.svc.composing = x.svc.composing
  BY DEF Shaped, NewService, Joint, Paired
<1>2. Joint(Eat(ReviveSession(x, g, word, engine)))
  BY ReviveJoint, ReviveFrame, PlacedShaped, EatJoint
<1> HIDE DEF y
<1>3. x.svc.composing => Joint(Eat(Shown(y, g)))
  <2>1. Shaped(Shown(y, g))
    BY <1>1, SessionFrames, PlacedShaped DEF Shown
  <2>2. x.svc.composing => Joint(Shown(y, g))
    BY <1>1, ShownJoint DEF Shown
  <2>3. QED  BY <2>1, <2>2, EatJoint
<1>4. Joint(StartWith(y, g))
  BY <1>1, StartWithJoint
<1>5. CASE word # <<>>
  BY <1>2, <1>5 DEF ComposeWith
<1>6. CASE word = <<>> /\ x.svc.composing
  BY <1>3, <1>6 DEF ComposeWith, y
<1>7. CASE word = <<>> /\ ~x.svc.composing
  <2>1. k \notin Digits
    BY <1>7, LettersAreNoDigits
  <2>2. QED  BY <1>4, <1>7, <2>1 DEF ComposeWith, y
<1>8. QED  BY <1>5, <1>6, <1>7

LEMMA HandleJoint ==
  ASSUME EmptyEngine, NEW x, Shaped(x), Joint(x), NEW k, NEW g
  PROVE  Joint(HandleKey(x, k, g))
<1>1. ASSUME NEW word, NEW engine
      PROVE  Joint(Eat([ReviveSession(x, g, word, engine) EXCEPT !.svc.revive = <<>>]))
  <2> DEFINE r == ReviveSession(x, g, word, engine)
             z == [r EXCEPT !.svc.revive = <<>>]
  <2>1. Joint(r) /\ Shaped(r)
    BY ReviveJoint, ReviveFrame, PlacedShaped
  <2> HIDE DEF r
  <2>2. Light(r, z) /\ Shaped(z)
    BY <2>1, LightOps DEF Shaped, NewService
  <2> HIDE DEF z
  <2>3. Joint(z)
    BY <2>1, <2>2, LightJoint
  <2>4. QED  BY <2>2, <2>3, EatJoint DEF z, r
<1>2. Joint(Eat(ProcessBackspace(x, g)))
  BY BackspaceJoint, BackspaceFrame, PlacedShaped, EatJoint
<1>3. Joint(Eat(CommitWithChar(x, g, k)))
  BY CommitJoint, CommitFrame, PlacedShaped, EatJoint
<1>4. k \in Letters \/ (IsEngineDigitKey(x, k) /\ Buffered(x)) => Joint(HandleLetter(x, k, g))
  BY ComposeJoint DEF Joint, Buffered, HandleLetter, ComposeBehind
<1>5. QED  BY <1>1, <1>2, <1>3, <1>4, EatJoint DEF HandleKey

LEMMA KeyWantedJoint ==
  ASSUME EmptyEngine, NEW w, Shaped(w), Joint(w), NEW k, NEW g, NEW want
  PROVE  Joint(KeyWanted(w, k, g, want))
<1>1. Joint(Pass(Commit(w, g)))
  BY CommitJoint, CommitFrame, PlacedShaped, EatJoint
<1>2. QED  BY <1>1, EatJoint, HandleJoint DEF KeyWanted

LEMMA KeyDownJoint ==
  ASSUME EmptyEngine, NEW x, Shaped(x), Joint(x), NEW k, NEW g
  PROVE  Joint(KeyDownOf(x, k, g))
<1>1. /\ Joint(Pass(x))
      /\ Joint(Eat(CommitRawAndEnd(x, g))) /\ Joint(Eat(TryRestoreLastCommitRaw(x, g)))
  BY CommitJoint, CommitFrame, RestoreJoint, RestoreFrame, PlacedShaped, EatJoint
<1>2. ASSUME NEW z, Shaped(z), Joint(z)
      PROVE  Joint(Pass(Uncached(z))) /\ Joint(Eat(Uncached(z)))
  <2>1. Joint(Uncached(z)) /\ Shaped(Uncached(z))
    BY <1>2, EatJoint, CacheFrame, PlacedShaped
  <2>2. QED  BY <2>1, EatJoint
<1>3. Joint(Pass(Uncached(Commit(x, g)))) /\ Joint(Eat(Uncached(CommitWithChar(x, g, k))))
  BY <1>2, CommitJoint, CommitFrame, PlacedShaped
<1> DEFINE tested == x.svc.tested = k
           w == IF tested THEN [x EXCEPT !.want = x.svc.wanted] ELSE WantKey(x, k)
<1>4. Joint(w) /\ Shaped(w)
  <2>1. Light(x, [x EXCEPT !.want = x.svc.wanted]) /\ Shaped([x EXCEPT !.want = x.svc.wanted])
    BY LightOps DEF Shaped
  <2>2. QED  BY <2>1, WantLight, WantFrame, PlacedShaped, LightJoint
<1> HIDE DEF w
<1>5. Joint(Uncached(w)) /\ Shaped(Uncached(w))
  BY <1>4, EatJoint, CacheFrame, PlacedShaped
<1>6. ASSUME NEW want PROVE Joint(KeyWanted(Uncached(w), k, g, want))
  BY <1>5, KeyWantedJoint
<1>7. QED  BY <1>1, <1>3, <1>6 DEF KeyDownOf, w

-----------------------------------------------------------------------------
(* Password fields.                                                         *)

Idle == svc.eng.states = <<>> /\ ~svc.composing

\* The answer kept is that for the field in which the context was asked, and in
\* a password field nothing is composed or expected, unless it was asked in
\* another one.
Guarded ==
  app /= "chromium" /\ past.faults = 0 =>
    /\ svc.ctx # "" => svc.blocked = (past.asked = "password")
    /\ host.field = "password" /\ (host.ctx = svc.ctx => past.asked = "password")
         => Idle /\ key = ""

WordInv ==
  /\ Joint(X)
  /\ svc.composing => svc.up
  /\ ~svc.up => key = ""
  /\ past.faults \in Nat
  /\ host.ctx # ""
  /\ Guarded

\* A new configuration may take the word, nothing else.
LEMMA CheckKeeps ==
  ASSUME NEW x, Shaped(x)
  PROVE  LET y == CheckConfigEvent(x)
             z == RefreshFlags(x)
         IN /\ y.svc.eng \in {x.svc.eng, EngineFresh} /\ z.svc.eng \in {x.svc.eng, EngineFresh}
            /\ y.svc.composing = x.svc.composing /\ z.svc.composing = x.svc.composing
            /\ y.svc.ctx = x.svc.ctx /\ z.svc.ctx = x.svc.ctx
            /\ y.svc.blocked = x.svc.blocked /\ z.svc.blocked = x.svc.blocked
            /\ y.svc.up = x.svc.up /\ z.svc.up = x.svc.up
            /\ y.host = x.host /\ z.host = x.host
BY DEF Shaped, NewService, CheckConfigEvent, RefreshFlags, ApplySharedState

LEMMA CheckJoint ==
  ASSUME EmptyEngine, NEW x, Shaped(x), Joint(x)
  PROVE  Joint(CheckConfigEvent(x))
BY CheckKeeps DEF Joint, Paired, EmptyEngine

LEMMA AppKeyJoint ==
  ASSUME NEW x, Shaped(x), Joint(x), NEW k, NEW h, h \in {x.host, AppKey(x.host, k)}
  PROVE  LET z == [svc |-> x.svc, host |-> h, eaten |-> FALSE, want |-> FALSE] IN Joint(z)
<1>1. DOMAIN AppKey(x.host, k).comp = DOMAIN x.host.comp
  BY DEF AppKey, Replace, Shaped
<1>2. x.host.comp = <<>> => AppKey(x.host, k).comp = <<>>
  BY DEF AppKey, Replace, Shaped
<1>3. QED  BY <1>1, <1>2 DEF Joint, Paired

\* The answer kept for this context is that for the field f.
AnswerFor(x, f) == x.host.ctx = x.svc.ctx => x.svc.blocked = (f = "password")

\* z has the answer for this context, and leaves a blocked one alone.
VerdictKept(x, z, f) ==
  LET now == IF z.svc.ctx = x.svc.ctx THEN f ELSE x.host.field
  IN /\ z.svc.ctx = x.host.ctx /\ z.svc.blocked = (now = "password")
     /\ now = "password" => /\ z.svc.eng = x.svc.eng /\ ~z.eaten
                            /\ z.svc.composing = x.svc.composing

LEMMA TestGuards ==
  ASSUME NEW x, Shaped(x), NEW k, NEW g, g = "granted", NEW f, AnswerFor(x, f)
  PROVE  VerdictKept(x, TestOf(x, k, g), f)
<1> DEFINE y == CheckContextBlocked(x, g)
           now == IF x.host.ctx = x.svc.ctx THEN f ELSE x.host.field
<1>1. Shaped(y) /\ Light(x, y)
  BY ContextFrame, LightOps DEF Linked
<1>2. y.svc.ctx = x.host.ctx /\ y.svc.blocked = (now = "password")
  BY <1>1 DEF Shaped, NewService, CheckContextBlocked, BlockedScope, AnswerFor
<1> HIDE DEF y
<1>3. Light(y, Pass(y)) /\ Placed(y, Pass(y)) /\ ~Pass(y).eaten
  BY <1>1, LightOps, EatFrame DEF Pass, Shaped
<1>4. Placed(y, TestUnblocked(y, k, g))
  BY <1>1, TestUnblockedFrame
<1>5. Placed(y, TestOf(x, k, g))
  BY <1>3, <1>4 DEF TestOf, y
<1>6. now = "password" => TestOf(x, k, g) = Pass(y)
  BY <1>2 DEF TestOf, y
<1>7. QED  BY <1>1, <1>2, <1>3, <1>5, <1>6 DEF Light, Placed, VerdictKept

LEMMA AfterWord ==
  ASSUME EmptyEngine, LinkInv, WordInv, NEW k, NEW g, NEW what, NEW x, Joint(x), svc.up,
         Linked(CheckConfigEvent(X), x), After(x, what, k, g)
  PROVE  /\ Joint(X)' /\ (svc.composing => svc.up)' /\ svc'.up /\ past'.faults \in Nat
         /\ past'.faults = 0 => past.faults = 0 /\ g = "granted"
         /\ host'.ctx = host.ctx /\ host'.field = host.field /\ svc' = x.svc /\ app' = app
         /\ past'.asked = IF x.svc.ctx = svc.ctx THEN past.asked ELSE host.field
<1>1. Shaped(x) /\ x.host.ctx = host.ctx /\ x.host.field = host.field /\ x.svc.up
  BY CheckKeeps, CheckShape DEF LinkInv, Shapes, Linked, X
<1>2. svc' = x.svc /\ app' = app /\ host' \in {x.host, AppKey(x.host, k)}
  BY DEF After
<1>3. Joint(X)'
  BY <1>1, <1>2, AppKeyJoint DEF X
<1>4. host'.ctx = host.ctx /\ host'.field = host.field
  BY <1>1, <1>2, AppKeyShape DEF Shaped
<1>5. /\ past'.faults = IF g = "granted" THEN past.faults ELSE past.faults + 1
      /\ past'.asked = IF x.svc.ctx = svc.ctx THEN past.asked ELSE host.field
  BY DEF After, LinkInv, Shapes
<1>6. past'.faults \in Nat /\ (past'.faults = 0 => past.faults = 0 /\ g = "granted")
  <2>1. past.faults \in Nat
    BY DEF WordInv
  <2>2. past'.faults = past.faults + 1 \/ (g = "granted" /\ past'.faults = past.faults)
    BY <1>5
  <2>3. QED  BY <2>1, <2>2
<1>7. (svc.composing => svc.up)' /\ svc'.up
  BY <1>1, <1>2
<1>8. QED  BY <1>2, <1>3, <1>4, <1>5, <1>6, <1>7

LEMMA KeyWord ==
  ASSUME EmptyEngine, LinkInv, WordInv, NEW k \in Keys, TestKey(k) \/ KeyDown(k)
  PROVE  WordInv'
<1> DEFINE y == CheckConfigEvent(X)
<1>1. Shaped(y) /\ Joint(y)
  BY CheckShape, CheckJoint DEF LinkInv, Shapes, WordInv
<1>2. /\ y.svc.eng \in {svc.eng, EngineFresh} /\ y.svc.composing = svc.composing
      /\ y.svc.ctx = svc.ctx /\ y.svc.blocked = svc.blocked /\ y.host = host
  BY CheckKeeps DEF LinkInv, Shapes, X
<1> HIDE DEF y
<1>3. PICK g \in Grants :
           \/ /\ svc.up /\ host.fg /\ key = "" /\ app /= "chromium"
              /\ After(TestOf(y, k, g), "test", k, g)
           \/ /\ svc.up /\ host.fg /\ (key = k \/ app = "chromium")
              /\ After(KeyDownOf(y, k, g), "down", k, g)
  BY KeyStep DEF y
<1>4. CASE /\ svc.up /\ host.fg /\ key = "" /\ app /= "chromium"
           /\ After(TestOf(y, k, g), "test", k, g)
  <2> DEFINE z == TestOf(y, k, g)
  <2>1. Joint(z) /\ Linked(y, z)
    BY <1>1, TestJoint, TestFrame
  <2> DEFINE now == IF z.svc.ctx = svc.ctx THEN past.asked ELSE host.field
  <2>2. g = "granted" /\ (host.ctx = svc.ctx => svc.blocked = (past.asked = "password"))
        => /\ z.svc.ctx = host.ctx /\ z.svc.blocked = (now = "password")
           /\ now = "password" => /\ z.svc.eng = y.svc.eng /\ ~z.eaten
                                  /\ z.svc.composing = y.svc.composing
    <3> SUFFICES ASSUME g = "granted",
                        host.ctx = svc.ctx => svc.blocked = (past.asked = "password")
                 PROVE  /\ z.svc.ctx = host.ctx /\ z.svc.blocked = (now = "password")
                        /\ now = "password" => /\ z.svc.eng = y.svc.eng /\ ~z.eaten
                                               /\ z.svc.composing = y.svc.composing
      OBVIOUS
    <3>1. y.host.ctx = y.svc.ctx => y.svc.blocked = (past.asked = "password")
      BY <1>2
    <3>2. now = IF z.svc.ctx = y.svc.ctx THEN past.asked ELSE y.host.field
      BY <1>2
    <3>3. AnswerFor(y, past.asked)
      BY <3>1 DEF AnswerFor
    <3>4. VerdictKept(y, z, past.asked)
      BY <1>1, <3>3, TestGuards
    <3> HIDE DEF z
    <3>5. QED  BY <1>2, <3>2, <3>4 DEF VerdictKept
  <2> HIDE DEF z
  <2>3. After(z, "test", k, g)
    BY <1>4 DEF z
  <2>4. /\ Joint(X)' /\ (svc.composing => svc.up)' /\ svc'.up /\ past'.faults \in Nat
        /\ past'.faults = 0 => past.faults = 0 /\ g = "granted"
        /\ host'.ctx = host.ctx /\ host'.field = host.field /\ svc' = z.svc /\ app' = app
        /\ past'.asked = now
    BY <1>4, <2>1, <2>3, AfterWord DEF y
  <2>5. key' = IF z.eaten THEN k ELSE ""
    BY <2>3 DEF After
  <2> HIDE DEF now
  <2>6. Guarded'
    <3> SUFFICES ASSUME app' /= "chromium", past'.faults = 0
                 PROVE  /\ svc'.ctx # "" => svc'.blocked = (past'.asked = "password")
                        /\ host'.field = "password" /\ past'.asked = "password"
                             => Idle' /\ key' = ""
                        /\ svc'.ctx = host'.ctx
      BY DEF Guarded
    <3>1. /\ host.ctx = svc.ctx => svc.blocked = (past.asked = "password")
          /\ g = "granted"
      BY <2>4 DEF Guarded, WordInv
    <3>2. host.field = "password" /\ now = "password" => Idle
      BY <1>4, <2>2, <2>4, <3>1 DEF Guarded, WordInv, now
    <3>3. ASSUME host.field = "password", now = "password"
          PROVE  Idle' /\ key' = ""
      <4>1. Idle /\ z.svc.eng = y.svc.eng /\ ~z.eaten /\ z.svc.composing = y.svc.composing
        BY <2>2, <2>4, <3>1, <3>2, <3>3
      <4>2. svc'.eng \in {svc.eng, EngineFresh} /\ svc'.composing = svc.composing
        BY <1>2, <2>4, <4>1
      <4>3. QED  BY <2>5, <4>1, <4>2 DEF Idle, EmptyEngine
    <3>4. QED  BY <2>2, <2>4, <3>1, <3>3
  <2>7. QED  BY <2>4, <2>6 DEF WordInv
<1>5. CASE /\ svc.up /\ host.fg /\ (key = k \/ app = "chromium")
           /\ After(KeyDownOf(y, k, g), "down", k, g)
  <2> DEFINE z == KeyDownOf(y, k, g)
  <2>1. Joint(z) /\ Placed(y, z) /\ Linked(y, z)
    BY <1>1, KeyDownJoint, KeyDownFrame DEF Placed
  <2> HIDE DEF z
  <2>2. After(z, "down", k, g)
    BY <1>5 DEF z
  <2>3. /\ Joint(X)' /\ (svc.composing => svc.up)' /\ svc'.up /\ past'.faults \in Nat
        /\ past'.faults = 0 => past.faults = 0 /\ g = "granted"
        /\ host'.ctx = host.ctx /\ host'.field = host.field /\ svc' = z.svc /\ app' = app
        /\ past'.asked = IF z.svc.ctx = svc.ctx THEN past.asked ELSE host.field
    BY <1>5, <2>1, <2>2, AfterWord DEF y
  <2>4. k # ""
    BY KeysAssumption
  <2>5. Guarded'
    BY <1>2, <1>5, <2>1, <2>3, <2>4 DEF Guarded, WordInv, Placed
  <2>6. QED  BY <2>3, <2>5 DEF WordInv
<1>6. QED  BY <1>3, <1>4, <1>5

LEMMA NoPlaces == DOMAIN <<>> = {}
OBVIOUS

\* The caret leaves the word: the composition ends with it.
LEMMA EndedWord ==
  ASSUME EmptyEngine, LinkInv, WordInv, svc' = Ended(svc), host'.comp = <<>>, host'.ctx # "",
         key' = "", app' = app, past'.faults = past.faults, past'.asked = past.asked
  PROVE  WordInv'
<1>1. DOMAIN svc = DOMAIN NewService /\ DOMAIN <<>> = {}
  BY NoPlaces DEF LinkInv, Shapes, Shaped, X
<1>2. /\ svc.composing \in BOOLEAN
      /\ IF svc.composing THEN DOMAIN host.comp = {1, 2} ELSE host.comp = <<>>
      /\ svc.eng.states # <<>> => svc.composing
  BY DEF WordInv, Joint, Paired, X
<1>3. host.comp = <<>> => ~svc.composing /\ svc.eng.states = <<>>
  BY <1>1, <1>2
<1>4. /\ svc'.composing = FALSE /\ svc'.eng.states = <<>>
      /\ svc'.ctx = svc.ctx /\ svc'.blocked = svc.blocked
  BY <1>1, <1>2, <1>3 DEF Ended, Terminated, NewService, EmptyEngine
<1>5. Joint(X)'
  BY <1>4 DEF Joint, Paired, X
<1>6. Guarded'
  BY <1>4 DEF WordInv, Guarded, Idle
<1>7. past'.faults \in Nat
  BY DEF WordInv
<1>8. QED  BY <1>4, <1>5, <1>6, <1>7 DEF WordInv

LEMMA HostWord ==
  ASSUME EmptyEngine, LinkInv, WordInv, HostStep
  PROVE  WordInv'
<1>1. /\ DOMAIN svc = DOMAIN NewService /\ DOMAIN svc.commit = DOMAIN NoCommit
      /\ DOMAIN host = {"doc", "caret", "comp", "sel", "ctx", "field", "fg"}
      /\ DOMAIN past = {"keys", "events", "faults", "moved", "stale", "restarted", "asked"}
  BY DEF LinkInv, Shapes, Shaped, X
<1>2. /\ svc.composing \in BOOLEAN
      /\ IF svc.composing THEN DOMAIN host.comp = {1, 2} ELSE host.comp = <<>>
      /\ svc.eng.states # <<>> => svc.composing
  BY DEF WordInv, Joint, Paired, X
<1>3. host.comp = <<>> => ~svc.composing /\ svc.eng.states = <<>>
  <2>1. DOMAIN <<>> = {}
    OBVIOUS
  <2>2. QED  BY <1>2, <2>1
<1>4. CASE TerminateComposition
  BY <1>1, <1>4 DEF TerminateComposition, UserEvent, Terminated, WordInv, Joint, Paired, X,
     Guarded, Idle, EmptyEngine, NewService
<1>5. CASE Click
  <2>1. /\ svc' = Ended(svc) /\ host'.comp = <<>> /\ host'.ctx = host.ctx /\ key' = "" /\ app' = app
        /\ past'.faults = past.faults /\ past'.asked = past.asked
    BY <1>1, <1>5 DEF Click, UserEvent
  <2>2. host.ctx # ""
    BY DEF WordInv
  <2>3. QED  BY <2>1, <2>2, EndedWord
<1>6. CASE SwitchField
  <2>1. /\ svc' = Ended(svc) /\ host'.comp = <<>> /\ host'.ctx \in Contexts /\ key' = ""
        /\ app' = app /\ past'.faults = past.faults /\ past'.asked = past.asked
    BY <1>1, <1>6 DEF SwitchField, UserEvent
  <2>2. host'.ctx # ""
    BY <2>1, ContextsAssumption
  <2>3. QED  BY <2>1, <2>2, EndedWord
<1>7. CASE Suggest
  BY <1>1, <1>7 DEF Suggest, UserEvent, WordInv, Joint, Paired, X, Guarded, Idle
<1>8. CASE Wait
  BY <1>1, <1>8 DEF Wait, WordInv, Joint, Paired, X, Guarded, Idle, NewService
<1>9. CASE Deactivate
  BY <1>1, <1>9 DEF Deactivate, UserEvent, WordInv, Joint, Paired, X, Guarded, Idle,
     EmptyEngine, NewService
<1>10. CASE ToggleVietnameseMode
  BY <1>1, <1>10 DEF ToggleVietnameseMode, UserEvent, WordInv, Joint, Paired, X, Guarded, Idle,
     NewService
<1>11. QED  BY <1>4, <1>5, <1>6, <1>7, <1>8, <1>9, <1>10 DEF HostStep

LEMMA FocusWord ==
  ASSUME EmptyEngine, LinkInv, WordInv, OnSetFocus
  PROVE  WordInv'
<1>1. Shaped(X) /\ X.svc = svc /\ X.host = host
  BY DEF LinkInv, Shapes, X
<1> DEFINE s == IF host.fg THEN svc ELSE RefreshFlags(CheckConfigEvent(X)).svc
           y == CheckConfigEvent(X)
           z == [X EXCEPT !.svc = s]
           Kept(t) == /\ t.eng \in {svc.eng, EngineFresh} /\ t.composing = svc.composing
                      /\ t.ctx = svc.ctx /\ t.blocked = svc.blocked /\ t.up = svc.up
<1>2. Kept(s) /\ DOMAIN s = DOMAIN NewService /\ DOMAIN s.commit = DOMAIN NoCommit
  <2>1. Shaped(y) /\ Kept(y.svc)
    BY <1>1, CheckShape, CheckKeeps
  <2> HIDE DEF y
  <2>2. Shaped(RefreshFlags(y)) /\ Kept(RefreshFlags(y).svc)
    BY <2>1, CheckShape, CheckKeeps
  <2>3. QED  BY <1>1, <2>2 DEF y, Shaped
<1> HIDE DEF s
<1>3. Shaped(z) /\ z.svc = s
  BY <1>1, <1>2 DEF Shaped, X
<1> HIDE DEF z
<1>4. Kept(ResetCommitUndo(z).svc)
  BY <1>2, <1>3, UndoFrame, LightOps DEF Placed, Linked, Light
<1>5. Kept(svc')
  BY <1>4 DEF OnSetFocus, z, s
<1>6. /\ host'.comp = host.comp /\ host'.ctx = host.ctx /\ host'.field = host.field
      /\ key' = key /\ app' = app /\ past'.faults = past.faults /\ past'.asked = past.asked
  BY DEF OnSetFocus, LinkInv, Shapes, Shaped, X
<1>7. QED  BY <1>5, <1>6 DEF WordInv, Joint, Paired, X, Guarded, Idle, EmptyEngine

LEMMA NextWord == EmptyEngine /\ LinkInv /\ WordInv /\ [Next]_vars => WordInv'
<1> SUFFICES ASSUME EmptyEngine, LinkInv, WordInv, [Next]_vars PROVE WordInv'
  OBVIOUS
<1>1. CASE Activate
  <2>1. /\ Constructed.eng = EngineFresh /\ Constructed.composing = FALSE /\ Constructed.ctx = ""
        /\ Constructed.up
    BY DEF Constructed, ApplySharedState, NewService
  <2>2. host.comp = <<>>
    BY <1>1 DEF Activate, WordInv, Joint, Paired, X
  <2>3. /\ svc' = Constructed /\ host' = host /\ key' = key /\ past' = past /\ app' = app
    BY <1>1 DEF Activate
  <2>4. ~svc.up /\ key = ""
    BY <1>1 DEF Activate, WordInv
  <2>5. Joint(X)'
    BY <2>1, <2>2, <2>3 DEF Joint, Paired, X, EmptyEngine
  <2>6. Guarded'
    BY <2>1, <2>3, <2>4 DEF Guarded, Idle, EmptyEngine
  <2>7. QED  BY <2>1, <2>3, <2>5, <2>6 DEF WordInv
<1>2. CASE ExeStep
  <2>1. past'.faults = past.faults /\ past'.asked = past.asked
    BY <1>2 DEF ExeStep, ExeFlag, ExeWriteBegin, ExeWriteEnd, ExeExit, ExeStart, LinkInv, Shapes
  <2>2. UNCHANGED <<app, svc, host, key>>
    BY <1>2 DEF ExeStep, ExeFlag, ExeWriteBegin, ExeWriteEnd, ExeExit, ExeStart
  <2>3. QED  BY <2>1, <2>2 DEF WordInv, Joint, Paired, X, Guarded, Idle
<1>3. CASE UNCHANGED vars
  BY <1>3 DEF vars, WordInv, Joint, Paired, X, Guarded, Idle
<1>4. QED  BY <1>1, <1>2, <1>3, NextCases, KeyWord, HostWord, FocusWord

LEMMA SpecWord ==
  ASSUME EmptyEngine
  PROVE  Spec => [](LinkInv /\ WordInv)
<1>1. Init => WordInv
  <2> SUFFICES ASSUME Init PROVE WordInv
    OBVIOUS
  <2>1. /\ svc.eng = EngineFresh /\ svc.composing = FALSE /\ ~svc.composing
        /\ svc.ctx = "" /\ key = ""
    BY DEF Init, NewService
  <2>7. PICK c \in Contexts :
           host = [doc |-> Document, caret |-> Len(Document), comp |-> <<>>, sel |-> FALSE,
                   ctx |-> c, field |-> "text", fg |-> TRUE]
    BY DEF Init
  <2>8. host.comp = <<>> /\ host.field = "text" /\ host.ctx # ""
    BY <2>7, ContextsAssumption
  <2>2. Joint(X)
    BY <2>1, <2>8 DEF Joint, Paired, X, EmptyEngine
  <2>3. Guarded
    BY <2>1, <2>8 DEF Guarded
  <2>4. past.faults \in Nat
    BY DEF Init
  <2>5. (svc.composing => svc.up) /\ (~svc.up => key = "")
    BY <2>1
  <2>6. QED  BY <2>2, <2>3, <2>4, <2>5, <2>8 DEF WordInv
<1>2. LinkInv /\ WordInv /\ [Next]_vars => WordInv'
  BY NextWord
<1>3. QED  BY <1>1, <1>2, SpecLink, PTL DEF Spec

\* A password field is never composed in while every edit session is granted,
\* where the application calls OnTestKeyDown, unless its context was asked while
\* the caret was in an ordinary field.
THEOREM PasswordsAlwaysUntouched ==
  ASSUME EmptyEngine
  PROVE  Spec => []PasswordsUntouched
<1>1. WordInv => PasswordsUntouched
  BY DEF WordInv, Guarded, Idle, PasswordsUntouched
<1>2. QED  BY <1>1, SpecWord, PTL

-----------------------------------------------------------------------------
(* Texts and places.                                                        *)

Texts == Seq(Glyphs)
AllConfigs == {Decoded(c) : c \in Configs} \cup {Default}

\* The engine works on texts, and a letter always leaves it a word.
EngineOK ==
  /\ EmptyEngine
  /\ EngineFresh \in Engines /\ EngineFresh.hist = <<>>
  /\ \A e \in Engines :
       /\ ComposeAll(e.states) \in Texts
       /\ [i \in 1..Len(e.hist) |-> Glyph(e.hist[i])] \in Texts
       /\ \A c \in AllConfigs :
            /\ EngineCommit(c, e) \in Texts /\ EngineBackspace(c, e) \in Engines
            /\ \A k \in Keys \cap (Letters \cup Digits) :
                 /\ EnginePush(c, e, k) \in Engines
                 /\ k \in Letters \/ e.states # <<>> => EnginePush(c, e, k).states # <<>>
  /\ \A c \in AllConfigs, t \in Texts : EngineSeed(c, t) \in Engines
  /\ Document \in Texts /\ \A k \in Keys : Glyph(k) \in Glyphs

Located(h) ==
  /\ h.doc \in Texts /\ h.caret \in 0..Len(h.doc)
  /\ h.comp # <<>> => /\ h.comp[1] \in Nat /\ h.comp[2] \in Nat
                      /\ h.comp[1] <= h.comp[2] /\ h.comp[2] <= Len(h.doc)

\* The text t stands in h behind the place from.
Stands(h, from, t) == \A i \in 1..Len(t) : h.doc[from + i] = t[i]

LEMMA Splice ==
  ASSUME NEW d \in Texts, NEW t \in Texts, NEW from \in Nat, NEW to \in Nat,
         from <= to, to <= Len(d)
  PROVE  LET r == SubSeq(d, 1, from) \o t \o SubSeq(d, to + 1, Len(d))
         IN /\ r \in Texts /\ Len(r) = Len(d) - (to - from) + Len(t)
            /\ \A i \in 1..Len(t) : r[from + i] = t[i]
            /\ \A i \in 1..from : r[i] = d[i]
<1> USE DEF Texts
<1> DEFINE a == SubSeq(d, 1, from)
           b == SubSeq(d, to + 1, Len(d))
<1>1. a \in Seq(Glyphs) /\ Len(a) = from /\ \A i \in 1..from : a[i] = d[i]
  OBVIOUS
<1>2. b \in Seq(Glyphs) /\ Len(b) = Len(d) - to
  OBVIOUS
<1> HIDE DEF a, b
<1>3. /\ a \o t \in Seq(Glyphs) /\ Len(a \o t) = from + Len(t)
      /\ \A i \in 1..from : (a \o t)[i] = a[i]
      /\ \A i \in 1..Len(t) : (a \o t)[from + i] = t[i]
  BY <1>1
<1> DEFINE m == a \o t
<1> HIDE DEF m
<1>4. /\ m \o b \in Seq(Glyphs) /\ Len(m \o b) = Len(m) + Len(b)
      /\ \A i \in 1..Len(m) : (m \o b)[i] = m[i]
  BY <1>2, <1>3 DEF m
<1>5. QED
  <2>1. \A i \in 1..Len(t) : (m \o b)[from + i] = t[i]
    BY <1>3, <1>4 DEF m
  <2>2. \A i \in 1..from : (m \o b)[i] = d[i]
    BY <1>1, <1>3, <1>4 DEF m
  <2>3. Len(m \o b) = Len(d) - (to - from) + Len(t)
    BY <1>2, <1>3, <1>4 DEF m
  <2>4. QED  BY <1>4, <2>1, <2>2, <2>3 DEF m, a, b

\* The application's side of a shaped state.
Field(h) == DOMAIN h = {"doc", "caret", "comp", "sel", "ctx", "field", "fg"}

\* What Replace makes r of: t stands behind from, and the caret behind t.
Replaced(h, from, t, r) ==
  /\ r.doc \in Texts /\ r.caret = from + Len(t) /\ r.caret \in 0..Len(r.doc)
  /\ r.sel = FALSE /\ Stands(r, from, t) /\ \A i \in 1..from : r.doc[i] = h.doc[i]
  /\ r.comp = h.comp /\ Field(r)

LEMMA ReplaceText ==
  ASSUME NEW h, Field(h), h.doc \in Texts,
         NEW t \in Texts, NEW from \in Nat, NEW to \in Nat, from <= to, to <= Len(h.doc)
  PROVE  Replaced(h, from, t, Replace(h, from, to, t))
<1> DEFINE d == SubSeq(h.doc, 1, from) \o t \o SubSeq(h.doc, to + 1, Len(h.doc))
           r == Replace(h, from, to, t)
<1>1. /\ d \in Texts /\ Len(d) = Len(h.doc) - (to - from) + Len(t)
      /\ \A i \in 1..Len(t) : d[from + i] = t[i]
      /\ \A i \in 1..from : d[i] = h.doc[i]
  <2> DEFINE doc == h.doc
  <2>1. doc \in Texts /\ to <= Len(doc)
    OBVIOUS
  <2> HIDE DEF doc
  <2>2. LET x == SubSeq(doc, 1, from) \o t \o SubSeq(doc, to + 1, Len(doc))
        IN /\ x \in Texts /\ Len(x) = Len(doc) - (to - from) + Len(t)
           /\ \A i \in 1..Len(t) : x[from + i] = t[i]
           /\ \A i \in 1..from : x[i] = doc[i]
    BY ONLY <2>1, Splice, t \in Texts, from \in Nat, to \in Nat, from <= to, ZenonT(60)
  <2>3. QED  BY <2>2, Zenon DEF doc
<1>2. /\ r.doc = d /\ r.caret = from + Len(t) /\ r.sel = FALSE /\ r.comp = h.comp
      /\ Field(r)
  BY DEF Replace, Field
<1>3. Len(t) \in Nat /\ Len(h.doc) \in Nat
  BY DEF Texts
<1> HIDE DEF d, r
<1>4. r.caret \in 0..Len(r.doc)
  BY <1>1, <1>2, <1>3
<1>5. QED  BY <1>1, <1>2, <1>4 DEF Stands, Replaced, r

-----------------------------------------------------------------------------
(* Edit sessions and the text.                                              *)

\* The key's answer, the word to take up and the last commit stay.
Aside(x, y) ==
  /\ y.svc.revive = x.svc.revive /\ y.svc.tested = x.svc.tested /\ y.svc.wanted = x.svc.wanted
UndoSame(x, y) == y.svc.undo = x.svc.undo /\ y.svc.commit = x.svc.commit

\* The composition of h shows the text t.
Shows(h, t) == h.comp[2] = h.comp[1] + Len(t) /\ Stands(h, h.comp[1], t)

\* The text t ends at the caret of h.
Ends(h, t) == Len(t) <= h.caret /\ Stands(h, h.caret - Len(t), t)

LEMMA SetText ==
  ASSUME NEW x, Shaped(x), Located(x.host), x.host.comp # <<>>, NEW t \in Texts
  PROVE  LET y == SetCompositionText(x, t)
         IN /\ Shaped(y) /\ y.svc = x.svc /\ Located(y.host) /\ Shows(y.host, t)
            /\ Ends(y.host, t) /\ y.host.sel = FALSE
<1> DEFINE at == x.host.comp
           r == Replace(x.host, at[1], at[2], t)
           y == SetCompositionText(x, t)
<1>1. /\ at[1] \in Nat /\ at[2] \in Nat /\ at[1] <= at[2] /\ at[2] <= Len(x.host.doc)
      /\ x.host.doc \in Texts
  BY DEF Located
<1>2. /\ r.doc \in Texts /\ r.caret = at[1] + Len(t) /\ r.caret \in 0..Len(r.doc) /\ r.sel = FALSE
      /\ Stands(r, at[1], t) /\ Field(r)
  <2> DEFINE h == x.host
             from == at[1]
             to == at[2]
  <2>1. Field(h) /\ h.doc \in Texts
    BY <1>1 DEF Shaped, Field
  <2>2. /\ from \in Nat /\ to \in Nat /\ from <= to /\ to <= Len(h.doc)
        /\ Len(h.doc) \in Nat /\ Len(t) \in Nat
    BY <1>1 DEF Texts
  <2> HIDE DEF h, from, to
  <2>3. Replaced(h, from, t, Replace(h, from, to, t))
    BY <2>1, <2>2, ReplaceText
  <2>4. QED  BY <2>3 DEF Replaced, h, from, to
<1>3. Shaped(y) /\ y.svc = x.svc
  <2>1. Shaped(y)
    BY SetFrame, PlacedShaped
  <2>2. QED  BY <2>1 DEF Shaped, SetCompositionText
<1> HIDE DEF r
<1>4. y.host = [r EXCEPT !.comp = <<at[1], at[1] + Len(t)>>]
  BY DEF SetCompositionText, r, Shaped
<1>5. /\ y.host.doc = r.doc /\ y.host.caret = r.caret /\ y.host.sel = r.sel
      /\ y.host.comp = <<at[1], at[1] + Len(t)>>
  BY <1>2, <1>4 DEF Shaped, Field
<1>6. y.host.comp[1] = at[1] /\ y.host.comp[2] = at[1] + Len(t)
  BY <1>5
<1>7. Len(t) \in Nat /\ Len(r.doc) \in Nat
  BY <1>2 DEF Texts
<1> HIDE DEF y, at
<1>8. Located(y.host)
  BY <1>1, <1>2, <1>5, <1>6, <1>7 DEF Located
<1>9. Shows(y.host, t)
  BY <1>2, <1>5, <1>6 DEF Shows, Stands
<1>10. Ends(y.host, t)
  <2>1. y.host.doc = r.doc /\ y.host.caret = at[1] + Len(t)
    BY <1>2, <1>5
  <2>2. at[1] \in Nat /\ Len(t) <= at[1] + Len(t) /\ (at[1] + Len(t)) - Len(t) = at[1]
    BY <1>1, <1>7
  <2>3. \A i \in 1..Len(t) : r.doc[at[1] + i] = t[i]
    BY <1>2 DEF Stands
  <2>4. QED  BY ONLY <2>1, <2>2, <2>3 DEF Ends, Stands
<1>11. QED  BY <1>2, <1>3, <1>5, <1>8, <1>9, <1>10 DEF y

LEMMA SetAside ==
  ASSUME NEW x, Shaped(x), NEW t
  PROVE  LET y == SetCompositionText(x, t) IN y.svc = x.svc /\ y.want = x.want
BY DEF SetCompositionText, Shaped

LEMMA StartText ==
  ASSUME NEW x, Shaped(x), Located(x.host), NEW from \in 0..x.host.caret, NEW t \in Texts
  PROVE  LET s == StartComposition(x, from)
             y == SetCompositionText(s, t)
         IN /\ Shaped(y) /\ y.svc.composing = TRUE /\ y.svc.eng = x.svc.eng
            /\ Located(y.host) /\ Shows(y.host, t) /\ Aside(x, y) /\ UndoSame(x, y)
<1> DEFINE s == StartComposition(x, from)
<1>1. /\ Shaped(s) /\ s.svc.composing = TRUE /\ s.svc.eng = x.svc.eng
      /\ Aside(x, s) /\ UndoSame(x, s)
      /\ s.host.doc = x.host.doc /\ s.host.caret = x.host.caret
      /\ s.host.comp = <<from, x.host.caret>>
  BY DEF Shaped, NewService, StartComposition, Aside, UndoSame
<1>2. s.host.comp[1] = from /\ s.host.comp[2] = x.host.caret /\ s.host.comp # <<>>
  BY <1>1
<1> HIDE DEF s
<1>3. Located(s.host)
  BY <1>1, <1>2 DEF Located, Texts
<1>4. LET y == SetCompositionText(s, t)
      IN Shaped(y) /\ y.svc = s.svc /\ Located(y.host) /\ Shows(y.host, t)
  BY <1>1, <1>2, <1>3, SetText
<1>5. QED  BY <1>1, <1>4 DEF s, Aside, UndoSame

LEMMA PairedComp ==
  ASSUME NEW x, Paired(x)
  PROVE  x.svc.composing <=> x.host.comp # <<>>
<1>1. DOMAIN <<>> = {}
  OBVIOUS
<1>2. QED  BY <1>1 DEF Paired

LEMMA EndText ==
  ASSUME NEW x, Shaped(x), Located(x.host)
  PROVE  LET y == EndComposition(x)
         IN /\ Shaped(y) /\ y.svc.composing = FALSE /\ y.svc.eng = x.svc.eng
            /\ Located(y.host) /\ Aside(x, y) /\ UndoSame(x, y)
            /\ y.host.doc = x.host.doc /\ y.host.caret = x.host.caret
            /\ y.host.sel = x.host.sel
BY DEF Shaped, NewService, EndComposition, Located, Aside, UndoSame

LEMMA UpdateText ==
  ASSUME NEW x, Shaped(x), Paired(x), Located(x.host), NEW g, NEW t \in Texts
  PROVE  /\ LET y == StartSession(x, g, t)
            IN /\ Located(y.host) /\ Aside(x, y) /\ UndoSame(x, y) /\ y.svc.eng = x.svc.eng
               /\ g = "granted" => y.svc.composing /\ Shows(y.host, t)
         /\ LET y == UpdateSession(x, g, t)
            IN /\ Located(y.host) /\ Aside(x, y) /\ UndoSame(x, y) /\ y.svc.eng = x.svc.eng
               /\ g = "granted" => y.svc.composing /\ Shows(y.host, t)
<1>1. x.host.caret \in 0..x.host.caret
  BY DEF Located
<1>2. LET y == StartSession(x, g, t)
      IN /\ Located(y.host) /\ Aside(x, y) /\ UndoSame(x, y) /\ y.svc.eng = x.svc.eng
         /\ g = "granted" => y.svc.composing /\ Shows(y.host, t)
  BY <1>1, StartText DEF StartSession, Aside, UndoSame
<1>3. x.svc.composing =>
        LET y == SetCompositionText(x, t)
        IN Located(y.host) /\ y.svc = x.svc /\ Shows(y.host, t)
  BY PairedComp, SetText
<1>4. QED  BY <1>2, <1>3 DEF UpdateSession, Aside, UndoSame

\* What the session of a commit as t leaves.
SessionDone(x, y, g, t) ==
  /\ Located(y.host) /\ Aside(x, y) /\ UndoSame(x, y) /\ y.svc.eng = x.svc.eng
  /\ x.svc.composing /\ g # "refused"
       => ~y.svc.composing /\ Ends(y.host, t) /\ ~y.host.sel
  /\ ~(x.svc.composing /\ g # "refused") => y = x

LEMMA CommitText1 ==
  ASSUME NEW x, Shaped(x), Paired(x), Located(x.host), NEW g, NEW t \in Texts
  PROVE  SessionDone(x, CommitSession(x, g, t), g, t)
<1> DEFINE s == SetCompositionText(x, t)
<1>1. CASE x.svc.composing /\ g # "refused"
  <2>1. /\ Shaped(s) /\ Located(s.host) /\ s.svc = x.svc /\ Ends(s.host, t)
        /\ s.host.sel = FALSE
    BY <1>1, PairedComp, SetText
  <2> HIDE DEF s
  <2>2. LET y == EndComposition(s)
        IN /\ y.svc.composing = FALSE /\ y.svc.eng = s.svc.eng /\ Located(y.host)
           /\ Aside(s, y) /\ UndoSame(s, y) /\ y.host.doc = s.host.doc
           /\ y.host.caret = s.host.caret /\ y.host.sel = s.host.sel
    BY <2>1, EndText
  <2>3. CommitSession(x, g, t) = EndComposition(s)
    BY <1>1 DEF CommitSession, s
  <2>4. QED  BY <1>1, <2>1, <2>2, <2>3 DEF Aside, UndoSame, Ends, Stands, SessionDone
<1>2. CASE ~(x.svc.composing /\ g # "refused")
  BY <1>2 DEF CommitSession, Aside, UndoSame, SessionDone
<1>3. QED  BY <1>1, <1>2

\* The keys OnTestKeyDown may have claimed.
Wantable == Letters \cup Digits \cup {"BS", " ", ",", "."}

Recorded(s) ==
  /\ s.commit.text \in Texts /\ s.commit.raw \in Texts
  /\ s.undo \in {"Idle", "Ready", "Primed"}
  /\ s.undo # "Idle" => s.commit.text # <<>>
Answered(s) == s.wanted /\ s.tested # "" => s.tested \in Wantable

Good(x) ==
  /\ Shaped(x) /\ Joint(x) /\ Located(x.host)
  /\ x.svc.config \in AllConfigs /\ x.svc.eng \in Engines
  /\ Recorded(x.svc) /\ Answered(x.svc)

\* A live composition shows the word of the engine.
Told(x) == x.svc.composing => Buffered(x) /\ Shows(x.host, Peek(x))

\* y is as good as x.
Kept(x, y) == Good(y) /\ (Told(x) => Told(y))

LEMMA GoodShaped == ASSUME NEW x, Good(x) PROVE Shaped(x) /\ Joint(x) /\ Paired(x)
BY DEF Good, Joint

LEMMA KeptTrans == ASSUME NEW x, NEW y, NEW z, Kept(x, y), Kept(y, z) PROVE Kept(x, z)
BY DEF Kept

LEMMA KeptSelf == ASSUME NEW x, Good(x) PROVE Kept(x, x)
BY DEF Kept

LEMMA LightKept ==
  ASSUME NEW x, NEW y, Good(x), Light(x, y), Linked(x, y), Recorded(y.svc), Answered(y.svc)
  PROVE  Kept(x, y)
<1>1. Joint(y)
  BY LightJoint DEF Good
<1>2. Told(x) => Told(y)
  BY DEF Told, Light, Buffered, Peek
<1>3. QED  BY <1>1, <1>2 DEF Kept, Good, Light, Linked

LEMMA PlainKept ==
  ASSUME NEW x, NEW y, Good(x), Light(x, y), Linked(x, y), Aside(x, y), UndoSame(x, y)
  PROVE  Kept(x, y)
<1>1. Recorded(y.svc) /\ Answered(y.svc)
  BY DEF Good, Recorded, Answered, Aside, UndoSame
<1>2. QED  BY <1>1, LightKept

LEMMA AsideOps ==
  ASSUME NEW x, Shaped(x)
  PROVE  /\ Aside(x, Eat(x)) /\ Aside(x, Pass(x)) /\ UndoSame(x, Eat(x)) /\ UndoSame(x, Pass(x))
         /\ \A v : /\ Aside(x, [x EXCEPT !.want = v]) /\ UndoSame(x, [x EXCEPT !.want = v])
                   /\ Aside(x, [x EXCEPT !.eaten = v]) /\ UndoSame(x, [x EXCEPT !.eaten = v])
                   /\ Placed(x, [x EXCEPT !.want = v]) /\ Placed(x, [x EXCEPT !.eaten = v])
         /\ \A g : Aside(x, CheckContextBlocked(x, g)) /\ UndoSame(x, CheckContextBlocked(x, g))
         /\ UndoSame(x, Uncached(x)) /\ \A k, v : UndoSame(x, Cache(x, k, v))
         /\ \A g : UndoSame(x, PrepareBackspaceRevive(x, g))
         /\ Aside(x, ResetCommitUndo(x)) /\ \A k : Aside(x, OnNonRestoreKey(x, k))
BY DEF Shaped, NewService, Eat, Pass, Aside, UndoSame, CheckContextBlocked, Uncached, Cache,
       PrepareBackspaceRevive, ResetCommitUndo, OnNonRestoreKey, Placed, Linked

LEMMA WantAside ==
  ASSUME NEW x, Shaped(x), NEW k
  PROVE  /\ Aside(x, WantKey(x, k)) /\ UndoSame(x, WantKey(x, k))
         /\ WantKey(x, k).want => k \in Letters \cup Digits \cup {"BS", " "}
         /\ WantKey(x, k).want => k \in Letters \/ Buffered(x)
<1> DEFINE on == x.svc.abi /\ x.svc.connected /\ exe.enabled
           s == IF on THEN [x.svc EXCEPT !.active = exe.active,
                                         !.viet = IF exe.active THEN exe.viet ELSE @]
                ELSE x.svc
           y == [x EXCEPT !.svc = s, !.want = FALSE]
<1>1. Aside(x, y) /\ UndoSame(x, y) /\ Shaped(y) /\ ~y.want
  BY DEF Shaped, NewService, Aside, UndoSame
<1> HIDE DEF y
<1>2. \A v : /\ Aside(x, [y EXCEPT !.svc.digitLed = v]) /\ Aside(x, [y EXCEPT !.want = v])
             /\ UndoSame(x, [y EXCEPT !.svc.digitLed = v])
             /\ UndoSame(x, [y EXCEPT !.want = v])
             /\ ~[y EXCEPT !.svc.digitLed = v].want /\ [y EXCEPT !.want = v].want = v
  BY <1>1 DEF Shaped, NewService, Aside, UndoSame
<1>3. QED  BY <1>1, <1>2 DEF WantKey, IsEngineDigitKey, y

LEMMA UndoReset ==
  ASSUME NEW x, Shaped(x)
  PROVE  LET y == ResetCommitUndo(x)
         IN y.svc.undo = "Idle" /\ Recorded(y.svc)
<1>1. LET y == ResetCommitUndo(x) IN y.svc.undo = "Idle" /\ y.svc.commit = NoCommit
  BY DEF ResetCommitUndo, Shaped, NewService
<1>2. NoCommit.text \in Texts /\ NoCommit.raw \in Texts
  BY DEF NoCommit, Texts
<1>3. QED  BY <1>1, <1>2 DEF Recorded

LEMMA GoodOps ==
  ASSUME NEW x, Good(x)
  PROVE  /\ Kept(x, Eat(x)) /\ Kept(x, Pass(x)) /\ Kept(x, Uncached(x))
         /\ \A v : Kept(x, [x EXCEPT !.want = v]) /\ Kept(x, [x EXCEPT !.eaten = v])
         /\ \A k, v : (v => k \in Wantable) => Kept(x, Cache(x, k, v))
         /\ Kept(x, ResetCommitUndo(x)) /\ \A k : Kept(x, OnNonRestoreKey(x, k))
         /\ \A g : Kept(x, PrepareBackspaceRevive(x, g)) /\ Kept(x, CheckContextBlocked(x, g))
         /\ \A k : Kept(x, WantKey(x, k))
         /\ x.svc.undo # "Idle" => Kept(x, [x EXCEPT !.svc.undo = "Primed"])
<1>1. Shaped(x) /\ Recorded(x.svc) /\ Answered(x.svc)
  BY DEF Good
<1>2. Kept(x, Eat(x)) /\ Kept(x, Pass(x))
  BY <1>1, LightOps, EatFrame, AsideOps, PlainKept DEF Placed
<1>3. ASSUME NEW v PROVE Kept(x, [x EXCEPT !.want = v]) /\ Kept(x, [x EXCEPT !.eaten = v])
  BY <1>1, LightOps, AsideOps, PlainKept DEF Placed
<1>4. ASSUME NEW k, NEW v, v => k \in Wantable PROVE Kept(x, Cache(x, k, v))
  <2>1. Answered(Cache(x, k, v).svc) /\ Recorded(Cache(x, k, v).svc)
    BY <1>1, <1>4 DEF Cache, Shaped, NewService, Answered, Recorded
  <2>2. QED  BY <1>1, <2>1, LightOps, CacheFrame, LightKept DEF Placed
<1>5. Kept(x, Uncached(x))
  <2>1. Answered(Uncached(x).svc) /\ Recorded(Uncached(x).svc)
    BY <1>1 DEF Uncached, Shaped, NewService, Answered, Recorded
  <2>2. QED  BY <1>1, <2>1, LightOps, CacheFrame, LightKept DEF Placed
<1>6. Kept(x, ResetCommitUndo(x))
  <2>1. Answered(ResetCommitUndo(x).svc)
    BY <1>1, AsideOps DEF Aside, Answered
  <2>2. QED  BY <1>1, <2>1, UndoReset, LightOps, UndoFrame, LightKept DEF Placed
<1>7. ASSUME NEW k PROVE Kept(x, OnNonRestoreKey(x, k))
  BY <1>6, KeptSelf DEF OnNonRestoreKey
<1>8. ASSUME NEW g PROVE Kept(x, PrepareBackspaceRevive(x, g))
  <2>1. LET y == PrepareBackspaceRevive(x, g) IN Answered(y.svc) /\ Recorded(y.svc)
    BY <1>1 DEF PrepareBackspaceRevive, Shaped, NewService, Answered, Recorded
  <2>2. QED  BY <1>1, <2>1, LightOps, PrepareFrame, LightKept DEF Placed
<1>9. ASSUME NEW g PROVE Kept(x, CheckContextBlocked(x, g))
  BY <1>1, LightOps, AsideOps, ContextFrame, PlainKept
<1>10. ASSUME NEW k PROVE Kept(x, WantKey(x, k))
  BY <1>1, WantLight, WantFrame, WantAside, PlainKept DEF Placed
<1>11. ASSUME x.svc.undo # "Idle" PROVE Kept(x, [x EXCEPT !.svc.undo = "Primed"])
  <2> DEFINE y == [x EXCEPT !.svc.undo = "Primed"]
  <2>1. Answered(y.svc) /\ Recorded(y.svc) /\ Linked(x, y)
    BY <1>1, <1>11 DEF Shaped, NewService, Answered, Recorded, Linked
  <2>2. Light(x, y)
    BY <1>1, LightOps
  <2> HIDE DEF y
  <2>3. QED  BY <2>1, <2>2, LightKept DEF y
<1>12. QED  BY <1>2, <1>3, <1>4, <1>5, <1>6, <1>7, <1>8, <1>9, <1>10, <1>11

LEMMA RawIsText ==
  ASSUME EngineOK, NEW x, x.svc.eng \in Engines
  PROVE  PeekRaw(x) \in Texts /\ Peek(x) \in Texts
BY DEF EngineOK, PeekRaw, Peek

\* What a commit as t leaves: the engine without a word, t before the caret
\* when there was a composition and the session was granted.
Committed(x, y, g, t) ==
  /\ y.svc.eng = EngineFresh /\ Aside(x, y)
  /\ x.svc.composing /\ g # "refused"
       => ~y.svc.composing /\ Ends(y.host, t) /\ ~y.host.sel
  /\ ~(x.svc.composing /\ g # "refused")
       => y.svc.composing = x.svc.composing /\ y.host = x.host

\* What is kept for the undo of it.
Remembered(x, y, t, u) ==
  \/ y.svc.undo = "Idle"
  \/ /\ u /\ PeekRaw(x) # <<>> /\ t # <<>> /\ y.svc.undo = "Ready" /\ y.svc.commit.text = t

LEMMA FinishGood ==
  ASSUME EngineOK, NEW x, Good(x), NEW g, NEW t \in Texts
  PROVE  LET y == [CommitSession(x, g, t) EXCEPT !.svc.eng = EngineFresh, !.svc.digitLed = FALSE]
         IN Good(y) /\ Placed(x, y) /\ Committed(x, y, g, t) /\ UndoSame(x, y)
<1> DEFINE s == CommitSession(x, g, t)
           y == [s EXCEPT !.svc.eng = EngineFresh, !.svc.digitLed = FALSE]
<1>1. SessionDone(x, s, g, t)
  <2>1. Shaped(x) /\ Paired(x) /\ Located(x.host)
    BY GoodShaped DEF Good
  <2>2. QED  BY <2>1, CommitText1
<1>2. Placed(x, s) /\ Shaped(s) /\ Paired(s)
  BY GoodShaped, SessionFrames, SessionsPaired, PlacedShaped
<1> HIDE DEF s
<1>3. /\ Placed(s, y) /\ Shaped(y)
      /\ y.host = s.host /\ y.svc.composing = s.svc.composing /\ y.svc.eng = EngineFresh
      /\ Aside(s, y) /\ UndoSame(s, y)
  BY <1>2 DEF Shaped, NewService, Aside, UndoSame, Placed, Linked
<1> HIDE DEF y
<1>4. Placed(x, y)
  BY <1>2, <1>3, PlacedTrans
<1>5. Joint(y)
  BY <1>2, <1>3 DEF Joint, Paired, EngineOK, EmptyEngine
<1>6. Recorded(y.svc) /\ Answered(y.svc) /\ Aside(x, y) /\ UndoSame(x, y)
  BY <1>1, <1>3 DEF Good, Recorded, Answered, Aside, UndoSame, SessionDone
<1>7. y.svc.config \in AllConfigs /\ y.svc.eng \in Engines /\ Located(y.host)
  BY <1>1, <1>3, <1>4 DEF Good, EngineOK, Placed, Linked, SessionDone
<1>8. Committed(x, y, g, t)
  BY <1>1, <1>3, <1>6 DEF Committed, SessionDone
<1>9. QED  BY <1>3, <1>4, <1>5, <1>6, <1>7, <1>8 DEF Good, y, s

LEMMA CommitGood ==
  ASSUME EngineOK, NEW x, Good(x), NEW g, NEW t \in Texts, NEW u
  PROVE  LET y == CommitAs(x, g, t, u)
         IN Good(y) /\ Committed(x, y, g, t) /\ Remembered(x, y, t, u)
<1> DEFINE z == [CommitSession(x, g, t) EXCEPT !.svc.eng = EngineFresh, !.svc.digitLed = FALSE]
           raw == PeekRaw(x)
           y == RecordCommitSnapshot(z, t, raw, u)
<1>1. Good(z) /\ Committed(x, z, g, t) /\ Shaped(z)
  BY FinishGood DEF Good
<1>2. raw \in Texts
  BY RawIsText DEF Good
<1> HIDE DEF z, raw
<1>3. Light(z, y) /\ Linked(z, y)
  BY <1>1, LightOps, UndoFrame DEF Placed
<1>4. CASE t = <<>> \/ raw = <<>>
  <2>1. y = ResetCommitUndo(z)
    BY <1>4 DEF RecordCommitSnapshot
  <2>2. Kept(z, y) /\ y.svc.undo = "Idle" /\ Aside(z, y)
    BY <1>1, <2>1, GoodOps, UndoReset, AsideOps
  <2>3. QED  BY <1>1, <1>3, <2>2 DEF Kept, Committed, Aside, Light, CommitAs, Remembered,
              z, raw
<1>5. CASE t # <<>> /\ raw # <<>>
  <2>1. /\ y.svc.undo = (IF u THEN "Ready" ELSE "Idle") /\ Aside(z, y)
        /\ y.svc.commit = [text |-> t, raw |-> raw, old |-> FALSE]
    BY <1>1, <1>5 DEF RecordCommitSnapshot, Shaped, NewService, Aside
  <2>2. y.svc.commit.text = t /\ y.svc.commit.raw = raw
    BY <2>1
  <2>3. Recorded(y.svc) /\ Answered(y.svc)
    BY <1>1, <1>2, <1>5, <2>1, <2>2 DEF Recorded, Answered, Aside, Good
  <2>4. Kept(z, y)
    BY <1>1, <1>3, <2>3, LightKept
  <2>5. QED  BY <1>1, <1>3, <1>5, <2>1, <2>2, <2>4 DEF Kept, Committed, Aside, Light,
              CommitAs, Remembered, z, raw
<1>6. QED  BY <1>4, <1>5

LEMMA CommitsGood ==
  ASSUME EngineOK, NEW x, Good(x), NEW g
  PROVE  /\ LET y == Commit(x, g)
            IN Good(y) /\ (\E t \in Texts : Committed(x, y, g, t)) /\ y.svc.undo = "Idle"
         /\ \A k \in Keys : LET y == CommitWithChar(x, g, k)
            IN /\ Good(y)
               /\ \E t \in Texts :
                    Committed(x, y, g, t) /\ Remembered(x, y, t, TRUE)
         /\ LET y == CommitRawAndEnd(x, g)
            IN Good(y) /\ (\E t \in Texts : Committed(x, y, g, t)) /\ UndoSame(x, y)
<1> DEFINE c == EngineCommit(x.svc.config, x.svc.eng)
<1>1. c \in Texts
  BY DEF Good, EngineOK
<1>2. c \o <<>> \in Texts
  BY <1>1 DEF Texts
<1>3. ASSUME NEW k \in Keys PROVE c \o <<Glyph(k)>> \in Texts
  <2>1. Glyph(k) \in Glyphs
    BY DEF EngineOK
  <2> HIDE DEF c
  <2>2. QED  BY <1>1, <2>1 DEF Texts
<1> HIDE DEF c
<1>4. LET y == Commit(x, g)
      IN Good(y) /\ (\E t \in Texts : Committed(x, y, g, t)) /\ y.svc.undo = "Idle"
  <2> DEFINE t == c \o <<>>
  <2>1. t \in Texts
    BY <1>2
  <2>2. Commit(x, g) = CommitAs(x, g, t, FALSE)
    BY DEF Commit, CommitThe, c
  <2> HIDE DEF t
  <2>3. Remembered(x, Commit(x, g), t, FALSE) => Commit(x, g).svc.undo = "Idle"
    BY DEF Remembered
  <2>4. QED  BY <2>1, <2>2, <2>3, CommitGood
<1>5. ASSUME NEW k \in Keys
      PROVE  LET y == CommitWithChar(x, g, k)
             IN /\ Good(y)
                /\ \E t \in Texts :
                     Committed(x, y, g, t) /\ Remembered(x, y, t, TRUE)
  <2> DEFINE t == c \o <<Glyph(k)>>
  <2>1. t \in Texts
    BY <1>3
  <2>2. CommitWithChar(x, g, k) = CommitAs(x, g, t, TRUE)
    BY DEF CommitWithChar, CommitThe, c
  <2> HIDE DEF t
  <2>3. QED  BY <2>1, <2>2, CommitGood
<1>6. LET y == CommitRawAndEnd(x, g)
      IN Good(y) /\ (\E t \in Texts : Committed(x, y, g, t)) /\ UndoSame(x, y)
  <2>1. PeekRaw(x) \in Texts
    BY RawIsText DEF Good
  <2>2. QED  BY <2>1, FinishGood DEF CommitRawAndEnd
<1>7. QED  BY <1>4, <1>5, <1>6

LEMMA Smallest ==
  ASSUME NEW S \in SUBSET Nat, S # {}
  PROVE  \E least \in S : \A n \in S : least <= n
<1> DEFINE R == {p \in Nat \X Nat : p[1] < p[2]}
<1>1. IsWellFoundedOn(R, Nat)
  BY NatLessThanWellFounded DEF OpToRel
<1>2. PICK least \in S : \A n \in S : <<n, least>> \notin R
  BY <1>1, WFMin
<1>3. ASSUME NEW n \in S PROVE least <= n
  <2>1. ~(n < least)
    BY <1>2
  <2>2. QED  BY <2>1
<1>4. QED  BY <1>3

LEMMA LastPlace ==
  ASSUME NEW b \in Nat, NEW S \in SUBSET (1..b)
  PROVE  LastOf(S) \in 0..b
<1>1. CASE S = {}
  BY <1>1 DEF LastOf
<1>2. CASE S # {}
  <2> DEFINE R == {r \in Nat : r <= b /\ b - r \in S}
  <2>1. PICK n \in S : TRUE
    BY <1>2
  <2>2. b - n \in R
    OBVIOUS
  <2>3. PICK least \in R : \A r \in R : least <= r
    BY <2>2, Smallest
  <2>4. b - least \in S
    OBVIOUS
  <2>5. ASSUME NEW m \in S PROVE b - least >= m
    <3>1. b - m \in R
      OBVIOUS
    <3>2. QED  BY <2>3, <3>1
  <2>6. \E x \in S : \A y \in S : x >= y
    BY <2>4, <2>5
  <2>7. Max(S) \in S
    BY <2>6 DEF Max
  <2>8. Max(S) \in 0..b
    <3>1. \A m \in S : m \in 0..b
      OBVIOUS
    <3>2. QED  BY <2>7, <3>1
  <2>9. LastOf(S) = Max(S)
    BY <1>2 DEF LastOf
  <2>10. QED  BY <2>8, <2>9
<1>3. QED  BY <1>1, <1>2

LEMMA WordBehind ==
  ASSUME NEW h, Located(h)
  PROVE  PrecedingWord(h) \in Texts /\ Len(PrecedingWord(h)) \in 0..h.caret
<1> DEFINE stops == {i \in 1..h.caret : h.doc[i][1] \notin Letters}
           n == LastOf(stops)
           w == SubSeq(h.doc, n + 1, h.caret)
<1>1. h.caret \in Nat /\ h.doc \in Seq(Glyphs) /\ h.caret <= Len(h.doc)
  BY DEF Located, Texts
<1>2. n \in 0..h.caret
  BY <1>1, LastPlace
<1>3. w \in Seq(Glyphs) /\ Len(w) \in 0..h.caret
  <2> HIDE DEF n
  <2>1. QED  BY <1>1, <1>2
<1>4. <<>> \in Seq(Glyphs) /\ Len(<<>>) \in 0..h.caret
  BY <1>1
<1>5. QED  BY <1>3, <1>4 DEF PrecedingWord, Texts

LEMMA RestoreGood ==
  ASSUME NEW x, Good(x), x.svc.undo # "Idle", ~x.svc.composing, NEW g
  PROVE  LET y == TryRestoreLastCommitRaw(x, g)
         IN Good(y) /\ y.svc.undo = "Idle" /\ Aside(x, y) /\ ~y.svc.composing
<1> DEFINE n == Len(x.svc.commit.text) - 1
           y == RestoreSession(x, g, n, x.svc.commit.raw)
           h == x.host
           raw == x.svc.commit.raw
<1>1. /\ n \in Nat /\ raw \in Texts /\ h.doc \in Texts /\ h.caret \in 0..Len(h.doc)
      /\ Len(h.doc) \in Nat /\ Field(h) /\ h.comp = <<>>
  BY PairedComp DEF Good, Recorded, Texts, Located, Shaped, Field, Joint
<1>2. y.svc = x.svc /\ Shaped(y)
  BY DEF Good, Shaped, RestoreSession, Replace
<1>3. Located(y.host) /\ y.host.comp = <<>>
  <2>1. CASE g = "refused" \/ h.caret < n
    <3>1. y = x
      BY <2>1 DEF RestoreSession
    <3>2. QED  BY <1>1, <3>1 DEF Good
  <2>2. CASE ~(g = "refused" \/ h.caret < n)
    <3> DEFINE from == h.caret - n
               r == Replace(h, from, h.caret, raw)
    <3>1. from \in Nat /\ from <= h.caret /\ h.caret \in Nat /\ h.caret <= Len(h.doc)
      BY <1>1, <2>2
    <3>2. y.host = r
      BY <2>2 DEF RestoreSession, Good, Shaped
    <3> HIDE DEF from, h
    <3>3. Replaced(h, from, raw, r)
      BY <1>1, <3>1, ReplaceText
    <3>4. QED  BY <1>1, <3>2, <3>3 DEF Replaced, Located
  <2>3. QED  BY <2>1, <2>2
<1> HIDE DEF y
<1>4. Good(y)
  <2>1. Joint(y)
    BY <1>2, <1>3 DEF Good, Joint, Paired
  <2>2. QED  BY <1>2, <1>3, <2>1 DEF Good
<1>5. Kept(y, ResetCommitUndo(y)) /\ Aside(y, ResetCommitUndo(y)) /\ Light(y, ResetCommitUndo(y))
  BY <1>2, <1>4, GoodOps, AsideOps, LightOps
<1>6. ResetCommitUndo(y).svc.undo = "Idle"
  BY <1>2, UndoReset
<1>7. TryRestoreLastCommitRaw(x, g) = ResetCommitUndo(y)
  BY DEF TryRestoreLastCommitRaw, y
<1>8. QED  BY <1>2, <1>5, <1>6, <1>7 DEF Kept, Aside, Light

LEMMA RecoverGood ==
  ASSUME EngineOK, NEW x, Good(x), NEW g
  PROVE  LET y == Recover(x, g)
         IN /\ Good(y) /\ Aside(x, y) /\ (Told(x) => y = x) /\ (Buffered(x) => y = x)
            /\ y = x \/ (y.svc.undo = "Idle" /\ ~Buffered(y))
            /\ ~x.svc.composing => y = x
            /\ y.svc.composing => Buffered(y) \/ y.svc.undo = "Idle"
<1>1. x.svc.composing \/ ~Buffered(x)
  BY DEF Good, Joint, Buffered
<1>2. CASE x.svc.composing /\ ~Buffered(x)
  <2>1. Recover(x, g) = Commit(x, g)
    BY <1>2 DEF Recover
  <2>2. PICK t \in Texts : Committed(x, Commit(x, g), g, t)
    BY CommitsGood
  <2>3. Good(Commit(x, g)) /\ Commit(x, g).svc.undo = "Idle"
    BY CommitsGood
  <2>4. QED  BY <1>2, <2>1, <2>2, <2>3 DEF Committed, Told, Buffered, EngineOK, EmptyEngine
<1>3. CASE ~(x.svc.composing /\ ~Buffered(x))
  <2>1. Recover(x, g) = x
    BY <1>1, <1>3 DEF Recover
  <2>2. QED  BY <1>3, <2>1 DEF Aside
<1>4. QED  BY <1>2, <1>3

-----------------------------------------------------------------------------
(* OnTestKeyDown on the text.                                               *)

\* A word OnTestKeyDown has promised Backspace to take up again.
Reviving(x) ==
  /\ x.svc.revive \in Texts /\ Len(x.svc.revive) \in 0..x.host.caret /\ ~Buffered(x)
Claimed(z, k) ==
  k = "BS" /\ z.eaten /\ Reviving(z) /\ z.svc.tested = "BS" /\ z.svc.wanted

\* What becomes of the undo of a commit when the key k is asked about.
UndoTested(x, z, k) ==
  \/ z.svc.undo = "Idle"
  \/ /\ z.svc.commit = x.svc.commit /\ x.svc.undo # "Idle"
     /\ \/ Buffered(x) /\ z.svc.undo = x.svc.undo
        \/ z.svc.undo = "Ready" /\ x.svc.undo = "Ready" /\ x.svc.commit.old
        \/ /\ x.svc.undo = "Ready" /\ z.svc.undo = "Primed" /\ k = "BS" /\ z.host = x.host
           /\ ~x.svc.commit.old
        \/ /\ z.svc.undo = x.svc.undo /\ k = "ESC" /\ z.host = x.host
           /\ ~z.svc.composing /\ ~z.eaten

TestDone(x, z, k, g) ==
  /\ Good(z)
  /\ z.svc.undo = "Primed" => ~z.svc.composing /\ ~z.eaten
  /\ z.eaten /\ k = " " => Buffered(z)
  /\ z.svc.revive # <<>> => Claimed(z, k)
  /\ g = "granted" /\ Told(x) => Told(z) /\ (z.eaten \/ ~z.svc.composing)
  /\ UndoTested(x, z, k)

\* What a key may be wanted for.
Wanting(w, k) ==
  /\ w.want => k \in Wantable
  /\ w.want /\ k = " " => Buffered(w)
  /\ w.svc.revive # <<>> => k = "BS" /\ w.want /\ Reviving(w)

\* The answer: the word is committed, or only the answer is kept.
Told2(w, z, k, g) ==
  \/ /\ ~w.want /\ Buffered(w) /\ z.svc.undo = "Idle" /\ ~z.eaten /\ z.svc.revive = w.svc.revive
     /\ g = "granted" => ~z.svc.composing
  \/ /\ ~(~w.want /\ Buffered(w)) /\ UndoSame(w, z) /\ Light(w, z) /\ z.eaten = w.want
     /\ z.svc.revive = w.svc.revive /\ z.svc.tested = k /\ z.svc.wanted = w.want

LEMMA AnswerGood ==
  ASSUME EngineOK, NEW w, Good(w), NEW k, NEW g, w.want => k \in Wantable
  PROVE  LET z == Answer(w, k, g)
         IN Good(z) /\ (Told(w) => Told(z) \/ g # "granted") /\ Told2(w, z, k, g)
<1>1. Shaped(w)
  BY DEF Good
<1>2. CASE ~w.want /\ Buffered(w)
  <2> DEFINE c == Cache(w, k, FALSE)
             d == Commit(c, g)
  <2>1. /\ Good(c) /\ Light(w, c) /\ c.svc.revive = w.svc.revive
    BY <1>1, GoodOps DEF Kept, Cache, Shaped, NewService, Light
  <2> HIDE DEF c
  <2>2. Good(d) /\ d.svc.undo = "Idle" /\ \E t \in Texts : Committed(c, d, g, t)
    BY <2>1, CommitsGood
  <2>3. PICK t \in Texts : Committed(c, d, g, t)
    BY <2>2
  <2> HIDE DEF d
  <2>4. d.svc.revive = w.svc.revive /\ (g = "granted" => ~d.svc.composing)
    BY <2>1, <2>3 DEF Committed, Aside, Light
  <2>5. Kept(d, Pass(d)) /\ Light(d, Pass(d)) /\ Aside(d, Pass(d)) /\ UndoSame(d, Pass(d))
        /\ ~Pass(d).eaten
    BY <2>2, GoodOps, LightOps, AsideOps, GoodShaped DEF Pass, Shaped
  <2>6. Answer(w, k, g) = Pass(d)
    BY <1>2 DEF Answer, d, c
  <2>7. Told2(w, Pass(d), k, g)
    BY <1>2, <2>2, <2>4, <2>5 DEF Told2, Light, Aside, UndoSame
  <2>8. g = "granted" => Told(Pass(d))
    BY <2>4, <2>5 DEF Told, Light
  <2>9. QED  BY <2>5, <2>6, <2>7, <2>8 DEF Kept
<1>3. CASE ~(~w.want /\ Buffered(w))
  <2> DEFINE c == Cache(w, k, w.want)
             z == [c EXCEPT !.eaten = w.want]
  <2>1. Kept(w, c)
    BY GoodOps
  <2>2. /\ Light(w, c) /\ UndoSame(w, c) /\ c.svc.revive = w.svc.revive
        /\ c.svc.tested = k /\ c.svc.wanted = w.want
    BY <1>1 DEF Cache, Shaped, NewService, Light, UndoSame
  <2>3. Good(c) /\ Shaped(c)
    BY <2>1 DEF Kept, Good
  <2> HIDE DEF c
  <2>4. Kept(c, z) /\ Light(c, z) /\ Aside(c, z) /\ UndoSame(c, z) /\ z.eaten = w.want
    BY <2>3, GoodOps, LightOps, AsideOps DEF Shaped
  <2> HIDE DEF z
  <2>5. Answer(w, k, g) = z
    BY <1>3 DEF Answer, z, c
  <2>6. Told2(w, z, k, g)
    BY <1>3, <2>2, <2>4 DEF Told2, Light, Aside, UndoSame
  <2>7. Good(z) /\ (Told(w) => Told(z))
    BY <2>1, <2>4, KeptTrans DEF Kept
  <2>8. QED  BY <2>5, <2>6, <2>7
<1>4. QED  BY <1>2, <1>3

\* The state behind Answer when no undo was primed on the way.
LEMMA AnswerDone ==
  ASSUME EngineOK, NEW x, NEW w, Good(w), NEW k, NEW g, Wanting(w, k),
         Told(x) => Told(w),
         \/ w.svc.undo = "Idle"
         \/ /\ w.svc.commit = x.svc.commit /\ x.svc.undo # "Idle" /\ w.svc.undo = x.svc.undo
            /\ w.svc.undo # "Primed" \/ (~w.svc.composing /\ ~w.want)
            /\ \/ Buffered(x)
               \/ w.svc.undo = "Ready" /\ x.svc.commit.old
               \/ k = "ESC" /\ w.host = x.host /\ ~w.svc.composing /\ ~w.want
  PROVE  TestDone(x, Answer(w, k, g), k, g)
<1> DEFINE z == Answer(w, k, g)
<1>1. Good(z) /\ (Told(w) => Told(z) \/ g # "granted") /\ Told2(w, z, k, g)
  BY AnswerGood DEF Wanting
<1> HIDE DEF z
<1>2. z.svc.revive # <<>> => Claimed(z, k)
  BY <1>1 DEF Told2, Wanting, Claimed, Reviving, Light, Buffered
<1>3. z.eaten /\ k = " " => Buffered(z)
  BY <1>1 DEF Told2, Wanting, Light, Buffered
<1>4. z.svc.undo = "Primed" => ~z.svc.composing /\ ~z.eaten
  BY <1>1 DEF Told2, UndoSame, Light
<1>5. UndoTested(x, z, k)
  BY <1>1 DEF Told2, UndoSame, Light, UndoTested
<1>6. g = "granted" /\ Told(x) => Told(z) /\ (z.eaten \/ ~z.svc.composing)
  BY <1>1 DEF Told2, Light, Told, Buffered
<1>7. QED  BY <1>1, <1>2, <1>3, <1>4, <1>5, <1>6 DEF TestDone, z

LEMMA EraseGood ==
  ASSUME NEW w, Good(w), NEW g, NEW want, ~Buffered(w), w.svc.revive = <<>>, ~want
  PROVE  LET v == TestErase(w, g, want)
         IN /\ Kept(w, v) /\ Light(w, v) /\ (v.want => v.svc.revive # <<>>)
            /\ v.svc.revive # <<>> => v.want /\ Reviving(v)
            /\ \/ v.svc.undo = "Idle"
               \/ UndoSame(w, v) /\ w.svc.undo # "Primed"
<1> DEFINE u == IF w.svc.undo = "Primed" THEN ResetCommitUndo(w) ELSE w
           v == PrepareBackspaceRevive(u, g)
           word == IF g = "refused" THEN <<>> ELSE PrecedingWord(u.host)
<1>1. Shaped(w)
  BY DEF Good
<1>2. /\ Kept(w, u) /\ Light(w, u) /\ Good(u)
      /\ u.svc.undo = "Idle" \/ (UndoSame(w, u) /\ w.svc.undo # "Primed")
  BY <1>1, GoodOps, LightOps, UndoReset, KeptSelf, LightSelf DEF UndoSame, Kept
<1> HIDE DEF u
<1>3. Shaped(u) /\ Located(u.host)
  BY <1>2 DEF Good
<1>4. word \in Texts /\ Len(word) \in 0..u.host.caret
  <2>1. <<>> \in Texts /\ Len(<<>>) \in 0..u.host.caret
    BY <1>3 DEF Texts, Located
  <2>2. QED  BY <1>3, <2>1, WordBehind
<1>5. Kept(u, v) /\ Light(u, v) /\ UndoSame(u, v)
  BY <1>2, <1>3, GoodOps, LightOps, AsideOps
<1> HIDE DEF word
<1>6. /\ v.svc.revive = word \/ v.svc.revive = <<>>
      /\ v.want <=> v.svc.revive # <<>>
  BY <1>3 DEF PrepareBackspaceRevive, Shaped, NewService, Revivable, word
<1> HIDE DEF v
<1>7. v.svc.revive # <<>> => Reviving(v)
  BY <1>2, <1>4, <1>5, <1>6 DEF Reviving, Light, Buffered
<1>8. TestErase(w, g, want) = v
  BY DEF TestErase, v, u
<1>9. QED  BY <1>2, <1>5, <1>6, <1>7, <1>8, KeptTrans, LightTrans DEF UndoSame

\* The undo is taken one step towards the raw keys.
LEMMA PrimedDone ==
  ASSUME NEW x, NEW w, Good(w), ~Buffered(w), ~w.svc.composing, w.svc.undo = "Ready",
         ~w.svc.commit.old, w.svc.revive = <<>>, w.svc.commit = x.svc.commit,
         w.svc.undo = x.svc.undo, w.host = x.host, Told(x) => Told(w), NEW g
  PROVE  TestDone(x, Cache(Pass([w EXCEPT !.svc.undo = "Primed"]), "BS", FALSE), "BS", g)
<1> DEFINE p == [w EXCEPT !.svc.undo = "Primed"]
           z == Cache(Pass(p), "BS", FALSE)
<1>1. Shaped(w)
  BY DEF Good
<1>2. /\ Kept(w, p) /\ Light(w, p) /\ Shaped(p) /\ p.svc.undo = "Primed"
      /\ p.svc.commit = w.svc.commit /\ p.svc.revive = <<>>
  BY <1>1, GoodOps, LightOps DEF Shaped, NewService
<1> HIDE DEF p
<1>3. /\ Kept(p, Pass(p)) /\ Light(p, Pass(p)) /\ Shaped(Pass(p)) /\ Aside(p, Pass(p))
      /\ UndoSame(p, Pass(p)) /\ ~Pass(p).eaten
  BY <1>2, GoodOps, LightOps, AsideOps, EatFrame, PlacedShaped DEF Kept, Pass, Shaped
<1> DEFINE q == Pass(p)
<1> HIDE DEF q
<1>4. Kept(q, Cache(q, "BS", FALSE))
  BY <1>3, GoodOps DEF Kept, q
<1>5. /\ Light(q, Cache(q, "BS", FALSE)) /\ UndoSame(q, Cache(q, "BS", FALSE))
      /\ Cache(q, "BS", FALSE).svc.revive = q.svc.revive
      /\ Cache(q, "BS", FALSE).eaten = q.eaten
  BY <1>3 DEF Cache, Light, UndoSame, Shaped, NewService, q
<1>6. Kept(w, z)
  BY <1>2, <1>3, <1>4, KeptTrans DEF q
<1>7. /\ Light(w, z) /\ z.svc.undo = "Primed" /\ z.svc.commit = w.svc.commit
      /\ z.svc.revive = <<>> /\ ~z.eaten
  BY <1>2, <1>3, <1>5 DEF Light, UndoSame, Aside, q
<1> HIDE DEF z
<1>8. UndoTested(x, z, "BS")
  BY <1>7 DEF UndoTested, Light
<1>9. Good(z) /\ Told(z)
  <2>1. Told(w)
    BY DEF Told, Good, Joint, Buffered
  <2>2. QED  BY <1>6, <2>1 DEF Kept
<1>10. z.svc.revive = <<>> /\ ~z.svc.composing /\ ~z.eaten
  BY <1>7 DEF Light
<1> HIDE DEF z
<1>11. TestDone(x, z, "BS", g)
  BY <1>8, <1>9, <1>10 DEF TestDone
<1>12. QED  BY <1>11 DEF z, p

\* Behind WantKey: no word to take up is expected there, and what the undo of a
\* commit is worth is what it was.
LEMMA TestWantedDone ==
  ASSUME EngineOK, NEW x, NEW w, Good(w), NEW k, NEW g, w.svc.revive = <<>>, w.host = x.host,
         Told(x) => Told(w), Buffered(w) <=> Buffered(x),
         w.want => k \in Wantable, w.want => k \in Letters \/ Buffered(w),
         w.svc.composing => Buffered(w) \/ w.svc.undo = "Idle",
         k \notin {"BS", "ESC"} => w.svc.undo = "Idle",
         k = "ESC" => ~w.want, w.svc.undo = "Primed" => ~w.svc.composing,
         \/ w.svc.undo = "Idle"
         \/ UndoSame(x, w)
  PROVE  TestDone(x, TestWanted(w, k, g), k, g)
<1> DEFINE want == w.want /\ ~Suggested(w, k, g)
           erase == k = "BS" /\ ~Buffered(w)
<1>0. Shaped(w) /\ (Buffered(w) => w.svc.composing)
  BY DEF Good, Joint, Buffered
<1>1. CASE erase /\ w.svc.undo = "Ready" /\ WithinUndoWindow(w)
  <2>1. /\ ~Buffered(w) /\ ~w.svc.composing /\ w.svc.undo = "Ready" /\ ~w.svc.commit.old
        /\ w.svc.commit = x.svc.commit /\ w.svc.undo = x.svc.undo /\ k = "BS"
    BY <1>1 DEF WithinUndoWindow, UndoSame
  <2>2. TestWanted(w, k, g) = Cache(Pass([w EXCEPT !.svc.undo = "Primed"]), "BS", FALSE)
    BY <1>1 DEF TestWanted
  <2> DEFINE z == Cache(Pass([w EXCEPT !.svc.undo = "Primed"]), "BS", FALSE)
  <2>3. TestDone(x, z, "BS", g)
    BY <2>1, PrimedDone
  <2> HIDE DEF z
  <2>4. QED  BY <2>1, <2>2, <2>3 DEF z
<1>2. CASE erase /\ ~(w.svc.undo = "Ready" /\ WithinUndoWindow(w))
  <2> DEFINE v == TestErase(w, g, want)
  <2>1. ~want /\ ~Buffered(w) /\ k = "BS"
    <3>1. "BS" \notin Letters
      BY DEF Letters
    <3>2. QED  BY <1>2, <3>1
  <2>2. /\ Kept(w, v) /\ Light(w, v) /\ (v.want => v.svc.revive # <<>>)
        /\ v.svc.revive # <<>> => v.want /\ Reviving(v)
        /\ \/ v.svc.undo = "Idle"
           \/ UndoSame(w, v) /\ w.svc.undo # "Primed"
    BY <2>1, EraseGood
  <2>3. TestWanted(w, k, g) = Answer(v, k, g)
    BY <1>2 DEF TestWanted
  <2> HIDE DEF v
  <2>4. Good(v) /\ (Told(x) => Told(v))
    BY <2>2 DEF Kept
  <2>5. "BS" \in Wantable /\ "BS" # " "
    BY DEF Wantable
  <2>6. Wanting(v, k)
    BY <2>1, <2>2, <2>5 DEF Wanting
  <2>7. \/ v.svc.undo = "Idle"
        \/ /\ v.svc.commit = x.svc.commit /\ x.svc.undo # "Idle" /\ v.svc.undo = x.svc.undo
           /\ v.svc.undo # "Primed"
           /\ v.svc.undo = "Ready" => x.svc.commit.old
    BY <1>2, <2>2 DEF UndoSame, WithinUndoWindow
  <2>8. v.svc.undo \in {"Idle", "Ready", "Primed"}
    BY <2>4 DEF Good, Recorded
  <2>9. TestDone(x, Answer(v, k, g), k, g)
    BY <2>4, <2>6, <2>7, <2>8, AnswerDone
  <2>10. QED  BY <2>3, <2>9
<1>3. CASE ~erase
  <2> DEFINE v == [w EXCEPT !.want = want]
  <2>1. Kept(w, v) /\ Light(w, v) /\ UndoSame(w, v) /\ Aside(w, v) /\ v.want = want
    BY <1>0, GoodOps, LightOps, AsideOps DEF Shaped
  <2>2. TestWanted(w, k, g) = Answer(v, k, g)
    BY <1>3 DEF TestWanted
  <2> HIDE DEF v
  <2>3. Good(v) /\ (Told(x) => Told(v))
    BY <2>1 DEF Kept
  <2>4. Wanting(v, k)
    <3>1. " " \notin Letters
      BY DEF Letters
    <3>2. v.want => w.want
      BY <2>1
    <3>3. v.svc.revive = <<>>
      BY <2>1 DEF Aside
    <3>4. Buffered(v) <=> Buffered(w)
      BY <2>1 DEF Light, Buffered
    <3>5. QED  BY <3>1, <3>2, <3>3, <3>4 DEF Wanting
  <2>5. \/ v.svc.undo = "Idle"
        \/ /\ v.svc.commit = x.svc.commit /\ x.svc.undo # "Idle" /\ v.svc.undo = x.svc.undo
           /\ v.svc.undo # "Primed" \/ (~v.svc.composing /\ ~v.want)
           /\ \/ Buffered(x)
              \/ k = "ESC" /\ v.host = x.host /\ ~v.svc.composing /\ ~v.want
    <3>1. CASE w.svc.undo = "Idle"
      BY <3>1, <2>1 DEF UndoSame
    <3>2. CASE w.svc.undo # "Idle"
      <4>1. /\ v.svc.commit = x.svc.commit /\ v.svc.undo = x.svc.undo /\ x.svc.undo # "Idle"
            /\ v.svc.undo = w.svc.undo
        BY <3>2, <2>1 DEF UndoSame
      <4>2. v.host = x.host /\ v.svc.composing = w.svc.composing
        BY <2>1 DEF Light
      <4>3. v.want => w.want
        BY <2>1
      <4>4. Buffered(x) \/ (k = "ESC" /\ ~w.svc.composing)
        BY <1>0, <1>3, <3>2
      <4>5. w.svc.undo = "Primed" => k = "ESC" /\ ~w.svc.composing
        BY <1>0, <1>3, <3>2
      <4>6. QED  BY <4>1, <4>2, <4>3, <4>4, <4>5
    <3>3. QED  BY <3>1, <3>2
  <2>6. TestDone(x, Answer(v, k, g), k, g)
    BY <2>3, <2>4, <2>5, AnswerDone
  <2>7. QED  BY <2>2, <2>6
<1>4. QED  BY <1>1, <1>2, <1>3

\* A state whose answer to the key was given on the spot.
Settled(s, z) ==
  Good(z) /\ Light(s, z) /\ UndoSame(s, z) /\ z.svc.revive = s.svc.revive

LEMMA EatSettled ==
  ASSUME NEW s, Good(s)
  PROVE  /\ Settled(s, Eat(s)) /\ Eat(s).eaten
         /\ Settled(s, Pass(s)) /\ ~Pass(s).eaten
         /\ \A k \in Wantable : \A v :
              Settled(s, Cache(s, k, v)) /\ Cache(s, k, v).eaten = s.eaten
         /\ \A k : Settled(s, Cache(s, k, FALSE)) /\ Cache(s, k, FALSE).eaten = s.eaten
         /\ Settled(s, Uncached(s)) /\ Uncached(s).eaten = s.eaten
<1>1. Shaped(s)
  BY DEF Good
<1>2. /\ Kept(s, Eat(s)) /\ Light(s, Eat(s)) /\ UndoSame(s, Eat(s)) /\ Aside(s, Eat(s))
      /\ Kept(s, Pass(s)) /\ Light(s, Pass(s)) /\ UndoSame(s, Pass(s)) /\ Aside(s, Pass(s))
  BY <1>1, GoodOps, LightOps, AsideOps
<1>3. Eat(s).eaten /\ ~Pass(s).eaten
  BY <1>1 DEF Eat, Pass, Shaped
<1>4. ASSUME NEW k, NEW v, v => k \in Wantable
      PROVE  Settled(s, Cache(s, k, v)) /\ Cache(s, k, v).eaten = s.eaten
  <2>1. Kept(s, Cache(s, k, v)) /\ Light(s, Cache(s, k, v)) /\ UndoSame(s, Cache(s, k, v))
    BY <1>1, <1>4, GoodOps, LightOps, AsideOps
  <2>2. Cache(s, k, v).svc.revive = s.svc.revive /\ Cache(s, k, v).eaten = s.eaten
    BY <1>1 DEF Cache, Shaped, NewService
  <2>3. QED  BY <2>1, <2>2 DEF Settled, Kept
<1>5. Settled(s, Uncached(s)) /\ Uncached(s).eaten = s.eaten
  <2>1. Kept(s, Uncached(s)) /\ Light(s, Uncached(s)) /\ UndoSame(s, Uncached(s))
    BY <1>1, GoodOps, LightOps, AsideOps
  <2>2. Uncached(s).svc.revive = s.svc.revive /\ Uncached(s).eaten = s.eaten
    BY <1>1 DEF Uncached, Shaped, NewService
  <2>3. QED  BY <2>1, <2>2 DEF Settled, Kept
<1>6. QED  BY <1>2, <1>3, <1>4, <1>5 DEF Settled, Kept, Aside

LEMMA SettledTrans ==
  ASSUME NEW x, NEW y, NEW z, Settled(x, y), Settled(y, z)
  PROVE  Settled(x, z)
BY DEF Settled, Light, UndoSame

\* The word is committed or was none, and the undo is forgotten or the key was Esc.
LEMMA SettledDone ==
  ASSUME NEW y, NEW s, NEW z, Settled(s, z), s.svc.revive = <<>>, NEW k, NEW g,
         s.svc.undo = "Idle" \/ (UndoSame(y, s) /\ Buffered(y) /\ s.svc.undo # "Primed"),
         z.eaten => k # " ",
         g = "granted" /\ Told(y) => Told(s) /\ (z.eaten \/ ~s.svc.composing)
  PROVE  TestDone(y, z, k, g)
<1>1. Good(z) /\ z.svc.revive = <<>> /\ z.svc.undo # "Primed"
  BY DEF Settled, UndoSame
<1>2. UndoTested(y, z, k)
  BY DEF Settled, UndoSame, UndoTested
<1>3. g = "granted" /\ Told(y) => Told(z) /\ (z.eaten \/ ~z.svc.composing)
  BY DEF Settled, Light, Told, Buffered, Peek
<1>4. QED  BY <1>1, <1>2, <1>3 DEF TestDone

LEMMA CommittedIdle ==
  ASSUME EngineOK, NEW y, NEW s, NEW g, NEW t, Good(y), Committed(y, s, g, t),
         Told(y) \/ Buffered(y)
  PROVE  g = "granted" => ~s.svc.composing /\ Told(s)
BY DEF Committed, Told, Good, Joint, Buffered

LEMMA WantKeyDone ==
  ASSUME EngineOK, NEW y, Good(y), NEW k, NEW g, y.svc.revive = <<>>,
         y.svc.composing => Buffered(y) \/ y.svc.undo = "Idle",
         k \notin {"BS", "ESC"} => y.svc.undo = "Idle",
         y.svc.undo = "Primed" => ~y.svc.composing
  PROVE  TestDone(y, TestWanted(WantKey(y, k), k, g), k, g)
<1> DEFINE w == WantKey(y, k)
<1>1. Shaped(y)
  BY DEF Good
<1>2. /\ Kept(y, w) /\ Light(y, w) /\ Aside(y, w) /\ UndoSame(y, w)
      /\ (w.want => k \in Letters \cup Digits \cup {"BS", " "})
      /\ (w.want => k \in Letters \/ Buffered(y))
  BY <1>1, GoodOps, WantLight, WantAside
<1> HIDE DEF w
<1>3. w.host = y.host /\ (Buffered(w) <=> Buffered(y)) /\ w.svc.composing = y.svc.composing
  BY <1>2 DEF Light, Buffered
<1>4. w.svc.revive = <<>> /\ w.svc.undo = y.svc.undo
  BY <1>2 DEF Aside, UndoSame
<1>5. Good(w) /\ (Told(y) => Told(w))
  BY <1>2 DEF Kept
<1>6. w.want => k \in Wantable
  BY <1>2 DEF Wantable
<1>7. k = "ESC" => ~w.want
  <2>1. "ESC" \notin Letters \cup Digits \cup {"BS", " "}
    BY DEF Letters, Digits
  <2>2. QED  BY <1>2, <2>1
<1>8. TestDone(y, TestWanted(w, k, g), k, g)
  BY <1>2, <1>3, <1>4, <1>5, <1>6, <1>7, TestWantedDone
<1>9. QED  BY <1>8 DEF w

LEMMA TestRecoveredDone ==
  ASSUME EngineOK, NEW y, Good(y), NEW k \in Keys, NEW g, y.svc.revive = <<>>,
         y.svc.composing => Buffered(y) \/ y.svc.undo = "Idle",
         k \notin {"BS", "ESC"} => y.svc.undo = "Idle",
         y.svc.undo = "Primed" => ~y.svc.composing
  PROVE  TestDone(y, TestRecovered(y, k, g), k, g)
<1>0. Buffered(y) => y.svc.composing
  BY DEF Good, Joint, Buffered
<1>1. CASE k = "CTRL"
  <2> DEFINE s == IF Buffered(y) THEN Commit(y, g) ELSE y
  <2>1. /\ Good(s) /\ s.svc.undo = "Idle" /\ s.svc.revive = <<>>
        /\ g = "granted" /\ Told(y) => Told(s) /\ ~s.svc.composing
    <3>1. CASE Buffered(y)
      <4> DEFINE c == Commit(y, g)
      <4>1. Good(c) /\ (\E t \in Texts : Committed(y, c, g, t)) /\ c.svc.undo = "Idle"
        BY CommitsGood
      <4>2. PICK t \in Texts : Committed(y, c, g, t)
        BY <4>1
      <4>3. g = "granted" => ~c.svc.composing /\ Told(c)
        BY <3>1, <4>2, CommittedIdle
      <4>4. c.svc.revive = <<>>
        BY <4>2 DEF Committed, Aside
      <4>5. QED  BY <3>1, <4>1, <4>3, <4>4
    <3>2. CASE ~Buffered(y)
      BY <1>1, <3>2 DEF Told
    <3>3. QED  BY <3>1, <3>2
  <2>2. TestRecovered(y, k, g) = Pass(s)
    BY <1>1 DEF TestRecovered
  <2> HIDE DEF s
  <2>3. Settled(s, Pass(s)) /\ ~Pass(s).eaten
    BY <2>1, EatSettled
  <2>4. TestDone(y, Pass(s), k, g)
    BY <2>1, <2>3, SettledDone
  <2>5. QED  BY <2>2, <2>4
<1>2. CASE k # "CTRL" /\ EscRaw(y, k)
  <2> DEFINE s == CommitRawAndEnd(y, g)
  <2>1. Good(s) /\ (\E t \in Texts : Committed(y, s, g, t)) /\ UndoSame(y, s)
    BY CommitsGood
  <2>2. PICK t \in Texts : Committed(y, s, g, t)
    BY <2>1
  <2>3. Buffered(y) /\ k = "ESC"
    BY <1>2 DEF EscRaw
  <2>4. TestRecovered(y, k, g) = Eat(s)
    BY <1>2 DEF TestRecovered
  <2> HIDE DEF s
  <2>5. g = "granted" => ~s.svc.composing /\ Told(s)
    BY <2>2, <2>3, CommittedIdle
  <2>6. s.svc.revive = <<>> /\ s.svc.undo # "Primed"
    BY <1>0, <2>1, <2>2, <2>3 DEF Committed, Aside, UndoSame
  <2>7. Settled(s, Eat(s)) /\ Eat(s).eaten
    BY <2>1, EatSettled
  <2>8. TestDone(y, Eat(s), k, g)
    BY <2>1, <2>3, <2>5, <2>6, <2>7, SettledDone
  <2>9. QED  BY <2>4, <2>8
<1>3. CASE k # "CTRL" /\ ~EscRaw(y, k) /\ EscUndo(y, k)
  <2> DEFINE s == TryRestoreLastCommitRaw(y, g)
  <2>1. k = "ESC" /\ y.svc.undo = "Primed" /\ ~y.svc.composing
    BY <1>3 DEF EscUndo
  <2>2. Good(s) /\ s.svc.undo = "Idle" /\ Aside(y, s) /\ ~s.svc.composing
    BY <2>1, RestoreGood
  <2>3. TestRecovered(y, k, g) = Eat(s)
    BY <1>3 DEF TestRecovered
  <2> HIDE DEF s
  <2>4. s.svc.revive = <<>> /\ Told(s)
    BY <2>2 DEF Aside, Told
  <2>5. Settled(s, Eat(s)) /\ Eat(s).eaten
    BY <2>2, EatSettled
  <2>6. TestDone(y, Eat(s), k, g)
    BY <2>1, <2>2, <2>4, <2>5, SettledDone
  <2>7. QED  BY <2>3, <2>6
<1> DEFINE mark == IsPunctuationKey(k) /\ Buffered(y) /\ ~IsEngineDigitKey(y, k)
<1>4. CASE k # "CTRL" /\ ~EscRaw(y, k) /\ ~EscUndo(y, k) /\ mark
  <2> DEFINE s == Eat(y)
  <2>1. Settled(y, s) /\ s.eaten /\ Good(s)
    BY EatSettled DEF Settled
  <2>2. k \in Wantable /\ k \notin {"BS", "ESC", " "}
    BY <1>4 DEF IsPunctuationKey, Wantable, Digits
  <2>3. TestRecovered(y, k, g) = Cache(s, k, TRUE)
    BY <1>4 DEF TestRecovered
  <2> HIDE DEF s
  <2>4. Settled(s, Cache(s, k, TRUE)) /\ Cache(s, k, TRUE).eaten
    BY <2>1, <2>2, EatSettled
  <2>5. Settled(y, Cache(s, k, TRUE))
    BY <2>1, <2>4, SettledTrans
  <2>6. TestDone(y, Cache(s, k, TRUE), k, g)
    BY <2>2, <2>4, <2>5, SettledDone
  <2>7. QED  BY <2>3, <2>6
<1>5. CASE k # "CTRL" /\ ~EscRaw(y, k) /\ ~EscUndo(y, k) /\ ~mark
  <2>1. TestRecovered(y, k, g) = TestWanted(WantKey(y, k), k, g)
    BY <1>5 DEF TestRecovered
  <2>2. QED  BY <2>1, WantKeyDone
<1>6. QED  BY <1>1, <1>2, <1>3, <1>4, <1>5

LEMMA TestUnblockedDone ==
  ASSUME EngineOK, NEW x, Good(x), NEW k \in Keys, NEW g, x.svc.revive = <<>>,
         x.svc.undo = "Primed" => ~x.svc.composing
  PROVE  TestDone(x, TestUnblocked(x, k, g), k, g)
<1>1. CASE Buffered(x) /\ Suggested(x, k, g)
  <2> DEFINE s == Commit(x, g)
             p == Pass(s)
  <2>1. Good(s) /\ (\E t \in Texts : Committed(x, s, g, t)) /\ s.svc.undo = "Idle"
    BY CommitsGood
  <2>2. PICK t \in Texts : Committed(x, s, g, t)
    BY <2>1
  <2> HIDE DEF s
  <2>3. g = "granted" => ~s.svc.composing /\ Told(s)
    BY <1>1, <2>2, CommittedIdle
  <2>4. s.svc.revive = <<>>
    BY <2>2 DEF Committed, Aside
  <2>5. Settled(s, p) /\ ~p.eaten /\ Good(p)
    BY <2>1, EatSettled DEF Settled
  <2>6. TestUnblocked(x, k, g) = Cache(p, k, FALSE)
    BY <1>1 DEF TestUnblocked, p, s
  <2> HIDE DEF p
  <2>7. Settled(p, Cache(p, k, FALSE)) /\ Cache(p, k, FALSE).eaten = p.eaten
    BY <2>5, EatSettled
  <2>8. Settled(s, Cache(p, k, FALSE)) /\ ~Cache(p, k, FALSE).eaten
    BY <2>5, <2>7, SettledTrans
  <2>9. TestDone(x, Cache(p, k, FALSE), k, g)
    BY <2>1, <2>3, <2>4, <2>8, SettledDone
  <2>10. QED  BY <2>6, <2>9
<1>2. CASE ~(Buffered(x) /\ Suggested(x, k, g))
  <2> DEFINE a == OnNonRestoreKey(x, k)
             r == Recover(a, g)
             z == TestRecovered(r, k, g)
  <2>0. Shaped(x)
    BY DEF Good
  <2>1. Kept(x, a) /\ Light(x, a) /\ Aside(x, a)
    BY <2>0, GoodOps, LightOps, AsideOps
  <2>2. IF k \in {"BS", "ESC"} THEN a = x ELSE a.svc.undo = "Idle"
    BY <2>0, UndoReset DEF OnNonRestoreKey
  <2> HIDE DEF a
  <2>3. Good(a) /\ (Told(x) => Told(a)) /\ a.svc.revive = <<>>
    BY <2>1 DEF Kept, Aside
  <2>4. /\ Good(r) /\ Aside(a, r) /\ (Told(a) => r = a)
        /\ r = a \/ (r.svc.undo = "Idle" /\ ~Buffered(r))
        /\ r.svc.composing => Buffered(r) \/ r.svc.undo = "Idle"
    BY <2>3, RecoverGood
  <2> HIDE DEF r
  <2>5. r.svc.revive = <<>>
    BY <2>3, <2>4 DEF Aside
  <2>6. k \notin {"BS", "ESC"} => r.svc.undo = "Idle"
    BY <2>2, <2>4
  <2>7. r.svc.undo # "Idle" => r = x
    BY <2>2, <2>4
  <2>8. r.svc.undo = "Primed" => ~r.svc.composing
    BY <2>7
  <2>9. TestDone(r, z, k, g)
    BY <2>4, <2>5, <2>6, <2>8, TestRecoveredDone
  <2>10. TestUnblocked(x, k, g) = z
    BY <1>2 DEF TestUnblocked, z, r, a
  <2> HIDE DEF z
  <2>11. UndoTested(x, z, k)
    BY <2>7, <2>9 DEF TestDone, UndoTested
  <2>12. Told(x) => Told(r)
    BY <2>3, <2>4
  <2>13. TestDone(x, z, k, g)
    BY <2>9, <2>11, <2>12 DEF TestDone
  <2>14. QED  BY <2>10, <2>13
<1>3. QED  BY <1>1, <1>2

\* What OnTestKeyDown leaves: in a field that is blocked nothing.
LEMMA TestOfDone ==
  ASSUME EngineOK, NEW x, Good(x), NEW k \in Keys, NEW g, x.svc.revive = <<>>,
         x.svc.undo = "Primed" => ~x.svc.composing
  PROVE  LET z == TestOf(x, k, g)
         IN /\ z.svc.ctx = x.host.ctx
            /\ x.svc.ctx = x.host.ctx => z.svc.blocked = x.svc.blocked
            /\ IF z.svc.blocked
               THEN /\ Good(z) /\ Light(x, z) /\ UndoSame(x, z) /\ ~z.eaten
                    /\ z.svc.revive = <<>>
               ELSE TestDone(x, z, k, g)
<1> DEFINE y == CheckContextBlocked(x, g)
           z == TestOf(x, k, g)
<1>0. Shaped(x)
  BY DEF Good
<1>1. Kept(x, y) /\ Light(x, y) /\ Aside(x, y) /\ UndoSame(x, y)
  BY <1>0, GoodOps, LightOps, AsideOps
<1>2. /\ y.svc.ctx = x.host.ctx
      /\ x.svc.ctx = x.host.ctx => y.svc.blocked = x.svc.blocked
  BY <1>0 DEF CheckContextBlocked, Shaped, NewService
<1> HIDE DEF y
<1>3. Good(y) /\ (Told(x) => Told(y)) /\ y.svc.revive = <<>> /\ Shaped(y)
  BY <1>1 DEF Kept, Aside, Good
<1>4. CASE y.svc.blocked
  <2>1. z = Pass(y)
    BY <1>4 DEF TestOf, y
  <2>2. Settled(y, Pass(y)) /\ ~Pass(y).eaten /\ Placed(y, Pass(y))
    BY <1>3, EatSettled, EatFrame
  <2> HIDE DEF z
  <2>3. Good(z) /\ Light(x, z) /\ UndoSame(x, z) /\ ~z.eaten /\ z.svc.revive = <<>>
    BY <1>1, <1>3, <2>1, <2>2 DEF Settled, Light, UndoSame
  <2>4. z.svc.ctx = y.svc.ctx /\ z.svc.blocked = y.svc.blocked
    BY <2>1, <2>2 DEF Placed
  <2>5. QED  BY <1>2, <1>4, <2>3, <2>4 DEF z
<1>5. CASE ~y.svc.blocked
  <2>1. z = TestUnblocked(y, k, g)
    BY <1>5 DEF TestOf, y
  <2>2. Placed(y, TestUnblocked(y, k, g))
    BY <1>3, TestUnblockedFrame
  <2>3. TestDone(y, TestUnblocked(y, k, g), k, g)
    <3>1. y.svc.undo = "Primed" => ~y.svc.composing
      BY <1>1 DEF UndoSame, Light
    <3>2. QED  BY <1>3, <3>1, TestUnblockedDone
  <2> HIDE DEF z
  <2>4. z.svc.ctx = y.svc.ctx /\ z.svc.blocked = y.svc.blocked
    BY <2>1, <2>2 DEF Placed
  <2>5. UndoTested(x, z, k)
    BY <1>1, <2>1, <2>3 DEF TestDone, UndoTested, UndoSame, Light, Buffered
  <2>6. TestDone(x, z, k, g)
    BY <1>3, <2>1, <2>3, <2>5 DEF TestDone
  <2>7. QED  BY <1>2, <1>5, <2>4, <2>6 DEF z
<1>6. QED  BY <1>4, <1>5

-----------------------------------------------------------------------------
(* OnKeyDown on the text.                                                   *)

\* A handler leaves the undo and the answer kept alone.
Quiet(x, y) == Good(y) /\ Aside(x, y) /\ UndoSame(x, y)

LEMMA QuietGood ==
  ASSUME NEW x, NEW y, Good(x), Placed(x, y), Joint(y), Located(y.host), y.svc.eng \in Engines,
         Aside(x, y), UndoSame(x, y)
  PROVE  Quiet(x, y)
BY DEF Quiet, Good, Placed, Linked, Recorded, Answered, Aside, UndoSame

LEMMA ReviveGood ==
  ASSUME EngineOK, NEW x, Good(x), NEW g, NEW word, Len(word) \in 0..x.host.caret,
         NEW engine \in Engines
  PROVE  LET y == ReviveSession(x, g, word, engine)
         IN Quiet(x, y) /\ (Told(x) \/ g = "granted" => Told(y))
<1> DEFINE y == ReviveSession(x, g, word, engine)
           from == x.host.caret - Len(word)
           t == ComposeAll(engine.states)
           over == SetCompositionText(StartComposition(x, from), t)
           done == [over EXCEPT !.svc.eng = engine]
<1>0. Shaped(x) /\ Joint(x) /\ Located(x.host)
  BY DEF Good
<1>1. Placed(x, y) /\ Joint(y)
  BY <1>0, ReviveFrame, ReviveJoint
<1>2. from \in 0..x.host.caret
  BY <1>0 DEF Located
<1>3. t \in Texts
  BY DEF EngineOK
<1> HIDE DEF from
<1>4. /\ Shaped(over) /\ over.svc.composing = TRUE /\ Located(over.host) /\ Shows(over.host, t)
      /\ Aside(x, over) /\ UndoSame(x, over)
  BY <1>0, <1>2, <1>3, StartText
<1> HIDE DEF over
<1>5. /\ Shaped(done) /\ done.svc.eng = engine /\ done.svc.composing = TRUE
      /\ done.host = over.host /\ Aside(x, done) /\ UndoSame(x, done)
  BY <1>4 DEF Shaped, NewService, Aside, UndoSame
<1> HIDE DEF done
<1>6. LET e == EndComposition(done)
      IN /\ e.svc.composing = FALSE /\ e.svc.eng = engine /\ Located(e.host)
         /\ Aside(done, e) /\ UndoSame(done, e)
  BY <1>4, <1>5, EndText
<1>7. y = IF g # "granted" THEN x
          ELSE IF engine.states = <<>> THEN EndComposition(done) ELSE done
  BY DEF ReviveSession, done, over, from
<1> HIDE DEF y
<1>8. CASE g # "granted"
  <2>1. y = x
    BY <1>7, <1>8
  <2>2. Quiet(x, y)
    BY <2>1 DEF Quiet, Aside, UndoSame
  <2>3. QED  BY <1>8, <2>1, <2>2 DEF y
<1>9. CASE g = "granted" /\ engine.states = <<>>
  <2>1. Located(y.host) /\ Aside(x, y) /\ UndoSame(x, y) /\ y.svc.eng = engine
        /\ ~y.svc.composing
    BY <1>5, <1>6, <1>7, <1>9 DEF Aside, UndoSame
  <2>2. QED  BY <1>1, <2>1, QuietGood DEF Told, y
<1>10. CASE g = "granted" /\ engine.states # <<>>
  <2>1. y = done
    BY <1>7, <1>10
  <2>2. Located(y.host) /\ Aside(x, y) /\ UndoSame(x, y) /\ y.svc.eng = engine
        /\ Shows(y.host, t)
    BY <1>4, <1>5, <2>1
  <2>3. Told(y)
    BY <1>10, <2>2 DEF Told, Buffered, Peek
  <2>4. QED  BY <1>1, <2>2, <2>3, QuietGood DEF y
<1>11. QED  BY <1>8, <1>9, <1>10

\* The word of another engine, shown where there is a composition.
LEMMA ShownGood ==
  ASSUME EngineOK, NEW x, Good(x), x.svc.composing, NEW g, NEW engine \in Engines
  PROVE  LET z == Shown([x EXCEPT !.svc.eng = engine], g)
         IN Quiet(x, z) /\ (g = "granted" /\ engine.states # <<>> => Told(z))
<1> DEFINE y == [x EXCEPT !.svc.eng = engine]
           t == Peek(y)
           z == Shown(y, g)
<1>0. Shaped(x) /\ Paired(x) /\ Located(x.host)
  BY DEF Good, Joint
<1>1. /\ Shaped(y) /\ Paired(y) /\ y.svc.eng = engine /\ y.svc.composing = x.svc.composing
      /\ y.host = x.host /\ Aside(x, y) /\ UndoSame(x, y) /\ Placed(x, y)
  BY <1>0 DEF Shaped, NewService, Paired, Aside, UndoSame, Placed, Linked
<1> HIDE DEF y
<1>2. t \in Texts
  BY <1>1 DEF EngineOK, Peek
<1> HIDE DEF t
<1>3. LET u == UpdateSession(y, g, t)
      IN /\ Located(u.host) /\ Aside(y, u) /\ UndoSame(y, u) /\ u.svc.eng = y.svc.eng
         /\ g = "granted" => u.svc.composing /\ Shows(u.host, t)
  BY <1>0, <1>1, <1>2, UpdateText
<1>4. z = UpdateSession(y, g, t)
  BY DEF Shown, t
<1>5. Joint(z) /\ Placed(y, z)
  BY <1>0, <1>1, <1>4, ShownJoint, SessionFrames
<1> HIDE DEF z
<1>6. /\ Placed(x, z) /\ Located(z.host) /\ Aside(x, z) /\ UndoSame(x, z) /\ z.svc.eng = engine
      /\ g = "granted" => z.svc.composing /\ Shows(z.host, t)
  BY <1>1, <1>3, <1>4, <1>5, PlacedTrans DEF Aside, UndoSame
<1>7. Quiet(x, z)
  BY <1>5, <1>6, QuietGood
<1>8. g = "granted" /\ engine.states # <<>> => Told(z)
  BY <1>1, <1>6 DEF Told, Buffered, Peek, t
<1>9. QED  BY <1>7, <1>8 DEF z, y

LEMMA BackspaceGood ==
  ASSUME EngineOK, NEW x, Good(x), NEW g
  PROVE  LET z == ProcessBackspace(x, g)
         IN Quiet(x, z) /\ (g = "granted" /\ Told(x) => Told(z))
<1> DEFINE engine == EngineBackspace(x.svc.config, x.svc.eng)
           y == [x EXCEPT !.svc.eng = engine]
           z == ProcessBackspace(x, g)
<1>0. Shaped(x) /\ Paired(x) /\ Located(x.host) /\ Joint(x)
  BY DEF Good, Joint
<1>1. /\ Shaped(y) /\ Paired(y) /\ y.svc.eng = engine /\ y.svc.composing = x.svc.composing
      /\ y.host = x.host /\ Aside(x, y) /\ UndoSame(x, y) /\ Placed(x, y)
  BY <1>0 DEF Shaped, NewService, Paired, Aside, UndoSame, Placed, Linked
<1>2. engine \in Engines
  BY DEF Good, EngineOK
<1>3. engine.states # <<>> => x.svc.composing
  BY <1>0 DEF EngineOK, EmptyEngine, Joint
<1>4. Joint(z) /\ Placed(x, z)
  BY <1>0, BackspaceJoint, BackspaceFrame DEF EngineOK
<1>5. z = IF engine.states # <<>> THEN Shown(y, g) ELSE CommitSession(y, g, <<>>)
  BY <1>1 DEF ProcessBackspace, Buffered
<1>6. CASE engine.states # <<>>
  <2> HIDE DEF engine
  <2>1. LET v == Shown(y, g) IN Quiet(x, v) /\ (g = "granted" /\ engine.states # <<>> => Told(v))
    BY <1>2, <1>3, <1>6, ShownGood
  <2>2. QED  BY <1>5, <1>6, <2>1
<1>7. CASE engine.states = <<>>
  <2> HIDE DEF y, engine
  <2>0. <<>> \in Texts
    BY DEF Texts
  <2>1. SessionDone(y, CommitSession(y, g, <<>>), g, <<>>)
    BY <1>0, <1>1, <2>0, CommitText1
  <2>2. z = CommitSession(y, g, <<>>)
    BY <1>5, <1>7
  <2> HIDE DEF z
  <2>3. /\ Located(z.host) /\ Aside(x, z) /\ UndoSame(x, z) /\ z.svc.eng = engine
        /\ g = "granted" => ~z.svc.composing
    BY <1>1, <2>1, <2>2 DEF SessionDone, Aside, UndoSame
  <2>4. Quiet(x, z)
    BY <1>2, <1>4, <2>3, QuietGood
  <2>5. QED  BY <2>3, <2>4 DEF Told, z
<1>8. QED  BY <1>6, <1>7

\* The word of a letter typed outside a composition: the composition is
\* started, or the letter is left to the application.
LEMMA StartWithGood ==
  ASSUME EngineOK, NEW x, Good(x), ~x.svc.composing, NEW g, NEW engine \in Engines,
         engine.states # <<>>
  PROVE  LET z == StartWith([x EXCEPT !.svc.eng = engine], g)
         IN Quiet(x, z) /\ Told(z) /\ (z.eaten \/ ~z.svc.composing)
<1> DEFINE y == [x EXCEPT !.svc.eng = engine]
           t == Peek(y)
           s == StartSession(y, g, t)
           e == [s EXCEPT !.svc.eng = EngineFresh]
           z == StartWith(y, g)
<1>0. Shaped(x) /\ Paired(x) /\ Located(x.host)
  BY DEF Good, Joint
<1>1. /\ Shaped(y) /\ Paired(y) /\ y.svc.eng = engine /\ y.svc.composing = x.svc.composing
      /\ y.host = x.host /\ Aside(x, y) /\ UndoSame(x, y) /\ Placed(x, y)
  BY <1>0 DEF Shaped, NewService, Paired, Aside, UndoSame, Placed, Linked
<1> HIDE DEF y
<1>2. t \in Texts
  BY <1>1 DEF EngineOK, Peek
<1> HIDE DEF t
<1>3. /\ Located(s.host) /\ Aside(y, s) /\ UndoSame(y, s) /\ s.svc.eng = y.svc.eng
      /\ g = "granted" => s.svc.composing /\ Shows(s.host, t)
      /\ g # "granted" => s = y
  <2>1. LET v == StartSession(y, g, t)
        IN /\ Located(v.host) /\ Aside(y, v) /\ UndoSame(y, v) /\ v.svc.eng = y.svc.eng
           /\ g = "granted" => v.svc.composing /\ Shows(v.host, t)
    BY <1>0, <1>1, <1>2, UpdateText
  <2>2. QED  BY <2>1 DEF StartSession
<1>4. Placed(y, s) /\ Shaped(s)
  BY <1>1, SessionFrames, PlacedShaped
<1>5. Joint(z) /\ Placed(y, z)
  BY <1>1, StartWithJoint, StartWithFrame DEF EngineOK
<1>6. z = IF s.svc.composing THEN Eat(s) ELSE Pass(e)
  BY DEF StartWith, s, t, e
<1> HIDE DEF s, z
<1>7. /\ e.host = s.host /\ Aside(s, e) /\ UndoSame(s, e) /\ e.svc.eng = EngineFresh
      /\ e.svc.composing = s.svc.composing /\ Shaped(e)
  BY <1>4 DEF Shaped, NewService, Aside, UndoSame
<1> HIDE DEF e
<1>8. /\ Light(s, Eat(s)) /\ Aside(s, Eat(s)) /\ UndoSame(s, Eat(s)) /\ Eat(s).eaten
      /\ Light(e, Pass(e)) /\ Aside(e, Pass(e)) /\ UndoSame(e, Pass(e)) /\ ~Pass(e).eaten
  BY <1>4, <1>7, LightOps, AsideOps DEF Eat, Pass, Shaped
<1>9. Placed(x, z)
  BY <1>1, <1>5, PlacedTrans
<1>10. CASE s.svc.composing
  <2>1. /\ z.host = s.host /\ z.svc.eng = engine /\ Aside(x, z) /\ UndoSame(x, z) /\ z.eaten
    BY <1>1, <1>3, <1>6, <1>8, <1>10 DEF Light, Aside, UndoSame
  <2>2. Shows(z.host, t)
    BY <1>1, <1>3, <1>10, <2>1
  <2>3. Told(z)
    BY <1>1, <2>1, <2>2 DEF Told, Buffered, Peek, t
  <2>4. Quiet(x, z)
    BY <1>3, <1>5, <1>9, <2>1, QuietGood
  <2>5. QED  BY <2>1, <2>3, <2>4 DEF z, y
<1>11. CASE ~s.svc.composing
  <2>1. /\ z.host = s.host /\ z.svc.eng = EngineFresh /\ Aside(x, z) /\ UndoSame(x, z)
        /\ ~z.svc.composing
    BY <1>1, <1>3, <1>6, <1>7, <1>8, <1>11 DEF Light, Aside, UndoSame
  <2>2. Quiet(x, z)
    BY <1>3, <1>5, <1>9, <2>1, QuietGood DEF EngineOK
  <2>3. QED  BY <2>1, <2>2 DEF Told, z, y
<1>12. QED  BY <1>10, <1>11

\* What a key typed into a word leaves, the undo of a commit apart.
Typed(x, z, g) ==
  Quiet(x, z) /\ (g = "granted" /\ Told(x) => Told(z) /\ (z.eaten \/ ~z.svc.composing))

LEMMA EatQuiet ==
  ASSUME NEW x, NEW y, Quiet(x, y)
  PROVE  /\ Quiet(x, Eat(y)) /\ Quiet(x, Pass(y)) /\ Eat(y).eaten
         /\ Told(y) => Told(Eat(y)) /\ Told(Pass(y))
<1>1. Shaped(y) /\ Good(y)
  BY DEF Quiet, Good
<1>2. /\ Kept(y, Eat(y)) /\ Aside(y, Eat(y)) /\ UndoSame(y, Eat(y))
      /\ Kept(y, Pass(y)) /\ Aside(y, Pass(y)) /\ UndoSame(y, Pass(y))
  BY <1>1, GoodOps, AsideOps
<1>3. Eat(y).eaten
  BY <1>1 DEF Eat, Shaped
<1>4. QED  BY <1>2, <1>3 DEF Quiet, Kept, Aside, UndoSame

LEMMA ComposeGood ==
  ASSUME EngineOK, NEW x, Good(x), NEW g, NEW word, Len(word) \in 0..x.host.caret, NEW k,
         NEW engine \in Engines, engine.states # <<>>, k \notin Digits \/ x.svc.composing
  PROVE  Typed(x, ComposeWith(x, g, word, k, engine), g)
<1> DEFINE y == [x EXCEPT !.svc.eng = engine]
           z == ComposeWith(x, g, word, k, engine)
<1>1. CASE word # <<>>
  <2> DEFINE r == ReviveSession(x, g, word, engine)
  <2>1. Quiet(x, r) /\ (Told(x) \/ g = "granted" => Told(r))
    BY ReviveGood
  <2>2. z = Eat(r)
    BY <1>1 DEF ComposeWith
  <2> HIDE DEF r
  <2>3. QED  BY <2>1, <2>2, EatQuiet DEF Typed
<1>2. CASE word = <<>> /\ x.svc.composing
  <2> DEFINE r == Shown(y, g)
  <2>1. Quiet(x, r) /\ (g = "granted" /\ engine.states # <<>> => Told(r))
    BY <1>2, ShownGood
  <2>2. z = Eat(r)
    BY <1>2 DEF ComposeWith
  <2> HIDE DEF r
  <2>3. QED  BY <2>1, <2>2, EatQuiet DEF Typed
<1>3. CASE word = <<>> /\ ~x.svc.composing
  <2>1. z = StartWith(y, g)
    BY <1>3 DEF ComposeWith
  <2>2. LET v == StartWith(y, g)
        IN Quiet(x, v) /\ Told(v) /\ (v.eaten \/ ~v.svc.composing)
    BY <1>3, StartWithGood
  <2>3. QED  BY <2>1, <2>2 DEF Typed
<1>4. QED  BY <1>1, <1>2, <1>3

LEMMA HandleLetterGood ==
  ASSUME EngineOK, NEW x, Good(x), NEW g, NEW k \in Keys,
         k \in Letters \/ (k \in Digits /\ Buffered(x))
  PROVE  Typed(x, HandleLetter(x, k, g), g)
<1> DEFINE word == TakenUp(x, g)
           seed == IF word = <<>> THEN x.svc.eng ELSE EngineSeed(x.svc.config, word)
           engine == PushKey(x, word, k)
<1>1. /\ word \in Texts /\ Len(word) \in 0..x.host.caret
      /\ word # <<>> => ~Buffered(x)
  <2>1. <<>> \in Texts /\ Len(<<>>) \in 0..x.host.caret
    BY DEF Texts, Good, Located
  <2>2. PrecedingWord(x.host) \in Texts /\ Len(PrecedingWord(x.host)) \in 0..x.host.caret
    BY WordBehind DEF Good
  <2>3. QED  BY <2>1, <2>2 DEF TakenUp
<1> HIDE DEF word
<1>2. seed \in Engines /\ (k \in Letters \/ seed.states # <<>>)
  BY <1>1 DEF Good, EngineOK, Buffered
<1>3. x.svc.config \in AllConfigs /\ engine = EnginePush(x.svc.config, seed, k)
  BY DEF Good, PushKey
<1> HIDE DEF seed, engine
<1>4. engine \in Engines /\ engine.states # <<>>
  BY <1>2, <1>3 DEF EngineOK
<1>5. k \notin Digits \/ x.svc.composing
  BY LettersAreNoDigits DEF Good, Joint, Buffered
<1>6. HandleLetter(x, k, g) = ComposeWith(x, g, word, k, engine)
  BY DEF HandleLetter, ComposeBehind, word, engine
<1>7. QED  BY <1>1, <1>4, <1>5, <1>6, ComposeGood

\* What becomes of the undo of a commit when the key is handled: only a word
\* committed by the key can be undone from here, and it ends at the caret, or
\* its session was refused.
UndoTyped(x, z) ==
  \/ z.svc.undo = "Idle" \/ UndoSame(x, z)
  \/ /\ z.svc.undo = "Ready" /\ z.eaten /\ ~Buffered(z)
     /\ z.svc.composing \/ (Ends(z.host, z.svc.commit.text) /\ ~z.host.sel)

KeyDone(x, z, k, g) ==
  /\ Good(z) /\ z.svc.revive = <<>> /\ z.svc.tested \in {x.svc.tested, ""}
  /\ g = "granted" /\ Told(x) => Told(z) /\ (z.eaten \/ ~z.svc.composing \/ k = "CTRL")
  /\ UndoTyped(x, z)

\* The same before the key counts as eaten.
WordDone(x, s, g) ==
  /\ Good(s) /\ s.svc.revive = <<>> /\ s.svc.tested = x.svc.tested
  /\ g = "granted" /\ Told(x) => Told(s) /\ ~s.svc.composing
  /\ \/ s.svc.undo = "Idle" \/ UndoSame(x, s)
     \/ /\ s.svc.undo = "Ready" /\ ~Buffered(s)
        /\ s.svc.composing \/ (Ends(s.host, s.svc.commit.text) /\ ~s.host.sel)

LEMMA SealedDone ==
  ASSUME NEW x, NEW s, NEW g, WordDone(x, s, g), NEW k
  PROVE  /\ KeyDone(x, Eat(s), k, g) /\ KeyDone(x, Eat(Uncached(s)), k, g)
         /\ s.svc.undo = "Idle" \/ UndoSame(x, s)
              => KeyDone(x, Pass(s), k, g) /\ KeyDone(x, Pass(Uncached(s)), k, g)
<1>1. Good(s)
  BY DEF WordDone
<1>2. /\ Settled(s, Eat(s)) /\ Eat(s).eaten /\ Settled(s, Pass(s))
      /\ Settled(s, Uncached(s))
  BY <1>1, EatSettled
<1>3. Shaped(s) /\ Aside(s, Eat(s)) /\ Aside(s, Pass(s)) /\ Uncached(s).svc.tested = ""
  BY <1>1, AsideOps DEF Good, Uncached, Shaped, NewService
<1>4. Good(Uncached(s)) /\ Shaped(Uncached(s))
  BY <1>2 DEF Settled, Good
<1> DEFINE u == Uncached(s)
<1> HIDE DEF u
<1>5. /\ Settled(u, Eat(u)) /\ Eat(u).eaten /\ Settled(u, Pass(u))
      /\ Aside(u, Eat(u)) /\ Aside(u, Pass(u))
  BY <1>4, EatSettled, AsideOps DEF u
<1>6. Settled(s, Eat(u)) /\ Settled(s, Pass(u))
  BY <1>2, <1>5, SettledTrans DEF u
<1>7. ASSUME NEW z, Settled(s, z), z.svc.tested \in {s.svc.tested, ""},
             z.eaten \/ s.svc.undo = "Idle" \/ UndoSame(x, s)
      PROVE  KeyDone(x, z, k, g)
  <2>1. Good(z) /\ z.svc.revive = <<>> /\ z.svc.tested \in {x.svc.tested, ""}
    BY <1>7 DEF Settled, WordDone
  <2>2. g = "granted" /\ Told(x) => Told(z) /\ ~z.svc.composing
    BY <1>7 DEF Settled, WordDone, Light, Told
  <2>3. UndoTyped(x, z)
    BY <1>7 DEF Settled, WordDone, Light, UndoSame, UndoTyped, Buffered
  <2>4. QED  BY <2>1, <2>2, <2>3 DEF KeyDone
<1>8. KeyDone(x, Eat(s), k, g)
  <2>1. Eat(s).svc.tested \in {s.svc.tested, ""}
    BY <1>3 DEF Aside
  <2>2. QED  BY <1>2, <1>7, <2>1
<1>9. KeyDone(x, Eat(u), k, g)
  <2>1. Eat(u).svc.tested \in {s.svc.tested, ""}
    BY <1>3, <1>5 DEF Aside, u
  <2>2. QED  BY <1>5, <1>6, <1>7, <2>1
<1>10. s.svc.undo = "Idle" \/ UndoSame(x, s) => KeyDone(x, Pass(s), k, g)
  <2>1. Pass(s).svc.tested \in {s.svc.tested, ""}
    BY <1>3 DEF Aside
  <2>2. QED  BY <1>2, <1>7, <2>1
<1>11. s.svc.undo = "Idle" \/ UndoSame(x, s) => KeyDone(x, Pass(u), k, g)
  <2>1. Pass(u).svc.tested \in {s.svc.tested, ""}
    BY <1>3, <1>5 DEF Aside, u
  <2>2. QED  BY <1>6, <1>7, <2>1
<1>12. QED  BY <1>8, <1>9, <1>10, <1>11 DEF u

\* The three ways to commit a word while a key is handled.
LEMMA CommitsDone ==
  ASSUME EngineOK, NEW x, Good(x), x.svc.revive = <<>>, NEW g
  PROVE  /\ WordDone(x, Commit(x, g), g) /\ Commit(x, g).svc.undo = "Idle"
         /\ WordDone(x, CommitRawAndEnd(x, g), g) /\ UndoSame(x, CommitRawAndEnd(x, g))
         /\ \A k \in Keys : Buffered(x) \/ x.svc.eng = EngineFresh
              => WordDone(x, CommitWithChar(x, g, k), g)
<1>1. ASSUME NEW s, NEW t, Committed(x, s, g, t)
      PROVE  /\ s.svc.revive = <<>> /\ s.svc.tested = x.svc.tested /\ ~Buffered(s)
             /\ g = "granted" => Told(s) /\ ~s.svc.composing
  <2>1. s.svc.revive = <<>> /\ s.svc.tested = x.svc.tested /\ ~Buffered(s)
    BY <1>1 DEF Committed, Aside, Buffered, EngineOK, EmptyEngine
  <2>2. g = "granted" => ~s.svc.composing
    BY <1>1 DEF Committed
  <2>3. QED  BY <2>1, <2>2 DEF Told
<1>2. WordDone(x, Commit(x, g), g) /\ Commit(x, g).svc.undo = "Idle"
  <2> DEFINE s == Commit(x, g)
  <2>1. Good(s) /\ (\E t \in Texts : Committed(x, s, g, t)) /\ s.svc.undo = "Idle"
    BY CommitsGood
  <2> HIDE DEF s
  <2>2. QED  BY <1>1, <2>1 DEF WordDone, s
<1>3. WordDone(x, CommitRawAndEnd(x, g), g) /\ UndoSame(x, CommitRawAndEnd(x, g))
  <2> DEFINE s == CommitRawAndEnd(x, g)
  <2>1. Good(s) /\ (\E t \in Texts : Committed(x, s, g, t)) /\ UndoSame(x, s)
    BY CommitsGood
  <2> HIDE DEF s
  <2>2. QED  BY <1>1, <2>1 DEF WordDone, s
<1>4. ASSUME NEW k \in Keys, Buffered(x) \/ x.svc.eng = EngineFresh
      PROVE  WordDone(x, CommitWithChar(x, g, k), g)
  <2> DEFINE s == CommitWithChar(x, g, k)
  <2>1. Good(s) /\ \E t \in Texts : Committed(x, s, g, t) /\ Remembered(x, s, t, TRUE)
    BY CommitsGood
  <2> HIDE DEF s
  <2>2. PICK t \in Texts : Committed(x, s, g, t) /\ Remembered(x, s, t, TRUE)
    BY <2>1
  <2>3. PeekRaw(x) # <<>> => x.svc.composing
    <3>1. CASE Buffered(x)
      BY <3>1 DEF Good, Joint, Buffered
    <3>2. CASE x.svc.eng = EngineFresh
      BY <3>2 DEF PeekRaw, EngineOK
    <3>3. QED  BY <1>4, <3>1, <3>2
  <2>4. \/ s.svc.undo = "Idle"
        \/ /\ s.svc.undo = "Ready"
           /\ s.svc.composing \/ (Ends(s.host, s.svc.commit.text) /\ ~s.host.sel)
    BY <2>2, <2>3 DEF Committed, Remembered
  <2>5. QED  BY <1>1, <2>1, <2>2, <2>4 DEF WordDone, s
<1>5. QED  BY <1>2, <1>3, <1>4

LEMMA WantableKeys == Wantable = Letters \cup {"BS", " "} \cup (Digits \cup {",", "."})
BY DEF Wantable

LEMMA QuietDone ==
  ASSUME NEW x, NEW z, NEW g, NEW k, Quiet(x, z), z.svc.revive = <<>>,
         g = "granted" /\ Told(x) => Told(z) /\ (z.eaten \/ ~z.svc.composing)
  PROVE  KeyDone(x, z, k, g)
BY DEF Quiet, KeyDone, UndoTyped, Aside

\* Backspace takes up the word OnTestKeyDown has promised, without its last letter.
LEMMA TakeUpDone ==
  ASSUME EngineOK, NEW x, Good(x), Reviving(x), NEW g, NEW k, NEW engine \in Engines
  PROVE  KeyDone(x, Eat([ReviveSession(x, g, x.svc.revive, engine) EXCEPT !.svc.revive = <<>>]),
                 k, g)
<1> DEFINE word == x.svc.revive
           r == ReviveSession(x, g, word, engine)
           p == [r EXCEPT !.svc.revive = <<>>]
<1>1. Quiet(x, r) /\ (Told(x) \/ g = "granted" => Told(r))
  BY ReviveGood DEF Reviving
<1> HIDE DEF r
<1>2. Good(r) /\ Shaped(r)
  BY <1>1 DEF Quiet, Good
<1>3. /\ Linked(r, p) /\ Light(r, p) /\ Recorded(p.svc) /\ Answered(p.svc)
      /\ p.svc.revive = <<>> /\ p.svc.tested = r.svc.tested /\ UndoSame(r, p)
  BY <1>2 DEF Shaped, NewService, Linked, Light, Recorded, Answered, Good, UndoSame
<1> HIDE DEF p
<1>4. Kept(r, p)
  BY <1>2, <1>3, LightKept
<1>5. Good(p) /\ Shaped(p) /\ (Told(r) => Told(p))
  BY <1>4 DEF Kept, Good
<1> DEFINE z == Eat(p)
<1>6. Kept(p, z) /\ Aside(p, z) /\ UndoSame(p, z) /\ z.eaten
  BY <1>5, GoodOps, AsideOps DEF Eat, Shaped
<1> HIDE DEF z
<1>7. Good(z) /\ z.svc.revive = <<>> /\ z.svc.tested = x.svc.tested /\ UndoSame(x, z)
  BY <1>1, <1>3, <1>6 DEF Kept, Aside, Quiet, UndoSame
<1>8. g = "granted" => Told(z) /\ z.eaten
  BY <1>1, <1>5, <1>6 DEF Kept
<1>9. KeyDone(x, z, k, g)
  BY <1>7, <1>8 DEF KeyDone, UndoTyped
<1>10. QED  BY <1>9 DEF z, p, r

LEMMA HandleKeyDone ==
  ASSUME EngineOK, NEW x, Good(x), NEW k \in Keys, NEW g, k \in Wantable,
         x.svc.revive # <<>> => k = "BS" /\ Reviving(x),
         k = " " => Buffered(x) \/ x.svc.eng = EngineFresh,
         ~(IsPunctuationKey(k) /\ Buffered(x) /\ ~IsEngineDigitKey(x, k))
  PROVE  KeyDone(x, HandleKey(x, k, g), k, g)
<1> DEFINE word == x.svc.revive
           engine == EngineBackspace(x.svc.config, EngineSeed(x.svc.config, word))
           letter == k \in Letters \/ (IsEngineDigitKey(x, k) /\ Buffered(x))
<1>0. "BS" \notin Letters \cup Digits /\ " " \notin Letters \cup Digits
  BY DEF Letters, Digits
<1>1. CASE k = "BS" /\ word # <<>>
  <2>1. Reviving(x)
    BY <1>1
  <2>2. engine \in Engines
    BY <2>1 DEF Reviving, Good, EngineOK
  <2>3. HandleKey(x, k, g) = Eat([ReviveSession(x, g, word, engine) EXCEPT !.svc.revive = <<>>])
    BY <1>0, <1>1 DEF HandleKey, IsEngineDigitKey
  <2> HIDE DEF engine
  <2>4. KeyDone(x, Eat([ReviveSession(x, g, x.svc.revive, engine) EXCEPT !.svc.revive = <<>>]),
                k, g)
    BY <2>1, <2>2, TakeUpDone
  <2>5. QED  BY <2>3, <2>4
<1>2. CASE k = "BS" /\ word = <<>>
  <2> DEFINE r == ProcessBackspace(x, g)
  <2>1. Quiet(x, r) /\ (g = "granted" /\ Told(x) => Told(r))
    BY BackspaceGood
  <2>2. HandleKey(x, k, g) = Eat(r)
    BY <1>0, <1>2 DEF HandleKey, IsEngineDigitKey
  <2> HIDE DEF r
  <2>3. Quiet(x, Eat(r)) /\ (Told(r) => Told(Eat(r))) /\ Eat(r).eaten
    BY <2>1, EatQuiet
  <2>4. Eat(r).svc.revive = <<>>
    BY <1>2, <2>3 DEF Quiet, Aside
  <2>5. QED  BY <2>1, <2>2, <2>3, <2>4, QuietDone
<1>3. CASE k = " "
  <2>1. word = <<>>
    BY <1>3
  <2>2. WordDone(x, CommitWithChar(x, g, k), g)
    BY <1>3, <2>1, CommitsDone
  <2>3. HandleKey(x, k, g) = Eat(CommitWithChar(x, g, k))
    BY <1>0, <1>3 DEF HandleKey, IsEngineDigitKey
  <2>4. QED  BY <2>2, <2>3, SealedDone
<1>4. CASE k \notin {"BS", " "} /\ letter
  <2>1. k \in Letters \/ (k \in Digits /\ Buffered(x))
    BY <1>4 DEF IsEngineDigitKey
  <2>2. Typed(x, HandleLetter(x, k, g), g)
    BY <2>1, HandleLetterGood
  <2>3. HandleKey(x, k, g) = HandleLetter(x, k, g)
    BY <1>4 DEF HandleKey
  <2> DEFINE z == HandleLetter(x, k, g)
  <2> HIDE DEF z
  <2>4. z.svc.revive = <<>>
    BY <1>4, <2>2 DEF Typed, Quiet, Aside, z
  <2>5. KeyDone(x, z, k, g)
    BY <2>2, <2>4, QuietDone DEF Typed, z
  <2>6. QED  BY <2>3, <2>5 DEF z
<1>5. CASE k \notin {"BS", " "} /\ ~letter
  <2>1. HandleKey(x, k, g) = Pass(x)
    BY <1>5 DEF HandleKey
  <2>2. ~Buffered(x)
    BY <1>5, WantableKeys DEF IsPunctuationKey
  <2>3. Quiet(x, x)
    BY DEF Quiet, Aside, UndoSame
  <2>4. Quiet(x, Pass(x)) /\ (Told(x) => Told(Pass(x)))
    BY <2>3, EatQuiet
  <2>5. Pass(x).svc.revive = <<>> /\ (Told(x) => ~Pass(x).svc.composing)
    BY <1>5, <2>2, LightOps DEF Told, Good, Pass, Shaped, Light, NewService
  <2>6. QED  BY <2>1, <2>4, <2>5, QuietDone
<1>6. QED  BY <1>1, <1>2, <1>3, <1>4, <1>5

LEMMA KeyWantedDone ==
  ASSUME EngineOK, NEW w, Good(w), NEW k \in Keys, NEW g, NEW want, want => k \in Wantable,
         w.svc.revive # <<>> => want /\ k = "BS" /\ Reviving(w),
         want /\ k = " " => Buffered(w) \/ w.svc.eng = EngineFresh,
         ~(IsPunctuationKey(k) /\ Buffered(w) /\ ~IsEngineDigitKey(w, k))
  PROVE  KeyDone(w, KeyWanted(w, k, g, want), k, g)
<1>1. CASE ~want /\ Buffered(w)
  <2>1. KeyWanted(w, k, g, want) = Pass(Commit(w, g))
    BY <1>1 DEF KeyWanted
  <2>2. w.svc.revive = <<>>
    BY <1>1
  <2>3. QED  BY <2>1, <2>2, CommitsDone, SealedDone
<1>2. CASE ~want /\ ~Buffered(w)
  <2>1. KeyWanted(w, k, g, want) = Pass(w)
    BY <1>2 DEF KeyWanted
  <2>2. Quiet(w, w)
    BY DEF Quiet, Aside, UndoSame
  <2>3. Quiet(w, Pass(w)) /\ (Told(w) => Told(Pass(w)))
    BY <2>2, EatQuiet
  <2>4. Pass(w).svc.revive = <<>> /\ (Told(w) => ~Pass(w).svc.composing)
    BY <1>2, LightOps DEF Told, Good, Pass, Shaped, Light, NewService
  <2>5. QED  BY <2>1, <2>3, <2>4, QuietDone
<1>3. CASE want
  <2>1. KeyWanted(w, k, g, want) = HandleKey(w, k, g)
    BY <1>3 DEF KeyWanted
  <2>2. QED  BY <1>3, <2>1, HandleKeyDone
<1>4. QED  BY <1>1, <1>2, <1>3

\* The state in which OnKeyDown asks what the key is wanted for.
LEMMA AskedGood ==
  ASSUME EngineOK, NEW x, Good(x), NEW k \in Keys
  PROVE  LET w == IF x.svc.tested = k THEN [x EXCEPT !.want = x.svc.wanted] ELSE WantKey(x, k)
             u == Uncached(w)
         IN /\ Kept(x, u) /\ Light(x, u) /\ UndoSame(x, u) /\ u.svc.revive = x.svc.revive
            /\ u.svc.tested = "" /\ u.svc.config = x.svc.config
            /\ w.want => k \in Wantable
            /\ w.want => \/ x.svc.tested = k /\ x.svc.wanted
                         \/ k \in Letters \/ Buffered(x)
            /\ x.svc.tested = k /\ x.svc.wanted => w.want
<1> DEFINE w == IF x.svc.tested = k THEN [x EXCEPT !.want = x.svc.wanted] ELSE WantKey(x, k)
           u == Uncached(w)
<1>0. Shaped(x) /\ k # ""
  BY KeysAssumption DEF Good
<1>1. Kept(x, w) /\ Light(x, w) /\ UndoSame(x, w) /\ Aside(x, w) /\ Linked(x, w)
  <2>1. CASE x.svc.tested = k
    <3> DEFINE v == [x EXCEPT !.want = x.svc.wanted]
    <3>1. Kept(x, v) /\ Light(x, v) /\ UndoSame(x, v) /\ Aside(x, v) /\ Linked(x, v)
      BY <1>0, GoodOps, LightOps, AsideOps DEF Placed
    <3> HIDE DEF v
    <3>2. w = v
      BY <2>1 DEF v
    <3>3. QED  BY <3>1, <3>2
  <2>2. CASE x.svc.tested # k
    <3> DEFINE v == WantKey(x, k)
    <3>1. Kept(x, v) /\ Light(x, v) /\ UndoSame(x, v) /\ Aside(x, v) /\ Linked(x, v)
      BY <1>0, GoodOps, WantLight, WantAside, WantFrame DEF Placed
    <3> HIDE DEF v
    <3>2. w = v
      BY <2>2 DEF v
    <3>3. QED  BY <3>1, <3>2
  <2>3. QED  BY <2>1, <2>2
<1>2. w.want => k \in Wantable
  <2>1. CASE x.svc.tested = k
    BY <1>0, <2>1 DEF Good, Answered, Shaped
  <2>2. CASE x.svc.tested # k
    BY <1>0, <2>2, WantAside DEF Wantable
  <2>3. QED  BY <2>1, <2>2
<1>3. /\ w.want => \/ x.svc.tested = k /\ x.svc.wanted
                   \/ k \in Letters \/ Buffered(x)
      /\ x.svc.tested = k /\ x.svc.wanted => w.want
  BY <1>0, WantAside DEF Shaped
<1> HIDE DEF w
<1>4. Good(w) /\ Shaped(w)
  BY <1>1 DEF Kept, Good
<1>5. /\ Kept(w, u) /\ Light(w, u) /\ UndoSame(w, u) /\ u.svc.revive = w.svc.revive
      /\ u.svc.tested = "" /\ u.svc.config = w.svc.config
  BY <1>4, GoodOps, LightOps, AsideOps DEF Uncached, Shaped, NewService
<1> HIDE DEF u
<1>6. /\ Kept(x, u) /\ Light(x, u) /\ UndoSame(x, u) /\ u.svc.revive = x.svc.revive
      /\ u.svc.tested = "" /\ u.svc.config = x.svc.config
  BY <1>1, <1>5, KeptTrans, LightTrans DEF UndoSame, Aside, Linked
<1>7. QED  BY <1>2, <1>3, <1>6 DEF u, w

LEMMA KeyDownDone ==
  ASSUME EngineOK, NEW x, Good(x), NEW k \in Keys, NEW g, x.svc.undo # "Primed",
         x.svc.revive # <<>> =>
           k = "BS" /\ Reviving(x) /\ x.svc.tested = "BS" /\ x.svc.wanted,
         k = " " /\ x.svc.tested = " " /\ x.svc.wanted => Buffered(x) \/ x.svc.eng = EngineFresh
  PROVE  KeyDone(x, KeyDownOf(x, k, g), k, g)
<1> DEFINE mark == IsPunctuationKey(k) /\ Buffered(x) /\ ~IsEngineDigitKey(x, k)
           z == KeyDownOf(x, k, g)
<1>0. "BS" \notin Digits \cup {",", "."}
  BY DEF Digits
<1>1. CASE k = "CTRL"
  <2>1. z = Pass(x)
    BY <1>1 DEF KeyDownOf
  <2>2. Quiet(x, x)
    BY DEF Quiet, Aside, UndoSame
  <2>3. Quiet(x, Pass(x)) /\ (Told(x) => Told(Pass(x)))
    BY <2>2, EatQuiet
  <2> HIDE DEF z
  <2>4. Good(z) /\ Aside(x, z) /\ UndoSame(x, z) /\ (Told(x) => Told(z))
    BY <2>1, <2>3 DEF Quiet
  <2>5. z.svc.revive = <<>> /\ z.svc.tested = x.svc.tested
    BY <1>1, <2>4 DEF Aside
  <2>6. QED  BY <1>1, <2>4, <2>5 DEF KeyDone, UndoTyped, z
<1>2. CASE k # "CTRL" /\ Buffered(x) /\ Suggested(x, k, g)
  <2>1. z = Pass(Uncached(Commit(x, g)))
    BY <1>2 DEF KeyDownOf
  <2>2. x.svc.revive = <<>>
    BY <1>2 DEF Reviving
  <2>3. QED  BY <2>1, <2>2, CommitsDone, SealedDone
<1>3. CASE k # "CTRL" /\ ~(Buffered(x) /\ Suggested(x, k, g)) /\ EscRaw(x, k)
  <2>1. z = Eat(CommitRawAndEnd(x, g))
    BY <1>3 DEF KeyDownOf
  <2>2. x.svc.revive = <<>>
    BY <1>3 DEF EscRaw
  <2>3. QED  BY <2>1, <2>2, CommitsDone, SealedDone
<1>4. ~EscUndo(x, k)
  BY DEF EscUndo
<1>5. CASE k # "CTRL" /\ ~(Buffered(x) /\ Suggested(x, k, g)) /\ ~EscRaw(x, k) /\ mark
  <2>1. z = Eat(Uncached(CommitWithChar(x, g, k)))
    BY <1>4, <1>5 DEF KeyDownOf
  <2>2. x.svc.revive = <<>> /\ Buffered(x)
    BY <1>5 DEF Reviving
  <2>3. QED  BY <2>1, <2>2, CommitsDone, SealedDone
<1>6. CASE k # "CTRL" /\ ~(Buffered(x) /\ Suggested(x, k, g)) /\ ~EscRaw(x, k) /\ ~mark
  <2> DEFINE w == IF x.svc.tested = k THEN [x EXCEPT !.want = x.svc.wanted] ELSE WantKey(x, k)
             u == Uncached(w)
             want == w.want /\ (x.svc.tested = k \/ ~Suggested(w, k, g))
  <2>1. z = KeyWanted(u, k, g, want)
    BY <1>4, <1>6 DEF KeyDownOf
  <2>2. /\ Kept(x, u) /\ Light(x, u) /\ UndoSame(x, u) /\ u.svc.revive = x.svc.revive
        /\ u.svc.tested = "" /\ u.svc.config = x.svc.config
        /\ w.want => k \in Wantable
        /\ w.want => \/ x.svc.tested = k /\ x.svc.wanted
                     \/ k \in Letters \/ Buffered(x)
        /\ x.svc.tested = k /\ x.svc.wanted => w.want
    BY AskedGood
  <2> HIDE DEF w, u
  <2>3. Good(u) /\ (Told(x) => Told(u)) /\ (want => k \in Wantable)
    BY <2>2 DEF Kept
  <2>4. u.svc.revive # <<>> => want /\ k = "BS" /\ Reviving(u)
    BY <2>2 DEF Reviving, Light, Buffered
  <2>5. want /\ k = " " => Buffered(u) \/ u.svc.eng = EngineFresh
    <3>1. " " \notin Letters
      BY DEF Letters
    <3>2. QED  BY <2>2, <3>1 DEF Light, Buffered
  <2>6. ~(IsPunctuationKey(k) /\ Buffered(u) /\ ~IsEngineDigitKey(u, k))
    BY <1>6, <2>2 DEF Light, Buffered, IsEngineDigitKey
  <2> HIDE DEF want, z
  <2>7. KeyDone(u, z, k, g)
    BY <2>1, <2>3, <2>4, <2>5, <2>6, KeyWantedDone
  <2>8. UndoTyped(x, z) /\ z.svc.tested \in {x.svc.tested, ""}
    BY <2>2, <2>7 DEF KeyDone, UndoTyped, UndoSame
  <2>9. KeyDone(x, z, k, g)
    BY <2>3, <2>7, <2>8 DEF KeyDone
  <2>10. QED  BY <2>9 DEF z
<1>7. QED  BY <1>1, <1>2, <1>3, <1>5, <1>6

-----------------------------------------------------------------------------
(* The application on the text.                                             *)

\* The places of a composition of h.
Spanned(h) == h.comp = <<>> \/ DOMAIN h.comp = {1, 2}

LEMMA ReplaceLength ==
  ASSUME NEW h, Field(h), h.doc \in Texts,
         NEW t \in Texts, NEW from \in Nat, NEW to \in Nat, from <= to, to <= Len(h.doc)
  PROVE  Len(Replace(h, from, to, t).doc) = Len(h.doc) - (to - from) + Len(t)
<1> DEFINE d == SubSeq(h.doc, 1, from) \o t \o SubSeq(h.doc, to + 1, Len(h.doc))
<1>1. Len(d) = Len(h.doc) - (to - from) + Len(t)
  BY Splice
<1>2. Replace(h, from, to, t).doc = d
  BY DEF Replace, Field
<1> HIDE DEF d
<1>3. QED  BY <1>1, <1>2

LEMMA EraseText ==
  ASSUME NEW h, Field(h), Located(h), ~h.sel, h.caret # 0
  PROVE  LET r == Replace(h, h.caret - 1, h.caret, <<>>)
         IN /\ Replaced(h, h.caret - 1, <<>>, r) /\ Len(r.doc) = Len(h.doc) - 1
            /\ r.caret = h.caret - 1
<1> DEFINE r == Replace(h, h.caret - 1, h.caret, <<>>)
<1>1. /\ h.doc \in Texts /\ h.caret \in Nat /\ h.caret - 1 \in Nat /\ h.caret <= Len(h.doc)
      /\ <<>> \in Texts /\ Len(<<>>) = 0 /\ Len(h.doc) \in Nat /\ h.caret - 1 <= h.caret
      /\ h.caret - (h.caret - 1) = 1
  BY DEF Located, Texts
<1>2. Len(r.doc) = Len(h.doc) - 1 + 0
  <2> DEFINE from == h.caret - 1
  <2>1. from \in Nat /\ from <= h.caret /\ h.caret - from = 1
    BY <1>1
  <2> DEFINE none == <<>>
  <2>2. none \in Texts /\ Len(none) = 0
    BY <1>1
  <2> HIDE DEF from, none
  <2>3. Len(Replace(h, from, h.caret, none).doc) = Len(h.doc) - (h.caret - from) + Len(none)
    <3>1. h.doc \in Texts /\ h.caret \in Nat /\ h.caret <= Len(h.doc)
      BY <1>1
    <3>2. QED  BY <2>1, <2>2, <3>1, ReplaceLength
  <2>4. QED  BY <1>1, <2>1, <2>2, <2>3 DEF from, none
<1>4. Replaced(h, h.caret - 1, <<>>, r)
  BY <1>1, ReplaceText
<1> HIDE DEF r
<1>5. Len(r.doc) = Len(h.doc) - 1
  BY <1>1, <1>2
<1>6. r.caret = h.caret - 1
  BY <1>1, <1>4 DEF Replaced
<1>7. QED  BY <1>4, <1>5, <1>6 DEF r

LEMMA TypeText ==
  ASSUME NEW h, Field(h), Located(h), NEW t \in Texts
  PROVE  LET r == Replace(h, h.caret, h.caret, t)
         IN /\ Replaced(h, h.caret, t, r) /\ Len(r.doc) = Len(h.doc) + Len(t)
<1> DEFINE r == Replace(h, h.caret, h.caret, t)
<1>1. /\ h.doc \in Texts /\ h.caret \in Nat /\ h.caret <= Len(h.doc) /\ Len(h.doc) \in Nat
      /\ Len(t) \in Nat /\ h.caret <= h.caret /\ h.caret - h.caret = 0
  BY DEF Located, Texts
<1>2. Len(r.doc) = Len(h.doc) - (h.caret - h.caret) + Len(t)
  BY <1>1, ReplaceLength
<1>4. Replaced(h, h.caret, t, r)
  BY <1>1, ReplaceText
<1> HIDE DEF r
<1>5. Len(r.doc) = Len(h.doc) + Len(t)
  BY <1>1, <1>2
<1>6. QED  BY <1>4, <1>5 DEF r

LEMMA AppKeyLocated ==
  ASSUME NEW h, Field(h), Located(h), Spanned(h), NEW k, Glyph(k) \in Glyphs
  PROVE  Located(AppKey(h, k))
<1> DEFINE a == AppKey(h, k)
<1>1. /\ h.doc \in Texts /\ h.caret \in Nat /\ h.caret <= Len(h.doc) /\ Len(h.doc) \in Nat
  BY DEF Located, Texts
<1>2. CASE k = "BS" /\ (h.sel \/ h.caret = 0)
  <2>1. a.doc = h.doc /\ a.caret = h.caret /\ a.comp = h.comp
    BY <1>2 DEF AppKey, Field
  <2> HIDE DEF a
  <2>2. QED  BY <2>1 DEF Located, a
<1>3. CASE k = "BS" /\ ~(h.sel \/ h.caret = 0)
  <2> DEFINE r == Replace(h, h.caret - 1, h.caret, <<>>)
             c == [i \in DOMAIN r.comp |->
                     IF r.comp[i] >= h.caret THEN r.comp[i] - 1 ELSE r.comp[i]]
  <2>1. Replaced(h, h.caret - 1, <<>>, r) /\ Len(r.doc) = Len(h.doc) - 1
    BY <1>3, EraseText
  <2> HIDE DEF r
  <2>2. a.doc = r.doc /\ a.caret = r.caret /\ a.comp = c
    BY <1>3, <2>1 DEF AppKey, Replaced, Field, r
  <2>3. ASSUME c # <<>>
        PROVE  /\ c[1] \in Nat /\ c[2] \in Nat /\ c[1] <= c[2] /\ c[2] <= Len(h.doc) - 1
    <3>1. r.comp = h.comp /\ h.comp # <<>> /\ DOMAIN h.comp = {1, 2}
      BY <2>1, <2>3 DEF Replaced, Spanned
    <3>2. /\ c[1] = IF h.comp[1] >= h.caret THEN h.comp[1] - 1 ELSE h.comp[1]
          /\ c[2] = IF h.comp[2] >= h.caret THEN h.comp[2] - 1 ELSE h.comp[2]
      BY <3>1
    <3>3. /\ h.comp[1] \in Nat /\ h.comp[2] \in Nat /\ h.comp[1] <= h.comp[2]
          /\ h.comp[2] <= Len(h.doc)
      BY <3>1 DEF Located
    <3> HIDE DEF c
    <3>4. QED  BY <1>1, <1>3, <3>2, <3>3
  <2> HIDE DEF c, a
  <2>4. QED  BY <2>1, <2>2, <2>3 DEF Located, Replaced, a
<1>4. CASE k = "LEFT"
  <2>1. a.doc = h.doc /\ a.caret = Max({0, h.caret - 1}) /\ a.comp = h.comp
    BY <1>4 DEF AppKey, Field
  <2>2. Max({0, h.caret - 1}) \in 0..h.caret
    <3>1. CASE h.caret = 0
      <4>1. \A m \in {0, h.caret - 1} : 0 >= m
        BY <3>1
      <4>2. QED  BY <3>1, <4>1 DEF Max
    <3>2. CASE h.caret # 0
      <4>1. h.caret - 1 \in 0..h.caret
        BY <1>1, <3>2
      <4>2. Max({0, h.caret - 1}) \in {0, h.caret - 1}
        <5>1. \E m \in {0, h.caret - 1} : \A n \in {0, h.caret - 1} : m >= n
          BY <1>1, <3>2
        <5>2. QED  BY <5>1 DEF Max
      <4>3. QED  BY <1>1, <4>1, <4>2
    <3>3. QED  BY <3>1, <3>2
  <2> HIDE DEF a
  <2>3. QED  BY <1>1, <2>1, <2>2 DEF Located, a
<1>5. CASE k \in {"ESC", "CTRL"}
  <2>1. a.doc = h.doc /\ a.caret = h.caret /\ a.comp = h.comp
    BY <1>5 DEF AppKey, Field
  <2> HIDE DEF a
  <2>2. QED  BY <2>1 DEF Located, a
<1>6. CASE k \notin {"BS", "LEFT", "ESC", "CTRL"}
  <2> DEFINE t == <<Glyph(k)>>
             r == Replace(h, h.caret, h.caret, t)
             c == [i \in DOMAIN r.comp |-> IF r.comp[i] > h.caret THEN r.comp[i] + 1 ELSE r.comp[i]]
  <2>0. t \in Texts /\ Len(t) = 1
    BY DEF Texts
  <2> HIDE DEF t
  <2>1. Replaced(h, h.caret, t, r) /\ Len(r.doc) = Len(h.doc) + 1
    BY <2>0, TypeText
  <2> HIDE DEF r
  <2>2. a.doc = r.doc /\ a.caret = r.caret /\ a.comp = c
    BY <1>6, <2>1 DEF AppKey, Replaced, Field, r, t
  <2>3. ASSUME c # <<>>
        PROVE  /\ c[1] \in Nat /\ c[2] \in Nat /\ c[1] <= c[2] /\ c[2] <= Len(h.doc) + 1
    <3>1. r.comp = h.comp /\ h.comp # <<>> /\ DOMAIN h.comp = {1, 2}
      BY <2>1, <2>3 DEF Replaced, Spanned
    <3>2. /\ c[1] = IF h.comp[1] > h.caret THEN h.comp[1] + 1 ELSE h.comp[1]
          /\ c[2] = IF h.comp[2] > h.caret THEN h.comp[2] + 1 ELSE h.comp[2]
      BY <3>1
    <3>3. /\ h.comp[1] \in Nat /\ h.comp[2] \in Nat /\ h.comp[1] <= h.comp[2]
          /\ h.comp[2] <= Len(h.doc)
      BY <3>1 DEF Located
    <3> HIDE DEF c
    <3>4. QED  BY <1>1, <3>2, <3>3, SMTT(30)
  <2> HIDE DEF c, a
  <2>4. QED  BY <2>1, <2>2, <2>3 DEF Located, Replaced, a
<1>7. QED  BY <1>2, <1>3, <1>4, <1>5, <1>6

\* Esc and Ctrl alone leave the text before the caret as it is.
LEMMA AppKeyEnds ==
  ASSUME NEW h, Field(h), NEW k \in {"ESC", "CTRL"}
  PROVE  LET a == AppKey(h, k)
         IN /\ a.doc = h.doc /\ a.caret = h.caret /\ a.comp = h.comp /\ ~a.sel
            /\ \A t : /\ Ends(h, t) => Ends(a, t)
                      /\ Shows(h, t) => Shows(a, t)
<1> DEFINE a == AppKey(h, k)
<1>1. a.doc = h.doc /\ a.caret = h.caret /\ a.comp = h.comp /\ ~a.sel
  BY DEF AppKey, Field
<1> HIDE DEF a
<1>2. QED  BY <1>1 DEF Ends, Shows, Stands, a

\* Backspace takes the last glyph of a text that ends at the caret.
LEMMA AppKeyErases ==
  ASSUME NEW h, Field(h), Located(h), NEW t \in Texts, t # <<>>, Ends(h, t), ~h.sel
  PROVE  Ends(AppKey(h, "BS"), Front(t))
<1> DEFINE r == Replace(h, h.caret - 1, h.caret, <<>>)
           a == AppKey(h, "BS")
           f == Front(t)
<1>1. /\ Len(t) \in Nat /\ Len(t) # 0 /\ Len(t) <= h.caret /\ h.caret \in Nat
      /\ Stands(h, h.caret - Len(t), t)
  BY DEF Texts, Ends, Located
<1>2. Replaced(h, h.caret - 1, <<>>, r) /\ r.caret = h.caret - 1
  BY <1>1, EraseText
<1>3. Len(f) = Len(t) - 1 /\ \A i \in 1..Len(t) - 1 : f[i] = t[i]
  <2>1. t \in Seq(Glyphs) /\ f = SubSeq(t, 1, Len(t) - 1)
    BY DEF Front, Texts
  <2> HIDE DEF f
  <2> DEFINE n == Len(t) - 1
  <2>2. n \in Nat /\ n <= Len(t)
    BY <1>1
  <2> HIDE DEF n
  <2>3. f = SubSeq(t, 1, n) /\ Len(f) = n
    <3>1. f = SubSeq(t, 1, n)
      BY <2>1 DEF n
    <3>2. Len(SubSeq(t, 1, n)) = n
      BY <2>1, <2>2
    <3>3. QED  BY <3>1, <3>2
  <2>4. \A i \in 1..n : f[i] = t[i]
    BY <2>1, <2>2, <2>3
  <2>5. QED  BY <2>3, <2>4 DEF n
<1> HIDE DEF r, f
<1>4. a.doc = r.doc /\ a.caret = h.caret - 1
  BY <1>1, <1>2 DEF AppKey, Replaced, Field, r
<1> HIDE DEF a
<1>5. \A i \in 1..h.caret - 1 : a.doc[i] = h.doc[i]
  BY <1>2, <1>4 DEF Replaced
<1>6. ASSUME NEW i \in 1..Len(f)
      PROVE  a.doc[(a.caret - Len(f)) + i] = f[i]
  <2>1. /\ i \in 1..Len(t) /\ i \in 1..Len(t) - 1
        /\ (a.caret - Len(f)) + i = (h.caret - Len(t)) + i
        /\ (h.caret - Len(t)) + i \in 1..h.caret - 1
    BY <1>1, <1>3, <1>4
  <2>2. h.doc[(h.caret - Len(t)) + i] = t[i]
    BY <1>1, <2>1 DEF Stands
  <2>3. QED  BY <1>3, <1>5, <2>1, <2>2
<1>7. Len(f) <= a.caret
  BY <1>1, <1>3, <1>4
<1>8. QED  BY <1>6, <1>7 DEF Ends, Stands, a, f

\* Ends is what PrimedBehindBody says with the operators of sequences.
LEMMA EndsSuffix ==
  ASSUME NEW h, Located(h), NEW t \in Texts, Ends(h, t)
  PROVE  IsSuffix(t, SubSeq(h.doc, 1, h.caret))
<1> DEFINE s == SubSeq(h.doc, 1, h.caret)
           n == Len(t)
           m == h.caret
<1>1. /\ n \in Nat /\ m \in Nat /\ n <= m /\ m <= Len(h.doc)
      /\ \A i \in 1..n : h.doc[(m - n) + i] = t[i]
  BY DEF Texts, Ends, Stands, Located
<1>2. s \in Seq(Glyphs) /\ Len(s) = m /\ \A i \in 1..m : s[i] = h.doc[i]
  BY <1>1 DEF Located, Texts
<1> HIDE DEF s, n, m
<1>3. /\ Reverse(t) \in Seq(Glyphs) /\ Len(Reverse(t)) = n
      /\ \A i \in 1..n : Reverse(t)[i] = t[(n - i) + 1]
  BY <1>1 DEF Reverse, Texts, n
<1>4. /\ Reverse(s) \in Seq(Glyphs) /\ Len(Reverse(s)) = m
      /\ \A i \in 1..m : Reverse(s)[i] = s[(m - i) + 1]
  BY <1>1, <1>2 DEF Reverse
<1> DEFINE a == Reverse(t)
           b == Reverse(s)
<1> HIDE DEF a, b
<1>5. ASSUME NEW i \in 1..n
      PROVE  a[i] = b[i]
  <2>1. (n - i) + 1 \in 1..n /\ (m - i) + 1 \in 1..m /\ i \in 1..m
        /\ (m - n) + ((n - i) + 1) = (m - i) + 1
    BY <1>1
  <2>2. h.doc[(m - i) + 1] = t[(n - i) + 1]
    BY <1>1, <2>1
  <2>3. QED  BY <1>2, <1>3, <1>4, <2>1, <2>2 DEF a, b
<1>6. SubSeq(a, 1, n) = SubSeq(b, 1, n)
  <2>1. a \in Seq(Glyphs) /\ b \in Seq(Glyphs) /\ Len(a) = n /\ Len(b) = m
    BY <1>3, <1>4 DEF a, b
  <2>2. /\ SubSeq(a, 1, n) = [i \in 1..n |-> a[i]]
        /\ SubSeq(b, 1, n) = [i \in 1..n |-> b[i]]
    BY <1>1, <2>1
  <2>3. QED  BY <1>5, <2>2
<1>7. QED  BY <1>1, <1>3, <1>4, <1>6 DEF IsSuffix, IsPrefix, s, a, b

\* A composition that shows t holds t.
LEMMA ShowsText ==
  ASSUME NEW h, Located(h), h.comp # <<>>, NEW t \in Texts, Shows(h, t)
  PROVE  Text(h) = t
<1> DEFINE a == h.comp[1]
           n == Len(t)
<1>1. /\ a \in Nat /\ n \in Nat /\ h.comp[2] = a + n /\ a + n <= Len(h.doc)
      /\ h.doc \in Seq(Glyphs) /\ Len(h.doc) \in Nat
      /\ \A i \in 1..n : h.doc[a + i] = t[i]
  BY DEF Located, Shows, Stands, Texts
<1> HIDE DEF a
<1>2. /\ Len(Text(h)) = n /\ Text(h) \in Seq(Glyphs)
      /\ \A i \in 1..n : Text(h)[i] = h.doc[a + i]
  <2>1. Text(h) = SubSeq(h.doc, a + 1, a + n)
    BY <1>1 DEF Text, a
  <2> HIDE DEF n
  <2> DEFINE w == SubSeq(h.doc, a + 1, a + n)
  <2>2. Len(w) = n
    <3>1. Len(w) = (a + n) - (a + 1) + 1
      BY <1>1
    <3> HIDE DEF w
    <3>2. QED  BY <1>1, <3>1
  <2>3. w \in Seq(Glyphs)
    BY <1>1
  <2>4. \A i \in 1..n : w[i] = h.doc[a + i]
    BY <1>1, <2>2
  <2>5. Text(h) = w
    BY <2>1
  <2> HIDE DEF w
  <2>6. QED  BY <2>2, <2>3, <2>4, <2>5
<1>3. t \in Seq(Glyphs)
  BY DEF Texts
<1>4. QED  BY ONLY <1>1, <1>2, <1>3, SMTT(60)

LEMMA AppKeyComp ==
  ASSUME NEW h, Field(h), Spanned(h), NEW k
  PROVE  LET a == AppKey(h, k)
         IN DOMAIN a.comp = DOMAIN h.comp /\ (h.comp = <<>> => a.comp = <<>>)
<1> DEFINE a == AppKey(h, k)
<1>1. a.comp = h.comp \/ \E f : a.comp = [i \in DOMAIN h.comp |-> f[i]]
  <2> DEFINE c == [i \in DOMAIN h.comp |->
                     IF h.comp[i] >= h.caret THEN h.comp[i] - 1 ELSE h.comp[i]]
             d == [i \in DOMAIN h.comp |->
                     IF h.comp[i] > h.caret THEN h.comp[i] + 1 ELSE h.comp[i]]
  <2>1. a.comp \in {h.comp, c, d}
    BY DEF AppKey, Replace, Field
  <2>2. c = [i \in DOMAIN h.comp |-> c[i]] /\ d = [i \in DOMAIN h.comp |-> d[i]]
    OBVIOUS
  <2> HIDE DEF a, c, d
  <2>3. QED  BY <2>1, <2>2
<1> HIDE DEF a
<1>2. h.comp = <<>> => a.comp = <<>>
  BY <1>1
<1>3. DOMAIN a.comp = DOMAIN h.comp
  BY <1>1
<1>4. QED  BY <1>2, <1>3 DEF a

-----------------------------------------------------------------------------
(* The state between two handlers.                                          *)

\* What reading the shared state leaves alone.
Renewed(x, y) ==
  /\ Shaped(y) /\ y.host = x.host /\ Aside(x, y) /\ UndoSame(x, y)
  /\ y.svc.composing = x.svc.composing /\ y.svc.up = x.svc.up
  /\ y.svc.ctx = x.svc.ctx /\ y.svc.blocked = x.svc.blocked
  /\ y.svc.config \in {x.svc.config, Decoded(exe.config)} /\ y.svc.eng \in {x.svc.eng, EngineFresh}

LEMMA RenewedTrans ==
  ASSUME NEW x, NEW y, NEW z, Renewed(x, y), Renewed(y, z)
  PROVE  Renewed(x, z)
BY DEF Renewed, Aside, UndoSame

LEMMA CheckRenews ==
  ASSUME NEW x, Shaped(x)
  PROVE  LET y == CheckConfigEvent(x)
             z == RefreshFlags(x)
         IN /\ Renewed(x, y) /\ Renewed(x, z)
            /\ y.svc.epoch = x.svc.epoch => y.svc.eng = x.svc.eng
<1> DEFINE y == CheckConfigEvent(x)
           z == RefreshFlags(x)
<1>1. Shaped(y) /\ Shaped(z)
  BY CheckShape
<1>2. /\ Aside(x, y) /\ UndoSame(x, y) /\ y.svc.config \in {x.svc.config, Decoded(exe.config)}
      /\ y.svc.epoch = x.svc.epoch => y.svc.eng = x.svc.eng
  BY DEF Shaped, NewService, CheckConfigEvent, ApplySharedState, Aside, UndoSame
<1>3. Aside(x, z) /\ UndoSame(x, z) /\ z.svc.config \in {x.svc.config, Decoded(exe.config)}
  BY DEF Shaped, NewService, RefreshFlags, ApplySharedState, Aside, UndoSame
<1>4. QED  BY <1>1, <1>2, <1>3, CheckKeeps DEF Renewed

LEMMA RenewedGood ==
  ASSUME EngineOK, exe.config \in Configs, NEW x, Good(x), NEW y, Renewed(x, y)
  PROVE  Good(y)
<1>1. y.svc.config \in AllConfigs /\ y.svc.eng \in Engines
  BY DEF Renewed, Good, AllConfigs, EngineOK
<1>2. Joint(y)
  BY DEF Renewed, Good, Joint, Paired, EngineOK, EmptyEngine
<1>3. Recorded(y.svc) /\ Answered(y.svc)
  BY DEF Renewed, Good, Recorded, Answered, UndoSame, Aside
<1>4. QED  BY <1>1, <1>2, <1>3 DEF Renewed, Good

\* A state of the service s and the application h between two handlers.
Between(s, h) == [svc |-> s, host |-> h, eaten |-> FALSE, want |-> FALSE]

LEMMA XIs == X = Between(svc, host) /\ X' = Between(svc', host')
BY DEF X, Between

\* What Good says of s and h alone.
GoodPair(s, h) ==
  /\ DOMAIN s = DOMAIN NewService /\ DOMAIN s.commit = DOMAIN NoCommit /\ Field(h)
  /\ s.composing \in BOOLEAN
  /\ IF s.composing THEN DOMAIN h.comp = {1, 2} ELSE h.comp = <<>>
  /\ s.eng.states # <<>> => s.composing
  /\ Located(h) /\ s.config \in AllConfigs /\ s.eng \in Engines
  /\ Recorded(s) /\ Answered(s)
ToldPair(s, h) ==
  s.composing => s.eng.states # <<>> /\ Shows(h, ComposeAll(s.eng.states))

LEMMA PairIs ==
  /\ \A s, h : Good(Between(s, h)) <=> GoodPair(s, h)
  /\ \A s, h : Told(Between(s, h)) <=> ToldPair(s, h)
  /\ \A x : Good(x) => GoodPair(x.svc, x.host)
  /\ \A x : Told(x) <=> ToldPair(x.svc, x.host)
BY DEF Between, Good, GoodPair, Told, ToldPair, Shaped, Joint, Paired, Field, Buffered, Peek

\* The key nobody ate reaches the application.
LEMMA HostAfter ==
  ASSUME EngineOK, NEW z, Good(z), NEW k \in Keys,
         NEW h, h = IF z.eaten THEN z.host ELSE AppKey(z.host, k)
  PROVE  /\ GoodPair(z.svc, h) /\ h.ctx = z.host.ctx
         /\ Told(z) /\ (z.eaten \/ ~z.svc.composing \/ k = "CTRL") => ToldPair(z.svc, h)
<1> DEFINE a == AppKey(z.host, k)
<1>1. GoodPair(z.svc, z.host) /\ (Told(z) <=> ToldPair(z.svc, z.host))
  BY PairIs
<1>2. Field(z.host) /\ Located(z.host) /\ Spanned(z.host) /\ Glyph(k) \in Glyphs
  BY <1>1 DEF GoodPair, Spanned, EngineOK
<1>3. Located(a)
  BY <1>2, AppKeyLocated
<1>4. Field(a) /\ a.ctx = z.host.ctx
  BY <1>2, AppKeyShape DEF Field
<1>5. DOMAIN a.comp = DOMAIN z.host.comp /\ (z.host.comp = <<>> => a.comp = <<>>)
  BY <1>2, AppKeyComp DEF Spanned
<1>6. Told(z) /\ k = "CTRL" => ToldPair(z.svc, a)
  BY <1>1, <1>2, AppKeyEnds DEF ToldPair
<1> HIDE DEF a
<1>7. GoodPair(z.svc, a)
  BY <1>1, <1>3, <1>4, <1>5 DEF GoodPair
<1>8. QED  BY <1>1, <1>4, <1>6, <1>7 DEF a, ToldPair

\* The key between OnTestKeyDown and OnKeyDown, and the answer it was given.
KeyKept ==
  /\ key # "" => svc.up /\ app # "chromium"
  /\ svc.revive # <<>> => key = "BS" /\ Reviving(X) /\ svc.tested = "BS" /\ svc.wanted
  /\ key = " " => Buffered(X) \/ svc.eng = EngineFresh
  /\ app = "chromium" => svc.undo # "Primed" /\ svc.tested = ""
  /\ app # "chromium" /\ (key # "" \/ svc.composing) => svc.ctx = host.ctx /\ ~svc.blocked

\* The undo of a commit: the committed word stands before the caret, or the
\* part of it that Backspace has left.
UndoKept ==
  /\ svc.undo = "Ready" /\ ~svc.commit.old /\ ~past.moved /\ app # "chromium" =>
       /\ svc.ctx = host.ctx /\ ~svc.blocked /\ ~Buffered(X) /\ key = ""
       /\ svc.composing \/ (Ends(host, svc.commit.text) /\ ~host.sel)
  /\ svc.undo = "Primed" => ~svc.composing /\ key = ""
  /\ svc.undo = "Primed" /\ ~past.moved =>
       svc.ctx = host.ctx /\ ~svc.blocked /\ Ends(host, Front(svc.commit.text))

TextInv ==
  /\ exe.config \in Configs /\ GoodPair(svc, host)
  /\ KeyKept /\ UndoKept
  /\ ~past.stale => ToldPair(svc, host)

\* What a key leaves, whichever handler took it.
LEMMA KeyBase ==
  ASSUME EngineOK, LinkInv, TextInv, NEW what \in {"test", "down"}, NEW k \in Keys, NEW g,
         NEW z, Good(z), Linked(CheckConfigEvent(X), z), After(z, what, k, g),
         g = "granted" /\ Told(CheckConfigEvent(X))
           => Told(z) /\ (z.eaten \/ ~z.svc.composing \/ k = "CTRL")
  PROVE  /\ svc' = z.svc /\ app' = app /\ exe' = exe
         /\ host' = IF z.eaten THEN z.host ELSE AppKey(z.host, k)
         /\ key' = IF what = "test" /\ z.eaten THEN k ELSE ""
         /\ exe'.config \in Configs /\ GoodPair(svc', host') /\ host'.ctx = host.ctx
         /\ ~past'.stale => ToldPair(svc', host')
         /\ z.svc.commit = svc.commit \/ z.svc.undo # "Ready" => past'.moved = past.moved
<1> DEFINE y == CheckConfigEvent(X)
<1>1. Shaped(X) /\ X.svc = svc /\ X.host = host
  BY DEF LinkInv, Shapes, X
<1>2. Renewed(X, y) /\ (y.svc.epoch = svc.epoch => y.svc.eng = svc.eng)
  BY <1>1, CheckRenews
<1> HIDE DEF y
<1>3. /\ svc' = z.svc /\ app' = app /\ exe' = exe
      /\ host' = IF z.eaten THEN z.host ELSE AppKey(z.host, k)
      /\ key' = IF what = "test" /\ z.eaten THEN k ELSE ""
  BY DEF After
<1>4. /\ GoodPair(svc', host') /\ host'.ctx = z.host.ctx
      /\ Told(z) /\ (z.eaten \/ ~z.svc.composing \/ k = "CTRL") => ToldPair(svc', host')
  <2> DEFINE h == host'
  <2>1. h = IF z.eaten THEN z.host ELSE AppKey(z.host, k)
    BY <1>3
  <2> HIDE DEF h
  <2>2. /\ GoodPair(z.svc, h) /\ h.ctx = z.host.ctx
        /\ Told(z) /\ (z.eaten \/ ~z.svc.composing \/ k = "CTRL") => ToldPair(z.svc, h)
    BY <2>1, HostAfter
  <2>3. QED  BY <1>3, <2>2 DEF h
<1>5. host'.ctx = host.ctx
  BY <1>1, <1>2, <1>4 DEF Linked, Renewed, y
<1>6. z.svc.epoch = y.svc.epoch
  BY DEF Linked, y
<1>7. DOMAIN past = {"keys", "events", "faults", "moved", "stale", "restarted", "asked"}
  BY DEF LinkInv, Shapes
<1>8. ASSUME ~past'.stale
      PROVE  ToldPair(svc', host')
  <2> DEFINE idle == z.svc.eng.states = <<>> /\ ~z.svc.composing
  <2>1. \/ idle
        \/ /\ ~past.stale /\ g = "granted"
           /\ ~(svc.eng.states # <<>> /\ z.svc.epoch # svc.epoch)
    BY <1>7, <1>8 DEF After
  <2>2. CASE idle
    BY <1>3, <2>2 DEF ToldPair
  <2>3. CASE ~past.stale /\ g = "granted" /\ ~(svc.eng.states # <<>> /\ z.svc.epoch # svc.epoch)
    <3>1. ToldPair(svc, host)
      BY <2>3 DEF TextInv
    <3>2. y.svc.eng = svc.eng \/ ~svc.composing
      BY <1>2, <1>6, <2>3, <3>1 DEF ToldPair
    <3>3. ToldPair(y.svc, y.host)
      BY <1>1, <1>2, <3>1, <3>2 DEF Renewed, ToldPair
    <3>4. Told(y)
      BY <3>3, PairIs
    <3>5. QED  BY <1>4, <2>3, <3>4 DEF y
  <2>4. QED  BY <2>1, <2>2, <2>3
<1>9. z.svc.commit = svc.commit \/ z.svc.undo # "Ready" => past'.moved = past.moved
  BY <1>7 DEF After
<1>10. exe'.config \in Configs
  BY <1>3 DEF TextInv
<1>11. QED  BY <1>3, <1>4, <1>5, <1>8, <1>9, <1>10

LEMMA FreshWord ==
  ASSUME EngineOK, NEW x, NEW y, Renewed(x, y)
  PROVE  Buffered(y) => Buffered(x)
BY DEF Renewed, Buffered, EngineOK, EmptyEngine

LEMMA TestBase ==
  ASSUME EngineOK, LinkInv, WordInv, TextInv, NEW k \in Keys, NEW g, key = "", app # "chromium",
         NEW y, y = CheckConfigEvent(X), NEW z, z = TestOf(y, k, g)
  PROVE  /\ Shaped(X) /\ Renewed(X, y) /\ Good(y) /\ Linked(y, z) /\ Good(z)
         /\ z.svc.ctx = host.ctx
         /\ svc.ctx = host.ctx /\ ~svc.blocked => ~z.svc.blocked
         /\ z.svc.blocked => /\ Light(y, z) /\ UndoSame(y, z) /\ ~z.eaten /\ z.svc.revive = <<>>
                             /\ ~z.svc.composing
         /\ ~z.svc.blocked => TestDone(y, z, k, g)
<1>1. Shaped(X) /\ X.svc = svc /\ X.host = host
  BY DEF LinkInv, Shapes, X
<1>2. Renewed(X, y)
  BY <1>1, CheckRenews
<1>3. Good(X)
  BY PairIs, XIs DEF TextInv
<1>4. Good(y) /\ Shaped(y)
  BY <1>2, <1>3, RenewedGood DEF TextInv, Good
<1>5. Linked(y, z)
  BY <1>4, TestFrame
<1>6. y.svc.revive = <<>> /\ (y.svc.undo = "Primed" => ~y.svc.composing)
  BY <1>1, <1>2 DEF TextInv, KeyKept, UndoKept, Renewed, Aside, UndoSame
<1>7. /\ z.svc.ctx = y.host.ctx
      /\ y.svc.ctx = y.host.ctx => z.svc.blocked = y.svc.blocked
      /\ IF z.svc.blocked
         THEN /\ Good(z) /\ Light(y, z) /\ UndoSame(y, z) /\ ~z.eaten
              /\ z.svc.revive = <<>>
         ELSE TestDone(y, z, k, g)
  BY <1>4, <1>6, TestOfDone
<1>8. z.svc.blocked => ~z.svc.composing
  BY <1>1, <1>2, <1>7 DEF Renewed, Light, TextInv, KeyKept
<1>9. Good(z)
  BY <1>7 DEF TestDone
<1>10. QED  BY <1>1, <1>2, <1>4, <1>5, <1>7, <1>8, <1>9 DEF Renewed

\* What OnTestKeyDown leaves of the undo of a commit.
LEMMA TestUndo ==
  ASSUME EngineOK, LinkInv, WordInv, TextInv, NEW k \in Keys, NEW g, key = "", app # "chromium",
         NEW y, y = CheckConfigEvent(X), NEW z, z = TestOf(y, k, g),
         After(z, "test", k, g)
  PROVE  UndoKept'
<1>1. /\ Shaped(X) /\ Renewed(X, y) /\ Good(y) /\ Linked(y, z) /\ Good(z)
      /\ z.svc.ctx = host.ctx
      /\ svc.ctx = host.ctx /\ ~svc.blocked => ~z.svc.blocked
      /\ z.svc.blocked => /\ Light(y, z) /\ UndoSame(y, z) /\ ~z.eaten /\ z.svc.revive = <<>>
                          /\ ~z.svc.composing
      /\ ~z.svc.blocked => TestDone(y, z, k, g)
  BY TestBase
<1>2. /\ X.svc = svc /\ X.host = host /\ y.host = host /\ y.svc.undo = svc.undo
      /\ y.svc.commit = svc.commit /\ y.svc.composing = svc.composing
      /\ Buffered(y) => Buffered(X)
  BY <1>1, FreshWord DEF X, Renewed, UndoSame
<1>3. /\ svc' = z.svc /\ app' = app /\ host' = IF z.eaten THEN z.host ELSE AppKey(z.host, k)
      /\ key' = IF z.eaten THEN k ELSE ""
      /\ host'.ctx = host.ctx
      /\ z.svc.commit = svc.commit \/ z.svc.undo # "Ready" => past'.moved = past.moved
  <2>1. g = "granted" /\ Told(y) => Told(z) /\ (z.eaten \/ ~z.svc.composing \/ k = "CTRL")
    BY <1>1, PairIs DEF TestDone, Light, ToldPair
  <2>2. QED  BY <1>1, <2>1, KeyBase
<1>4. Field(host) /\ Located(host) /\ GoodPair(svc, host) /\ Recorded(svc)
  BY DEF TextInv, GoodPair
<1>5. z.host = host /\ ~z.svc.composing => ~svc.composing
  <2>1. Good(X)
    BY PairIs, XIs DEF TextInv
  <2>2. Paired(X) /\ Paired(z)
    BY <1>1, <2>1, GoodShaped
  <2>3. QED  BY <1>2, <2>2, PairedComp
<1>6. ~z.svc.composing => ~Buffered(z)
  BY <1>1, PairIs DEF GoodPair, Buffered
<1>7. svc.undo = "Primed" => ~Buffered(y)
  BY <1>2, <1>4 DEF TextInv, UndoKept, GoodPair, Buffered
<1>8. ASSUME z.svc.undo = "Ready", ~z.svc.commit.old, ~past'.moved
      PROVE  /\ ~z.svc.blocked /\ ~Buffered(z) /\ ~z.eaten
             /\ Ends(host', z.svc.commit.text) /\ ~host'.sel
  <2>1. z.svc.commit = svc.commit /\ svc.undo # "Idle"
    BY <1>1, <1>2, <1>8 DEF TestDone, UndoTested, UndoSame
  <2>2. ~past.moved /\ ~svc.commit.old
    BY <1>3, <1>8, <2>1
  <2>3. ~z.svc.blocked
    BY <1>1, <1>2, <1>8, <2>2 DEF UndoSame, TextInv, UndoKept
  <2>4. UndoTested(y, z, k)
    BY <1>1, <2>3 DEF TestDone
  <2>5. svc.undo = "Ready" => ~Buffered(y)
    BY <1>2, <2>2 DEF TextInv, UndoKept
  <2>6. /\ svc.undo = "Ready" /\ k = "ESC" /\ z.host = host
        /\ ~z.svc.composing /\ ~z.eaten
    BY <1>2, <1>7, <1>8, <2>2, <2>4, <2>5 DEF UndoTested
  <2>7. Ends(host, svc.commit.text)
    BY <1>5, <2>2, <2>6 DEF TextInv, UndoKept
  <2>8. Ends(AppKey(host, "ESC"), svc.commit.text) /\ ~AppKey(host, "ESC").sel
    BY <1>4, <2>7, AppKeyEnds
  <2>9. QED  BY <1>3, <1>6, <2>1, <2>3, <2>6, <2>8
<1>9. z.svc.undo = "Primed" => ~z.svc.composing /\ ~z.eaten
  BY <1>1, <1>2 DEF TestDone
<1>10. ASSUME z.svc.undo = "Primed", ~past'.moved
       PROVE  ~z.svc.blocked /\ Ends(host', Front(z.svc.commit.text))
  <2>1. z.svc.commit = svc.commit /\ svc.undo # "Idle"
    BY <1>1, <1>2, <1>10 DEF TestDone, UndoTested, UndoSame
  <2>2. ~past.moved
    BY <1>3, <1>10
  <2>3. ~z.svc.blocked
    BY <1>1, <1>2, <1>10, <2>2 DEF UndoSame, TextInv, UndoKept
  <2>4. UndoTested(y, z, k)
    BY <1>1, <2>3 DEF TestDone
  <2>5. CASE svc.undo = "Ready" /\ k = "BS" /\ z.host = host /\ ~svc.commit.old
    <3>1. ~svc.composing
      BY <1>5, <1>9, <1>10, <2>5
    <3>2. Ends(host, svc.commit.text) /\ ~host.sel
      BY <2>2, <2>5, <3>1 DEF TextInv, UndoKept
    <3>3. svc.commit.text \in Texts /\ svc.commit.text # <<>>
      BY <1>4, <2>1 DEF Recorded
    <3>4. Ends(AppKey(host, "BS"), Front(svc.commit.text))
      BY <1>4, <3>2, <3>3, AppKeyErases
    <3>5. QED  BY <1>3, <1>9, <1>10, <2>1, <2>3, <2>5, <3>4
  <2>6. CASE svc.undo = "Primed" /\ k = "ESC" /\ z.host = host
    <3>1. Ends(host, Front(svc.commit.text))
      BY <2>2, <2>6 DEF TextInv, UndoKept
    <3>2. Ends(AppKey(host, "ESC"), Front(svc.commit.text))
      BY <1>4, <3>1, AppKeyEnds
    <3>3. QED  BY <1>3, <1>9, <1>10, <2>1, <2>3, <2>6, <3>2
  <2>7. QED  BY <1>2, <1>7, <1>10, <2>4, <2>5, <2>6 DEF UndoTested
<1>11. Buffered(X)' <=> Buffered(z)
  BY <1>3, XIs DEF Between, Buffered
<1>12. QED  BY <1>1, <1>3, <1>8, <1>9, <1>10, <1>11 DEF UndoKept

LEMMA TestText ==
  ASSUME EngineOK, LinkInv, WordInv, TextInv, NEW k \in Keys, NEW g, svc.up, key = "",
         app # "chromium", After(TestOf(CheckConfigEvent(X), k, g), "test", k, g)
  PROVE  TextInv'
<1> DEFINE y == CheckConfigEvent(X)
           z == TestOf(y, k, g)
<1>1. /\ Shaped(X) /\ Renewed(X, y) /\ Good(y) /\ Linked(y, z) /\ Good(z)
      /\ z.svc.ctx = host.ctx
      /\ svc.ctx = host.ctx /\ ~svc.blocked => ~z.svc.blocked
      /\ z.svc.blocked => /\ Light(y, z) /\ UndoSame(y, z) /\ ~z.eaten /\ z.svc.revive = <<>>
                          /\ ~z.svc.composing
      /\ ~z.svc.blocked => TestDone(y, z, k, g)
  BY TestBase
<1>2. UndoKept'
  BY TestUndo
<1>3. g = "granted" /\ Told(y) => Told(z) /\ (z.eaten \/ ~z.svc.composing \/ k = "CTRL")
  BY <1>1, PairIs DEF TestDone, Light, ToldPair
<1>4. Linked(CheckConfigEvent(X), z) /\ After(z, "test", k, g) /\ X.svc = svc
  BY <1>1 DEF X
<1> HIDE DEF z
<1>5. /\ svc' = z.svc /\ app' = app /\ exe' = exe
      /\ host' = IF z.eaten THEN z.host ELSE AppKey(z.host, k)
      /\ key' = IF z.eaten THEN k ELSE ""
      /\ exe'.config \in Configs /\ GoodPair(svc', host') /\ host'.ctx = host.ctx
      /\ ~past'.stale => ToldPair(svc', host')
  BY <1>1, <1>3, <1>4, KeyBase
<1>6. z.svc.up
  BY <1>1, <1>4 DEF Linked, Renewed
<1>7. z.svc.revive # <<>> =>
        k = "BS" /\ z.eaten /\ Reviving(z) /\ z.svc.tested = "BS" /\ z.svc.wanted
  BY <1>1 DEF TestDone, Claimed
<1>8. z.eaten /\ k = " " => Buffered(z)
  BY <1>1 DEF TestDone
<1>9. z.eaten \/ z.svc.composing => ~z.svc.blocked
  BY <1>1
<1>10. /\ Buffered(X)' <=> Buffered(z)
       /\ Reviving(X)' <=> Reviving(Between(z.svc, host'))
  BY <1>5, XIs DEF Between, Buffered, Reviving
<1>11. z.eaten /\ Reviving(z) => Reviving(X)'
  BY <1>5, <1>10 DEF Between, Buffered, Reviving
<1>12. k # ""
  BY KeysAssumption
<1>13. KeyKept'
  BY <1>1, <1>5, <1>6, <1>7, <1>8, <1>9, <1>10, <1>11, <1>12 DEF KeyKept
<1>14. QED  BY <1>2, <1>5, <1>13 DEF TextInv

LEMMA DownText ==
  ASSUME EngineOK, LinkInv, WordInv, TextInv, NEW k \in Keys, NEW g, svc.up,
         key = k \/ app = "chromium", After(KeyDownOf(CheckConfigEvent(X), k, g), "down", k, g)
  PROVE  TextInv'
<1> DEFINE y == CheckConfigEvent(X)
           z == KeyDownOf(y, k, g)
<1>1. Shaped(X) /\ X.svc = svc /\ X.host = host
  BY DEF LinkInv, Shapes, X
<1>2. Renewed(X, y)
  BY <1>1, CheckRenews
<1>3. Good(X)
  BY PairIs, XIs DEF TextInv
<1>4. Good(y) /\ Shaped(y)
  BY <1>2, <1>3, RenewedGood DEF TextInv, Good
<1>5. Placed(y, z) /\ Linked(y, z)
  BY <1>4, KeyDownFrame DEF Placed
<1>6. k # ""
  BY KeysAssumption
<1>7. app # "chromium" => key = k /\ svc.ctx = host.ctx /\ ~svc.blocked /\ svc.undo # "Primed"
  BY <1>6 DEF TextInv, KeyKept, UndoKept
<1>8. app = "chromium" => key = "" /\ svc.tested = "" /\ svc.undo # "Primed" /\ svc.revive = <<>>
  BY DEF TextInv, KeyKept
<1> HIDE DEF y
<1>9. y.svc.undo # "Primed"
  BY <1>1, <1>2, <1>7, <1>8 DEF Renewed, UndoSame
<1>10. y.svc.revive # <<>> => k = "BS" /\ Reviving(y) /\ y.svc.tested = "BS" /\ y.svc.wanted
  <2>1. y.svc.revive = svc.revive /\ y.svc.tested = svc.tested /\ y.svc.wanted = svc.wanted
    BY <1>1, <1>2 DEF Renewed, Aside
  <2>2. svc.revive # <<>> => key = k /\ key = "BS" /\ Reviving(X)
    BY <1>7, <1>8 DEF TextInv, KeyKept
  <2>3. svc.revive # <<>> => Reviving(y)
    BY <1>1, <1>2, <2>1, <2>2, FreshWord DEF Reviving, Renewed
  <2>4. QED  BY <2>1, <2>2, <2>3 DEF TextInv, KeyKept
<1>11. k = " " /\ y.svc.tested = " " /\ y.svc.wanted => Buffered(y) \/ y.svc.eng = EngineFresh
  <2>1. y.svc.tested = svc.tested
    BY <1>1, <1>2 DEF Renewed, Aside
  <2>2. k = " " /\ y.svc.tested = " " => Buffered(X) \/ svc.eng = EngineFresh
    BY <1>7, <1>8, <2>1 DEF TextInv, KeyKept
  <2>3. QED  BY <1>1, <1>2, <2>2 DEF Renewed, Buffered
<1>12. KeyDone(y, z, k, g)
  BY <1>4, <1>9, <1>10, <1>11, KeyDownDone
<1>13. After(z, "down", k, g)
  BY DEF y
<1> HIDE DEF z
<1>14. /\ Good(z) /\ z.svc.revive = <<>> /\ z.svc.tested \in {svc.tested, ""}
       /\ g = "granted" /\ Told(y) => Told(z) /\ (z.eaten \/ ~z.svc.composing \/ k = "CTRL")
       /\ UndoTyped(y, z)
  BY <1>1, <1>2, <1>12 DEF KeyDone, Renewed, Aside
<1>15. /\ svc' = z.svc /\ app' = app /\ exe' = exe
       /\ host' = IF z.eaten THEN z.host ELSE AppKey(z.host, k)
       /\ key' = ""
       /\ exe'.config \in Configs /\ GoodPair(svc', host') /\ host'.ctx = host.ctx
       /\ ~past'.stale => ToldPair(svc', host')
       /\ z.svc.commit = svc.commit \/ z.svc.undo # "Ready" => past'.moved = past.moved
  <2>1. Linked(CheckConfigEvent(X), z)
    BY <1>5 DEF y
  <2>2. g = "granted" /\ Told(CheckConfigEvent(X))
          => Told(z) /\ (z.eaten \/ ~z.svc.composing \/ k = "CTRL")
    BY <1>14 DEF y
  <2>3. QED  BY <1>13, <1>14, <2>1, <2>2, KeyBase
<1>16. z.svc.ctx = svc.ctx /\ z.svc.blocked = svc.blocked
  BY <1>1, <1>2, <1>5 DEF Placed, Renewed
<1>17. z.svc.undo # "Primed"
  BY <1>9, <1>14 DEF UndoTyped, UndoSame
<1>18. KeyKept'
  BY <1>6, <1>7, <1>8, <1>14, <1>15, <1>16, <1>17, KeysAssumption DEF KeyKept
<1>19. ASSUME z.svc.undo = "Ready", ~z.svc.commit.old, ~past'.moved, app # "chromium"
       PROVE  /\ ~Buffered(z)
              /\ z.svc.composing \/ (Ends(host', z.svc.commit.text) /\ ~host'.sel)
  <2>1. CASE UndoSame(y, z)
    <3>1. svc.undo = "Ready" /\ z.svc.commit = svc.commit
      BY <1>1, <1>2, <1>19, <2>1 DEF UndoSame, Renewed
    <3>2. ~past.moved /\ ~svc.commit.old
      BY <1>15, <1>19, <3>1
    <3>3. QED  BY <1>6, <1>7, <1>19, <3>1, <3>2 DEF TextInv, UndoKept
  <2>2. CASE ~UndoSame(y, z)
    BY <1>14, <1>15, <1>19, <2>2 DEF UndoTyped
  <2>3. QED  BY <2>1, <2>2
<1>20. Buffered(X)' <=> Buffered(z)
  BY <1>15, XIs DEF Between, Buffered
<1>21. UndoKept'
  BY <1>7, <1>15, <1>16, <1>17, <1>19, <1>20 DEF UndoKept
<1>22. QED  BY <1>15, <1>18, <1>21 DEF TextInv

LEMMA KeyText ==
  ASSUME EngineOK, LinkInv, WordInv, TextInv, NEW k \in Keys, TestKey(k) \/ KeyDown(k)
  PROVE  TextInv'
BY KeyStep, TestText, DownText

\* The user and the application: the caret may have been moved.
LEMMA MovedText ==
  ASSUME EngineOK, TextInv, app' = app, exe'.config = exe.config, key' = key,
         past'.moved, GoodPair(svc', host'), svc'.undo \in {svc.undo, "Idle"},
         svc'.revive = svc.revive /\ svc'.tested = svc.tested /\ svc'.wanted = svc.wanted,
         svc'.ctx = svc.ctx /\ svc'.blocked = svc.blocked /\ svc'.up = svc.up,
         key # "" => host'.ctx = host.ctx /\ host'.caret = host.caret,
         svc'.composing => svc.composing /\ host'.ctx = host.ctx,
         svc'.eng \in {svc.eng, EngineFresh},
         ~past'.stale => ToldPair(svc', host')
  PROVE  TextInv'
<1>1. /\ Buffered(X) <=> svc.eng.states # <<>>
      /\ Buffered(X)' <=> svc'.eng.states # <<>>
      /\ Reviving(X) => /\ svc.revive \in Texts /\ Len(svc.revive) \in 0..host.caret
                        /\ svc.eng.states = <<>>
      /\ Reviving(X)' <=> /\ svc'.revive \in Texts /\ Len(svc'.revive) \in 0..host'.caret
                          /\ svc'.eng.states = <<>>
  BY XIs DEF Between, Buffered, Reviving
<1>2. svc'.eng.states # <<>> => svc'.eng = svc.eng
  BY DEF EngineOK, EmptyEngine
<1>3. svc'.revive # <<>> => key' = "BS" /\ Reviving(X)' /\ svc'.tested = "BS" /\ svc'.wanted
  <2>1. svc.revive # <<>> => key = "BS" /\ Reviving(X) /\ svc.tested = "BS" /\ svc.wanted
    BY DEF TextInv, KeyKept
  <2>2. svc.revive # <<>> => host'.caret = host.caret
    BY <2>1
  <2>3. QED  BY <1>1, <1>2, <2>1, <2>2
<1>4. KeyKept'
  BY <1>1, <1>2, <1>3 DEF TextInv, KeyKept
<1>5. UndoKept'
  BY DEF TextInv, UndoKept
<1>6. QED  BY <1>4, <1>5 DEF TextInv

\* A service that has just been made.
LEMMA MadeText ==
  ASSUME EngineOK, TextInv, app' = app, exe'.config = exe.config, key = "", key' = "",
         GoodPair(svc', host'), svc'.undo = "Idle", svc'.revive = <<>>, svc'.tested = "",
         ~svc'.composing
  PROVE  TextInv'
<1>1. KeyKept'
  BY DEF KeyKept
<1>2. UndoKept'
  BY DEF UndoKept
<1>3. ToldPair(svc', host')
  BY DEF ToldPair
<1>4. QED  BY <1>1, <1>2, <1>3 DEF TextInv

LEMMA NoCommitIs == NoCommit.text = <<>> /\ NoCommit.raw = <<>>
BY DEF NoCommit

LEMMA EmptyText == <<>> \in Texts
BY DEF Texts

LEMMA MadeGood ==
  ASSUME EngineOK, NEW s, NEW h, Field(h), Located(h), h.comp = <<>>,
         DOMAIN s = DOMAIN NewService, s.commit = NoCommit, s.undo = "Idle", s.composing = FALSE,
         s.eng = EngineFresh, s.config \in AllConfigs, s.tested = ""
  PROVE  GoodPair(s, h)
<1>1. Recorded(s)
  <2>1. s.commit.text = <<>> /\ s.commit.raw = <<>>
    BY NoCommitIs
  <2>2. QED  BY <2>1, EmptyText DEF Recorded
<1>2. Answered(s)
  BY DEF Answered
<1>3. s.eng.states = <<>> /\ s.eng \in Engines
  BY DEF EngineOK, EmptyEngine
<1>4. QED  BY <1>1, <1>2, <1>3 DEF GoodPair

\* A composition that is gone, and the word with it.
LEMMA EndedGood ==
  ASSUME EngineOK, GoodPair(svc, host), NEW t,
         t = Terminated(svc) \/ (t = svc /\ host.comp = <<>>),
         NEW h, Field(h), Located(h), h.comp = <<>>
  PROVE  /\ GoodPair(t, h) /\ ~t.composing /\ t.undo = svc.undo
         /\ t.revive = svc.revive /\ t.tested = svc.tested /\ t.wanted = svc.wanted
         /\ t.ctx = svc.ctx /\ t.blocked = svc.blocked /\ t.up = svc.up
         /\ t.eng \in {svc.eng, EngineFresh}
<1>1. CASE t = Terminated(svc)
  <2>1. /\ t.composing = FALSE /\ t.undo = svc.undo /\ t.commit = svc.commit
        /\ t.revive = svc.revive /\ t.tested = svc.tested /\ t.wanted = svc.wanted
        /\ t.ctx = svc.ctx /\ t.blocked = svc.blocked /\ t.up = svc.up
        /\ t.eng = EngineFresh /\ t.config = svc.config /\ DOMAIN t = DOMAIN NewService
    BY <1>1 DEF Terminated, GoodPair, NewService
  <2>2. Recorded(t) /\ Answered(t)
    BY <2>1 DEF GoodPair, Recorded, Answered
  <2>3. t.eng.states = <<>> /\ t.eng \in Engines
    BY <2>1 DEF EngineOK, EmptyEngine
  <2>4. QED  BY <2>1, <2>2, <2>3 DEF GoodPair
<1>2. CASE t = svc /\ host.comp = <<>>
  <2>1. Paired(X)
    BY PairIs, XIs, GoodShaped
  <2>2. ~svc.composing
    BY <1>2, <2>1, PairedComp DEF X
  <2>3. QED  BY <1>2, <2>2 DEF GoodPair
<1>3. QED  BY <1>1, <1>2

LEMMA HostText ==
  ASSUME EngineOK, LinkInv, WordInv, TextInv, HostStep
  PROVE  TextInv'
<1>1. /\ DOMAIN svc = DOMAIN NewService /\ DOMAIN svc.commit = DOMAIN NoCommit
      /\ Field(host) /\ Located(host) /\ GoodPair(svc, host)
      /\ DOMAIN past = {"keys", "events", "faults", "moved", "stale", "restarted", "asked"}
      /\ DOMAIN exe = {"up", "abi", "epoch", "enabled", "active", "viet", "tip", "config"}
  BY DEF LinkInv, Shapes, TextInv, GoodPair
<1>2. /\ UserEvent => past'.moved = TRUE /\ past'.stale = past.stale
      /\ svc' = svc => svc'.eng = svc.eng
      /\ ~past.stale => ToldPair(svc, host)
  BY <1>1 DEF UserEvent, TextInv
<1>3. ~svc'.composing => ToldPair(svc', host')
  BY DEF ToldPair
<1>4. CASE TerminateComposition
  <2>1. /\ svc' = Terminated(svc) /\ host' = [host EXCEPT !.comp = <<>>] /\ UserEvent
        /\ app' = app /\ exe' = exe /\ key' = key
    BY <1>4 DEF TerminateComposition
  <2>2. /\ Field(host') /\ Located(host') /\ host'.comp = <<>>
        /\ host'.ctx = host.ctx /\ host'.caret = host.caret
    BY <1>1, <2>1 DEF Field, Located
  <2> DEFINE t == svc'
             h == host'
  <2>3. t = Terminated(svc) /\ Field(h) /\ Located(h) /\ h.comp = <<>>
    BY <2>1, <2>2
  <2> HIDE DEF t, h
  <2>4. /\ GoodPair(t, h) /\ ~t.composing /\ t.undo = svc.undo
        /\ t.revive = svc.revive /\ t.tested = svc.tested /\ t.wanted = svc.wanted
        /\ t.ctx = svc.ctx /\ t.blocked = svc.blocked /\ t.up = svc.up
        /\ t.eng \in {svc.eng, EngineFresh}
    BY <1>1, <2>3, EndedGood
  <2>5. QED  BY <1>2, <1>3, <2>1, <2>2, <2>4, MovedText DEF t, h
<1>5. CASE Click
  <2>1. PICK c \in {0, Len(host.doc)} \ {host.caret} :
          host' = [host EXCEPT !.caret = c, !.sel = FALSE, !.comp = <<>>]
    BY <1>5 DEF Click
  <2>2. svc' = Ended(svc) /\ UserEvent /\ app' = app /\ exe' = exe /\ key' = key /\ key = ""
    BY <1>5 DEF Click
  <2>3. Len(host.doc) \in Nat
    BY <1>1 DEF Located, Texts
  <2>4. Field(host') /\ Located(host') /\ host'.comp = <<>>
    BY <1>1, <2>1, <2>3 DEF Field, Located
  <2> DEFINE t == svc'
             h == host'
  <2>5. /\ t = Terminated(svc) \/ (t = svc /\ host.comp = <<>>)
        /\ Field(h) /\ Located(h) /\ h.comp = <<>>
    BY <2>2, <2>4 DEF Ended
  <2> HIDE DEF t, h
  <2>6. /\ GoodPair(t, h) /\ ~t.composing /\ t.undo = svc.undo
        /\ t.revive = svc.revive /\ t.tested = svc.tested /\ t.wanted = svc.wanted
        /\ t.ctx = svc.ctx /\ t.blocked = svc.blocked /\ t.up = svc.up
        /\ t.eng \in {svc.eng, EngineFresh}
    BY <1>1, <2>5, EndedGood
  <2>7. QED  BY <1>2, <1>3, <2>2, <2>6, MovedText DEF t, h
<1>6. CASE SwitchField
  <2>1. /\ svc' = Ended(svc) /\ UserEvent /\ app' = app /\ exe' = exe /\ key' = key /\ key = ""
        /\ \E c \in Contexts, f \in {"text", "password"} :
             host' = [host EXCEPT !.ctx = c, !.field = f, !.doc = <<>>, !.caret = 0,
                                  !.sel = FALSE, !.comp = <<>>]
    BY <1>6 DEF SwitchField
  <2>2. Field(host') /\ host'.doc = <<>> /\ host'.caret = 0 /\ host'.comp = <<>>
    BY <1>1, <2>1 DEF Field
  <2>3. Located(host')
    BY <2>2 DEF Located, Texts
  <2> DEFINE t == svc'
             h == host'
  <2>4. /\ t = Terminated(svc) \/ (t = svc /\ host.comp = <<>>)
        /\ Field(h) /\ Located(h) /\ h.comp = <<>>
    BY <2>1, <2>2, <2>3 DEF Ended
  <2> HIDE DEF t, h
  <2>5. /\ GoodPair(t, h) /\ ~t.composing /\ t.undo = svc.undo
        /\ t.revive = svc.revive /\ t.tested = svc.tested /\ t.wanted = svc.wanted
        /\ t.ctx = svc.ctx /\ t.blocked = svc.blocked /\ t.up = svc.up
        /\ t.eng \in {svc.eng, EngineFresh}
    BY <1>1, <2>4, EndedGood
  <2>6. QED  BY <1>2, <1>3, <2>1, <2>5, MovedText DEF t, h
<1>7. CASE Suggest
  <2>1. /\ svc' = svc /\ UserEvent /\ app' = app /\ exe' = exe /\ key' = key
        /\ host' = [host EXCEPT !.sel = TRUE]
    BY <1>7 DEF Suggest
  <2>2. /\ Field(host') /\ host'.doc = host.doc /\ host'.caret = host.caret
        /\ host'.comp = host.comp /\ host'.ctx = host.ctx
    BY <1>1, <2>1 DEF Field
  <2>3. GoodPair(svc', host')
    BY <1>1, <2>1, <2>2 DEF GoodPair, Located
  <2>4. ToldPair(svc, host) => ToldPair(svc', host')
    BY <2>1, <2>2 DEF ToldPair, Shows, Stands
  <2>5. QED  BY <1>2, <2>1, <2>2, <2>3, <2>4, MovedText
<1>8. CASE Wait
  <2>1. /\ svc' = [svc EXCEPT !.commit.old = TRUE] /\ app' = app /\ host' = host /\ exe' = exe
        /\ key' = key /\ past' = past
    BY <1>8 DEF Wait
  <2>2. /\ DOMAIN svc' = DOMAIN NewService /\ DOMAIN svc'.commit = DOMAIN NoCommit
        /\ svc'.commit.old = TRUE /\ svc'.commit.text = svc.commit.text
        /\ svc'.commit.raw = svc.commit.raw
        /\ svc'.composing = svc.composing /\ svc'.undo = svc.undo
        /\ svc'.revive = svc.revive /\ svc'.tested = svc.tested /\ svc'.wanted = svc.wanted
        /\ svc'.ctx = svc.ctx /\ svc'.blocked = svc.blocked /\ svc'.up = svc.up
        /\ svc'.eng = svc.eng /\ svc'.config = svc.config
    BY <1>1, <2>1 DEF NewService, NoCommit
  <2>3. GoodPair(svc', host')
    BY <1>1, <2>1, <2>2 DEF GoodPair, Recorded, Answered
  <2>4. /\ Buffered(X)' <=> Buffered(X)
        /\ Reviving(X)' <=> Reviving(X)
        /\ ToldPair(svc', host') <=> ToldPair(svc, host)
    BY <2>1, <2>2 DEF X, Buffered, Reviving, ToldPair
  <2>5. KeyKept'
    BY <2>1, <2>2, <2>4 DEF TextInv, KeyKept
  <2>6. UndoKept'
    BY <2>1, <2>2, <2>4 DEF TextInv, UndoKept
  <2>7. QED  BY <1>2, <2>1, <2>3, <2>4, <2>5, <2>6 DEF TextInv
<1>9. CASE Deactivate
  <2>1. /\ svc' = NewService /\ host' = [host EXCEPT !.comp = <<>>] /\ app' = app /\ key' = key
        /\ key = "" /\ exe'.config = exe.config
    BY <1>1, <1>9 DEF Deactivate
  <2>2. Field(host') /\ Located(host') /\ host'.comp = <<>>
    BY <1>1, <2>1 DEF Field, Located
  <2>3. /\ svc'.undo = "Idle" /\ svc'.revive = <<>> /\ svc'.tested = "" /\ svc'.composing = FALSE
        /\ svc'.eng = EngineFresh /\ svc'.config \in AllConfigs /\ svc'.commit = NoCommit
    BY <2>1 DEF NewService, AllConfigs
  <2> DEFINE t == svc'
             h == host'
  <2>4. GoodPair(t, h)
    <3>1. /\ Field(h) /\ Located(h) /\ h.comp = <<>> /\ DOMAIN t = DOMAIN NewService
          /\ t.commit = NoCommit /\ t.undo = "Idle" /\ t.composing = FALSE
          /\ t.eng = EngineFresh /\ t.config \in AllConfigs /\ t.tested = ""
      BY <2>1, <2>2, <2>3
    <3> HIDE DEF t, h
    <3>2. QED  BY <3>1, MadeGood
  <2>5. QED  BY <2>1, <2>3, <2>4, MadeText
<1>10. CASE ToggleVietnameseMode
  <2>1. /\ svc' = [svc EXCEPT !.viet = ~exe.viet, !.digitLed = FALSE] /\ UserEvent
        /\ app' = app /\ host' = host /\ key' = key /\ exe'.config = exe.config
    BY <1>1, <1>10 DEF ToggleVietnameseMode
  <2>2. /\ DOMAIN svc' = DOMAIN NewService /\ svc'.commit = svc.commit
        /\ svc'.composing = svc.composing /\ svc'.undo = svc.undo
        /\ svc'.revive = svc.revive /\ svc'.tested = svc.tested /\ svc'.wanted = svc.wanted
        /\ svc'.ctx = svc.ctx /\ svc'.blocked = svc.blocked /\ svc'.up = svc.up
        /\ svc'.eng = svc.eng /\ svc'.config = svc.config
    BY <1>1, <2>1 DEF NewService
  <2>3. GoodPair(svc', host')
    BY <1>1, <2>1, <2>2 DEF GoodPair, Recorded, Answered
  <2>4. ToldPair(svc, host) => ToldPair(svc', host')
    BY <2>1, <2>2 DEF ToldPair
  <2>5. QED  BY <1>2, <2>1, <2>2, <2>3, <2>4, MovedText
<1>11. QED  BY <1>4, <1>5, <1>6, <1>7, <1>8, <1>9, <1>10 DEF HostStep

LEMMA XWith == ASSUME NEW s PROVE [X EXCEPT !.svc = s] = Between(s, host)
<1> DEFINE f == DOMAIN X
           a == [X EXCEPT !.svc = s]
           b == Between(s, host)
<1>1. a = [i \in f |-> a[i]] /\ f = {"svc", "host", "eaten", "want"}
  BY DEF X
<1>2. b = [i \in f |-> b[i]]
  BY DEF Between, X
<1>3. \A i \in f : a[i] = b[i]
  <2>1. a.svc = s /\ a.host = host /\ a.eaten = X.eaten /\ a.want = X.want
    BY DEF X
  <2>2. b.svc = s /\ b.host = host /\ b.eaten = X.eaten /\ b.want = X.want
    BY DEF X, Between
  <2> HIDE DEF a, b, f
  <2>3. QED  BY <1>1, <2>1, <2>2
<1> HIDE DEF a, b, f
<1>4. a = b
  BY <1>1, <1>2, <1>3
<1>5. QED  BY <1>4 DEF a, b

LEMMA FocusText ==
  ASSUME EngineOK, LinkInv, WordInv, TextInv, OnSetFocus
  PROVE  TextInv'
<1>1. Shaped(X) /\ X.svc = svc /\ X.host = host
  BY DEF LinkInv, Shapes, X
<1>2. Good(X) /\ exe.config \in Configs
  BY PairIs, XIs DEF TextInv
<1>3. /\ DOMAIN past = {"keys", "events", "faults", "moved", "stale", "restarted", "asked"}
      /\ DOMAIN exe = {"up", "abi", "epoch", "enabled", "active", "viet", "tip", "config"}
      /\ Field(host) /\ Located(host)
  BY DEF LinkInv, Shapes, TextInv, GoodPair
<1>4. /\ app' = app /\ exe'.config = exe.config /\ key' = key /\ key = "" /\ past'.moved
      /\ past'.stale = (past.stale \/ svc.eng.states # svc'.eng.states)
      /\ host' = [host EXCEPT !.fg = ~@]
  BY <1>3 DEF OnSetFocus
<1>5. /\ Field(host') /\ Located(host') /\ host'.comp = host.comp /\ host'.doc = host.doc
      /\ host'.ctx = host.ctx /\ host'.caret = host.caret
  BY <1>3, <1>4 DEF Field, Located
<1>6. /\ Good(Between(svc', host)) /\ svc'.undo \in {svc.undo, "Idle"}
      /\ svc'.revive = svc.revive /\ svc'.tested = svc.tested /\ svc'.wanted = svc.wanted
      /\ svc'.ctx = svc.ctx /\ svc'.blocked = svc.blocked /\ svc'.up = svc.up
      /\ svc'.composing = svc.composing /\ svc'.eng \in {svc.eng, EngineFresh}
  <2>1. CASE ~svc.up
    BY <1>2, <2>1, XIs DEF OnSetFocus
  <2>2. CASE svc.up
    <3> DEFINE s == IF host.fg THEN svc ELSE RefreshFlags(CheckConfigEvent(X)).svc
               y == CheckConfigEvent(X)
               r == RefreshFlags(y)
               z == [X EXCEPT !.svc = s]
               t == ResetCommitUndo(z)
    <3>1. svc' = t.svc
      BY <2>2 DEF OnSetFocus
    <3>2. z = [svc |-> s, host |-> host, eaten |-> FALSE, want |-> FALSE]
      <4> HIDE DEF s
      <4>1. QED  BY XWith DEF Between
    <3>3. Renewed(X, z)
      <4>1. CASE host.fg
        <5>1. z = X
          BY <3>2, <4>1 DEF X
        <5> HIDE DEF z
        <5>2. QED  BY <1>1, <5>1 DEF Renewed, Aside, UndoSame
      <4>2. CASE ~host.fg
        <5>1. Renewed(X, y) /\ Shaped(y)
          BY <1>1, CheckRenews DEF Renewed
        <5> HIDE DEF y
        <5>2. Renewed(y, r)
          BY <5>1, CheckRenews
        <5> HIDE DEF r
        <5>3. Renewed(X, r)
          BY <5>1, <5>2, RenewedTrans
        <5>4. z = [svc |-> r.svc, host |-> host, eaten |-> FALSE, want |-> FALSE]
          BY <3>2, <4>2 DEF r, y
        <5> HIDE DEF z
        <5>5. QED  BY <1>1, <5>3, <5>4 DEF Renewed, Aside, UndoSame, Shaped
      <4>3. QED  BY <4>1, <4>2
    <3> HIDE DEF z
    <3>4. Good(z) /\ Shaped(z)
      BY <1>2, <3>3, RenewedGood DEF Good
    <3>5. Kept(z, t) /\ Aside(z, t) /\ Light(z, t) /\ t.svc.undo = "Idle" /\ Placed(z, t)
      BY <3>4, GoodOps, AsideOps, LightOps, UndoReset, UndoFrame
    <3> HIDE DEF t
    <3>6. Good(t) /\ t.host = host
      BY <1>1, <3>3, <3>5 DEF Kept, Light, Renewed
    <3>7. Good(Between(t.svc, host))
      BY <3>6, PairIs
    <3>8. /\ t.svc.revive = svc.revive /\ t.svc.tested = svc.tested /\ t.svc.wanted = svc.wanted
          /\ t.svc.ctx = svc.ctx /\ t.svc.blocked = svc.blocked /\ t.svc.up = svc.up
          /\ t.svc.composing = svc.composing /\ t.svc.eng \in {svc.eng, EngineFresh}
      BY <1>1, <3>3, <3>5 DEF Renewed, Aside, Light, Placed, Linked
    <3>9. QED  BY <3>1, <3>5, <3>7, <3>8
  <2>3. QED  BY <2>1, <2>2
<1>7. GoodPair(svc', host')
  BY <1>5, <1>6, PairIs DEF GoodPair
<1>8. ASSUME ~past'.stale
      PROVE  ToldPair(svc', host')
  <2>1. ~past.stale /\ svc'.eng.states = svc.eng.states
    BY <1>4, <1>8
  <2>2. ToldPair(svc, host)
    BY <2>1 DEF TextInv
  <2>3. QED  BY <1>5, <1>6, <2>1, <2>2 DEF ToldPair, Shows, Stands
<1>9. QED  BY <1>4, <1>5, <1>6, <1>7, <1>8, MovedText

LEMMA ActivateText ==
  ASSUME EngineOK, LinkInv, WordInv, TextInv, Activate
  PROVE  TextInv'
<1>1. /\ svc' = Constructed /\ app' = app /\ host' = host /\ exe' = exe /\ key' = key /\ ~svc.up
  BY DEF Activate
<1>2. key = "" /\ exe.config \in Configs /\ Field(host) /\ Located(host) /\ GoodPair(svc, host)
  BY <1>1 DEF TextInv, KeyKept, GoodPair
<1>3. host.comp = <<>>
  BY <1>1, <1>2 DEF WordInv, GoodPair
<1> DEFINE t == Constructed
<1>4. /\ DOMAIN t = DOMAIN NewService /\ t.commit = NoCommit /\ t.undo = "Idle"
      /\ t.composing = FALSE /\ t.eng = EngineFresh /\ t.config \in {Default, Decoded(exe.config)}
      /\ t.tested = "" /\ t.revive = <<>>
  BY DEF Constructed, ApplySharedState, NewService
<1> HIDE DEF t
<1>5. t.config \in AllConfigs
  BY <1>2, <1>4 DEF AllConfigs
<1>6. GoodPair(t, host)
  BY <1>2, <1>3, <1>4, <1>5, MadeGood
<1>7. svc' = t
  BY <1>1 DEF t
<1>8. QED  BY <1>1, <1>2, <1>4, <1>6, <1>7, MadeText

LEMMA ExeText ==
  ASSUME LinkInv, TextInv, ExeStep
  PROVE  TextInv'
<1>1. /\ DOMAIN past = {"keys", "events", "faults", "moved", "stale", "restarted", "asked"}
      /\ DOMAIN exe = {"up", "abi", "epoch", "enabled", "active", "viet", "tip", "config"}
  BY DEF LinkInv, Shapes
<1>2. app' = app /\ svc' = svc /\ host' = host /\ key' = key
  BY DEF ExeStep, ExeFlag, ExeWriteBegin, ExeWriteEnd, ExeExit, ExeStart
<1>3. past'.moved = past.moved /\ past'.stale = past.stale
  BY <1>1 DEF ExeStep, ExeFlag, ExeWriteBegin, ExeWriteEnd, ExeExit, ExeStart
<1>4. exe'.config = exe.config \/ exe'.config \in Configs
  <2>1. CASE ExeFlag \/ ExeWriteBegin \/ ExeExit
    BY <1>1, <2>1 DEF ExeFlag, ExeWriteBegin, ExeExit
  <2>2. CASE ExeWriteEnd
    BY <1>1, <2>2 DEF ExeWriteEnd
  <2>3. CASE ExeStart
    BY <2>3 DEF ExeStart
  <2>4. QED  BY <2>1, <2>2, <2>3 DEF ExeStep
<1>5. Buffered(X)' = Buffered(X) /\ Reviving(X)' = Reviving(X)
  BY <1>2 DEF X, Buffered, Reviving
<1>6. KeyKept' /\ UndoKept'
  BY <1>2, <1>3, <1>5 DEF TextInv, KeyKept, UndoKept
<1>7. GoodPair(svc', host') /\ (~past'.stale => ToldPair(svc', host'))
  BY <1>2, <1>3 DEF TextInv
<1>8. exe'.config \in Configs
  BY <1>4 DEF TextInv
<1>9. QED  BY <1>6, <1>7, <1>8 DEF TextInv

LEMMA InitText == EngineOK /\ Init => TextInv
<1> SUFFICES ASSUME EngineOK, Init PROVE TextInv
  OBVIOUS
<1>1. /\ svc = NewService /\ key = "" /\ past.stale = FALSE /\ exe.config \in Configs
      /\ \E c \in Contexts :
           host = [doc |-> Document, caret |-> Len(Document), comp |-> <<>>, sel |-> FALSE,
                   ctx |-> c, field |-> "text", fg |-> TRUE]
  <2>1. exe.config \in Configs
    <3>1. PICK u \in BOOLEAN, a \in BOOLEAN, c \in Configs :
            exe = [up |-> u, abi |-> a, epoch |-> IF u THEN 2 ELSE 0, enabled |-> u, active |-> u,
                   viet |-> u, tip |-> FALSE, config |-> c]
      BY DEF Init
    <3>2. QED  BY <3>1
  <2>2. past.stale = FALSE
    BY DEF Init
  <2>3. QED  BY <2>1, <2>2 DEF Init
<1>2. /\ DOMAIN svc = DOMAIN NewService /\ svc.commit = NoCommit /\ svc.undo = "Idle"
      /\ svc.composing = FALSE /\ svc.eng = EngineFresh /\ svc.config \in AllConfigs
      /\ svc.tested = "" /\ svc.revive = <<>>
  BY <1>1 DEF NewService, AllConfigs
<1>3. Field(host) /\ Located(host) /\ host.comp = <<>>
  <2>1. Document \in Texts /\ Len(Document) \in 0..Len(Document)
    BY DEF EngineOK, Texts
  <2>2. PICK c \in Contexts :
           host = [doc |-> Document, caret |-> Len(Document), comp |-> <<>>, sel |-> FALSE,
                   ctx |-> c, field |-> "text", fg |-> TRUE]
    BY <1>1
  <2>3. host.doc = Document /\ host.caret = Len(Document) /\ host.comp = <<>> /\ Field(host)
    BY <2>2 DEF Field
  <2>4. QED  BY <2>1, <2>3 DEF Located
<1>4. GoodPair(svc, host)
  BY <1>2, <1>3, MadeGood
<1>5. KeyKept /\ UndoKept /\ ToldPair(svc, host)
  BY <1>1, <1>2 DEF KeyKept, UndoKept, ToldPair
<1>6. QED  BY <1>1, <1>4, <1>5 DEF TextInv

LEMMA NextText == EngineOK /\ LinkInv /\ WordInv /\ TextInv /\ [Next]_vars => TextInv'
<1> SUFFICES ASSUME EngineOK, LinkInv, WordInv, TextInv, [Next]_vars PROVE TextInv'
  OBVIOUS
<1>1. CASE UNCHANGED vars
  BY <1>1 DEF vars, TextInv, KeyKept, UndoKept, X, Buffered, Reviving
<1>2. QED  BY <1>1, NextCases, KeyText, HostText, FocusText, ActivateText, ExeText

LEMMA SpecText == ASSUME EngineOK PROVE Spec => [](LinkInv /\ WordInv /\ TextInv)
<1>1. EmptyEngine
  BY DEF EngineOK
<1>2. Init => TextInv
  BY InitText
<1>3. LinkInv /\ WordInv /\ TextInv /\ [Next]_vars => TextInv'
  BY NextText
<1>4. Spec => [](LinkInv /\ WordInv)
  BY <1>1, SpecWord
<1>5. QED  BY <1>2, <1>3, <1>4, PTL DEF Spec

\* While Esc would give back the keys of the last commit, what Backspace has
\* left of the committed word stands before the caret, unless the mouse or the
\* application has moved it: OnTestKeyDown and the undo of a commit, whatever
\* is pressed, refused or published in between.
THEOREM PrimedAlwaysBehindBody == ASSUME EngineOK PROVE Spec => []PrimedBehindBody
<1>1. WordInv /\ TextInv => PrimedBehindBody
  <2> SUFFICES ASSUME WordInv, TextInv, svc.undo = "Primed", ~past.moved
               PROVE  /\ host.comp = <<>>
                      /\ IsSuffix(Front(svc.commit.text), SubSeq(host.doc, 1, host.caret))
    BY DEF PrimedBehindBody
  <2>1. ~svc.composing /\ Ends(host, Front(svc.commit.text))
    BY DEF TextInv, UndoKept
  <2>2. host.comp = <<>> /\ Located(host) /\ svc.commit.text \in Texts /\ svc.commit.text # <<>>
    BY <2>1 DEF TextInv, GoodPair, Recorded
  <2>3. Front(svc.commit.text) \in Texts
    BY <2>2 DEF Front, Texts
  <2>4. QED  BY <2>1, <2>2, <2>3, EndsSuffix
<1>2. QED  BY <1>1, SpecText, PTL

\* The engine holds a word exactly while a composition of the service is live,
\* and the composition shows that word: the handlers of the keys, the edit
\* sessions and the recovery of OnTestKeyDown together, for every engine,
\* application and configuration.
THEOREM AlwaysInStep == ASSUME EngineOK PROVE Spec => []InStep
<1>1. WordInv /\ TextInv => InStep
  <2> SUFFICES ASSUME WordInv, TextInv, ~past.stale
               PROVE  /\ svc.composing <=> svc.eng.states # <<>>
                      /\ svc.composing <=> host.comp # <<>>
                      /\ svc.composing => Text(host) = ComposeAll(svc.eng.states)
    BY DEF InStep
  <2>1. GoodPair(svc, host) /\ ToldPair(svc, host)
    BY DEF TextInv
  <2>2. Paired(X) /\ X.svc = svc /\ X.host = host
    BY <2>1, PairIs, XIs, GoodShaped DEF Between
  <2>3. svc.composing <=> host.comp # <<>>
    BY <2>2, PairedComp
  <2>4. svc.composing <=> svc.eng.states # <<>>
    BY <2>1 DEF GoodPair, ToldPair
  <2>5. ASSUME svc.composing
        PROVE  Text(host) = ComposeAll(svc.eng.states)
    <3> DEFINE t == ComposeAll(svc.eng.states)
    <3>1. t \in Texts /\ Shows(host, t) /\ Located(host) /\ host.comp # <<>>
      BY <2>1, <2>3, <2>5 DEF GoodPair, ToldPair, EngineOK
    <3> HIDE DEF t
    <3>2. QED  BY <3>1, ShowsText DEF t
  <2>6. QED  BY <2>3, <2>4, <2>5
<1>2. QED  BY <1>1, SpecText, PTL

-----------------------------------------------------------------------------
(* Letters.                                                                 *)

\* A letter is the last key of the engine behind it.
KeepsKeys ==
  \A c \in AllConfigs, e \in Engines : \A k \in Keys \cap Letters :
    LET new == EnginePush(c, e, k) IN new.hist # <<>> /\ Last(new.hist) = k

\* The letter k is the last one of the engine's word.
Ends1(engine, k) == engine.hist # <<>> /\ Last(engine.hist) = k

LEMMA TakenEngine ==
  ASSUME NEW x, Shaped(x), NEW word, NEW engine, engine.states # <<>>
  PROVE  ReviveSession(x, "granted", word, engine).svc.eng = engine
<1> DEFINE s == StartComposition(x, x.host.caret - Len(word))
           over == SetCompositionText(s, ComposeAll(engine.states))
           done == [over EXCEPT !.svc.eng = engine]
<1>1. Shaped(s)
  BY StartFrame DEF Placed, Linked
<1>2. Shaped(over)
  <2> HIDE DEF s
  <2>1. QED  BY <1>1, SetFrame DEF Placed, Linked
<1> HIDE DEF over
<1>3. done.svc.eng = engine
  BY <1>2 DEF Shaped, NewService
<1> HIDE DEF done
<1>4. ReviveSession(x, "granted", word, engine) = done
  BY DEF ReviveSession, done, over, s
<1>5. QED  BY <1>3, <1>4

\* A letter that is eaten is in the word, or the word it would have taken up
\* could not be.
LEMMA LetterComposed ==
  ASSUME EngineOK, KeepsKeys, NEW x, Good(x), NEW g, NEW k \in Keys \cap Letters
  PROVE  LET z == HandleLetter(x, k, g)
         IN z.eaten => \/ Ends1(z.svc.eng, k)
                       \/ g # "granted" /\ TakenUp(x, g) # <<>>
<1> DEFINE word == TakenUp(x, g)
           seed == IF word = <<>> THEN x.svc.eng ELSE EngineSeed(x.svc.config, word)
           engine == PushKey(x, word, k)
           y == [x EXCEPT !.svc.eng = engine]
           z == HandleLetter(x, k, g)
<1>0. Shaped(x) /\ Paired(x) /\ k \notin Digits
  BY LettersAreNoDigits DEF Good, Joint
<1>1. word \in Texts
  BY WordBehind, EmptyText DEF Good, TakenUp
<1>2. seed \in Engines /\ x.svc.config \in AllConfigs
  BY <1>1 DEF Good, EngineOK
<1>3. engine = EnginePush(x.svc.config, seed, k)
  BY DEF PushKey
<1>4. z = ComposeWith(x, g, word, k, engine)
  BY DEF HandleLetter, ComposeBehind
<1> HIDE DEF word, seed, engine, z
<1>5. engine.states # <<>> /\ Ends1(engine, k)
  BY <1>2, <1>3 DEF EngineOK, KeepsKeys, Ends1
<1>6. Shaped(y) /\ Paired(y) /\ y.svc.eng = engine /\ y.svc.composing = x.svc.composing
  BY <1>0 DEF Shaped, NewService, Paired
<1>7. CASE word # <<>> /\ g = "granted"
  <2> DEFINE r == ReviveSession(x, "granted", word, engine)
  <2>1. r.svc.eng = engine /\ Shaped(r)
    BY <1>0, <1>5, TakenEngine, ReviveFrame DEF Placed, Linked
  <2>2. z = Eat(r)
    BY <1>4, <1>7 DEF ComposeWith
  <2> HIDE DEF r
  <2>3. z.svc.eng = engine
    BY <2>1, <2>2, LightOps DEF Light
  <2>4. QED  BY <1>5, <2>3 DEF z, word
<1>8. CASE word # <<>> /\ g # "granted"
  BY <1>8 DEF word
<1>9. CASE word = <<>> /\ x.svc.composing
  <2> DEFINE s == Shown(y, g)
  <2>1. z = Eat(s)
    BY <1>4, <1>9 DEF ComposeWith
  <2> HIDE DEF y
  <2>2. s.svc.eng = engine /\ Shaped(s)
    BY <1>6, SessionsPaired, SessionFrames DEF Shown, Placed, Linked
  <2> HIDE DEF s
  <2>3. z.svc.eng = engine
    BY <2>1, <2>2, LightOps DEF Light
  <2>4. QED  BY <1>5, <2>3 DEF z
<1>10. CASE word = <<>> /\ ~x.svc.composing
  <2> DEFINE s == StartSession(y, g, Peek(y))
             p == Pass([s EXCEPT !.svc.eng = EngineFresh])
  <2>1. z = StartWith(y, g)
    BY <1>0, <1>4, <1>10 DEF ComposeWith
  <2> HIDE DEF y
  <2>2. s.svc.eng = engine /\ Shaped(s)
    BY <1>6, SessionsPaired, SessionFrames DEF Placed, Linked
  <2>3. z = IF s.svc.composing THEN Eat(s) ELSE p
    BY <2>1 DEF StartWith
  <2> HIDE DEF s
  <2>4. ~p.eaten
    BY <2>2 DEF Pass, Shaped
  <2> HIDE DEF p
  <2>5. Eat(s).svc.eng = engine
    BY <2>2, LightOps DEF Light
  <2>6. z.eaten => z.svc.eng = engine
    BY <2>3, <2>4, <2>5
  <2>7. QED  BY <1>5, <2>6 DEF z
<1>11. QED  BY <1>7, <1>8, <1>9, <1>10

LEMMA SameTaken ==
  ASSUME NEW x, NEW u, Light(x, u), u.svc.scintilla = x.svc.scintilla,
         u.svc.config = x.svc.config, NEW g
  PROVE  /\ TakenUp(u, g) = TakenUp(x, g)
         /\ TakenUp(x, g) # <<>> => TakenUp(x, "granted") # <<>>
BY DEF Light, TakenUp, Buffered

LEMMA AskedScintilla ==
  ASSUME NEW x, Shaped(x), NEW k
  PROVE  LET w == IF x.svc.tested = k THEN [x EXCEPT !.want = x.svc.wanted] ELSE WantKey(x, k)
         IN Uncached(w).svc.scintilla = x.svc.scintilla
<1> DEFINE on == x.svc.abi /\ x.svc.connected /\ exe.enabled
           s == IF on THEN [x.svc EXCEPT !.active = exe.active,
                                         !.viet = IF exe.active THEN exe.viet ELSE @]
                ELSE x.svc
           y == [x EXCEPT !.svc = s, !.want = FALSE]
           v == [x EXCEPT !.want = x.svc.wanted]
           w == IF x.svc.tested = k THEN v ELSE WantKey(x, k)
<1>1. /\ Shaped(y) /\ y.svc.scintilla = x.svc.scintilla
      /\ Shaped(v) /\ v.svc.scintilla = x.svc.scintilla
  BY DEF Shaped, NewService
<1> HIDE DEF v, y
<1>2. \A d : /\ [y EXCEPT !.svc.digitLed = d].svc.scintilla = y.svc.scintilla
             /\ [y EXCEPT !.want = d].svc.scintilla = y.svc.scintilla
  BY <1>1 DEF Shaped, NewService
<1>3. WantKey(x, k).svc.scintilla = x.svc.scintilla
  BY <1>1, <1>2 DEF WantKey, y
<1>4. Shaped(w) /\ w.svc.scintilla = x.svc.scintilla
  BY <1>1, <1>3, WantFrame DEF Placed, Linked
<1> HIDE DEF w
<1>5. Uncached(w).svc.scintilla = w.svc.scintilla
  BY <1>4 DEF Uncached, Shaped, NewService
<1>6. QED  BY <1>4, <1>5 DEF w, v

LEMMA LetterHandled ==
  ASSUME EngineOK, KeepsKeys, NEW x, Good(x), NEW g, NEW k \in Keys \cap Letters
  PROVE  LET z == KeyDownOf(x, k, g)
         IN z.eaten => Ends1(z.svc.eng, k) \/ (g # "granted" /\ TakenUp(x, "granted") # <<>>)
<1> DEFINE w == IF x.svc.tested = k THEN [x EXCEPT !.want = x.svc.wanted] ELSE WantKey(x, k)
           u == Uncached(w)
           want == w.want /\ (x.svc.tested = k \/ ~Suggested(w, k, g))
           z == KeyDownOf(x, k, g)
<1>0. /\ k \notin Digits \cup {"CTRL", "BS", "ESC", " ", ",", "."}
      /\ ~Suggested(x, k, g) /\ ~EscRaw(x, k) /\ ~EscUndo(x, k) /\ ~IsPunctuationKey(k)
  BY DEF Letters, Digits, Suggested, EscRaw, EscUndo, IsPunctuationKey
<1>1. z = KeyWanted(u, k, g, want)
  BY <1>0 DEF KeyDownOf
<1>2. Kept(x, u) /\ Light(x, u) /\ u.svc.config = x.svc.config
  BY AskedGood
<1>3. u.svc.scintilla = x.svc.scintilla
  BY AskedScintilla DEF Good
<1> HIDE DEF u, want, z
<1>4. Good(u) /\ Shaped(u)
  BY <1>2 DEF Kept, Good
<1>5. CASE want
  <2>1. z = HandleLetter(u, k, g)
    BY <1>0, <1>1, <1>5 DEF KeyWanted, HandleKey
  <2>2. z.eaten => \/ Ends1(z.svc.eng, k)
                   \/ g # "granted" /\ TakenUp(u, g) # <<>>
    BY <1>4, <2>1, LetterComposed
  <2>3. QED  BY <1>2, <1>3, <2>2, SameTaken DEF z
<1>6. CASE ~want
  <2>1. z = Pass(u) \/ z = Pass(Commit(u, g))
    BY <1>1, <1>6 DEF KeyWanted
  <2>2. \A y : Shaped(y) => ~Pass(y).eaten
    BY DEF Pass, Shaped
  <2>3. Shaped(Commit(u, g))
    BY <1>4, CommitFrame DEF Placed, Linked
  <2>4. QED  BY <1>4, <2>1, <2>2, <2>3 DEF z
<1>7. QED  BY <1>5, <1>6

\* The step of a key writes down what LetterArrives speaks of.
LEMMA LetterStep ==
  ASSUME EngineOK, KeepsKeys, LinkInv, WordInv, TextInv, [Next]_vars, LetterArrives
  PROVE  LetterArrives'
<1>1. ASSUME NEW k \in Keys, TestKey(k) \/ KeyDown(k)
      PROVE  LetterArrives'
  <2>1. PICK g \in Grants :
          \/ /\ svc.up /\ host.fg /\ key = "" /\ app /= "chromium"
             /\ After(TestOf(CheckConfigEvent(X), k, g), "test", k, g)
          \/ /\ svc.up /\ host.fg /\ (key = k \/ app = "chromium")
             /\ After(KeyDownOf(CheckConfigEvent(X), k, g), "down", k, g)
    BY <1>1, KeyStep
  <2>2. CASE After(TestOf(CheckConfigEvent(X), k, g), "test", k, g)
    BY <2>2 DEF After, LetterArrives
  <2>3. CASE After(KeyDownOf(CheckConfigEvent(X), k, g), "down", k, g)
    <3> DEFINE y == CheckConfigEvent(X)
               z == KeyDownOf(y, k, g)
    <3>1. Good(y)
      <4>1. Good(X) /\ Shaped(X)
        BY PairIs, XIs DEF TextInv, Good
      <4>2. Renewed(X, y)
        BY <4>1, CheckRenews
      <4>3. QED  BY <4>1, <4>2, RenewedGood DEF TextInv
    <3>2. /\ svc' = z.svc /\ step'.key = k /\ step'.eaten = z.eaten
          /\ step'.over = IF g = "granted" THEN <<>> ELSE TakenUp(y, "granted")
      BY <2>3 DEF After
    <3> HIDE DEF y
    <3>3. k \in Letters /\ z.eaten
            => Ends1(z.svc.eng, k) \/ (g # "granted" /\ TakenUp(y, "granted") # <<>>)
      BY <3>1, LetterHandled
    <3> HIDE DEF z
    <3>4. QED  BY <3>2, <3>3 DEF LetterArrives, Ends1
  <2>4. QED  BY <2>1, <2>2, <2>3
<1>2. CASE HostStep \/ OnSetFocus \/ Activate \/ ExeStep
  <2>1. step' = NoKey
    BY <1>2 DEF HostStep, TerminateComposition, Click, SwitchField, Suggest, Wait, Deactivate,
       ToggleVietnameseMode, OnSetFocus, Activate, ExeStep, ExeFlag, ExeWriteBegin, ExeWriteEnd,
       ExeExit, ExeStart, Other
  <2>2. QED  BY <2>1 DEF NoKey, LetterArrives
<1>3. CASE UNCHANGED vars
  BY <1>3 DEF vars, LetterArrives
<1>4. QED  BY <1>1, <1>2, <1>3, NextCases

\* A letter OnKeyDown eats is the last key of the engine's word; where no
\* composition can be started it goes back to the application.  A word the
\* letter would take up again and whose session is refused is excepted.
THEOREM LettersAlwaysArrive ==
  ASSUME EngineOK, KeepsKeys
  PROVE  Spec => []LetterArrives
<1>1. Init => LetterArrives
  <2>1. NoKey.what = "other"
    BY DEF NoKey
  <2>2. ASSUME Init PROVE step.what # "down"
    BY <2>1, <2>2 DEF Init
  <2>3. QED  BY <2>2 DEF LetterArrives
<1>2. LinkInv /\ WordInv /\ TextInv /\ LetterArrives /\ [Next]_vars => LetterArrives'
  BY LetterStep
<1>3. QED  BY <1>1, <1>2, SpecText, PTL DEF Spec
=============================================================================

---------------------------- MODULE TextService ----------------------------
(***************************************************************************)
(* The text service VKey loads into an application that Windows' Text       *)
(* Services Framework drives: OnTestKeyDown asks whether it wants a key,     *)
(* OnKeyDown hands the key over, and every change of the document is an edit *)
(* session the application may refuse.                                      *)
(*                                                                          *)
(* A handler is an operator on x == [svc, host, eaten, want]; g says what    *)
(* becomes of the edit sessions it asks for: "granted", "refused", or        *)
(* "noComposition" when only a new composition is denied.  The document is a *)
(* sequence of glyphs, a composition the pair <<from, to>> of places.  Letter *)
(* case (auto-capitals among it) and the keys held with Shift are left out.  *)
(***************************************************************************)
EXTENDS Phonology

CONSTANTS
  Configs,     \* the configurations the main program may publish
  Default,     \* the configuration of a service that could not read one
  Apps,        \* "plain", "chromium" (no OnTestKeyDown), "scintilla"
  Contexts,    \* its contexts (ITfContext), each with any number of fields
  Document,    \* what the text field holds at first
  EngineFresh,           \* an engine without a word
  EnginePush(_, _, _),   \* the engine of a configuration behind a key
  EngineBackspace(_, _), \* the engine of a configuration behind a Backspace
  EngineSeed(_, _),      \* the engine that has read a text of the document
  EngineCommit(_, _),    \* what an engine makes of its word when it is committed
  Keys,        \* keys the user presses
  MaxSteps,    \* bound: key presses and disturbances together
  MaxTrouble   \* bound: disturbances: clicks, focus changes, changes by the
               \* main program, handlers whose edit sessions are refused

ASSUME KeysAssumption == "" \notin Keys
ASSUME ContextsAssumption == Contexts # {} /\ "" \notin Contexts

VARIABLES
  app,         \* which kind of application this is
  svc,         \* EngineController, its CompositionManager and the key sink
  host,        \* the application: document, caret, composition, and the
               \* context and the input scope of the field with the caret
  exe,         \* SharedState as the main program writes it
  key,         \* the key between OnTestKeyDown and OnKeyDown, "" none
  step,        \* history: what happened last
  past         \* history: bounds used, and what disturbed word and caret

vars == <<app, svc, host, exe, key, step, past>>

Letters == {"a", "b", "c", "d", "e", "f", "g", "h", "i", "j", "k", "l", "m", "n", "o", "p",
            "q", "r", "s", "t", "u", "v", "w", "x", "y", "z"}
Digits == {"0", "1", "2", "3", "4", "5", "6", "7", "8", "9"}
Glyph(k) == <<k, "None", "None">>

Buffered(x) == x.svc.eng.states # <<>>
Peek(x) == ComposeAll(x.svc.eng.states)
PeekRaw(x) == [i \in 1..Len(x.svc.eng.hist) |-> Glyph(x.svc.eng.hist[i])]
Eat(x) == [x EXCEPT !.eaten = TRUE]
Pass(x) == [x EXCEPT !.eaten = FALSE]

(***************************************************************************)
(* The application's side (external): text, caret, composition.             *)
(***************************************************************************)
Replace(h, from, to, text) ==
  [h EXCEPT !.doc = SubSeq(@, 1, from) \o text \o SubSeq(@, to + 1, Len(@)),
            !.caret = from + Len(text), !.sel = FALSE]

\* What the application does with a key nobody ate.
AppKey(h, k) ==
  CASE k = "BS" ->
         IF h.sel \/ h.caret = 0 THEN [h EXCEPT !.sel = FALSE]
         ELSE [Replace(h, h.caret - 1, h.caret, <<>>) EXCEPT
                 !.comp = [i \in DOMAIN @ |-> IF @[i] >= h.caret THEN @[i] - 1 ELSE @[i]]]
    [] k = "LEFT" -> [h EXCEPT !.caret = Max({0, @ - 1}), !.sel = FALSE]
    [] k \in {"ESC", "CTRL"} -> [h EXCEPT !.sel = FALSE]
    [] OTHER -> [Replace(h, h.caret, h.caret, <<Glyph(k)>>) EXCEPT
                   !.comp = [i \in DOMAIN @ |-> IF @[i] > h.caret THEN @[i] + 1 ELSE @[i]]]

\* The letters right before the caret; none while something is selected.
PrecedingWord(h) ==
  LET stops == {i \in 1..h.caret : h.doc[i][1] \notin Letters}
  IN IF h.sel THEN <<>> ELSE SubSeq(h.doc, LastOf(stops) + 1, h.caret)

(***************************************************************************)
(* Edit sessions.                                                           *)
(***************************************************************************)
EndComposition(x) == [x EXCEPT !.svc.composing = FALSE, !.host.comp = <<>>]

StartComposition(x, from) ==
  [x EXCEPT !.svc.composing = TRUE, !.host.comp = <<from, x.host.caret>>]

SetCompositionText(x, text) ==
  LET at == x.host.comp
  IN [x EXCEPT !.host = [Replace(x.host, at[1], at[2], text)
                           EXCEPT !.comp = <<at[1], at[1] + Len(text)>>]]

StartSession(x, g, text) ==
  IF g = "granted" THEN SetCompositionText(StartComposition(x, x.host.caret), text) ELSE x

UpdateSession(x, g, text) ==
  IF x.svc.composing /\ g # "refused" THEN SetCompositionText(x, text)
  ELSE StartSession(x, g, text)

CommitSession(x, g, text) ==
  IF x.svc.composing /\ g # "refused" THEN EndComposition(SetCompositionText(x, text)) ELSE x

HasSelection(x, g) == g # "refused" /\ x.host.sel

\* A composition over the word before the caret, and the engine behind it.
ReviveSession(x, g, word, engine) ==
  LET over == SetCompositionText(
        StartComposition(x, x.host.caret - Len(word)), ComposeAll(engine.states))
      done == [over EXCEPT !.svc.eng = engine]
  IN IF g # "granted" THEN x
     ELSE IF engine.states = <<>> THEN EndComposition(done) ELSE done

\* The word is taken up only when the engine can read it and it is not English.
Revivable(cfg, word) == word # <<>> /\ EngineSeed(cfg, word).bias # "HardEnglish"

(***************************************************************************)
(* Commit, and the undo of a commit.                                        *)
(***************************************************************************)
NoCommit == [text |-> <<>>, raw |-> <<>>, old |-> FALSE]

ResetCommitUndo(x) == [x EXCEPT !.svc.undo = "Idle", !.svc.commit = NoCommit]
WithinUndoWindow(x) == x.svc.undo # "Idle" /\ ~x.svc.commit.old

RecordCommitSnapshot(x, text, raw, trailing) ==
  IF text = <<>> \/ raw = <<>> THEN ResetCommitUndo(x)
  ELSE [x EXCEPT !.svc.undo = IF trailing THEN "Ready" ELSE "Idle",
                 !.svc.commit = [text |-> text, raw |-> raw, old |-> FALSE]]

\* Mutant: the engine is emptied before its text is read.
CommitTheEmptied(x, g, tail) ==
  LET y == [CommitSession(x, g, tail) EXCEPT !.svc.eng = EngineFresh, !.svc.digitLed = FALSE]
  IN RecordCommitSnapshot(y, tail, PeekRaw(x), tail # <<>>)

\* Commit and CommitWithChar: the text is fixed before the session is asked
\* for, and the engine is empty behind it, granted or not.
CommitAs(x, g, text, trailing) ==
  LET y == [CommitSession(x, g, text) EXCEPT !.svc.eng = EngineFresh, !.svc.digitLed = FALSE]
  IN RecordCommitSnapshot(y, text, PeekRaw(x), trailing)
CommitThe(x, g, tail) ==
  CommitAs(x, g, EngineCommit(x.svc.config, x.svc.eng) \o tail, tail # <<>>)

Commit(x, g) == CommitThe(x, g, <<>>)
CommitWithChar(x, g, k) == CommitThe(x, g, <<Glyph(k)>>)

CommitRawAndEnd(x, g) ==
  [CommitSession(x, g, PeekRaw(x)) EXCEPT !.svc.eng = EngineFresh, !.svc.digitLed = FALSE]

\* The last n glyphs before the caret replaced by the raw keys.
RestoreSession(x, g, n, raw) ==
  IF g = "refused" \/ x.host.caret < n THEN x
  ELSE [x EXCEPT !.host = Replace(@, @.caret - n, @.caret, raw)]

\* The trailing character of the commit has been deleted by Backspace.
TryRestoreLastCommitRaw(x, g) ==
  LET commit == x.svc.commit
  IN ResetCommitUndo(RestoreSession(x, g, Len(commit.text) - 1, commit.raw))

Reset(x) == [x EXCEPT !.svc.eng = EngineFresh, !.svc.composing = FALSE, !.svc.digitLed = FALSE]

(***************************************************************************)
(* SharedState.                                                             *)
(***************************************************************************)
Stable == exe.epoch % 2 = 0
Readable(s) == s.connected /\ exe.abi /\ Stable

\* What the service makes of a published configuration: Combined and
\* UserDefined (3 and 4) are "invalid" and become Telex, and the shared state
\* has neither the exclusions nor the user's key map.
KnownMethods == {"Telex", "VNI", "SimpleTelex"}
Decoded(c) ==
  [c EXCEPT !.method = IF @ \in KnownMethods THEN @ ELSE "Telex",
            !.exclusions = {}, !.keyMap = <<>>]

\* A pending composition is committed into the void: the engine is replaced.
ApplySharedState(s) ==
  [s EXCEPT !.enabled = exe.enabled, !.viet = exe.viet, !.config = Decoded(exe.config),
            !.eng = EngineFresh]

\* Mutant: a word being composed keeps its configuration, the epoch is taken.
CheckConfigEventBusy(x) ==
  LET s == [x.svc EXCEPT !.connected = @ \/ exe.up]
      busy == IF Buffered(x) THEN s ELSE ApplySharedState(s)
  IN IF Readable(s) /\ s.epoch # exe.epoch THEN [x EXCEPT !.svc = [busy EXCEPT !.epoch = exe.epoch]]
     ELSE [x EXCEPT !.svc = s]

CheckConfigEvent(x) ==
  LET s == [x.svc EXCEPT !.connected = @ \/ exe.up]
  IN IF Readable(s) /\ s.epoch # exe.epoch
     THEN [x EXCEPT !.svc = [ApplySharedState(s) EXCEPT !.epoch = exe.epoch]]
     ELSE [x EXCEPT !.svc = s]

RefreshFlags(x) ==
  LET s == [x.svc EXCEPT !.connected = @ \/ exe.up, !.scintilla = (app = "scintilla")]
      new == [s EXCEPT !.enabled = exe.enabled, !.viet = exe.viet]
  IN [x EXCEPT !.svc = IF ~Readable(s) THEN [s EXCEPT !.enabled = FALSE]
                       ELSE IF ~s.enabled /\ exe.enabled THEN ApplySharedState(new)
                       ELSE new]

NewService ==
  [up |-> FALSE, config |-> Default, eng |-> EngineFresh, composing |-> FALSE, connected |-> FALSE,
   epoch |-> 0, enabled |-> TRUE, active |-> FALSE, viet |-> TRUE, abi |-> TRUE,
   digitLed |-> FALSE, ctx |-> "", blocked |-> FALSE, scintilla |-> FALSE,
   undo |-> "Idle", commit |-> NoCommit, revive |-> <<>>, tested |-> "", wanted |-> FALSE]

\* The constructor of EngineController.
Constructed ==
  LET s == [NewService EXCEPT !.up = TRUE, !.connected = exe.up]
  IN IF ~exe.up THEN [s EXCEPT !.enabled = FALSE]
     ELSE IF ~exe.abi THEN [s EXCEPT !.abi = FALSE]
     ELSE IF ~Stable THEN s
     ELSE [ApplySharedState(s) EXCEPT !.epoch = exe.epoch]

(***************************************************************************)
(* Which keys the service wants.                                            *)
(***************************************************************************)
\* The input scopes at the caret: password, PIN, e-mail address, login name.
BlockedScope(h) == h.field = "password"

\* Mutant: the answer for one context is kept for the next.
CheckContextBlockedOnce(x, g) ==
  IF x.svc.ctx # "" THEN x
  ELSE [x EXCEPT !.svc.ctx = x.host.ctx,
                 !.svc.blocked = (BlockedScope(x.host) /\ g # "refused")]

\* A context is asked once, for the field the caret is in then.  One that
\* cannot be asked counts as not blocked, until it changes.
CheckContextBlocked(x, g) ==
  IF x.svc.ctx = x.host.ctx THEN x
  ELSE [x EXCEPT !.svc.ctx = x.host.ctx,
                 !.svc.blocked = (BlockedScope(x.host) /\ g # "refused")]

IsEngineDigitKey(x, k) ==
  x.svc.config.method \in {"VNI", "Combined", "UserDefined"} /\ k \in Digits
IsPunctuationKey(k) == k \in Digits \cup {",", "."}
IsDigitLedBoundary(k) == k \in {" ", "ENTER", "BS", "ESC", "LEFT"}

WantKey(x, k) ==
  LET on == x.svc.abi /\ x.svc.connected /\ exe.enabled
      s == IF on THEN [x.svc EXCEPT !.active = exe.active, !.viet = IF exe.active THEN exe.viet ELSE @]
           ELSE x.svc
      armed == ~Buffered(x) /\ IsEngineDigitKey(x, k)
      y == [x EXCEPT !.svc = s, !.want = FALSE]
  IN IF ~on \/ ~exe.active \/ ~exe.viet \/ k = "CTRL" THEN y
     ELSE IF s.digitLed THEN [y EXCEPT !.svc.digitLed = ~IsDigitLedBoundary(k)]
     ELSE IF armed THEN [y EXCEPT !.svc.digitLed = TRUE]
     ELSE [y EXCEPT !.want = \/ k \in Letters
                             \/ Buffered(x) /\ IsEngineDigitKey(x, k)
                             \/ Buffered(x) /\ k = "BS"
                             \/ Buffered(x) /\ k = " " /\ ~s.scintilla]

\* Backspace behind a word the service could compose: claim the key.
PrepareBackspaceRevive(x, g) ==
  LET word == IF g = "refused" THEN <<>> ELSE PrecedingWord(x.host)
      s == x.svc
      may == /\ s.enabled /\ s.active /\ s.viet /\ ~s.blocked /\ ~s.scintilla /\ ~Buffered(x)
             /\ Revivable(s.config, word)
  IN [x EXCEPT !.svc.revive = IF may THEN word ELSE <<>>, !.want = may]

(***************************************************************************)
(* OnTestKeyDown.                                                           *)
(***************************************************************************)
\* The engine holds a word and the composition is gone, or the other way round.
Recover(x, g) ==
  CASE ~x.svc.composing /\ Buffered(x) -> Reset(x)
    [] x.svc.composing /\ ~Buffered(x) -> Commit(x, g)
    [] OTHER -> x

Suggested(x, k, g) == k = "BS" /\ x.svc.config.keepChars /\ HasSelection(x, g)

Cache(x, k, want) == [x EXCEPT !.svc.tested = k, !.svc.wanted = want]

\* Esc gives the raw keys back: of the word being composed, or of the one just
\* committed and stepped back to.
EscRaw(x, k) == k = "ESC" /\ x.svc.config.escRestore /\ x.svc.eng.hist # <<>> /\ Buffered(x)
EscUndo(x, k) == /\ k = "ESC" /\ x.svc.config.escRestore
                 /\ ~Buffered(x) /\ x.svc.undo = "Primed" /\ WithinUndoWindow(x)

\* The answer is kept; an open word ends when the key is not wanted.
Answer(x, k, g) ==
  IF ~x.want /\ Buffered(x) THEN Pass(Commit(Cache(x, k, FALSE), g))
  ELSE [Cache(x, k, x.want) EXCEPT !.eaten = x.want]

\* w: behind WantKey.
TestErase(w, g, want) ==
  LET u == IF w.svc.undo = "Primed" THEN ResetCommitUndo(w) ELSE w
  IN IF want THEN [u EXCEPT !.want = TRUE] ELSE PrepareBackspaceRevive(u, g)
TestWanted(w, k, g) ==
  LET want == w.want /\ ~Suggested(w, k, g)
      erase == k = "BS" /\ ~Buffered(w)
  IN IF erase /\ w.svc.undo = "Ready" /\ WithinUndoWindow(w)
     THEN Cache(Pass([w EXCEPT !.svc.undo = "Primed"]), k, FALSE)
     ELSE Answer(IF erase THEN TestErase(w, g, want) ELSE [w EXCEPT !.want = want], k, g)

\* Mutant: the undo of a commit survives whatever is typed behind it.
OnNonRestoreKeyKeeps(x, k) == x

OnNonRestoreKey(x, k) == IF k \in {"BS", "ESC"} THEN x ELSE ResetCommitUndo(x)

\* y: behind the recovery of a composition and an engine out of step.
TestRecovered(y, k, g) ==
  IF k = "CTRL" THEN Pass(IF Buffered(y) THEN Commit(y, g) ELSE y)
  ELSE IF EscRaw(y, k) THEN Eat(CommitRawAndEnd(y, g))
  ELSE IF EscUndo(y, k) THEN Eat(TryRestoreLastCommitRaw(y, g))
  ELSE IF IsPunctuationKey(k) /\ Buffered(y) /\ ~IsEngineDigitKey(y, k)
  THEN Cache(Eat(y), k, TRUE)
  ELSE TestWanted(WantKey(y, k), k, g)

TestUnblocked(x, k, g) ==
  IF Buffered(x) /\ Suggested(x, k, g) THEN Cache(Pass(Commit(x, g)), k, FALSE)
  ELSE TestRecovered(Recover(OnNonRestoreKey(x, k), g), k, g)

OnTestKeyDown(x0, k, g) ==
  LET x == CheckContextBlocked(CheckConfigEvent(x0), g)
  IN IF x.svc.blocked THEN Pass(x) ELSE TestUnblocked(x, k, g)

(***************************************************************************)
(* OnKeyDown.                                                               *)
(***************************************************************************)
Shown(y, g) == UpdateSession(y, g, Peek(y))

ProcessBackspace(x, g) ==
  LET erased(y) == IF Buffered(y) THEN Shown(y, g) ELSE CommitSession(y, g, <<>>)
  IN erased([x EXCEPT !.svc.eng = EngineBackspace(x.svc.config, @)])

\* The word a letter behind it takes up again; none while one is composed.
TakenUp(x, g) ==
  LET word == PrecedingWord(x.host)
  IN IF /\ ~Buffered(x) /\ ~x.svc.composing /\ ~x.svc.scintilla /\ g # "refused"
        /\ Revivable(x.svc.config, word)
     THEN word ELSE <<>>

\* The engine behind the key: a word taken up is read into it first.
PushKey(x, word, k) ==
  EnginePush(x.svc.config,
    IF word = <<>> THEN x.svc.eng ELSE EngineSeed(x.svc.config, word), k)

\* A composition that cannot be started leaves the letter to the application.
StartWith(y, g) ==
  LET started == StartSession(y, g, Peek(y))
  IN IF started.svc.composing THEN Eat(started) ELSE Pass([started EXCEPT !.svc.eng = EngineFresh])

ComposeWith(x, g, word, k, engine) ==
  LET y == [x EXCEPT !.svc.eng = engine]
  IN CASE word # <<>> -> Eat(ReviveSession(x, g, word, engine))
       [] word = <<>> /\ x.svc.composing -> Eat(Shown(y, g))
       [] OTHER -> IF k \in Digits THEN Eat(y) ELSE StartWith(y, g)
ComposeBehind(x, g, word, k) == ComposeWith(x, g, word, k, PushKey(x, word, k))
HandleLetter(x, k, g) == ComposeBehind(x, g, TakenUp(x, g), k)

HandleKey(x, k, g) ==
  LET word == x.svc.revive
      revived == ReviveSession(x, g, word,
                               EngineBackspace(x.svc.config, EngineSeed(x.svc.config, word)))
  IN CASE k = "BS" /\ word # <<>> -> Eat([revived EXCEPT !.svc.revive = <<>>])
       [] k = "BS" /\ word = <<>> -> Eat(ProcessBackspace(x, g))
       [] k = " " -> Eat(CommitWithChar(x, g, k))
       [] k \in Letters \/ (IsEngineDigitKey(x, k) /\ Buffered(x)) -> HandleLetter(x, k, g)
       [] OTHER -> Pass(x)

Uncached(x) == [x EXCEPT !.svc.tested = ""]

\* The answer of OnTestKeyDown is reused; where there was none, WantKey is
\* asked here.
KeyWanted(w, k, g, want) ==
  CASE ~want /\ Buffered(w) -> Pass(Commit(w, g))
    [] ~want /\ ~Buffered(w) -> Pass(w)
    [] OTHER -> HandleKey(w, k, g)
OnKeyDown(x0, k, g) ==
  LET x == CheckConfigEvent(x0)
      tested == x.svc.tested = k
      w == IF tested THEN [x EXCEPT !.want = x.svc.wanted] ELSE WantKey(x, k)
  IN IF k = "CTRL" THEN Pass(x)
     ELSE IF Buffered(x) /\ Suggested(x, k, g) THEN Pass(Uncached(Commit(x, g)))
     ELSE IF EscRaw(x, k) THEN Eat(CommitRawAndEnd(x, g))
     ELSE IF EscUndo(x, k) THEN Eat(TryRestoreLastCommitRaw(x, g))
     ELSE IF IsPunctuationKey(k) /\ Buffered(x) /\ ~IsEngineDigitKey(x, k) THEN
       Eat(Uncached(CommitWithChar(x, g, k)))
     ELSE KeyWanted(Uncached(w), k, g, w.want /\ (tested \/ ~Suggested(w, k, g)))

(***************************************************************************)
(* The actions.                                                             *)
(***************************************************************************)
Spent == past.keys + past.events + past.faults
Event == past.events + past.faults < MaxTrouble /\ Spent < MaxSteps
Counted == Spent < MaxSteps
Grants == IF past.events + past.faults < MaxTrouble THEN {"granted", "refused", "noComposition"}
          ELSE {"granted"}
X == [svc |-> svc, host |-> host, eaten |-> FALSE, want |-> FALSE]
NoKey == [what |-> "other", key |-> "", eaten |-> FALSE, grant |-> "granted", over |-> <<>>]
Other == step' = NoKey

\* What the handler of a key leaves behind; the word is no longer disturbed
\* once nothing is composed.
After(x, what, k, g) ==
  LET final == IF x.eaten THEN x.host ELSE AppKey(x.host, k)
      idle == x.svc.eng.states = <<>> /\ ~x.svc.composing
      swapped == svc.eng.states # <<>> /\ x.svc.epoch # svc.epoch
  IN /\ svc' = x.svc
     /\ host' = IF what = "test" /\ x.eaten THEN x.host ELSE final
     /\ key' = IF what = "test" /\ x.eaten THEN k ELSE ""
     /\ step' = [what |-> what, key |-> k, eaten |-> x.eaten, grant |-> g,
               over |-> IF g = "granted" THEN <<>>
                         ELSE TakenUp(CheckConfigEvent(X), "granted")]
     /\ past' = [past EXCEPT
          !.keys = IF key = "" THEN @ + 1 ELSE @,
          !.faults = IF g = "granted" THEN @ ELSE @ + 1,
          !.stale = ~idle /\ (@ \/ g # "granted" \/ swapped),
          !.asked = IF x.svc.ctx = svc.ctx THEN @ ELSE host.field,
          !.moved = IF x.svc.undo = "Ready" /\ svc.commit # x.svc.commit THEN FALSE ELSE @]
     /\ UNCHANGED <<app, exe>>

TestKey(k) ==
  /\ svc.up /\ host.fg /\ key = "" /\ app # "chromium" /\ Counted
  /\ \E g \in Grants : After(OnTestKeyDown(X, k, g), "test", k, g)

KeyDown(k) ==
  /\ svc.up /\ host.fg
  /\ key = k \/ (app = "chromium" /\ Counted)
  /\ \E g \in Grants : After(OnKeyDown(X, k, g), "down", k, g)

UserEvent == Event /\ past' = [past EXCEPT !.events = @ + 1, !.moved = TRUE]

\* Mutant: the composition is let go, the engine keeps its word.
TerminatedPointerOnly(s) == [s EXCEPT !.composing = FALSE]

\* The application ends the composition: OnCompositionTerminated.
Terminated(s) == [s EXCEPT !.eng = EngineFresh, !.composing = FALSE, !.digitLed = FALSE]
Ended(s) == IF host.comp = <<>> THEN s ELSE Terminated(s)

TerminateComposition ==
  /\ svc.up /\ host.comp # <<>> /\ UserEvent
  /\ svc' = Terminated(svc) /\ host' = [host EXCEPT !.comp = <<>>]
  /\ Other /\ UNCHANGED <<app, exe, key>>

\* The mouse puts the caret somewhere else.
Click ==
  /\ key = "" /\ host.fg /\ UserEvent
  /\ \E c \in {0, Len(host.doc)} \ {host.caret} :
       host' = [host EXCEPT !.caret = c, !.sel = FALSE, !.comp = <<>>]
  /\ svc' = Ended(svc) /\ Other /\ UNCHANGED <<app, exe, key>>

\* The caret moves to another field, which is empty, of this context or of
\* another one.
SwitchField ==
  /\ key = "" /\ host.fg /\ UserEvent
  /\ \E c \in Contexts, f \in {"text", "password"} :
       /\ <<c, f>> # <<host.ctx, host.field>>
       /\ host' = [host EXCEPT !.ctx = c, !.field = f, !.doc = <<>>, !.caret = 0,
                               !.sel = FALSE, !.comp = <<>>]
  /\ svc' = Ended(svc) /\ Other /\ UNCHANGED <<app, exe, key>>

\* The application completes what was typed, the completion selected.
Suggest ==
  /\ key = "" /\ host.fg /\ host.field = "text" /\ ~host.sel
  /\ host.caret = Len(host.doc) /\ UserEvent
  /\ host' = [host EXCEPT !.sel = TRUE]
  /\ Other /\ UNCHANGED <<app, svc, exe, key>>

\* A second and a half pass.
Wait ==
  /\ svc.undo # "Idle" /\ ~svc.commit.old
  /\ svc' = [svc EXCEPT !.commit.old = TRUE]
  /\ Other /\ UNCHANGED <<app, host, exe, key, past>>

\* The application goes to the background and comes back.
OnSetFocus ==
  /\ key = "" /\ Event
  /\ host' = [host EXCEPT !.fg = ~@]
  /\ IF ~svc.up THEN UNCHANGED <<svc, exe>>
     ELSE LET s == IF host.fg THEN svc ELSE RefreshFlags(CheckConfigEvent(X)).svc
          IN /\ svc' = ResetCommitUndo([X EXCEPT !.svc = s]).svc
             /\ exe' = IF s.connected THEN [exe EXCEPT !.tip = ~host.fg] ELSE exe
  /\ past' = [past EXCEPT !.events = @ + 1, !.moved = TRUE,
                          !.stale = @ \/ svc.eng.states # svc'.eng.states]
  /\ Other /\ UNCHANGED <<app, key>>

Activate ==
  /\ ~svc.up
  /\ svc' = Constructed
  /\ Other /\ UNCHANGED <<app, host, exe, key, past>>

\* The layout is switched away; the framework ends the composition.
Deactivate ==
  /\ svc.up /\ key = "" /\ UserEvent
  /\ svc' = NewService
  /\ host' = [host EXCEPT !.comp = <<>>]
  /\ exe' = IF svc.connected THEN [exe EXCEPT !.tip = FALSE] ELSE exe
  /\ Other /\ UNCHANGED <<app, key>>

\* The button in the language bar.
ToggleVietnameseMode ==
  /\ svc.up /\ svc.connected /\ key = "" /\ UserEvent
  /\ exe' = [exe EXCEPT !.viet = ~@]
  /\ svc' = [svc EXCEPT !.viet = ~exe.viet, !.digitLed = FALSE]
  /\ Other /\ UNCHANGED <<app, host, key>>

\* The main program: a flag, a configuration (the seqlock odd in between), its
\* end, and a start over the mapping the services still hold.
ExeFlag ==
  /\ Event /\ past' = [past EXCEPT !.events = @ + 1] /\ exe.up
  /\ \/ exe' = [exe EXCEPT !.viet = ~@]
     \/ exe' = [exe EXCEPT !.active = ~@]
  /\ Other /\ UNCHANGED <<app, svc, host, key>>

ExeWriteBegin ==
  /\ Event /\ past' = [past EXCEPT !.events = @ + 1] /\ exe.up /\ Stable /\ exe.enabled
  /\ exe' = [exe EXCEPT !.epoch = @ + 1]
  /\ Other /\ UNCHANGED <<app, svc, host, key>>

ExeWriteEnd ==
  /\ ~Stable
  /\ exe' \in {[exe EXCEPT !.epoch = @ + 1, !.config = c] : c \in Configs}
  /\ Other /\ UNCHANGED <<app, svc, host, key, past>>

ExeExit ==
  /\ Event /\ past' = [past EXCEPT !.events = @ + 1] /\ exe.up /\ exe.enabled /\ Stable
  /\ exe' = [exe EXCEPT !.enabled = FALSE, !.epoch = @ + 2]
  /\ Other /\ UNCHANGED <<app, svc, host, key>>

\* The epoch starts again with the program.
ExeStart ==
  /\ ~exe.up \/ ~exe.enabled
  /\ past' = [past EXCEPT !.restarted = exe.up]
  /\ exe' \in {[up |-> TRUE, abi |-> exe.abi, epoch |-> 2, enabled |-> TRUE, active |-> TRUE,
                viet |-> TRUE, tip |-> FALSE, config |-> c] : c \in Configs}
  /\ Other /\ UNCHANGED <<app, svc, host, key>>

Init ==
  /\ app \in Apps
  /\ svc = NewService
  /\ \E c \in Contexts :
       host = [doc |-> Document, caret |-> Len(Document), comp |-> <<>>, sel |-> FALSE,
               ctx |-> c, field |-> "text", fg |-> TRUE]
  /\ \E u \in BOOLEAN, a \in BOOLEAN, c \in Configs :
       exe = [up |-> u, abi |-> a, epoch |-> IF u THEN 2 ELSE 0, enabled |-> u, active |-> u,
              viet |-> u, tip |-> FALSE, config |-> c]
  /\ key = "" /\ step = NoKey
  /\ past = [keys |-> 0, events |-> 0, faults |-> 0, moved |-> FALSE, stale |-> FALSE,
             restarted |-> FALSE, asked |-> "text"]

Next ==
  \/ \E k \in Keys : TestKey(k) \/ KeyDown(k)
  \/ TerminateComposition \/ Click \/ SwitchField \/ Suggest \/ Wait
  \/ OnSetFocus \/ Activate \/ Deactivate \/ ToggleVietnameseMode
  \/ ExeFlag \/ ExeWriteBegin \/ ExeWriteEnd \/ ExeExit \/ ExeStart

Spec == Init /\ [][Next]_vars

(***************************************************************************)
(* Properties.                                                              *)
(***************************************************************************)
Text(h) == SubSeq(h.doc, h.comp[1] + 1, h.comp[2])

\* The engine holds a word exactly while a composition of ours is live, and
\* the composition shows that word; a word whose edit session was refused or
\* whose configuration was replaced under it is excepted.
InStep ==
  ~past.stale =>
    /\ svc.composing <=> svc.eng.states # <<>>
    /\ svc.composing <=> host.comp # <<>>
    /\ svc.composing => Text(host) = ComposeAll(svc.eng.states)

\* A letter the service eats is in its word: where no composition can be
\* started the key goes back to the application.  A word taken up again whose
\* session is refused is excepted.
LetterArrives ==
  (/\ step.what = "down" /\ step.key \in Letters /\ step.eaten
   /\ step.over = <<>>)
  => svc.eng.hist # <<>> /\ Last(svc.eng.hist) = step.key

\* While Esc would give back the keys of the last commit, the committed word is
\* what stands before the caret, unless the mouse or the application has
\* moved the caret.
PrimedBehindBody ==
  (svc.undo = "Primed" /\ ~past.moved) =>
    /\ host.comp = <<>>
    /\ IsSuffix(Front(svc.commit.text), SubSeq(host.doc, 1, host.caret))

\* A password field is never composed in, by a service whose sessions are
\* granted in an application that calls OnTestKeyDown, wherever the caret comes
\* from: but for one in a context that was asked while the caret was in an
\* ordinary field, as the answer is kept for the context.
PasswordsUntouched ==
  (/\ host.field = "password" /\ app # "chromium" /\ past.faults = 0
   /\ host.ctx = svc.ctx => past.asked = "password")
  => svc.eng.states = <<>> /\ ~svc.composing

\* A key is always read under what the service makes of the configuration last
\* published, unless the program was started again (the epoch starts again
\* with it).
ConfigFollows ==
  (/\ step.what \in {"test", "down"} /\ svc.connected /\ svc.abi /\ exe.abi /\ Stable
   /\ ~past.restarted)
  => svc.config = Decoded(exe.config)

\* A key that is not Backspace or Esc never takes text away: a word is
\* committed as the next key arrives, it is not dropped.  A word whose session
\* was refused, or that a new configuration came over, is.
WordsStay ==
  [][(/\ step'.what \in {"test", "down"} /\ step'.key \notin {"BS", "ESC"}
      /\ ~past.stale /\ svc'.epoch = svc.epoch)
     => Len(host'.doc) >= Len(host.doc)]_vars

\* No key loses text: an eaten letter is in its word, and a word is not
\* dropped by the keys that follow it.
NoKeyLost == []LetterArrives /\ WordsStay

\* What the header of the check says: password fields block Vietnamese.  Not so
\* where the context was asked in another field (see the README).
PasswordsBlocked ==
  (host.field = "password" /\ app # "chromium" /\ past.faults = 0) => ~svc.composing

\* What IsEngineDigitKey says: a digit behind a letter goes to the engine, in
\* the methods that use digits.  Not so in two of them (see the README).
DigitsReachEngine ==
  (/\ step.what = "down" /\ step.key \in Digits /\ step.eaten
   /\ past.events + past.faults = 0
   /\ exe.config.method \in {"VNI", "Combined", "UserDefined"})
  => svc.eng.hist # <<>> /\ Last(svc.eng.hist) = step.key
=============================================================================

---------------------------- MODULE KeyPipeline ----------------------------
(***************************************************************************)
(* The hook thread's way with a key: the word being composed, the words    *)
(* committed before it, and the edits that keep the application's text     *)
(* the same as what the engine shows.                                      *)
(*                                                                         *)
(* A committed word goes on a stack.  Right after its trigger the window   *)
(* of commit-undo is Ready; a backspace that deletes the trigger makes it  *)
(* Primed; the next tone or backspace replays the word's keystrokes into   *)
(* the engine and goes on editing it, and so on back through the stack.    *)
(*                                                                         *)
(* Keys pass to the application or are eaten, and edits are sent into the  *)
(* input queue.  A key that passes arrives before the edits still in       *)
(* flight.  The counter of synthetic events is the length of the queue.    *)
(* The module is about Telex with the Unicode code table in an ordinary    *)
(* window, without macros and auto-capitalisation.                         *)
(***************************************************************************)
EXTENDS Integers, FiniteSetsExt, SequencesExt

CONSTANTS
  Letters,       \* letters that begin a new word when the window is Primed
  Tones,         \* those of IsCommitUndoExemptKey, which modify the last word
  Chars,         \* what a text is made of
  Show(_),       \* the text the engine shows after some keystrokes
  Committed(_),  \* the text that Commit returns: Show, or auto-restored
  Raw(_),        \* PeekRaw
  Quick(_),      \* the word ends in an active quick consonant
  MaxStack,      \* kMaxStack
  MaxKeys,       \* bound on the keys
  MaxSpecial,    \* bound on those of them that do not type text
  GoOn           \* whether keys are typed after the hook has lost track

Triggers == {" ", "enter", "left"}
MaxTriggers == 255
Strokes == Letters \cup Tones \cup {"back"}
Keys == Strokes \cup Triggers \cup {"other"}

ASSUME KeysOK ==
  /\ Letters \cap Tones = {}
  /\ (Letters \cup Tones) \cap (Triggers \cup {"back", "other"}) = {}
  /\ Letters \cup Tones \cup {" ", "enter"} \subseteq Chars
  /\ Chars \cap {"back", "left", "other"} = {}
ASSUME ShowsNothing == Show(<<>>) = <<>>
ASSUME BoundsOK ==
  /\ MaxStack \in Nat \ {0} /\ MaxKeys \in Nat /\ MaxSpecial \in Nat
  /\ GoOn \in BOOLEAN

VARIABLES
  engine,  \* the keystrokes the engine has taken since it was reset
  prev,    \* previousComposition_
  commit,  \* commitState_; old: Ready for longer than kReadyTimeoutMs
  off,     \* tempEngineOff_
  queue,   \* edits in flight
  text,    \* the application's text, up to the caret
  left,    \* bounds: [keys, special]
  lost     \* helper: the stack can no longer be what is on the screen

vars == <<engine, prev, commit, off, queue, text, left, lost>>

Word == Show(engine)
Composing == Word /= <<>>
InFlight == queue /= <<>>

-----------------------------------------------------------------------------
(* CommitState.                                                            *)

SetIdle(c) == [c EXCEPT !.state = "Idle", !.old = FALSE]

Cancel(c) == [SetIdle(c) EXCEPT !.extra = 0, !.leading = 0, !.stack = <<>>]

\* Faulty variant: the triggers before the word are forgotten.
SetReadyAfresh(c) ==
  [c EXCEPT !.state = "Ready", !.old = FALSE, !.extra = 0, !.leading = 0]

\* The triggers typed before the word have to be deleted before the next one.
SetCommitUndoReady(c) ==
  [c EXCEPT !.state = "Ready", !.old = FALSE,
            !.extra = c.leading, !.leading = 0]

PushEntry(c, entry) ==
  [c EXCEPT !.stack =
     Append(IF Len(@) >= MaxStack THEN Tail(@) ELSE @, entry)]

DropTop(c) == [SetIdle(c) EXCEPT !.stack = Front(@)]

\* A key that begins a word: the triggers counted travel with it.
StartWord(c) == [SetIdle(c) EXCEPT !.leading = c.extra, !.extra = 0]

\* The word on top becomes the current one again.
Replayed(c) ==
  [DropTop(c) EXCEPT !.history = Last(c.stack).keys,
                     !.leading = Last(c.stack).triggers]

-----------------------------------------------------------------------------
(* Edits of the application's text.  "other" stands for keys that leave    *)
(* the text alone.                                                         *)

Apply(t, edit) ==
  CASE edit \in {"back", "left"} -> IF t = <<>> THEN t ELSE Front(t)
    [] edit = "other" -> t
    [] OTHER -> Append(t, edit)

\* A text after some edits, and the text when all in flight have arrived.
Arrived(t, edits) ==
  LET arrived[n \in 0 .. Len(edits)] ==
        IF n = 0 THEN t ELSE Apply(arrived[n - 1], edits[n])
  IN arrived[Len(edits)]

Final == Arrived(text, queue)

Backs(n) == [i \in 1 .. n |-> "back"]

\* The edits that turn the text old into new: after the common prefix.
Diff(old, new) ==
  LET n == Max({k \in 0 .. Len(old) : IsPrefix(SubSeq(old, 1, k), new)})
  IN Backs(Len(old) - n) \o SubSeq(new, n + 1, Len(new))

Send(edits) == queue' = queue \o edits /\ UNCHANGED text
Pass(key)   == text' = Apply(text, key) /\ UNCHANGED queue

\* Eaten and sent behind what is in flight, or passed if nothing is.
SendOrPass(key, edits) ==
  IF InFlight \/ edits /= <<>> THEN Send(edits \o <<key>>) ELSE Pass(key)

-----------------------------------------------------------------------------
(* What every key goes through first: the bounds, and the ways in which    *)
(* commit-undo is cancelled whatever the key does then.                    *)

Pressed(special) ==
  /\ left.keys > 0 /\ (GoOn \/ ~lost)
  /\ special => left.special > 0
  /\ left' = [keys    |-> left.keys - 1,
              special |-> left.special - (IF special THEN 1 ELSE 0)]

\* The window is closed and words that were committed stay on the stack,
\* though no trigger, or not one, or the caret itself, separates the last of
\* them from what is typed next.
Strayed ==
  commit.state = "Idle" /\ ~Composing /\ commit.stack /= <<>>

\* One space more than the count of a Ready window can hold.
Saturated(key) ==
  key = " " /\ commit.state = "Ready" /\ commit.extra = MaxTriggers

\* The hook also loses track when an edit overtakes those in flight.
Track(strays) ==
  lost' = (lost \/ strays \/ Strayed' \/ (InFlight /\ text' /= text))

Opened(key) ==
  IF \/ key = "shortcut" /\ commit.state /= "Idle"
     \/ key = "enter" /\ (commit.state /= "Idle" \/ commit.stack /= <<>>)
     \/ commit.state = "Ready" /\ commit.old
  THEN Cancel(commit) ELSE commit

\* The guard of a Primed window against edits sent within the settle budget
\* of the application.  Tones are exempt.
Unsettled(c, key, recent) ==
  c.state = "Primed" /\ InFlight /\ recent /\ key \notin Tones

\* The window as a key finds it that is neither typed text nor backspace.
Passed(c, key, recent) ==
  CASE Unsettled(c, key, recent)              -> Cancel(c)
    [] c.state = "Ready" /\ key = "left"      -> Cancel(c)
    [] c.state = "Ready" /\ key = " "         ->
         [c EXCEPT !.extra = IF @ < MaxTriggers THEN @ + 1 ELSE @]
    [] c.state = "Ready" /\ key = "other"     -> StartWord(c)
    [] c.state = "Primed" /\ ~Unsettled(c, key, recent) -> SetIdle(c)
    [] OTHER -> c

-----------------------------------------------------------------------------
(* CommitComposition: auto-restore, the entry, ClearWordState.             *)

Restored == prev /= <<>> /\ Committed(engine) /= prev
RestoreEdits == IF Restored THEN Diff(prev, Committed(engine)) ELSE <<>>
Pushes(c) == ~Quick(engine) /\ c.history /= <<>>

Entry(c) ==
  [keys |-> c.history, raw |-> Raw(engine), triggers |-> c.leading,
   text |-> IF Restored THEN Committed(engine) ELSE prev]

CommitComposition(c) ==
  LET pushed == IF Pushes(c)
                THEN [PushEntry(c, Entry(c)) EXCEPT !.leading = 0] ELSE c
  IN [pushed EXCEPT !.history = <<>>]

ClearWord == engine' = <<>> /\ prev' = <<>>

-----------------------------------------------------------------------------
(* HandleAlphaKey and HandleBackspace, on the word given.                  *)

\* Faulty variants: the letter sent first is not replaced; a key is passed
\* although edits are in flight.
ComposeUnblocked(key, keys, shown, c) ==
  LET old == IF Show(keys) = <<>> THEN <<>> ELSE shown
      new == Show(Append(keys, key))
  IN /\ engine' = Append(keys, key) /\ prev' = new
     /\ commit' = [c EXCEPT !.history = Append(@, key)]
     /\ IF new /= Append(old, key)
        THEN Send(<<key>> \o Diff(old, new))
        ELSE IF InFlight THEN Send(Diff(old, new)) ELSE Pass(key)

ComposeHastily(key, keys, shown, c) ==
  LET old == IF Show(keys) = <<>> THEN <<>> ELSE shown
      new == Show(Append(keys, key))
  IN /\ engine' = Append(keys, key) /\ prev' = new
     /\ commit' = [c EXCEPT !.history = Append(@, key)]
     /\ IF new = Append(old, key) THEN Pass(key)
        ELSE Send(<<key>> \o Diff(Append(old, key), new))

\* A letter that is only appended passes if nothing is in flight.  One that
\* transforms the word is eaten; it is sent first, for games, then replaced.
Compose(key, keys, shown, c) ==
  LET old == IF Show(keys) = <<>> THEN <<>> ELSE shown
      new == Show(Append(keys, key))
  IN /\ engine' = Append(keys, key) /\ prev' = new
     /\ commit' = [c EXCEPT !.history = Append(@, key)]
     /\ IF new /= Append(old, key)
        THEN Send(<<key>> \o Diff(Append(old, key), new))
        ELSE IF InFlight THEN Send(Diff(old, new)) ELSE Pass(key)

\* A word deleted to nothing opens the window for the one before it.  The
\* engine is empty then, and is not reset.
HandleBackspace(keys, shown, c) ==
  LET new == Show(Append(keys, "back"))
      marked == [c EXCEPT !.history = Append(@, "back")]
  IN /\ prev' = new
     /\ Send(Diff(shown, new))
     /\ engine' = Append(keys, "back")
     /\ commit' = IF new = <<>> /\ c.stack /= <<>>
                  THEN SetCommitUndoReady(marked) ELSE marked

-----------------------------------------------------------------------------
(* The keys.                                                               *)

NoWord == [state |-> "Idle", stack |-> <<>>, extra |-> 0, leading |-> 0,
           history |-> <<>>, old |-> FALSE]

Init ==
  /\ engine = <<>> /\ prev = <<>> /\ commit = NoWord
  /\ off = FALSE /\ queue = <<>> /\ text = <<>>
  /\ left = [keys |-> MaxKeys, special |-> MaxSpecial]
  /\ lost = FALSE

\* With the engine switched off for the word, text passes.
TypeOff(key) ==
  /\ off /\ Pressed(FALSE) /\ key \in Letters \cup Tones
  /\ commit' = Opened(key)
  /\ Pass(key)
  /\ UNCHANGED <<engine, prev, off>> /\ Track(FALSE)

\* A letter into the current word, or into a new one.
TypeLetter(key) ==
  /\ ~off /\ Pressed(FALSE) /\ key \in Letters \cup Tones
  /\ LET c == Opened(key) IN
       \/ /\ c.state /= "Primed"
          /\ Compose(key, engine, prev,
                     IF c.state = "Ready" THEN StartWord(c) ELSE c)
          /\ Track(FALSE)
       \/ /\ Unsettled(c, key, TRUE)
          /\ Compose(key, engine, prev, Cancel(c))
          /\ Track(FALSE)
       \/ /\ c.state = "Primed" /\ key \in Letters
          /\ Compose(key, engine, prev, DropTop(c))
          /\ Track(Len(c.stack) > 1)
  /\ UNCHANGED off

\* A tone after the trigger has been deleted: the word is taken back first.
ReplayWithTone(key) ==
  /\ ~off /\ Pressed(FALSE) /\ key \in Tones
  /\ commit.state = "Primed"
  /\ Compose(key, engine \o Last(commit.stack).keys, Last(commit.stack).text,
             Replayed(commit))
  /\ UNCHANGED off /\ Track(FALSE)

BackspaceInWindow ==
  LET c == Opened("back") IN
  \/ /\ c.state = "Ready" /\ c.extra > 0
     /\ commit' = [c EXCEPT !.extra = @ - 1]
     /\ Pass("back") /\ UNCHANGED <<engine, prev>>
  \/ /\ c.state = "Ready" /\ c.extra = 0
     /\ commit' = [c EXCEPT !.state = "Primed"]
     /\ SendOrPass("back", <<>>) /\ UNCHANGED <<engine, prev>>
  \/ /\ Unsettled(c, "back", TRUE)
     /\ commit' = Cancel(c)
     /\ Send(<<"back">>) /\ UNCHANGED <<engine, prev>>
  \/ /\ c.state = "Primed"
     /\ HandleBackspace(engine \o Last(c.stack).keys, Last(c.stack).text,
                        Replayed(c))

BackspaceOutside ==
  LET c == Opened("back") IN
  /\ c.state = "Idle"
  /\ IF Composing THEN HandleBackspace(engine, prev, c)
     ELSE /\ commit' = c
          /\ IF off THEN Pass("back") ELSE SendOrPass("back", <<>>)
          /\ UNCHANGED <<engine, prev>>

Backspace ==
  /\ Pressed(FALSE)
  /\ BackspaceInWindow \/ BackspaceOutside
  /\ off' = FALSE /\ Track(FALSE)

\* Space, Enter and an arrow: the arrow commits and does not open the window.
CommitTrigger(key) ==
  /\ Pressed(key /= " ") /\ key \in Triggers
  /\ \E recent \in BOOLEAN :
       LET c == Passed(Opened(key), key, recent) IN
       IF Composing
       THEN /\ commit' = IF Pushes(c) /\ key /= "left"
                         THEN SetCommitUndoReady(CommitComposition(c))
                         ELSE CommitComposition(c)
            /\ SendOrPass(key, RestoreEdits) /\ ClearWord
       ELSE commit' = c /\ Pass(key) /\ UNCHANGED <<engine, prev>>
  /\ off' = FALSE /\ Track(Saturated(key))

\* A function key: it commits, as the others do, and opens nothing.
OtherKey ==
  /\ Pressed(TRUE)
  /\ \E recent \in BOOLEAN :
       LET c == Passed(Opened("other"), "other", recent) IN
       IF Composing
       THEN /\ commit' = CommitComposition(c)
            /\ SendOrPass("other", RestoreEdits) /\ ClearWord
       ELSE commit' = c /\ Pass("other") /\ UNCHANGED <<engine, prev>>
  /\ UNCHANGED off /\ Track(FALSE)

\* Esc, bound to CancelComposition.  The word is replaced by its keystrokes;
\* neither prev nor the history is cleared.
EscOnWord ==
  /\ Pressed(TRUE) /\ Composing /\ Raw(engine) /= <<>>
  /\ Send(Backs(Len(Word)) \o Raw(engine))
  /\ engine' = <<>>
  /\ UNCHANGED <<prev, commit, off>> /\ Track(TRUE)

\* ... or the word just committed, if its trigger has been deleted.
EscOnCommitted ==
  /\ Pressed(TRUE) /\ commit.state = "Primed" /\ ~commit.old
  /\ LET top == Last(commit.stack) IN
       /\ top.raw /= <<>>
       /\ Send(Backs(Len(top.text)) \o top.raw)
  /\ commit' = Cancel(commit)
  /\ UNCHANGED <<engine, prev, off>> /\ Track(FALSE)

\* ... or there is nothing to restore, and Esc passes.
EscPasses ==
  /\ Pressed(TRUE) /\ ~Composing
  /\ commit.state = "Primed" => commit.old \/ Last(commit.stack).raw = <<>>
  /\ commit' =
       IF \/ commit.state = "Ready"
          \/ commit.state = "Primed" /\ Last(commit.stack).raw /= <<>>
       THEN Cancel(commit) ELSE commit
  /\ Pass("other") /\ off' = FALSE
  /\ UNCHANGED <<engine, prev>> /\ Track(FALSE)

\* ResetComposition: a shortcut may change the text before the caret, and a
\* click puts the caret elsewhere.  The number of synthetic events is taken for
\* zero: what edits still in flight do after that is left out.
ResetComposition(key) ==
  /\ Pressed(TRUE) /\ key \in {"shortcut", "click"}
  /\ GoOn => ~InFlight
  /\ IF off /\ key = "shortcut"
     THEN commit' = Opened(key) /\ UNCHANGED <<engine, prev>>
     ELSE commit' = [Cancel(commit) EXCEPT !.history = <<>>] /\ ClearWord
  /\ text' \in IF key = "click" THEN {<<>>} ELSE {text, <<>>}
  /\ UNCHANGED <<queue, off>> /\ Track(InFlight)

\* The hotkey that switches the engine off, and on again.
ToggleEnabled ==
  /\ Pressed(TRUE)
  /\ commit' = Cancel(IF Composing THEN CommitComposition(commit) ELSE commit)
  /\ IF Composing THEN Send(RestoreEdits) /\ ClearWord
     ELSE UNCHANGED <<engine, prev, queue, text>>
  /\ off' = ~off /\ Track(FALSE)

\* The user pauses for longer than kReadyTimeoutMs.
Wait ==
  /\ left.special > 0 /\ ~InFlight
  /\ commit.state /= "Idle" /\ ~commit.old
  /\ left' = [left EXCEPT !.special = @ - 1]
  /\ commit' = [commit EXCEPT !.old = TRUE]
  /\ UNCHANGED <<engine, prev, off, queue, text, lost>>

\* The hook sees the synthetic events and lets them pass.  One step: the
\* code compares their number with zero only, so that a key between two of
\* them is treated as one before the first.
Deliver ==
  /\ InFlight
  /\ text' = Final /\ queue' = <<>>
  /\ UNCHANGED <<engine, prev, commit, off, left, lost>>

Next ==
  \/ \E key \in Letters \cup Tones :
       TypeOff(key) \/ TypeLetter(key) \/ ReplayWithTone(key)
  \/ Backspace
  \/ \E key \in Triggers : CommitTrigger(key)
  \/ OtherKey \/ EscOnWord \/ EscOnCommitted \/ EscPasses
  \/ \E key \in {"shortcut", "click"} : ResetComposition(key)
  \/ ToggleEnabled \/ Wait \/ Deliver

Spec == Init /\ [][Next]_vars

-----------------------------------------------------------------------------
Entries ==
  [keys : Seq(Strokes), text : Seq(Chars), raw : Seq(Chars),
   triggers : 0 .. MaxTriggers]

Commits ==
  [state : {"Idle", "Ready", "Primed"}, stack : Seq(Entries),
   extra : 0 .. MaxTriggers, leading : 0 .. MaxTriggers,
   history : Seq(Strokes), old : BOOLEAN]

WordTypeOK ==
  /\ engine \in Seq(Strokes) /\ prev \in Seq(Chars)
  /\ commit \in Commits /\ Len(commit.stack) <= MaxStack
  /\ off \in BOOLEAN

\* What the user sees before the caret, in the end, is the word the engine
\* is composing, however fast it was typed, taken back and edited: nothing
\* else lets the next edit delete the right number of characters
\* (ReplaceComposition, ReplayCommittedChars).
WordOnScreen ==
  ~lost /\ Composing => prev = Word /\ IsSuffix(Word, Final)

\* The triggers that separate a word on the stack from the next one, or from
\* the caret.
TriggersAfter(i) ==
  IF i < Len(commit.stack) THEN 1 + commit.stack[i + 1].triggers
  ELSE CASE commit.state = "Idle"   -> 1 + commit.leading
         [] commit.state = "Ready"  -> 1 + commit.extra
         [] commit.state = "Primed" -> 0

\* How far behind the end of a word on the stack the caret is.
Behind ==
  LET behind[i \in 1 .. Len(commit.stack)] ==
        TriggersAfter(i) +
          IF i = Len(commit.stack) THEN Len(prev)
          ELSE Len(commit.stack[i + 1].text) + behind[i + 1]
  IN behind

StackOnScreen ==
  \A i \in 1 .. Len(commit.stack) :
    LET last == Len(Final) - Behind[i] IN
    /\ last >= Len(commit.stack[i].text)
    /\ SubSeq(Final, last - Len(commit.stack[i].text) + 1, last)
         = commit.stack[i].text
    /\ \A j \in last + 1 .. last + TriggersAfter(i) :
         Final[j] \in {" ", "enter"}

\* The words on the stack are on the screen, each followed by as many
\* triggers as commit-undo will delete before it takes the word back: a word
\* replayed at another place garbles the text (HandleCommitUndoFsm).
UndoOnScreen == ~lost => StackOnScreen

\* A primed window is right behind the word that it would replay: "Navigation
\* keys ... move the cursor - replay would insert text at the wrong position,
\* so exclude them" (DispatchKeyAction).
PrimedBehindWord ==
  commit.state = "Primed" /\ ~InFlight
    => IsSuffix(Last(commit.stack).text, text)

\* Replaying an entry yields the word that it was made of: "Replay exact user
\* keystrokes ... to reproduce engine state" (ReplayCommittedChars).
EntriesReplay ==
  ~lost => \A i \in 1 .. Len(commit.stack) :
             LET entry == commit.stack[i] IN
             entry.text \in {Show(entry.keys), Committed(entry.keys)}

\* What Backspace would take back is on the screen, and replaying it yields it.
UndoSound == UndoOnScreen /\ EntriesReplay

\* A window is only open on a word that can be replayed, and while no other
\* is composed (CommitState, HandleCommitUndoFsm).
WindowHasWord ==
  commit.state /= "Idle" => commit.stack /= <<>> /\ ~Composing

\* While the engine is switched off nothing can be replayed or composed,
\* "Backspace after toggle" included (ProcessKeyUp, HandlePreDispatch).
OffStateEmpty ==
  off => ~Composing /\ commit.state = "Idle" /\ commit.stack = <<>>

\* A key that types into, shortens or ends a word never overtakes the edits
\* of that word that are in flight (HandleAlphaKey, DispatchKeyAction).
KeysKeepOrder ==
  [][left'.keys < left.keys /\ left'.special = left.special
       /\ Composing /\ InFlight => text' = text]_vars
=============================================================================

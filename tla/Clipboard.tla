----------------------------- MODULE Clipboard -----------------------------
(***************************************************************************)
(* The one clipboard of the machine and the parts of the program that      *)
(* borrow it: the clipboard injector of the hook thread, which lends it a  *)
(* word, presses Ctrl+V and gives it back 200 ms later, and the thread of  *)
(* a quick conversion, which copies the selection, converts it, pastes it  *)
(* and selects it again.  Around them, other programs copy, the clipboard  *)
(* is held open by somebody else, the configuration is reloaded and the    *)
(* user selects, clicks and presses the hotkey once more.  The application *)
(* handles what is sent to it before the program's sleep after it ends.    *)
(*                                                                         *)
(* A text is a record: whose words it holds and what a conversion made of  *)
(* them.  The document is a set of pieces; a selection or a caret names a  *)
(* piece.  A session between OpenClipboard and CloseClipboard is a step:   *)
(* the clipboard lets nobody else in.  GetClipboardSequenceNumber needs no *)
(* session and is a step of its own wherever the code calls it outside.    *)
(***************************************************************************)
EXTENDS Integers, Sequences, FiniteSets

CONSTANTS Pieces,      \* the pieces of text the user can select
          Configs,     \* the configurations of the convert tool
          Controls,    \* "edit" and "rich" know EM_GETSEL; "other" answers any
                       \* message, this one with no selection
          Holds,       \* what the clipboard holds at first
          MaxCommands,     \* bound on words and conversions
          MaxDisturbances, \* bound on copies by others, failures and reloads
          MaxMoves,        \* bound on the user's selections and on expiries
          MaxEvents        \* bound on all of these together

ClipboardAssumption ==
  /\ IsFiniteSet(Pieces)
  /\ Pieces \cap {"blank", "empty", "picture", "new", "nowhere"} = {}
  /\ {MaxCommands, MaxDisturbances, MaxMoves, MaxEvents} \subseteq Nat
ASSUME ClipboardAssumption

Plain(of) == [of |-> of, case |-> "mixed", marks |-> TRUE, table |-> "source"]
NoText   == Plain("blank")      \* a string of no characters
Empty   == Plain("empty")      \* no data on the clipboard
Picture == Plain("picture")    \* data that is not text

IsText(c) == c \notin {Empty, Picture}
TextOf(c) == IF IsText(c) THEN c ELSE NoText

(* What a conversion makes of a text: the case options overwrite the case, *)
(* the removal of marks and the change of code table are kept.             *)
RemoveDiacritics(t) == [t EXCEPT !.marks = FALSE]
EncodeString(t) == [t EXCEPT !.table = "dest"]
SetCase(t, option) == [t EXCEPT !.case = option]

ApplyConversion(t, option) ==
  IF t = NoText THEN NoText
  ELSE CASE option = "bare"   -> RemoveDiacritics(t)
         [] option = "encode" -> EncodeString(t)
         [] OTHER             -> SetCase(t, option)

CaseOptions == {"upper", "lower", "first", "each"}

(* Without the sequential mode the enabled conversions apply at once: the  *)
(* table, the marks and the first case option.                             *)
ConvertAtOnce(t, options) ==
  LET enabled == {options[i] : i \in DOMAIN options}
      one(o, u) == IF o \in enabled THEN ApplyConversion(u, o) ELSE u
      cases == SelectSeq(options, LAMBDA o : o \in CaseOptions)
      bare == one("bare", one("encode", t))
  IN IF cases = << >> THEN bare ELSE ApplyConversion(bare, Head(cases))

VARIABLES clip, seq,                   \* the clipboard and its number
          ipc, saved, hasSaved, timer, ourSeq,   \* the injector
          qpc, q, cycle, config,       \* the quick conversion
          control, doc, sel, caret, input,       \* the application
          owner, theirs, slips, base, place, lastPaste, n  \* kept to judge by

hook == <<ipc, saved, hasSaved, timer, ourSeq>>
convert == <<qpc, q, cycle, config>>
app == <<control, doc, sel, caret, input>>
judge == <<owner, theirs, slips, base, place, lastPaste, n>>
clipboardVars == <<clip, seq, hook, convert, app, judge>>

New == "new"                           \* where a paste without selection goes
NoPiece == "nowhere"
Spots == Pieces \cup {New}

(* A selection has characters: one of none is a caret.                     *)
Selecting(p) == IF p \in Spots /\ doc[p] # NoText THEN p ELSE NoPiece

Count(kind, bound) == /\ n[kind] < bound
                      /\ n["commands"] + n["disturbances"] + n["moves"] < MaxEvents
                      /\ n' = [n EXCEPT ![kind] = @ + 1]
Mishap == Count("disturbances", MaxDisturbances)
Slip(kinds) == slips' = slips \cup kinds

(* A session that changes what the clipboard holds.                        *)
Put(c, byOthers) == /\ clip' = c /\ seq' = seq + 1 /\ theirs' = byOthers

(***************************************************************************)
(* The injector, on the hook thread.                                       *)
(***************************************************************************)
Word == [Plain("word") EXCEPT !.marks = FALSE]

(* Replace cancels the pending restore before anything else.               *)
StartReplace ==
  /\ ipc = "idle"
  /\ Count("commands", MaxCommands)
  /\ timer' = FALSE
  /\ ipc' = "save"
  /\ Slip(IF qpc # "idle" \/ \E i \in DOMAIN input : input[i] # "word" THEN {"overlap"} ELSE {})
  /\ UNCHANGED <<clip, seq, saved, hasSaved, ourSeq, convert, app,
                 owner, theirs, base, place, lastPaste>>

(* The text is kept only before the first word.                            *)
SaveOnce ==
  /\ ipc = "save"
  /\ ipc' = "write"
  /\ IF ~hasSaved
     THEN /\ hasSaved' = TRUE
          /\ saved' = TextOf(clip)
          /\ Slip(IF clip = Picture THEN {"picture"} ELSE {})
     ELSE UNCHANGED <<saved, hasSaved, slips>>
  /\ UNCHANGED <<clip, seq, timer, ourSeq, convert, app,
                 owner, theirs, base, place, lastPaste, n>>

(* The user's text is kept once for a run of words, and again when the     *)
(* sequence number shows that somebody has copied since our last word.     *)
SaveOriginal ==
  /\ ipc = "save"
  /\ ipc' = "write"
  /\ IF ~hasSaved \/ seq # ourSeq
     THEN /\ hasSaved' = TRUE
          /\ \/ /\ saved' = TextOf(clip)
                /\ Slip(IF clip = Picture THEN {"picture"} ELSE {})
                /\ UNCHANGED n
             \/ /\ saved' = NoText
                /\ Mishap
                /\ Slip({"busy"})
     ELSE UNCHANGED <<saved, hasSaved, slips, n>>
  /\ UNCHANGED <<clip, seq, timer, ourSeq, convert, app,
                 owner, theirs, base, place, lastPaste>>

(* The word goes to the clipboard; when the clipboard does not open, the   *)
(* keys are sent all the same.                                             *)
WriteWord ==
  /\ ipc = "write"
  /\ \/ /\ Put(Word, FALSE)
        /\ ipc' = "stamp"
        /\ UNCHANGED <<slips, n>>
     \/ /\ Mishap
        /\ Slip({"unwritten"})
        /\ ipc' = "send"
        /\ UNCHANGED <<clip, seq, theirs>>
  /\ UNCHANGED <<saved, hasSaved, timer, ourSeq, convert, app,
                 owner, base, place, lastPaste>>

Stamp ==
  /\ ipc = "stamp"
  /\ ourSeq' = seq
  /\ ipc' = "send"
  /\ UNCHANGED <<clip, seq, saved, hasSaved, timer, convert, app, judge>>

SendPaste ==
  /\ ipc = "send"
  /\ input' = Append(input, "word")
  /\ ipc' = "settle"
  /\ UNCHANGED <<clip, seq, saved, hasSaved, timer, ourSeq, convert,
                 control, doc, sel, caret, judge>>

InInput(e) == \E i \in DOMAIN input : input[i] = e

(* The timer is armed without a sleep.                                     *)
SettleAtOnce ==
  /\ ipc = "settle"
  /\ timer' = TRUE /\ ipc' = "idle"
  /\ UNCHANGED <<clip, seq, saved, hasSaved, ourSeq, convert, app, judge>>

(* The sleep of 15 ms, and the timer that gives the clipboard back.        *)
Settle ==
  /\ ipc = "settle"
  /\ ~InInput("word")
  /\ \/ /\ timer' = TRUE /\ ipc' = "idle"
        /\ UNCHANGED <<saved, hasSaved, n>>
     \/ /\ Mishap                     \* SetTimer fails: restore at once
        /\ UNCHANGED timer
        /\ IF hasSaved /\ seq = ourSeq
           THEN /\ ipc' = "restore"
                /\ UNCHANGED <<saved, hasSaved>>
           ELSE /\ ipc' = "idle"
                /\ saved' = NoText /\ hasSaved' = FALSE
  /\ UNCHANGED <<clip, seq, ourSeq, convert, app,
                 owner, theirs, slips, base, place, lastPaste>>

RestoreTimer ==
  /\ timer /\ ipc = "idle"
  /\ timer' = FALSE
  /\ Slip(IF qpc # "idle" THEN {"overlap"} ELSE {})
  /\ IF hasSaved /\ seq = ourSeq
     THEN /\ ipc' = "restore"
          /\ UNCHANGED <<saved, hasSaved>>
     ELSE /\ saved' = NoText /\ hasSaved' = FALSE
          /\ UNCHANGED ipc
  /\ UNCHANGED <<clip, seq, ourSeq, convert, app,
                 owner, theirs, base, place, lastPaste, n>>

(* Inside the session the number is compared again.                        *)
RestoreOriginal ==
  /\ ipc = "restore"
  /\ ipc' = "idle"
  /\ saved' = NoText /\ hasSaved' = FALSE
  /\ \/ /\ seq = ourSeq
        /\ Put(IF saved = NoText THEN Empty ELSE saved, FALSE)
        /\ UNCHANGED <<slips, n>>
     \/ /\ seq # ourSeq
        /\ UNCHANGED <<clip, seq, theirs, slips, n>>
     \/ /\ Mishap
        /\ Slip({"busy"})
        /\ UNCHANGED <<clip, seq, theirs>>
  /\ UNCHANGED <<timer, ourSeq, convert, app, owner, base, place, lastPaste>>

(***************************************************************************)
(* The quick conversion, on a thread of its own.                           *)
(***************************************************************************)
NoAnchor == [valid |-> FALSE, hasControl |-> FALSE, start |-> NoPiece]
NoRun == [anchor |-> NoAnchor, saved |-> NoText, ourSeq |-> 0, text |-> NoText,
          got |-> FALSE, attempt |-> 0, recovery |-> FALSE, options |-> << >>,
          result |-> NoText]
NoCycle == [origin |-> NoText, anchor |-> NoAnchor, index |-> 0,
            last |-> NoText, pasted |-> FALSE, alive |-> FALSE]

(* Any window that answers in 50 ms counts as a control with EM_GETSEL; one *)
(* that does not know the message leaves the selection at nothing.         *)
SelectionAnchor(answered) ==
  LET told == IF control = "other" THEN NoPiece ELSE sel
  IN IF answered
     THEN [valid |-> told # NoPiece, hasControl |-> TRUE, start |-> told]
     ELSE NoAnchor

EndRun == qpc' = "idle" /\ q' = NoRun
ConvertQuiet == UNCHANGED <<hook, cycle, config, app>>

(* Execute: one run at a time; the anchor is read before anything else.    *)
Press ==
  /\ qpc = "idle" /\ ipc = "idle" /\ input = << >>
  /\ Count("commands", MaxCommands)
  /\ qpc' = "save"
  /\ \E answered \in BOOLEAN :
       /\ q' = [NoRun EXCEPT !.anchor = SelectionAnchor(answered)]
       /\ Slip((IF timer THEN {"overlap"} ELSE {}) \cup
               (IF answered /\ SelectionAnchor(answered).start # sel
                THEN {"untold"} ELSE {}))
  /\ base' = IF sel \in {NoPiece, place} THEN base ELSE doc
  /\ place' = IF sel = NoPiece THEN place ELSE sel
  /\ ConvertQuiet /\ UNCHANGED <<clip, seq, owner, theirs, lastPaste>>

SaveClipboard ==
  /\ qpc = "save"
  /\ qpc' = "number"
  /\ \/ /\ q' = [q EXCEPT !.saved = TextOf(clip)]
        /\ Slip(IF clip = Picture THEN {"picture"} ELSE {})
        /\ UNCHANGED n
     \/ /\ q' = [q EXCEPT !.saved = NoText]
        /\ Mishap /\ Slip({"busy"})
  /\ ConvertQuiet /\ UNCHANGED <<clip, seq, owner, theirs, base, place, lastPaste>>

(* A control without a selection is not asked to copy.                     *)
NumberClipboard ==
  /\ qpc = "number"
  /\ q' = [q EXCEPT !.ourSeq = seq]
  /\ qpc' = IF q.anchor.hasControl /\ ~q.anchor.valid THEN "decide" ELSE "empty"
  /\ ConvertQuiet /\ UNCHANGED <<clip, seq, judge>>

(* The clipboard keeps what it holds.                                      *)
CopyOver ==
  /\ qpc = "empty"
  /\ qpc' = "copy"
  /\ ConvertQuiet /\ UNCHANGED <<clip, seq, q, judge>>

EmptyForCopy ==
  /\ qpc = "empty"
  /\ \/ /\ Put(Empty, FALSE) /\ qpc' = "emptied" /\ UNCHANGED <<slips, n>>
     \/ /\ Mishap /\ Slip({"busy"}) /\ qpc' = "copy"
        /\ UNCHANGED <<clip, seq, theirs>>
  /\ ConvertQuiet /\ UNCHANGED <<q, owner, base, place, lastPaste>>

NumberEmpty ==
  /\ qpc = "emptied"
  /\ q' = [q EXCEPT !.ourSeq = seq]
  /\ qpc' = "copy"
  /\ ConvertQuiet /\ UNCHANGED <<clip, seq, judge>>

SimulateCopy ==
  /\ qpc = "copy"
  /\ input' = Append(input, "copy")
  /\ qpc' = "wait"
  /\ UNCHANGED <<clip, seq, hook, q, cycle, config, control, doc, sel, caret,
                 judge>>

NextAttempt == /\ q' = [q EXCEPT !.attempt = @ + 1]
               /\ qpc' = IF q.attempt = 0 THEN "empty" ELSE "decide"

(* Text on the clipboard is read; without any, 150 ms pass and the copy is *)
(* tried once more.                                                        *)
ReadCopy ==
  /\ qpc = "wait" /\ IsText(clip)
  /\ \/ /\ clip # NoText
        /\ q' = [q EXCEPT !.text = clip, !.got = TRUE]
        /\ qpc' = "read"
        /\ UNCHANGED <<slips, n>>
     \/ /\ clip = NoText
        /\ NextAttempt
        /\ UNCHANGED <<slips, n>>
     \/ /\ Mishap /\ Slip({"busy"})
        /\ NextAttempt
  /\ ConvertQuiet /\ UNCHANGED <<clip, seq, owner, theirs, base, place, lastPaste>>

CopyTimesOut ==
  /\ qpc = "wait" /\ ~IsText(clip)
  /\ ~InInput("copy")
  /\ NextAttempt
  /\ ConvertQuiet /\ UNCHANGED <<clip, seq, judge>>

NumberCopy ==
  /\ qpc = "read"
  /\ q' = [q EXCEPT !.ourSeq = seq]
  /\ qpc' = "decide"
  /\ ConvertQuiet /\ UNCHANGED <<clip, seq, judge>>

Cycling == config.sequential /\ config.autoPaste

(* The anchor has a caret position only when it is a selection, so for an  *)
(* anchor without one the caret is not compared.                           *)
IsStillInCycle ==
  cycle.pasted /\ cycle.alive /\ ~(q.anchor.valid /\ cycle.anchor.valid)

(* Nothing was copied: select the last paste again, or convert what the    *)
(* clipboard held, or give up.                                             *)
Decide ==
  /\ qpc = "decide"
  /\ IF q.got THEN /\ qpc' = "cycle"
                   /\ UNCHANGED <<q, input>>
     ELSE IF Cycling /\ IsStillInCycle
     THEN /\ input' = Append(input, "left")
          /\ q' = [q EXCEPT !.recovery = TRUE]
          /\ qpc' = "cycle"
     ELSE IF q.saved # NoText
     THEN /\ q' = [q EXCEPT !.text = q.saved, !.got = TRUE]
          /\ qpc' = "cycle"
          /\ UNCHANGED input
     ELSE /\ qpc' = "bail"
          /\ UNCHANGED <<q, input>>
  /\ UNCHANGED <<clip, seq, hook, cycle, config, control, doc, sel, caret,
                 judge>>

IsNewSelection(text) ==
  \/ ~cycle.alive
  \/ /\ q.anchor.valid /\ cycle.anchor.valid
     /\ q.anchor.start # cycle.anchor.start
  \/ text \notin {cycle.origin, cycle.last}

(* Sequential mode starts a cycle or moves on in it; after the last option *)
(* comes the original text, index -1.  30 ms have passed for a recovery.   *)
EnterCycle ==
  /\ qpc = "cycle"
  /\ ~InInput("left")
  /\ IF config.options = << >>
     THEN qpc' = "bail" /\ UNCHANGED <<q, cycle>>
     ELSE IF Cycling
     THEN /\ qpc' = "result"
          /\ cycle' =
               IF ~q.recovery /\ IsNewSelection(q.text)
               THEN [cycle EXCEPT !.origin = q.text, !.anchor = q.anchor,
                       !.index = 0, !.alive = TRUE, !.last = q.text]
               ELSE [cycle EXCEPT !.alive = TRUE,
                       !.index = IF @ + 1 >= Len(config.options) THEN -1
                                 ELSE @ + 1]
          /\ q' = [q EXCEPT !.options = config.options]
     ELSE /\ q' = [q EXCEPT !.result = ConvertAtOnce(q.text, config.options)]
          /\ qpc' = "compare"
          /\ UNCHANGED cycle
  /\ UNCHANGED <<clip, seq, hook, config, app, judge>>

(* A conversion of what was copied, which may be converted already.        *)
ResultOfCopy ==
  /\ qpc = "result"
  /\ LET made == IF cycle.index < 0 THEN cycle.origin
                 ELSE ApplyConversion(q.text, q.options[cycle.index + 1])
     IN /\ q' = [q EXCEPT !.result = made]
        /\ cycle' = [cycle EXCEPT !.last = made]
  /\ qpc' = "compare"
  /\ UNCHANGED <<clip, seq, hook, config, app, judge>>

(* The result is made from the original, read again from the cycle, which  *)
(* a reload of the configuration may have reset meanwhile.                 *)
Result ==
  /\ qpc = "result"
  /\ LET made == IF cycle.index < 0 THEN cycle.origin
                 ELSE ApplyConversion(cycle.origin, q.options[cycle.index + 1])
     IN /\ q' = [q EXCEPT !.result = made]
        /\ cycle' = [cycle EXCEPT !.last = made]
  /\ qpc' = "compare"
  /\ UNCHANGED <<clip, seq, hook, config, app, judge>>

Compare ==
  /\ qpc = "compare"
  /\ qpc' = IF q.result = q.text THEN "bail"
            ELSE IF config.autoPaste THEN "write" ELSE "keep"
  /\ ConvertQuiet /\ UNCHANGED <<clip, seq, q, judge>>

(* WriteClipboard, whose failure nobody looks at.                          *)
WriteResult ==
  /\ qpc \in {"write", "keep"}
  /\ IF qpc = "write" THEN qpc' = "paste" /\ UNCHANGED q ELSE EndRun
  /\ \/ /\ Put(q.result, FALSE)
        /\ owner' = q.result
        /\ UNCHANGED <<slips, n>>
     \/ /\ Mishap /\ Slip({"busy", "unwritten"})
        /\ UNCHANGED <<clip, seq, owner, theirs>>
  /\ ConvertQuiet /\ UNCHANGED <<base, place, lastPaste>>

SimulatePaste ==
  /\ qpc = "paste"
  /\ input' = Append(input, "paste")
  /\ qpc' = "pasted"
  /\ UNCHANGED <<clip, seq, hook, q, cycle, config, control, doc, sel, caret,
                 judge>>

(* After 100 ms the paste is selected again: in an Edit control from the   *)
(* anchor to the caret once the selection has collapsed, elsewhere with    *)
(* Shift+Left.                                                             *)
Reselect ==
  /\ qpc = "pasted"
  /\ ~InInput("paste")
  /\ LET anchor == IF q.recovery THEN cycle.anchor ELSE q.anchor IN
     IF q.result = NoText THEN UNCHANGED <<sel, input>>
     ELSE IF anchor.valid /\ control = "edit"
     THEN /\ sel' = IF sel = NoPiece THEN Selecting(anchor.start) ELSE sel
          /\ UNCHANGED input
     ELSE /\ input' = Append(input, "left")
          /\ UNCHANGED sel
  /\ cycle' = IF config.sequential THEN [cycle EXCEPT !.pasted = q.result # NoText]
              ELSE cycle
  /\ EndRun
  /\ UNCHANGED <<clip, seq, hook, config, control, doc, caret, judge>>

(* restoreSavedClipboardIfSafe: the number is compared, then the saved     *)
(* text is written in a session of its own.  Without a saved text what was *)
(* copied stays on the clipboard.                                          *)
Bail ==
  /\ qpc = "bail"
  /\ IF q.saved # NoText /\ seq = q.ourSeq
     THEN qpc' = "restore" /\ UNCHANGED q
     ELSE EndRun
  /\ Slip(IF q.saved = NoText /\ seq = q.ourSeq /\ clip \notin {NoText, Empty}
          THEN {"empty"} ELSE {})
  /\ ConvertQuiet
  /\ UNCHANGED <<clip, seq, owner, theirs, base, place, lastPaste, n>>

RestoreSaved ==
  /\ qpc = "restore"
  /\ EndRun
  /\ \/ /\ Put(q.saved, FALSE) /\ UNCHANGED <<slips, n>>
     \/ /\ Mishap /\ Slip({"busy"}) /\ UNCHANGED <<clip, seq, theirs>>
  /\ ConvertQuiet /\ UNCHANGED <<owner, base, place, lastPaste>>

(***************************************************************************)
(* The application, the user and the other programs.                       *)
(***************************************************************************)
Quiescent == qpc = "idle" /\ input = << >>
Elsewhere == UNCHANGED <<hook, qpc, q, config, control>>

(* Ctrl+C with a selection; nothing happens without one.                   *)
HandleCopy ==
  /\ input # << >> /\ Head(input) = "copy"
  /\ input' = Tail(input)
  /\ IF sel = NoPiece THEN UNCHANGED <<clip, seq, theirs>> ELSE Put(doc[sel], FALSE)
  /\ Elsewhere
  /\ UNCHANGED <<cycle, doc, sel, caret, owner, slips, base, place, lastPaste, n>>

(* Ctrl+V of a conversion replaces the selection, or inserts.              *)
HandlePaste ==
  /\ input # << >> /\ Head(input) = "paste"
  /\ input' = Tail(input)
  /\ IF ~IsText(clip) THEN UNCHANGED <<doc, sel, caret, place, lastPaste>>
     ELSE LET spot == IF sel = NoPiece THEN New ELSE sel IN
          /\ doc' = [doc EXCEPT ![spot] = clip]
          /\ sel' = NoPiece /\ caret' = spot /\ lastPaste' = spot
          /\ place' = spot
  /\ Elsewhere
  /\ UNCHANGED <<clip, seq, cycle, owner, theirs, slips, base, n>>

(* Ctrl+V of a word; where it lands is no part of this module.             *)
HandleWord ==
  /\ input # << >> /\ Head(input) = "word"
  /\ input' = Tail(input)
  /\ Elsewhere
  /\ UNCHANGED <<clip, seq, cycle, doc, sel, caret, judge>>

(* Shift+Left as often as the paste is long, in an application that may    *)
(* not select with it.  A selection that is there may grow over the text   *)
(* before it, which only an untold one can be.                             *)
HandleLeft ==
  /\ input # << >> /\ Head(input) = "left"
  /\ input' = Tail(input)
  /\ \/ /\ sel' = IF sel = NoPiece THEN Selecting(caret) ELSE sel
        /\ UNCHANGED n
     \/ Mishap /\ UNCHANGED sel
  /\ Elsewhere
  /\ UNCHANGED <<clip, seq, cycle, doc, caret, owner, theirs, slips, base,
                 place, lastPaste>>

(* The user selects a piece; a press on another piece than the last one    *)
(* begins a new cycle.                                                     *)
SelectPiece(p) ==
  /\ Quiescent /\ sel # p /\ doc[p] # NoText
  /\ Count("moves", MaxMoves)
  /\ sel' = p /\ caret' = p
  /\ Elsewhere
  /\ UNCHANGED <<clip, seq, cycle, doc, input, owner, theirs, slips, base,
                 place, lastPaste>>

(* The selection collapses behind the last paste.                          *)
Collapse ==
  /\ Quiescent /\ sel # NoPiece /\ sel = lastPaste
  /\ Count("moves", MaxMoves)
  /\ sel' = NoPiece
  /\ Elsewhere
  /\ UNCHANGED <<clip, seq, cycle, doc, caret, input, owner, theirs, slips,
                 base, place, lastPaste>>

(* A click puts the caret behind a piece, which the program does not       *)
(* notice while a cycle lives: the way to another text than its last paste. *)
ClickAway(p) ==
  /\ Quiescent /\ caret # p
  /\ Count("moves", MaxMoves)
  /\ sel' = NoPiece /\ caret' = p
  /\ Slip({"caret"})
  /\ Elsewhere
  /\ UNCHANGED <<clip, seq, cycle, doc, input, owner, theirs, base, place, lastPaste>>

(* Five seconds pass, or the user goes to another window and back.         *)
Expire ==
  /\ Quiescent /\ cycle.alive
  /\ Count("moves", MaxMoves)
  /\ cycle' = [cycle EXCEPT !.alive = FALSE]
  /\ base' = doc
  /\ Elsewhere
  /\ UNCHANGED <<clip, seq, doc, sel, caret, input, owner, theirs, slips,
                 place, lastPaste>>

(* A copy by another program; the steps named are those at which the       *)
(* program cannot tell it from its own.                                    *)
InGap == \/ ipc \in {"write", "stamp"}
         \/ qpc \in {"number", "empty", "emptied", "copy", "wait", "read",
                     "restore", "paste", "pasted"}

OtherCopies(c) ==
  /\ Mishap
  /\ Put(c, TRUE)
  /\ owner' = c
  /\ Slip(IF InGap THEN {"gap"} ELSE {})
  /\ UNCHANGED <<hook, convert, app, base, place, lastPaste>>

(* UpdateConfig, from the thread that reloads the configuration.           *)
UpdateConfig(c) ==
  /\ Mishap
  /\ config' = c
  /\ cycle' = NoCycle
  /\ base' = doc
  /\ Slip(IF qpc # "idle" THEN {"reload"} ELSE {})
  /\ UNCHANGED <<clip, seq, hook, qpc, q, app, owner, theirs, place, lastPaste>>

Hook == \/ StartReplace \/ SaveOriginal \/ WriteWord \/ Stamp \/ SendPaste
        \/ Settle \/ RestoreTimer \/ RestoreOriginal
Convert == \/ Press \/ SaveClipboard \/ NumberClipboard \/ EmptyForCopy
           \/ NumberEmpty \/ SimulateCopy \/ ReadCopy \/ CopyTimesOut
           \/ NumberCopy \/ Decide \/ EnterCycle \/ Result \/ Compare
           \/ WriteResult \/ SimulatePaste \/ Reselect \/ Bail \/ RestoreSaved
Around == \/ HandleCopy \/ HandlePaste \/ HandleWord \/ HandleLeft
          \/ \E p \in Pieces : SelectPiece(p) \/ ClickAway(p)
          \/ Collapse \/ Expire
          \/ \E c \in {Plain("copied"), Picture} : OtherCopies(c)
          \/ \E c \in Configs : UpdateConfig(c)

ClipboardInit ==
  /\ clip \in Holds /\ seq = 1
  /\ ipc = "idle" /\ saved = NoText /\ hasSaved = FALSE /\ timer = FALSE
  /\ ourSeq = 0
  /\ qpc = "idle" /\ q = NoRun /\ cycle = NoCycle /\ config \in Configs
  /\ control \in Controls
  /\ doc = [p \in Spots |-> IF p = New THEN NoText ELSE Plain(p)]
  /\ sel \in Pieces \cup {NoPiece} /\ caret = sel /\ input = << >>
  /\ owner = clip /\ theirs = TRUE /\ slips = {} /\ base = doc
  /\ place = NoPiece /\ lastPaste = NoPiece
  /\ n = [k \in {"commands", "disturbances", "moves"} |-> 0]

ClipboardNext == Hook \/ Convert \/ Around
ClipboardSpec == ClipboardInit /\ [][ClipboardNext]_clipboardVars

(***************************************************************************)
(* Properties.                                                             *)
(***************************************************************************)
Slipped(kinds) == slips \cap kinds # {}

(* What the user or another program copied last, or the result of a        *)
(* conversion since, is on the clipboard again once no word is out on it   *)
(* and no conversion runs -- but for the ways the code has of losing it:   *)
(* a picture, which it does not save; a clipboard held open when it wants  *)
(* to save or restore; a copy between two of its steps (InGap); a word     *)
(* still out when a conversion starts, or the reverse; a clipboard that    *)
(* was empty before it copied the selection.                               *)
CopySurvives ==
  (Quiescent /\ ipc = "idle" /\ ~timer) =>
     \/ clip = owner \/ {clip, owner} = {NoText, Empty}
     \/ Slipped({"busy", "picture", "gap", "overlap", "empty"})

(* A restore never takes from the clipboard what another program put there *)
(* after the program's last step that looked.                              *)
RestoreSparesCopies ==
  [][(\/ ipc = "restore" /\ ipc' = "idle"
      \/ qpc = "restore" /\ qpc' = "idle") /\ clip' # clip
     => ~theirs \/ Slipped({"gap"})]_clipboardVars

(* A word sent through the clipboard is what the application pastes,       *)
(* unless another program has copied meanwhile, the clipboard did not      *)
(* open, or a conversion works on it too.                                  *)
WordPasted ==
  [][input # << >> /\ Head(input) = "word" /\ input' = Tail(input)
     => clip = Word \/ theirs \/ Slipped({"unwritten", "overlap"})]_clipboardVars

(* The paste of a conversion replaces the text it converted: the selection *)
(* it copied or, in a recovery, its own last paste.                        *)
OverItsOwn(kinds) ==
  (input # << >> /\ Head(input) = "paste" /\ input' = Tail(input)
      /\ sel # NoPiece /\ IsText(clip))
  => \/ IF q.recovery THEN sel = lastPaste ELSE doc[sel] = q.text
     \/ Slipped(kinds)

(* ... unless the user has clicked elsewhere with nothing selected, or the *)
(* window has a selection and answers EM_GETSEL without knowing it.        *)
ReplacesItsOwn ==
  [][OverItsOwn({"busy", "gap", "overlap", "caret", "untold"})]_clipboardVars

(* ... and not there either: "If user moved cursor, recovery would select   *)
(* wrong text - abort" (QuickConvert.cpp, 708).  It does not hold.          *)
MovedCaretAborts == [][OverItsOwn({"busy", "gap", "overlap", "untold"})]_clipboardVars

(* ... and there: "If the control supports EM_GETSEL and has no active     *)
(* selection, we skip SimulateCopy" (QuickConvert.cpp, 123), and in others *)
(* the selection is copied first.  It does not hold: every window that     *)
(* answers counts as one that supports the message, and what the clipboard *)
(* held is converted and pasted over the selection.                        *)
SelectionCopied ==
  [][OverItsOwn({"busy", "gap", "overlap", "caret"})]_clipboardVars

(* Repeated presses never convert a conversion: every piece is the text    *)
(* its cycle began with or one conversion of it, and the press after the   *)
(* last option brings the text itself back.                                *)
CycleFromOrigin ==
  Cycling =>
     \/ \A p \in Pieces :
          /\ doc[p] \in {base[p]} \cup {ApplyConversion(base[p], config.options[i]) :
                                          i \in DOMAIN config.options}
          /\ (Quiescent /\ cycle.alive /\ cycle.index = -1 /\ lastPaste = p)
                => doc[p] = base[p]
     \/ Slipped({"busy", "gap", "overlap", "reload", "unwritten", "caret", "untold"})

(* The user's copies and the program's words spare each other: a restore   *)
(* takes no copy away, and no copy or restore gets between a word and the  *)
(* Ctrl+V that pastes it.                                                  *)
ClipboardShared == RestoreSparesCopies /\ WordPasted
=============================================================================

--------------------------- MODULE OutputDispatch ---------------------------
(***************************************************************************)
(* How a change of the composed word reaches the application: the channel  *)
(* that is chosen for its window, the keystrokes sent with SendInput or    *)
(* the edit messages sent to the control, and the counter of own events in *)
(* flight that decides whether a physical key may pass.                    *)
(*                                                                         *)
(* An own event is first in sys, until the hook has seen it go by, and     *)
(* then in appq, until the application handles it.  A physical key that    *)
(* the hook passes goes to appq at once, so it overtakes what is in sys;   *)
(* an edit message is handled at once, so it overtakes both.  The caret    *)
(* stays at the end of the text.  The composed word is what the engine     *)
(* shows; here a tone key changes its last letter.                         *)
(***************************************************************************)
EXTENDS Integers, Sequences, FiniteSets, SequencesExt

CONSTANTS Windows,    \* [host, method, compat, keep]: the windows in front
          Letters,    \* the letters that are typed, "a" among them
          MaxKeys, MaxFaults,
          MaxTries,   \* retries of an edit message, 30 in the code
          MaxPauses   \* bound on pauses of 500 ms and on shortcuts

Hosts == {"plain", "browser", "webview", "electron", "console", "notepad",
          "vb6"}
Methods == 0..4       \* the send method the user set for the application

Ends == {"_", "/"}    \* Space and Enter

OutputAssumption ==
  /\ Windows \subseteq [host : Hosts, method : Methods,
                        compat : BOOLEAN, keep : BOOLEAN]
  /\ "a" \in Letters /\ Letters \cap Ends = {}
  /\ {MaxKeys, MaxFaults, MaxTries, MaxPauses} \subseteq Nat
ASSUME OutputAssumption

VARIABLES win,                 \* the window in front
          word,                \* previousComposition_
          pending,             \* synthEventsPending_
          quiet,               \* lastSynthSendTime_ is over 500 ms ago
          hadSynth,            \* hadSynthInWord_
          hook,                \* the edit the hook thread is busy with
          sys, appq,           \* events before and behind the hook
          screen, sugg, late,  \* the application
          committed, era, slips, missed, keys, n   \* kept to judge by

app == <<appq, screen, sugg, late>>
vars == <<win, word, pending, quiet, hadSynth, hook, sys, app,
          committed, era, slips, missed, keys, n>>

(***************************************************************************)
(* The channel.                                                            *)
(***************************************************************************)
(* What kind of window it is; an override of the method adds to it.        *)
ClassifyWindow == win.host
IsWebView2App == win.host = "webview"

SkipEmpty == ClassifyWindow \in {"electron", "console"}
NeedBait  == ClassifyWindow = "browser" \/ IsWebView2App
UseClipboardPaste == ClassifyWindow = "vb6"
ElectronApp == ClassifyWindow = "electron" \/ IsWebView2App

(* Create: the method the user chose, then the kind of the window.         *)
Injector ==
  LET of(kind, bait, renderer) ==
        [kind |-> kind, bait |-> bait, renderer |-> renderer]
  IN IF win.method = 4               THEN of("edit", FALSE, FALSE)
     ELSE IF win.method = 1          THEN of("clip", FALSE, FALSE)
     ELSE IF win.method \in {2, 3}   THEN of("split", NeedBait, ElectronApp)
     ELSE IF win.host = "notepad"    THEN of("edit", FALSE, FALSE)
     ELSE IF ElectronApp             THEN of("split", NeedBait, TRUE)
     ELSE IF win.host = "console"    THEN of("split", FALSE, FALSE)
     ELSE of("batch", NeedBait, FALSE)

(* Edit messages reach the control: forced, or its class understands them; *)
(* the focused window of the one in front is known.                        *)
IsSyncReplaceChannel ==
  Injector.kind = "edit" /\ (win.method = 4 \/ win.compat)

ShouldEmitBait(bs, text) ==
  Injector.bait /\ bs > 0 /\ ~(win.keep /\ text = << >>)

(***************************************************************************)
(* Events.  own is the number of calls of the hook they make: two for a    *)
(* keystroke, one for a key without its release, none for a physical key.  *)
(***************************************************************************)
Event(op, text, own) == [op |-> op, text |-> text, own |-> own, era |-> era]
Times(count, e) == [i \in 1..count |-> e]
Chars(text) == [i \in DOMAIN text |-> Event("text", <<text[i]>>, 2)]
CtrlV(text) == Event("text", text, 4)
Own(events) ==
  LET own[i \in 0..Len(events)] ==
        IF i = 0 THEN 0 ELSE own[i - 1] + events[i].own
  IN own[Len(events)]

(* Events sent together; a batch that is free is sent even when the one    *)
(* before it was not sent to its end.                                      *)
Batch(events, free) == [events |-> events, free |-> free]
Send(batches) == FlattenSeq([i \in DOMAIN batches |-> batches[i].events])
SendUpTo(batches, b, k) ==
  Send([i \in DOMAIN batches |->
          IF i < b \/ \E j \in b+1..i : batches[j].free THEN batches[i]
          ELSE IF i = b THEN Batch(SubSeq(batches[i].events, 1, k), FALSE)
          ELSE Batch(<< >>, FALSE)])

(* What Replace of each injector sends.  In a window with suggestions a    *)
(* backspace may only remove the suggestion, so a character is typed first *)
(* and one more is deleted.                                                *)
Batches(bs, text) ==
  LET bait == ShouldEmitBait(bs, text)
      prefix == IF bait THEN <<Event("bait", << >>, 2)>> ELSE << >>
      bare == Injector.bait /\ ~bait
      deletes == Times(IF bait THEN bs + 1 ELSE bs,
                       Event(IF bare THEN "back" ELSE "del", << >>, 2))
  IN CASE Injector.kind = "clip" ->
            <<Batch(IF text = << >> THEN deletes
                    ELSE Append(deletes, CtrlV(text)), TRUE)>>
       [] Injector.kind = "split" ->
            <<Batch(prefix \o deletes, TRUE), Batch(Chars(text), FALSE)>>
       [] OTHER -> <<Batch(prefix \o deletes \o Chars(text), TRUE)>>

Count(kind, bound) == n[kind] < bound /\ n' = [n EXCEPT ![kind] = @ + 1]
Fault == Count("faults", MaxFaults)

(* The count is not taken back for the events that were not sent.          *)
TrackedSendInputAll(p, s, batches) ==
  /\ pending' = p + Own(Send(batches))
  /\ \/ sys' = sys \o Send(batches) /\ slips' = s /\ UNCHANGED n
     \/ \E b \in DOMAIN batches : \E k \in 0..Len(batches[b].events) - 1 :
          /\ Fault
          /\ sys' = sys \o SendUpTo(batches, b, k)
          /\ slips' = s \cup {"partial"}

(* TrackedSendInput counts before it sends and takes back what was not     *)
(* sent; p and s are the counter and the slips before.                     *)
TrackedSendInput(p, s, batches) ==
  \/ /\ pending' = p + Own(Send(batches))
     /\ sys' = sys \o Send(batches)
     /\ slips' = s /\ UNCHANGED n
  \/ \E b \in DOMAIN batches : \E k \in 0..Len(batches[b].events) - 1 :
       /\ Fault
       /\ pending' = p + Own(SendUpTo(batches, b, k))
       /\ sys' = sys \o SendUpTo(batches, b, k)
       /\ slips' = s \cup {"partial"}

Dispatch(p, s, batches) ==
  TrackedSendInput(p, s, batches) /\ quiet' = FALSE

(***************************************************************************)
(* A key begins with the watchdog, which clears a counter when nothing was *)
(* sent for 500 ms.                                                        *)
(***************************************************************************)
Edit(by, bs, text, next) ==
  [by |-> by, bs |-> bs, text |-> text, tries |-> 0, next |-> next]
Idle == Edit("nobody", 0, << >>, << >>)

Waiting == IF quiet THEN 0 ELSE pending
Watched == IF quiet /\ pending > 0 /\ sys # << >> THEN slips \cup {"reset"}
           ELSE slips
Press == /\ hook = Idle
         /\ keys < MaxKeys /\ keys' = keys + 1
         /\ missed' = IF quiet THEN 0 ELSE missed
         /\ UNCHANGED <<win, screen, sugg, late>>

SentNothing(s) == pending' = Waiting /\ slips' = s /\ UNCHANGED <<sys, quiet, n>>

(* The physical key goes on to the application, or is sent again behind    *)
(* the events in flight.                                                   *)
Posted == IF IsSyncReplaceChannel THEN {"posted"} ELSE {}
Pass(e, s) == /\ appq' = Append(appq, e)
              /\ SentNothing(s \cup Posted)
              /\ UNCHANGED hook
InjectKey(e) == /\ Dispatch(Waiting, Watched \cup Posted, <<Batch(<<e>>, TRUE)>>)
                /\ UNCHANGED <<appq, hook>>

Busy(by, bs, text, next) ==
  /\ hook' = Edit(by, bs, text, next)
  /\ SentNothing(Watched)
  /\ UNCHANGED appq

(* ReplaceUnicode: an edit message in a control that takes them, or the    *)
(* injector, with the physical key first when it was held back (vk).  next *)
(* is sent when all this is done.                                          *)
ReplaceUnicode(bs, text, vk, next) ==
  IF IsSyncReplaceChannel THEN Busy("retry", bs, text, next)
  ELSE IF UseClipboardPaste THEN Busy("vb6", bs - Len(vk), text, next)
  ELSE LET lead == IF vk = << >> THEN << >>
                   ELSE <<Batch(<<Event("text", vk, 1)>>, TRUE)>>
           tail == IF next = << >> THEN << >> ELSE <<Batch(next, TRUE)>>
       IN /\ Dispatch(Waiting, Watched, lead \o Batches(bs, text) \o tail)
          /\ UNCHANGED <<appq, hook>>

(* ReplaceComposition sends the difference.                                *)
ReplaceComposition(old, new, vk, next) ==
  LET common == Len(LongestCommonPrefix({old, new}))
  IN ReplaceUnicode(Len(old) - common, SubSeq(new, common + 1, Len(new)),
                    vk, next)

HadSynth == hadSynth' = (hadSynth \/ (hook' = Idle /\ pending' > 0))

(***************************************************************************)
(* HandleAlphaKey.                                                         *)
(***************************************************************************)
(* The pass gate without a look at the renderer, at the counter, or at the *)
(* channel.                                                                *)
PassesInRenderer == ~IsSyncReplaceChannel /\ Waiting = 0
PassesInFlight == ~(hadSynth /\ Injector.renderer) /\ ~IsSyncReplaceChannel
PassesPosted == ~(hadSynth /\ Injector.renderer) /\ Waiting = 0

(* A letter that only appends may pass.                                    *)
Passes == /\ ~(hadSynth /\ Injector.renderer)
          /\ ~IsSyncReplaceChannel
          /\ Waiting = 0

Letter(l) ==
  /\ Press
  /\ word' = Append(word, l)
  /\ IF Passes
     THEN /\ appq' = Append(appq, Event("text", <<l>>, 0))
          /\ SentNothing(Watched)
          /\ UNCHANGED <<hook, hadSynth>>
     ELSE ReplaceComposition(word, word', << >>, << >>) /\ HadSynth
  /\ UNCHANGED <<committed, era>>

(* The tone key marks the last letter, or takes the mark away and stays.   *)
Toned(w) == Front(w) \o IF Last(w) = "a" THEN <<"aa">> ELSE <<"a", "s">>
Raw(w) == FlattenSeq([i \in DOMAIN w |->
                        IF w[i] = "aa" THEN <<"a", "s">> ELSE <<w[i]>>])

(* Outside the channels that cannot take it the key itself is sent first,  *)
(* for games, and counts as shown.                                         *)
Tone ==
  /\ Press
  /\ word # << >> /\ Last(word) \in {"a", "aa"}
  /\ word' = Toned(word)
  /\ IF ~Injector.bait /\ ~SkipEmpty /\ ~IsSyncReplaceChannel
     THEN ReplaceComposition(Append(word, "s"), word', <<"s">>, << >>)
     ELSE ReplaceComposition(word, word', << >>, << >>)
  /\ HadSynth
  /\ UNCHANGED <<committed, era>>

(***************************************************************************)
(* The other keys.                                                         *)
(***************************************************************************)
(* SendBackspaces deletes the last letter of a word, without a retry.      *)
Backspace ==
  /\ Press
  /\ CASE word = << >> /\ Waiting > 0 -> InjectKey(Event("back", << >>, 2))
       [] word = << >> /\ Waiting = 0 -> Pass(Event("back", << >>, 0), Watched)
       [] Len(word) = 1 /\ IsSyncReplaceChannel -> Busy("raw", 1, << >>, << >>)
       [] Len(word) = 1 /\ ~IsSyncReplaceChannel ->
            /\ Dispatch(Waiting, Watched, Batches(1, << >>))
            /\ UNCHANGED <<appq, hook>>
       [] OTHER -> ReplaceComposition(word, Front(word), << >>, << >>)
  /\ IF word = << >>
     THEN /\ committed' = IF committed = << >> THEN committed ELSE Front(committed)
          /\ UNCHANGED word
     ELSE word' = Front(word) /\ UNCHANGED committed
  /\ IF Len(word) > 1 THEN HadSynth /\ UNCHANGED era
     ELSE UNCHANGED hadSynth /\ era' = era + 1

(* Space and Enter commit the word, after the letters as typed when the    *)
(* word is restored; without a word they pass whatever is in flight.       *)
Trigger(c) ==
  /\ Press
  /\ word' = << >> /\ era' = era + 1 /\ hadSynth' = FALSE
  /\ IF word = << >>
     THEN /\ Pass(Event("text", <<c>>, 0),
                  Watched \cup IF sys # << >> THEN {"overtaken"} ELSE {})
          /\ committed' = Append(committed, c)
     ELSE \/ /\ Raw(word) # word
             /\ ReplaceComposition(word, Raw(word), << >>,
                                   <<Event("text", <<c>>, 2)>>)
             /\ committed' = committed \o Raw(word) \o <<c>>
          \/ /\ CASE Waiting > 0 -> InjectKey(Event("text", <<c>>, 2))
                  [] Waiting = 0 /\ IsSyncReplaceChannel /\ c = "_" ->
                       Busy("trigger", 0, <<c>>, << >>)
                  [] OTHER -> Pass(Event("text", <<c>>, 0), Watched)
             /\ committed' = committed \o word \o <<c>>

(* ResetComposition, on a shortcut or a click: the word stays as it is on  *)
(* the screen and the counter is forgotten.                                *)
ResetComposition ==
  /\ hook = Idle
  /\ Count("pauses", MaxPauses)
  /\ word' = << >> /\ committed' = committed \o word /\ era' = era + 1
  /\ pending' = 0 /\ missed' = 0 /\ hadSynth' = FALSE
  /\ slips' = slips \cup IF sys # << >> THEN {"reset"} ELSE {}
  /\ UNCHANGED <<win, quiet, hook, sys, app, keys>>

(***************************************************************************)
(* The edit messages of a busy hook thread.                                *)
(***************************************************************************)
EditStep == hook # Idle
            /\ UNCHANGED <<win, word, committed, era, missed, keys, sugg>>

(* When the edit is done, the key that waits behind it is sent.            *)
Done(s) ==
  /\ hook' = Idle
  /\ hadSynth' = IF hook.next = << >> /\ hook.by \in {"retry", "vb6"}
                 THEN hadSynth \/ pending > 0 ELSE hadSynth
  /\ IF hook.next = << >>
     THEN /\ slips' = s /\ quiet' = (quiet /\ hook.by # "raw")
          /\ UNCHANGED <<pending, sys, n>>
     ELSE Dispatch(pending, s \cup Posted, <<Batch(hook.next, TRUE)>>)

Replaced(text, bs, new) == SubSeq(text, 1, Len(text) - bs) \o new
Understands == win.compat \/ win.method = 4

EditSucceeds ==
  /\ EditStep /\ Understands
  /\ hook.bs <= Len(screen)
  /\ screen' = Replaced(screen, hook.bs, hook.text)
  /\ Done(slips \cup IF appq \o sys # << >> THEN {"overtook"} ELSE {})
  /\ UNCHANGED <<appq, late>>

(* A refusal or a time-out: try again and, in the end, send keystrokes;    *)
(* the attempts that are made once have their own ways on.                 *)
FallBack(s, batches) ==
  /\ Dispatch(pending, s, batches \o <<Batch(hook.next, TRUE)>>)
  /\ hook' = Idle
  /\ hadSynth' = (hadSynth \/ (hook.next = << >> /\ pending' > 0))
  /\ UNCHANGED appq
Deletes == Times(hook.bs, Event("del", << >>, 2))

EditFails(s) ==
  CASE hook.by = "retry" /\ hook.tries < MaxTries ->
         /\ hook' = [hook EXCEPT !.tries = @ + 1]
         /\ slips' = s
         /\ UNCHANGED <<pending, quiet, hadSynth, sys, appq, n>>
    [] hook.by = "retry" /\ hook.tries = MaxTries ->
         FallBack(s \cup {"posted"}, <<Batch(Deletes \o Chars(hook.text), TRUE)>>)
    [] hook.by = "vb6" ->
         FallBack(s, <<Batch(Deletes, TRUE),
                       Batch(IF hook.text = << >> THEN << >>
                             ELSE <<CtrlV(hook.text)>>, TRUE)>>)
    [] hook.by = "raw" ->
         /\ hook' = Idle /\ slips' = s \cup {"refused"} /\ quiet' = FALSE
         /\ UNCHANGED <<pending, hadSynth, sys, appq, n>>
    [] hook.by = "trigger" ->
         /\ hook' = Idle /\ slips' = s \cup {"posted"}
         /\ appq' = Append(appq, Event("text", hook.text, 0))
         /\ UNCHANGED <<pending, quiet, hadSynth, sys, n>>

EditRefused ==
  /\ EditStep
  /\ hook.bs > Len(screen) \/ ~Understands
  /\ EditFails(slips)
  /\ UNCHANGED <<screen, late>>

(* After 50 ms the sender gives up; the control may still do it later.     *)
EditTimesOut ==
  /\ EditStep /\ Understands
  /\ MaxFaults > 0 /\ "timeout" \notin slips /\ hook.bs <= Len(screen)
  /\ late' = hook
  /\ EditFails(slips \cup {"timeout"})
  /\ UNCHANGED screen

(***************************************************************************)
(* The system and the application.                                         *)
(***************************************************************************)
Keep == UNCHANGED <<win, word, hadSynth, hook, committed, era, keys>>

(* The hook sees an own event go by, and counts it off down to none; or    *)
(* the system gives up on the hook and hands the event on without it.      *)
DecrementSynthEvents ==
  /\ sys # << >> /\ hook = Idle
  /\ sys' = Tail(sys) /\ appq' = Append(appq, Head(sys))
  /\ LET own == Head(sys).own IN
     \/ /\ pending' = IF pending > own THEN pending - own ELSE 0
        /\ UNCHANGED <<missed, n>>
     \/ /\ Fault /\ missed' = missed + own /\ UNCHANGED pending
  /\ Keep /\ UNCHANGED <<quiet, screen, sugg, late, slips>>

Pause == /\ ~quiet /\ hook = Idle
         /\ Count("pauses", MaxPauses)
         /\ quiet' = TRUE
         /\ Keep /\ UNCHANGED <<pending, sys, app, slips, missed>>

Suggests == win.host \in {"browser", "webview"}

(* A renderer in another process takes a physical key before own events.   *)
Handled == IF appq = << >> THEN {}
           ELSE {1} \cup {i \in DOMAIN appq :
                   /\ win.host \in {"electron", "webview"}
                   /\ appq[i].own = 0
                   /\ \A j \in 1..i-1 : appq[j].own > 0}

(* The slip is a key of another word, or no letter: the gate looks at      *)
(* letters of the same word only.                                          *)
Handle ==
  \E i \in Handled :
    LET e == appq[i]
        strange == \E j \in 1..i-1 : \/ appq[j].era # e.era
                                     \/ e.op # "text"
                                     \/ e.text[1] \notin Letters
    IN /\ appq' = RemoveAt(appq, i)
       /\ CASE e.op = "text" ->
                 /\ screen' = screen \o e.text
                 /\ sugg' \in IF Suggests THEN BOOLEAN ELSE {FALSE}
            [] e.op = "bait" -> screen' = Append(screen, "bait") /\ sugg' = FALSE
            [] OTHER ->
                 /\ screen' = IF sugg \/ screen = << >> THEN screen ELSE Front(screen)
                 /\ sugg' = FALSE
       /\ slips' = slips \cup (IF strange THEN {"reordered"} ELSE {})
                         \cup (IF e.op = "back" /\ sugg THEN {"dismissed"} ELSE {})
       /\ Keep /\ UNCHANGED <<pending, quiet, sys, late, missed, n>>

LateEdit ==
  /\ late # Idle /\ late' = Idle
  /\ screen' = IF late.bs <= Len(screen)
               THEN Replaced(screen, late.bs, late.text) ELSE screen
  /\ Keep /\ UNCHANGED <<pending, quiet, sys, appq, sugg, slips, missed, n>>

Init ==
  /\ win \in Windows
  /\ word = << >> /\ committed = << >> /\ screen = << >> /\ era = 0
  /\ pending = 0 /\ missed = 0 /\ quiet = TRUE /\ hadSynth = FALSE
  /\ hook = Idle /\ late = Idle /\ sys = << >> /\ appq = << >>
  /\ sugg = FALSE /\ slips = {} /\ keys = 0
  /\ n = [k \in {"faults", "pauses"} |-> 0]

Key == \/ \E l \in Letters : Letter(l)
       \/ Tone \/ Backspace \/ \E c \in Ends : Trigger(c)
Editing == EditSucceeds \/ EditRefused \/ EditTimesOut
Around == DecrementSynthEvents \/ Pause \/ Handle \/ LateEdit

Next == Key \/ ResetComposition \/ Editing \/ Around
Spec == Init /\ [][Next]_vars

(***************************************************************************)
(* Properties.                                                             *)
(***************************************************************************)
(* When everything sent is handled, the screen shows the committed text    *)
(* and the word the engine shows, so that the next backspaces delete what  *)
(* they are meant to -- but for the ways the code has of losing step:      *)
(* events the system refuses, an edit that times out or is refused, one    *)
(* that overtakes posted input, Space or Enter that overtakes own events,  *)
(* a counter cleared too early, a renderer that reorders what is no letter *)
(* of the word, a suggestion that takes the backspace of the user.         *)
ScreenMatches ==
  (sys = << >> /\ appq = << >> /\ hook = Idle /\ late = Idle) =>
    \/ screen = committed \o word
    \/ slips \cap {"partial", "timeout", "refused", "overtook", "overtaken",
                   "reset", "reordered", "dismissed"} # {}

(* A physical key never reaches the application before own events sent     *)
(* before it, except Space and Enter without a word, and after a counter   *)
(* was cleared with events in flight.                                      *)
OrderKept ==
  [][Len(appq') > Len(appq) /\ Last(appq').own = 0 =>
       \/ sys = << >>
       \/ word = << >> /\ Last(appq').text \in {<<c>> : c \in Ends}
       \/ "reset" \in slips']_vars

(* The counter is the number of calls of the hook the events in flight     *)
(* will make, and those of the events that went by without it, whatever    *)
(* part of a batch the system took.                                        *)
CounterExact == pending = Own(sys) + missed \/ "reset" \in slips

(* In a control that takes edit messages, an edit overtakes input only     *)
(* when a key was passed or sent behind an edit: Enter, a backspace        *)
(* without a word, the key behind a restored word, and what a failed edit  *)
(* falls back to.                                                          *)
EditsInOrder ==
  [][hook.by \in {"retry", "trigger", "raw"} /\ hook' = Idle /\ screen' # screen
       => appq \o sys = << >> \/ "posted" \in slips]_vars
=============================================================================

# A verification of NexusKey

NexusKey (the program calls itself VKey) is a Vietnamese input method for
Windows.  A low-level keyboard hook turns keystrokes into Vietnamese text; a
TSF text service does the same inside applications that are configured for it;
settings dialogs run in processes of their own; a watchdog restarts the hook
process.  This directory holds TLA+ models of its core: the typing engine, the two
programs that feed it (hook and text service), the ways its output takes into an
application, the configuration file with the windows that write it, and the
protocols by which threads and processes meet.  With the models come the TLC
configurations that check them and TLAPS proofs of their most important
properties.  Paths below are relative to the root of the repository.

- [Inventory](#inventory): the components, their state, their operations, how
  they interact, what is hard about them and what makes them correct.
- [Models](#models): which module models what, and how it corresponds to the code.
- [Runs](#runs): what each configuration checks, its bounds, the fairness.
- [Disagreements](#disagreements-between-code-and-documentation): where the code
  does not do what it says.
- [Proofs](#proofs): what is proved, from what, and how.
- [Limits](#what-is-not-modelled): what is only model-checked, and what is not modelled.
- [Plan](#plan): what comes next.

## Inventory

### Processes and threads

| process | threads that matter | source |
|---|---|---|
| hook process (`VKey.exe`) | main thread (tray window, WinEvents), hook thread (`WH_KEYBOARD_LL`, `WH_MOUSE_LL`, pump), worker thread (ticks, configuration) | `src/app/main.cpp`, `src/app/system/` |
| every TSF application | the application's UI thread, with the text service DLL | `src/tsf/` |
| settings and sub-dialogs (the same executable, started with an argument) | one UI thread each | `src/app/dialogs/`, `src/app/classic/` |
| watchdog | one loop | `src/watchdog/main.cpp` |

They share a memory section (`SharedState`: flags, the fast configuration
fields, a generation, an epoch that serves as a seqlock, the context anchor with
a seqlock of its own), the file `config.toml`, named events and window messages.

### Components

**Hook command mailbox** (`HookCommandMailbox`).  State: a word of command
bits, a pending focus snapshot, a wake latch, a wake function.  Operations:
`Post` from any thread, `DrainBits` and `ConsumePendingFocus` on the hook
thread, `ResetLatch` in `Stop`.  Hard: every word is a separate atomic, and the
order of the operations in `Post` and in `DrainBits` is all that keeps a command
from being left without a wake.  Correct when: no command is stranded; snapshots
are not lost and not applied out of order; a config apply that is deferred while
a word is composed is not lost before it runs and never lands inside a word.

**Hook thread lifecycle** (`HookLifecycle`).  State: the thread, its id, its
message queue, the hook handles, throttles.  Operations: `Start`, `ThreadProc`,
`Stop`, `RequestReinstall`.  Hard: stop with commands in flight, then start again.
Correct when: a restarted pump is woken by the first post.

**Worker thread** (`MainThreadWorker`).  State: `running_`, `stopRequested_`,
`workPending_`, `tickIntervalMs_`, a condition variable.  Operations: `Start`,
`Stop`, `Signal`, `SetTickInterval`, the loop `Run`.  Hard: signals between the
test of the predicate and the wait; a wait without a deadline; expiry of a
deadline in the instant of a signal; spurious wakeups.  Correct when: no signal
is lost, and no handler runs once `Stop` has returned.

**Focus latch and tick cadence** (`HookEngine::OnFocusChanged`,
`DrainClassifyOnWorker`, `OnTickPoll`, `MarkActivity`,
`RetuneCadenceIfNeeded`).  State: the latched window, the activity time, the
published cadence.  Interacts: WinEvents on the main thread, keys on the hook
thread, handlers on the worker.  Hard: the window is latched while another one is
being classified; the cadence is computed from a time that is read before it is
published; the worker parks with no deadline.  Correct when: no focus change is
forgotten, the last window wins, and the ticks follow the user's activity.

**Context anchor** (`HookContextAnchor`, `ReadonlyContextProvider`).  State: a
generation and ten fields in shared memory; per process, the payload written
last.  Operations: `WriteAnchorSeqlock` by whichever process has focus,
`ReadAnchorSeqlock` by the hook.  Hard: writers in different processes, a writer
that is killed, reads across several writes.  Correct when: a read that succeeds
is the anchor of one instant, and an application without focus publishes none.

**Vietnamese mode and its owners** (`HookEngine::ApplyFocusOnHookThread`,
`ApplyToggleVNOnHookThread`, `OnLayoutChanged`, `NotifyModeChange`,
`OnTickPoll`, the mode callback of `main.cpp`, `EngineController`).  State:
`vietnameseMode_`, the locks of excluded and forced applications with their
process ids, the smart-switch map, the state of the CJK layout switch, the flags
`VIETNAMESE_MODE` and `TSF_TIP_ACTIVE`.  Hard: five owners of one Boolean, two
threads that write it, and a shared flag that is both what the icon shows and
what the DLL toggles.  Correct when: the mode is the one its owner decided on;
no application is remembered with the mode of another one or of a lock; the
icon ends up showing the mode.

**Configuration hand-over between processes** (`QuickSyncFromSharedState`,
`ReloadFromToml`, the dialogs, the tray menu).  State: the epoch, the
`configGeneration` and the fast fields in shared memory, `config.toml`, the engine's
copies of both, and the settings dialog's copy with a save deferred by 30 s.
Operations: each dialog and menu item changes memory and file in an order of its
own; a key or a worker wake-up compares epochs and generations and reloads.  Hard:
read-modify-write of the shared state by several processes; a file that is older
than the memory; epoch and generation claimed before their effects; a flag that
goes and returns between two looks.  Correct when: an engine that has nothing left
to notice runs what memory and file say, and every change is noticed.

**Typing pipeline of the hook** (`ProcessKeyDown`, `HandleCommitUndoFsm`,
`DispatchKeyAction`, `CommitState`, `OutputDispatcher`).  State: the engine, the
composition last sent, the commit-undo window (idle, ready, primed; a stack of three
words with the triggers typed after them; a timeout of 4 s), the edits in flight.
Operations: one handler per key, sequential on the hook thread; the application
receives edits later than the keys that pass.  Hard: a key typed before the
last key's edits have arrived; words that are taken back, changed, deleted and
committed again; keys that move the caret away from the words that are kept.
Correct when: the application shows what the engine composes and what commit-undo
would take back, and keys keep their order.

**Typing engine** (`TypingEngine`, `Phonology`).  State: a buffer of character
states (letter, mark, tone, the places in the raw keys they came from), the raw keys
with and without what an escape consumed, the flag that switches marks and tones off,
the escape kind, the quick consonant that may be undone, the language bias.  Operations:
`PushChar` with a handler per kind of key, `Backspace`, `Commit` with auto-restore,
`Reset`, `SeedFromText`.  Hard: the rules are tried in an order, a rule that
declines may have changed the bias, and marks, tones and letters may be typed in
any order.  Correct when: the flag is the verdict on the buffer as it is; the tone is
where the rules of placement put it however the syllable was typed; a key pressed twice is a
letter; what auto-restore and Esc give back is what was typed.

**TSF text service** (`EngineController`, `CompositionManager`, the key sink).  State:
the engine, a composition, a commit that can be undone, a pending revival, the epoch
and configuration read last, the verdict on the context asked last.  Operations: two
handlers per key, edit sessions, callbacks of the framework.  Hard: a session can be
refused or run late, an application can end the composition between the two
handlers, a configuration can be published in the middle of a word.  Correct when:
engine, composition and text agree; no key is lost; an undo changes the word it
committed; passwords are left alone as far as the verdict reaches.

**Configuration file, smart-switch persistence, settings and dialogs** (`ConfigManager`,
`SettingsDialog`, the list dialogs of both editions, the tray menu, the flush of
`OnTickPoll` and `Stop`).  State: `config.toml`, the temporary file beside it, a named
mutex, a cache in the hook process, what each window has loaded, the dirty mark of the
smart-switch map.  Hard: read, change and write by several processes; a mutex that is
waited for no longer than five seconds; windows that are terminated at any moment; a
rename that fails.  Correct when: no half-written file is found; a save keeps
the sections of others; a load is not older than its beginning, as far as time stamps tell;
what was picked gets to the file.

**Clipboard injector and quick conversion** (`ClipboardInjector`, `QuickConvert`).
State: what the clipboard held, its sequence number, a timer; the anchor,
index and history of a cycle of conversions.  Hard: the clipboard is everybody's,
`OpenClipboard` fails, and the two of them do not know of each other.  Correct when: a
copy of the user survives; what is pasted is what was meant, over the text it was made
from; a cycle comes back to its beginning.

**Output dispatch** (`OutputDispatcher`, the injectors and their factory, the pass gate
of `HookEngine`).  State: the counter of own events in flight, the watchdog over it,
the word sent last.  Hard: keys that pass overtake own events, edit messages overtake
both; the system may take part of a batch; a control may answer late.  Correct when: the
screen shows the words committed and the one being composed, in the order of the keys.

**Focus classification rules** (`FocusOwner::Classify`).  Which window gets which
channel is in `OutputDispatch`, which application is excluded or forced in `ModeSync`,
when a window is classified in `FocusCadence`.

**Hook installation guard** (`HookHijackDetector`, `ReinstallBurstScheduler`,
the throttle of `HookLifecycle`).  Detects that another hook was put in front and
reinstalls, with a cooldown, a cap and bursts.  Not modelled.

**Watchdog and heartbeat** (`watchdog/main.cpp`, `HeartbeatPublisher`,
`WatchdogController`).  A heartbeat event every 30 s, a graceful-exit event, a
respawn after 90 s.  Hard: exit and restart between two iterations of the
watchdog's loop.  Not modelled.

**Hotkeys**, **code tables and macros**, **update download**, **tray and floating
icon**, **logging**: not modelled; the reasons are in [Limits](#what-is-not-modelled).

### How they interact

    WinEvent (main thread) --latch--> worker --snapshot, bit--> mailbox --> hook thread
    key (hook thread) --activity--> worker cadence
    hotkey, tray, settings --toggle bit--> mailbox
    worker: reload --config_, bit--> mailbox --> hook thread (engine_ created again)
    hook thread, worker: mode --callback--> VIETNAMESE_MODE <--toggle-- TSF DLL
    worker tick: VIETNAMESE_MODE --> vietnameseMode_
    TSF DLL --anchor--> hook thread (auto-capitalisation)
    key (hook thread or TSF DLL) --PushChar--> typing engine --word--> output
    hook thread: edits --SendInput, edit messages, clipboard--> application
    windows, tray, worker: save --mutex, temporary file, rename--> config.toml
    worker: load <--cache-- config.toml
    hook thread: mode --snapshot, dirty mark--> worker --save--> config.toml

## Models

| module | models | composed of |
|---|---|---|
| `HookMailbox` | mailbox and lifecycle: `HookCommandMailbox.{h,cpp}`, `HookLifecycle.cpp`, the drain of `HookEngine.cpp` | |
| `MainThreadWorker` | `MainThreadWorker.{h,cpp}` | |
| `FocusCadence` | the focus latch, the classification hand-off and the tick cadence of `HookEngine.cpp`, `AdaptiveTick.h` | extends `MainThreadWorker`: the opaque handlers become steps |
| `AnchorRegister` | what `ReadAnchor` and `WriteAnchor` promise: a register | |
| `ContextAnchor` | the anchor's seqlock in `SharedState.h` and the provider that writes it | implements `AnchorRegister` |
| `ModeSync` | every writer of `vietnameseMode_` and of `VIETNAMESE_MODE` | takes the mailbox as what `HookMailbox` shows it to be |
| `ConfigSync` | the shared state and its seqlock, `config.toml`, the dialogs and the tray menu, `QuickSyncFromSharedState`, `ReloadFromToml` | takes the worker as what `MainThreadWorker` shows it to be |
| `KeyPipeline` | `ProcessKeyDown` and what it calls, `CommitState.h`, the order of edits and keys | takes the typing engine as constant operators |
| `Phonology` | the pure part of the engine: nuclei and finals, validation, placement of the tone, signs of an English word | |
| `TypingEngine` | `TypingEngine.cpp` | extends `Phonology` |
| `TextService` | `EngineController`, `CompositionManager`, the key sink and its edit sessions, of `src/tsf/` | takes the typing engine as constant operators; `MCTextService` gives it `TypingEngine` |
| `ConfigFile` | `ConfigManager.cpp`, the settings windows and list dialogs of both editions, the tray menu, the flush of the smart-switch map | |
| `Clipboard` | `ClipboardInjector.cpp`, `QuickConvert.cpp` | |
| `OutputDispatch` | `OutputDispatcher.cpp`, the injectors and their factory, the pass gate | |

A module `MC...` instantiates a module for TLC, except that `MainThreadWorker` is run
as part of `FocusCadence`, `AnchorRegister` as what `ContextAnchor` implements and `Phonology`
as part of the engine.  The cadence with its worker, the mode, the pipeline, the
configuration file, the clipboard, the output and the text service have a module
`...Proofs`; what is shared without a lock, the two seqlocks `ContextAnchor` and
`ConfigSync` and the mailbox, has `LockFreeProofs`.  `PROJECT.json` maps every definition to
its lines of source.
Definitions marked "Faulty variant" or "Mutant", or explained as what a bug would do, are
the code with a plausible bug in it.  No action uses them; each shows that one
property would notice that bug.

### HookMailbox

`bits`, `pendingFocus`, `wakePosted` and `wakeFn` are the fields of the mailbox; every
atomic operation on them is a step.  The operations are seq_cst on bits and latch,
which is why interleaving is enough.  `Post` is `BeginPost` (the caller:
`ReloadFromToml` publishes `config_` first, `OnFocusChangedSyncOnWorker`
classifies first), `PublishFocus`, `SetBit`, `ExchangeLatch`, `FireWake`.
`DrainBits` is `ClearLatch`, `TakeBits`.  The handlers of `DrainHookCommands` are
one step each, in the order of the code.  `DrainThrows` is the exception the handler of a
command may raise, with what the two callers do about it; `ConfigThrows` that of
`ApplyConfigOnHookThread` in the deferred apply, before which the latch was cleared
(`HookEngine.cpp:3758-3759`), so that this configuration is lost (`dropped`).  `config` is the
version of `config_`, `due` the last one something was posted for: `QuickSyncFromSharedState`
stores `config_` without a post unless the method changed (`PublishSilently`, `:765-774`), and
the next apply takes that up.  What the engine keeps is the length of
the word being composed (`count`) and the version of the configuration it was
created from.  `Start`, `Boot`, `InstallHooks`, `InstallFails`, `StopRequest`,
`PumpQuit`, `ResetBits` and `ResetLatch` are `HookLifecycle`.  `main.cpp` stops
the worker before the hook engine and posts nothing itself meanwhile, so
`StopRequest` finds no producer inside `Post`, and `MayPost` lets none begin.

### MainThreadWorker

One step per critical section of the mutex.  The condition variable is
`worker = "blocked"` or `"woken"`, `timed` says whether the wait has a deadline.  Waits
may end spuriously and deadlines expire at any time.  `Stop` is five steps: the
owner is between the request, the notification, the join and the final clearing.
The handlers are opaque: the worker is at work until `HandlerDone`.

### FocusCadence

Every access of the hook engine to an atomic that threads share is a step: the
latch, the activity time, the published cadence, the hijacker flag.  Time is what
it is compared with: the last key is recent, or older than
`kIdleStopThreshMs`.  `OnTickPoll` keeps its three ends: no foreground window,
the process on record, another process.  A handler may throw where the reload
or the classification may; the worker catches that and goes on.

### ContextAnchor and AnchorRegister

One step per access to the generation and to a field, and fields are accessed in
any order: that is all the fences allow.  The provider writes what an edit yields
and clears the anchor when it loses focus; it skips a payload equal to its own
last one.  A mortal process can be killed inside a write.  The register changes
in one step, and a read looks at it, possibly several times, between call and return.  A
write of the seqlock maps to a write of the register when it begins, a try of a read
to one look.

### ModeSync

The state is the mode, the locks, the process ids, the smart-switch map, the
CJK state and the shared flags.  A handler of the drain is one step up to each of
its notifications; `NotifyModeChange` is two steps, what it computes and what the
callback stores, on either thread.  `OnTickPoll` is `TickPost`, `TickRead`,
`TickSync`, `TickTip`.  Windows have an application and may be helper
windows; WinEvents may be missed.  Helper variables: `choice` is the mode last
decided by somebody entitled to; `leftIn` the application left last and its mode
then; `unfollowed` and `touched` record stale locks and toggles.

### ConfigSync

`shm` is the shared state with its epoch, `toml` the file.  A flag stands for the
fast flags that `config_` takes over, the code table for the field that takes a way
of its own (`currentCodeTable_`, `globalCodeTable_`, the override of an application), and
the version of the lists for what only the file holds.  A writer in another process
reads (`Read`), opens the write (`OpenWrite`) and closes it (`CloseWrite`), with
what its operation does before and after: the settings dialog writes the memory first and saves
the file half a minute later with a second bump (`EditSettings`, `SaveSettings`); the
list dialogs save first, then bump, then post a window message (`SaveList`,
`HandleReload`); the menu's flag items save, then write, then tell the settings dialog
(`FlipInMenu`, `RefreshSettings`); its code table items set the engine's variable and write the
memory, then save (`PickTable`, `StoreTable`).  The generation counts modulo 256.
The worker's handler is cut at every access to what others write:
`Wake`, `CheckEpoch`, `ReadState`, `Claim`, `LoadFile`, `PublishConfig`,
`PublishLists`, `Diff`, `Classify`.  `KeyPressed` is the hook thread's call, which only
signals the worker.  `overlapped` records that two read-modify-writes overlapped,
`picked` that a code table was picked; after either nothing more is begun, because
the properties say nothing of what follows.

### KeyPipeline

A key is one action, from `ProcessKeyDown` to the edits it sends; `Deliver` is the
input queue handing the edits to the application.  A key that passes
changes the text at once and so overtakes what is in flight.  `engine` is the
keystrokes the engine has been given since it was reset, which deleting a word to nothing
does not do; what it shows, commits and restores after
some keystrokes are the constants `Show`, `Committed`, `Raw` and `Quick`.  The `commit` record is
`CommitState`: the window, the stack, `extra` and `leading` triggers, the history.
Whether edits were sent within the settle budget of the window is a choice, as is
whether a shortcut changes the text; after a click there is another text before the
caret, taken to be empty.  `lost` is set by the
steps after which the stack can no longer be what is on the screen, whatever the
hook does: see [Limits](#what-is-not-modelled).  With `GoOn = FALSE`
nothing is typed after that.

### Phonology and TypingEngine

A word is a sequence of character states.  A handler of the engine is an operator from
an engine to an engine that raises `took` when it consumed the key; `PushChar` tries them
in the order of the code, so that what a handler changes before it declines stays.  The
tables are kept as sets: the nuclei that may be followed by a final, those that end the
syllable, the finals each goes with.  `config` is one of the configurations a user
can build; `Press`, `Erase`, `Commit`, `Reset` and `SeedFromText` are the actions, `word`
remembers how many keys were pressed, and whether any was Backspace or the word was seeded.
Letter case is left out, because no rule looks at it.

### TextService

A handler is an operator on the service and the application together; what becomes of
the edit sessions it asks for (granted, refused, no composition) is a choice made with the
key.  `TestKey` and `KeyDown` are two actions, and between them the application may end the
composition, the user click, the main program publish a configuration, exit or start.
The document is a sequence of glyphs, the composition a pair of places in it.  The engine is
given by constant operators, so that what is proved holds of any; for TLC they are the
operators (not the actions) of `TypingEngine`, which is how the service uses the engine as well.  Reading the shared state follows the seqlock: while a write
is open the service keeps what it has.  What it makes of a published configuration is `Decoded`:
Combined and UserDefined become Telex, and the exclusions and the user's key map are not in the shared
state (`EngineController.cpp:586-604`).  An application has contexts, each with ordinary and
password fields, and the caret goes from any to any (`SwitchField`); `CheckContextBlocked` asks
when the context is another one than before, for the scope at the caret, and keeps the answer for the
context.  `past` records the bounds used and the disturbances
the properties except.

### ConfigFile

A table maps each key of `config.toml` to the number of the edit it comes from.  A save
is a list of jobs, each the sections that are replaced and what they are replaced with;
`Acquire`, `OpenTmp`, `WriteTmp` and `Move` are its steps, `GiveUpWaiting` and `MoveFails` the ways it goes
wrong.  Four threads save: the settings window, a list dialog, the tray and the worker.  In
the Sciter edition the first two are processes, which are terminated when the
window above them closes (`SciterClose`, `SciterLeave`); in the Classic edition they share a thread.  Loads of the hook
process are cut at the accesses to the cache and the file (`StartLoad`, `OpenToParse`, `CloseFile`,
`StoreParsed`) where the worker makes them; those of its other threads, which nothing of what is modelled
interrupts, fill the cache in one step (`CacheAfter`).  `file.version` counts the saves and `file.stamp` is
the modification time the cache compares: on a volume with a coarse clock (`"tick" \in trouble`) a save may
fall into the tick of the one before it (`Stamps`), and then only the cache of the process that saved is emptied.
The smart-switch map is published, marked, cleared, snapped and flushed in the order of
the code, and flushed again at the exit.

### Clipboard

A session between `OpenClipboard` and `CloseClipboard` is a step, a sequence number read
outside one a step of its own.  A text is a record of whose words it holds and what a
conversion made of them, so that a conversion of a conversion is told from a conversion.  A window has
edit controls, which tell of their selection, or answers `EM_GETSEL` without knowing it; either may not answer
in time.  Whatever answers counts as a control (`SelectionAnchor`, `QuickConvert.cpp:474-477`), and a
control without a selection is not asked to copy: a press over a selection the window does not tell of
is `untold`.  Other
programs copy between any two steps, and any `OpenClipboard` may fail.  `slips` records the
ways the code has of losing track, for the properties to except by name.

### OutputDispatch

An own event is in `sys` until the hook has seen it and in `appq` until the application has
handled it; a key that passes goes to `appq`, an edit message changes the screen at
once.  The channel is computed from the kind of the window and the method the user
chose, as the factory does it.  `late` is an edit message that timed out and is still to be
handled.  The engine is abstracted to a word whose last letter a tone key changes.

## Runs

Deadlock is not checked where a bound on the environment ends every behaviour: the
number of posts, starts, writes, windows, keys or toggles runs out and then nothing need
happen.

| run | checks | bounds |
|---|---|---|
| `mailbox` | `NoStrandedCommand`, `ConfigNotLost`, `NoMidWordSwap`, `CommandsDrained` | worker, main thread and hook thread post twice in all, or publish without a post; words of up to one character; two starts |
| `cadence` | `NoLostWakeup`, `FocusNotForgotten`, `LatestWindowClassified`, `TypingResumesTicks` | hook thread and main thread; two windows; one start |
| `anchor` | `IsRegister` | one process that may be killed, two fields, two contexts, five writes |
| `mode` | `LockNotRemembered`, `Settles` (`IconSettles`, `ForcedHolds`, `FocusCatchesUp`) | a plain and a forced application, smart switch with a map of one entry; two changes of focus, a toggle, three WinEvents |
| `mode_shared` | `LayoutFollowed`, `ModesAgree` | a TSF application, which is also the one with a CJK layout and with helper windows, and an excluded one; one change of focus, of layout and of the TIP, one toggle, three WinEvents |
| `config` | `EngineFollows` (`FlagsFollow`, `ListsFollow`, `TableFollows`), `ChangesArrive` | two operations of any of the four kinds, two code tables, an application with an override and one without, one change of focus |
| `typing` | `WordOnScreen`, `UndoSound` (`UndoOnScreen`, `EntriesReplay`), `KeysKeepOrder` | eight keys, one of them special; a letter and a tone; a stack of two words |
| `engine` | `SpellFlagFresh`, `RawKept` (`RawIsTyped`, `PlainStays`), `ToneOnTarget`, `TwiceIsLiteral`, `CircumflexKeepsSyllable` | eight configurations: Telex, modern placement with the keys of English words, quick consonants, free typing in simple Telex, VNI, both at once, exclusions, a key map of the user; words of five keys in Telex and four elsewhere, one of them Backspace; two texts to seed |
| `tsf` | `InStep`, `PrimedBehindBody`, `PasswordsUntouched`, `ConfigFollows`, `NoKeyLost` (`LetterArrives`, `WordsStay`) | an ordinary, a Chromium and a Scintilla application; two contexts, with ordinary and password fields; two configurations, one of a method the service does not know; a vowel, a digit, Space, Backspace, Esc and Ctrl; five steps, two of them disturbances |
| `file` | `WritersExclude` (`FileWhole`, `MutexOwned`), `LoadIsCurrent`, `PickedLands` (`SmartKept`, `ListsLand`), `OthersKept` | either edition, no file at first, the macro dialog, the typing section in the settings window; two edits, one trouble (time-out, unreadable file, refused rename, exit, or a coarse clock with three saves in a tick) |
| `clipboard` | `CopySurvives`, `ClipboardShared` (`RestoreSparesCopies`, `WordPasted`), `ReplacesItsOwn`, `CycleFromOrigin` | two pieces of text, a clipboard with a text and an empty one, two configurations of the convert tool, an edit control and a window that does not tell of its selection, answering or not; three words or conversions, one disturbance, one move of the user, four of these in all |
| `output` | `ScreenMatches`, `OrderKept`, `CounterExact`, `EditsInOrder` | fourteen windows (every kind, and every method the user can set where it makes a difference), two letters, four keys, one fault, one retry, one pause |

A name in brackets is a conjunct of the one before it.

*Why the bounds are enough.*  Two posts are two threads that race on the bits and
the latch, or a post that races with the drain of another one; a command has no other effect on
the mailbox than its bit, so more of them repeat a state.  Two starts are what a
stale latch needs.  Two signalling threads and the worker are all the parties of one
notification.  Two fields are enough to be torn, five writes enough for a
reader's three tries to meet a write each.  Two windows are a focus change that
overtakes another one.  Two changes of focus lead into a locked application and
out of it, with a toggle before, between or after.  Two configuration changes are one that a
reload has seen and one that arrives inside it, also one that undoes the other.
Eight keys are two words committed, both taken back and one of them changed by a tone;
a stack of two is full with them.  Five keys are an initial, a nucleus of two, a mark and a
tone in any order, or a mark with its escape; every rule of placement differs within that,
and the finals are among the keys.  Five steps of the text service are two keys with both their handlers
and a disturbance before, between or after.  Two edits and one trouble are a save that goes
wrong beside one that must survive it; the section a dialog saves makes no difference to the protocol,
so one dialog with a list of its own and a part of the typing section stands for all.  Three saves in a
tick are one that is cached, one the cache hides, and one that empties it; the time stamps matter to the
cache alone, so a coarse clock counts as the one trouble.  Versions and stamps are only ever compared, so
`MCConfigFile.cfg` has a `VIEW` (`UpToVersions`): two states that differ in how many saves lie behind
them, or in a cache entry whose stamp no file will have again, count as one.
Two contexts are the one asked and another; a context has as many fields as the caret visits.
Three commands are a cycle of a piece with its return, or a word between two conversions.
Four keys are a word of two letters with a tone and the key that ends it, and the
channels differ in what one edit does.

*Fairness.*  Threads inside a call are scheduled: weak fairness for the hook
thread's pump and drain, for a thread inside `Post`, `Signal` or `Stop`, for the
worker's loop and for its handlers, which the code justifies by calling nothing
there that waits for another modelled thread.  A deadline that is due expires.
In `ModeSync` the worker ticks, as it does while the user is active, and a latched
window is classified: strong fairness for `ClassifyLatched`, because a signal that
comes before a wait is served by that wait, which `NoLostWakeup` establishes.  In
`ConfigSync` a write that was begun is ended, the timer of the deferred save fires, queued window messages are handled and the user types on: no tick calls
`QuickSyncFromSharedState`, so a change that is not announced by a message waits for
a key.  Elsewhere nobody has to press a key, and nowhere has anybody to change focus,
to toggle, to post or to change a setting.  `ContextAnchor`, `KeyPipeline`, `TypingEngine`,
`TextService`, `ConfigFile`, `Clipboard` and `OutputDispatch` are checked for safety only and
assume no fairness: what they promise is promised at every moment or once nothing is in flight.

*What they show.*  With the shutdown order of `main.cpp`, no command is stranded in
the mailbox, whichever of the interleaved operations overtakes which, and
without the help of a keystroke; a configuration published while a word is
composed reaches the engine later and never inside the word, unless its own apply throws.  The worker loses
no signal even when it waits without a deadline.  A storm of focus events ends
with the last window classified, and the cadence that is published is the one the
worker waits with.  The anchor is a register as long as one
process writes, killed or not.  The owners of the mode settle: the icon, the DLL and the hook agree
in the end, forced applications are typed in Vietnamese, and a missed focus event is
made up for.  As long as no two writers overlap, the hook runs the flags, lists and
code table that were set last, though memory and file disagree for half a minute.
However fast the user types, the application ends up showing the word that is
composed, and a word that is taken back is the one in front of the caret, except
after the steps named in [Limits](#what-is-not-modelled).
The engine puts the tone where it belongs however a syllable is typed, never turns a
syllable into none by a circumflex, and gives back what was typed.  The text service
keeps engine, composition and text in step through refused sessions and compositions ended by
the application, with the exceptions the properties name.  Writers of the configuration
exclude each other even when one of them is terminated in the middle, no save drops another's
sections, and what was picked arrives.  A load is older than its beginning by no more than a tick of
the clock.  A copy of the user survives words and
conversions, and the channels keep the order of keys and edits, but for the slips the
properties list, each of which is a behaviour of the code.  What does not hold is the next section.

## Disagreements between code and documentation

Each of these has a configuration that shows it; `tlc -config X.cfg M` finds the
behaviour, and none of them is among the runs above, which must pass.

| configuration, module and property | the code says | what happens |
|---|---|---|
| `MCModeSyncDisplay.cfg`, `MCModeSync`, `SyncBringsDecision` | `HookEngine.cpp:2641-2645`: the logical mode stays unchanged | the display mode is stored in `VIETNAMESE_MODE` and the next tick copies it into `vietnameseMode_` |
| `MCModeSyncCjk.cfg`, `MCModeSync`, `SavesModeLeft` | `HookEngine.cpp:3982-3984`: the mode saved is that of the application left | the layout of the application entered changes the mode first |
| `MCConfigSyncTable.cfg`, `MCConfigSync`, `PickedTableKept` | `HookEngine.h:633`: `globalCodeTable_` is the configured value, restored when there is no override | the menu sets `currentCodeTable_` first, so that the comparison with it finds no change and `globalCodeTable_` keeps the old table, which the next change of focus puts back |
| `MCKeyPipelineStray.cfg`, `MCKeyPipeline`, `PrimedBehindWord` | `HookEngine.cpp:1564`, `:1883`: navigation keys clear the stack, for a replay would be at the wrong position | an arrow that ends a word finds the window idle and leaves the word on the stack; a letter and two backspaces elsewhere prime it there |
| `MCTypingEngineEmpty.cfg`, `MCTypingEngine`, `EmptiedForgets` | `TypingEngine.cpp:1663-1665`: a Backspace removes all raw entries of the state it removes | `w`, `w` and a Backspace leave one raw `w` and no state, as the second `w` escaped the mark of the first; the next word's auto-restore begins with it |
| `MCTypingEngineTurned.cfg`, `MCTypingEngine`, `ToneSettlesHorn` | `TypingEngine.cpp:466-472`: once a tone key has landed on the horned u of a leading `w`, that u is not turned back | `w`, `r`, `z` and a letter: the tone is there and taken off again, the raw keys still start like an English word, and the `w` comes back; the spell flag, set before it, is the verdict on the horned u |
| `MCConfigFileTrigger.cfg`, `MCConfigFile`, `SettingsKeepTrigger` | `ConfigManager.cpp:137-138`: the mutex prevents that the deferred save of the settings overwrites changes of the macro dialog | the mutex covers a save, and the trigger of the macros is in the typing section, which the settings window saves as it loaded it |
| `MCOutputDispatchClip.cfg`, `MCOutputDispatch`, `ScreenMatches` | `OutputInjectorFactory.cpp:49-53`: a method the user forces inherits the window's traits, so that protections are not lost; `HookEngine.cpp:2181-2185`: in a renderer of several processes no letter passes once own events were sent | that is done for the split methods; the clipboard, forced for a browser or an Electron-like application (`:45-47`), has neither the bait nor the gate, so that a Backspace is taken by a suggestion or overtaken by the next letter |
| `MCClipboardCursor.cfg`, `MCClipboard`, `MovedCaretAborts` | `QuickConvert.cpp:708-709`: if the user moved the cursor, the recovery aborts | the comparison needs the anchor to be a selection, so that a caret without one is never compared |
| `MCTextServiceScope.cfg`, `MCTextService`, `PasswordsBlocked` | `InputScopeChecker.h:4-6`: the check blocks contexts with a password field | the answer is kept while the `ITfContext` is the same (`EngineController.cpp:125`), but the scope is that of the caret: a password field of a context that was asked in an ordinary field is composed in |
| `MCTextServiceDigits.cfg`, `MCTextService`, `DigitsReachEngine` | `EngineController.h:82-88`, `:100-106`: VNI, Combined and UserDefined give digits to the engine | `ApplySharedState` takes methods above 2 for invalid and makes them Telex (`EngineController.cpp:586-593`), though 3 is Combined and 4 is UserDefined (`TypingConfig.h:16-22`), so that a digit ends the word |
| `MCConfigFileTick.cfg`, `MCConfigFile`, `LoadGivesFile` | `ConfigManager.cpp:95-99`: after a save the next load parses again even when the time stamp did not tick | a load under way stores what it parsed before, and a save of another process empties no cache but its own: with equal stamps the older table is answered |
| `MCClipboardUntold.cfg`, `MCClipboard`, `SelectionCopied` | `QuickConvert.cpp:123`: the copy is skipped where the control supports `EM_GETSEL` and has no selection | `hasControl` is set for every window that answers at all (`:474-477`); in one that does not implement the message the copy is skipped over a selection, and what the clipboard held is converted and pasted over it (`:164-167`) |

Met while modelling, without a configuration of their own:

- *Engine.*  After a Backspace `toneRawIdx` is as it was (`TypingEngine.cpp:649-655`), so that
  an escape may consume another key than the one that gave the tone.  A tone key on a
  word that was seeded with the old placement gives a second tone under the modern one,
  and `u s o s` gives a tone on both vowels.  The quick `uu`
  and the quick finals do not move the tone, and neither do the brackets: `w s [` leaves it on the first of two
  horned vowels.  The raw key of a letter that a bracket or the user's key map inserts is what auto-restore gives back: `[ w` shows `ow` and
  commits `[w`.
- *Mailbox.*  An exception in `ApplyConfigOnHookThread`, which copies maps and creates the engine
  (`HookEngine.cpp:4264-4289`), comes after the deferred apply has cleared its latch (`:3758`): the
  configuration waits for the next one that is posted.
- *Text service.*  `ApplySharedState` commits the engine and drops what it commits
  (`EngineController.cpp:613-617`), so that a configuration published in the middle of a word,
  or the exit of the main program, ends in the removal of the composed word.  A
  word that is taken up again leaves Esc without its raw keys.  A click, or a
  Backspace that dismisses a suggestion, leaves the undo of a commit open for 1.5 s.  Where
  `OnTestKeyDown` is not called, the field is not checked and a lost composition not noticed.
  A read session that is refused in a password field counts as "not blocked" and is cached.  The
  epoch begins at 0 again with the main program, and an equal one hides a new configuration.
- *Configuration file.*  The tray's save and the settings' deferred save write the whole
  typing section and with it the older trigger, exclusions and key map they loaded.  The migration
  of hotkeys checks and saves in two steps, and may write over hotkeys saved meanwhile
  although the file is to be honoured as it is (`ConfigManager.cpp:744`); a file that cannot be
  parsed is migrated, too.  Only the flush of the smart-switch map looks at the
  result of a save.  A file saved twice in a tick of the clock by a dialog leaves the hook with the first
  of the two until the next save.  Excluded and forced applications are saved one after the other.  The close
  button of the Classic window drops changes, as does an exit while the Sciter window is
  open.  Two writers of which one timed out share a temporary file.  A flush that fails at
  the exit is not tried again.
- *Clipboard.*  The sequence number is read after `CloseClipboard`
  (`ClipboardInjector.cpp:171-173`), so that a copy between the two is taken for the
  program's own.  A clipboard that cannot be opened when it is to be saved is emptied
  in the end, and a picture is lost.  A conversion that ends without a result leaves the
  selection it copied on a clipboard that was empty (`QuickConvert.cpp:111`).  A conversion within 200 ms of a word saves the word as the
  user's.  A reload of the convert tool in the middle of a conversion pastes nothing over
  the selection.
- *Output.*  The retries of an edit message take longer than the 30 ms that
  `OutputDispatcher.cpp:451` promises, since only the sleeps are counted.  A message that
  timed out may be handled later, after the fallback has done the edit.  Keys posted behind an
  edit (Enter, the key after a restored word, what a refused edit falls back to) are overtaken by the next edit.
  Space and Enter without a word pass whatever is in flight.  `ResetSynthEvents` with
  events in flight makes the counter too small.  The clipboard method drops the bait and the
  renderer gate in browsers.  `Internal.cpp` has the hook called inside `SendInput`, `HookEngine.cpp`
  later.
- *Elsewhere.*  `saveToToml` clears `configDirty_` though a save failed.  `pendingConfigReload_` has no
  effect.  The graceful event of the watchdog stays signalled when the watchdog holds its handle,
  so that a later crash is taken for an exit.

## Proofs

The theorems hold for every value of the constants that satisfies the modules'
assumptions, in particular for any number of threads, posts, starts, windows, fields,
writes, operations, keys, dialogs, edits and troubles.

| module | theorem | says |
|---|---|---|
| `LockFreeProofs`, mailbox | `MailboxTypeCorrect` | the type invariant |
| | `NoCommandStranded`, `RestartLatchFresh` | no bit without a wake, a drain or a poster that sees to it; no stale latch after a restart |
| | `NoConfigLost`, `NoSwapInsideWord` | a published configuration is on its way until the engine has it or its apply throws, and never lands inside a word |
| | `SnapshotReachable`, `FocusOrder` | focus snapshots are reached, and applied in order |
| `FocusCadenceProofs` | `WorkerTypeCorrect`, `WakeupNeverLost`, `NoHandlerAfterStop` | the worker |
| | `FocusNeverForgotten`, `LatestAlwaysClassified`, `CadenceAlwaysInEffect` | the focus latch and the cadence |
| `ModeSyncProofs` | `ModeTypeCorrect`, `LockNeverRemembered`, `LayoutAlwaysFollowed` | the mode and its locks |
| `LockFreeProofs`, seqlocks | `ConfigTypeCorrect`, `EpochEvenBetweenWrites` | the seqlock of the shared state |
| | `EngineAlwaysFollows` | the engine follows what was stored, when `2 * MaxUses < GenerationSize` |
| | `AnchorReadIsSnapshot`, `AnchorClearedWithoutFocus` | the seqlock of the anchor, when `Docs = {Doc}` |
| | `AnchorIsRegister` | it implements `AnchorRegister`, when `Docs = {Doc}` |
| `SharedStoresProofs`, file | `FileTypeCorrect` | the type invariant |
| | `WritersAlwaysExclude` | no half-written file, no mutex left behind |
| | `LoadAlwaysCurrent`, `OthersAlwaysKept` | a load is as young as its beginning, but for saves in one tick; a save changes its own sections only |
| | `PickedAlwaysLands` | what was picked for a window or in a list dialog is in the file or on its way there |
| `SharedStoresProofs`, clipboard | `ClipboardAlwaysShared` | restores spare what others copied; a word is what its Ctrl+V pastes |
| | `CopyAlwaysSurvives` | what the user copied last is on the clipboard again when the program has done with it |
| | `PasteAlwaysReplacesItsOwn` | a conversion pastes over what it copied or pasted itself, where the window tells of its selection |
| `KeyPipelineProofs` | `WordTypeCorrect`, `WindowAlwaysHasWord`, `OffAlwaysEmpty`, `OrderAlwaysKept` | commit-undo and the order of keys, for every engine that satisfies `EngineOK` |
| | `WordAlwaysOnScreen`, `UndoAlwaysOnScreen` | the screen shows the word and the words that commit-undo would take back, if the engine also satisfies `EmptyStays` |
| | `UndoAlwaysSound` | and replaying them yields them, if it satisfies `EmptyForgets` |
| `TextServiceProofs` | `ConfigAlwaysFollows` | a key is handled under what the service makes of the configuration last published |
| | `PasswordsAlwaysUntouched` | password fields are left alone where the context was asked in one, for every engine that satisfies `EmptyEngine` |
| | `AlwaysInStep` | what is composed in the application is what the engine shows, for every engine that satisfies `EngineOK` |
| | `PrimedAlwaysBehindBody` | Esc finds the committed word before the caret, under the same hypothesis |
| | `LettersAlwaysArrive` | a letter that is eaten is the last key of its word, if the engine also satisfies `KeepsKeys` |
| `TypingEngineProofs` | `SpellFlagAlwaysFresh` | the flag of the spell check is the verdict on the word as it is |
| | `RawAlwaysTyped` | until a mark is escaped the raw keys are the keys that were pressed |
| | `RawAlwaysKept` | and a word that shows no mark is committed as it is shown |
| | `KeysAlwaysLeaveWords` | every key leaves a word and is the last of its history |
| `OutputDispatchProofs` | `CounterAlwaysExact` | the counter is what the events in flight will count off, whatever part of a batch the system takes |
| | `OrderAlwaysKept`, `EditsAlwaysInOrder` | who may overtake own events and posted input |
| | `ScreenAlwaysMatches` | the screen shows the text of the engine once what was sent is handled, in every set of windows that satisfies `GuardedWindows` |

**Mailbox.**  `NoStrandedCommand` is not inductive: it says nothing of a
latch that is set.  The strengthening is `LatchInv`, two implications: a set latch
means a wake is queued, is about to be fired or is about to be forgotten by a
drain; and a set bit means the latch is set, or its poster or the running drain is
between its two operations.  They need to know where the pump is and that its
queue is alive (`LifeInv`), who can be inside `Post` in which phase (`PostersInv`,
which is where the shutdown order of `main.cpp` enters), and that nothing is left over
while no pump runs (`PristineInv`).  `ConfigInv` is `ConfigNotLost` from the
moment `Start` creates the engine, with the one fact that what was posted for (`due`) is not newer
than `config`.  `FocusInv` orders the snapshots: only the
classifier publishes, and what it publishes is the newest.  `ReachInv` adds that a
snapshot is published by a post of the focus bit and that none is older than the
first start.  Each is a lemma of its own, one step per action.

**Worker.**  `WorkerInv` adds to the properties where the owner is inside `Start` and
`Stop` relative to the flags (`OwnerInv`).

**Focus latch and cadence.**  The worker's actions are reused as they are.
`HandlerInv` ties a handler's position to the worker's, `IntervalInv` the
published cadence to the interval, with the one step between the two
publications; `FirstStartInv` and `DrainedInv` say what `Stop` leaves behind,
which is why the property is about the one start.  For `LatestWindowClassified`
`WindowInv` follows the window: a full latch holds the one latched last, and a
classification under way with an empty latch is of a window as new.

**Anchor.**  `ProviderInv` counts: the generation is twice the number of writes, or
one less inside a write, and the fields stored are those of the last payload.
`ReaderInv` says that as long as the generation is still `g1`, the writer is idle
and what has been copied is the anchor that was in memory at the first load.  It
covers a writer that is killed: the generation stays odd and every try fails.  For
the refinement the register is what was in memory when the generation was last
even; each step of the seqlock is a step of the register or leaves it alone.

**Mode.**  `LockInv` says that the application in front for smart switch has the
lock its lists give it, unless it lost it as stale; that is what makes the save of
its mode skip it.  `LayoutFollowed` is inductive once the handler's position between
the lock and the replay is part of it.

**Configuration.**  `SerialInv` says that of writers that do not overlap at most one is
inside an operation, that inside its write the epoch is the odd one it remembers, and
otherwise even.  `BoundInv` adds that the worker only ever holds a stable state.

`EngineFollows` is about three copies of the configuration.  `MemoryInv` counts: writers that
do not disturb each other raise the generation with every write, so the epoch is twice the
generation and a constant, and one more inside a write; the worker that compares generations
misses no epoch.  `ClaimInv` orders the epochs the
worker has claimed and is about to claim and says that a state it read under the present epoch is
what memory holds; `ResultInv` says how much of it the engine has at each of the
worker's positions while nothing is written.  `FollowInv` is the three of them.  The generation is one byte and wraps: with 256 writes between two looks of the worker a
change goes unnoticed, hence the assumption on `MaxUses`.

**Configuration file.**  The promise that the file is never half-written says nothing of
who has the mutex.  `SaveInv` does: as long as nobody gave up waiting, a thread between the
acquisition and the rename is the owner (`OwnerInv`); the temporary file is
open in the threads that write it (`OpenInv`); and what the owner read is what the file still
holds, and what it wrote is that with its own sections replaced (`BaseInv`), from which
`OthersKept` follows at the rename.  `BareInv` is needed for the first save, which reads no
file.  A termination (`TerminateKeeps`) takes mutex and temporary file from the same
thread, which is why no other thread finds the file mixed.  `WorkerInv` says that the worker is in
one load, flush or save at a time and at rest in the last flush; without it the restart would end a
save that nobody terminated.  `LoadInv` relates versions and stamps:
the stamp of the file is the first version of its tick and not above the current one, the cached table
is not older than the first version of its stamp, and a load has kept the stamp it read at its start
(`reader.from`) and parsed no table older than that, which is what `LoadIsCurrent` asks.

`PickedLands` needs to know what the saves under way hold, and `LandInv` says it: each
thread saves sections of its own (`KeysInv`), the list dialog its lists as they were edited
last (`ListInv`), and a save of the smart-switch map holds the mode published last or the map is
marked again (`MapInv`), which is what "clear before snap" buys.  With `OthersKept` for the
sections a rename does not own, a list or a mode leaves the saves only into the file; a failed
save of the worker marks the map, and the flush of the exit, which nobody can mark
again, takes what the joined threads left (`MapLands`).

**Clipboard.**  `ClipboardShared` is about single steps, so the invariant has to say what is true
before each of them.  `StampInv`: when the injector's number is the clipboard's, the last session was the
program's own, or another program copied in the gap between the word and its number.
`SavedInv`: from the first number of a conversion to the last, and from the comparison to the
restore, what a restore would overwrite is nobody's copy or the saved text itself.
`WordInv`: while a word is out no conversion runs and nothing but words is sent, so nothing
of the program's own changes the clipboard before the Ctrl+V is handled.

`CopySurvives` is about the end of any sequence of words and conversions.  `InjectorKeeps`: the
injector's number is the clipboard's only while the saved text is what the user copied last;
otherwise that is on the clipboard itself.  `ConversionKeeps` says the same of a conversion, step by
step from its save to its restore.  The number must decide which of the two holds (`IF seq = q.ourSeq
...`): that one or the other does is not inductive, for the restore is entered on the number alone.
`AloneInv` is what `ReplacesItsOwn` and `CopySurvives` share: a conversion has one key of its own in
the input at most, and the clipboard is empty until its Ctrl+C is handled, so that a text that is
read is the selection (`OwnPaste`); hence a conversion without a copy has nothing selected, the
caret is behind the last paste, and Shift+Left selects that.  A selection the window does not tell of breaks this chain at its first link, and
`Undisturbed` excludes it (`untold`).  `Selecting` came out of
it: a selection has characters, and one of none is a caret, in `EM_GETSEL` as in an application.

**Typing pipeline.**  `EngineOK` asks that what the engine shows, commits and restores are
texts.  `Inv` is the first theorems' conjunction: the stack is well formed and
bounded, an open window has a word to take back and no word is composed, and
an engine that is switched off shows nothing; each needs the others, as replaying
relies on the window and switching off on the stack.  `OrderAlwaysKept` needs no more
than the type of the bounds.

`WordOnScreen` and `UndoSound` need each other, and both a place for every word of the stack.
`Lies(p, s, g)` says that the text `p` ends in the words of the stack `s`, each followed by a blank
and the triggers counted on the entry above it, and the last one by `g` blanks; `Screen` says
that the text to come, `Final`, is such a `p` followed by the word shown, with the `g` that the state of
commit-undo stands for (`After`), that the history is what the engine has taken but for keys that
left nothing (`SameWord`), that every entry shows something, and that a trigger which Backspace
would pass to the application is there to be deleted (`Counted`).  The lemmas about `Lies` are
its arithmetic: a blank typed or deleted, a word pushed, taken back, or dropped at the bottom
when the stack is full.  Those about `Arrived` and `Diff` are by induction over the edits, for which
`Induction` and `SeqInduction` are derived from the well-foundedness of the natural numbers, with a set in
the place of a predicate.  Two things came out of the proof.  The count of the extra triggers ends at
255 (`IncrementPendingTriggers`): with more spaces than that behind a word the window is primed
while blanks are left, so that `lost` has to be set there (`Saturated`).  And the
engine is not reset when a word is deleted to nothing (`HandleBackspace`): that the
next word is shown as if it were depends on the engine, hence the hypotheses
`EmptyStays`, whether it shows anything, and `EmptyForgets`, what.  The assumption of
`MCKeyPipeline` checks them for the little Telex of the run; the engine of the code meets them but
for the corner of `EmptiedForgets` above, where the entry of the next word can show something
else when it is replayed.

**Output.**  `CounterExact` is inductive with the type of the events: where the watchdog or the
reset of a word sets the counter to zero, either own events are in flight, which is noted as a slip, or
none is, and what was missed is forgotten with it.  `Own` is a sum by recursion over the events; that it is additive
(`OwnConcat`), that a batch cut short costs what is left of it and that it is zero only for no events at
all are by induction over the length.  `OrderKept` then follows at each of the places a key is passed:
the gate asks for a counter of zero, and a counter of zero means that no own event is in
front of the hook.  `EditsInOrder` needs two more facts.  `TriggerAlone`: the Space that is sent as an edit
message waits with nothing in flight, as it is sent so only when the counter is zero; and `SyncAlone`: in a
window that takes edit messages nothing but edits is sent until something is noted as posted.
`ScreenMatches` says nothing while events are in flight, which is nearly always.  Its strengthening,
`TextInv`, looks ahead (`Shown`): what is in flight, handled in order, and after it what the hook thread
is busy with, make the text the engine has.  For that to survive every step until the code is known
to have lost step (`Losses`), four more facts are needed.  `EditAlone`: an edit that deletes has
nothing in flight before it, so that its order does not matter.  `NextLast`: what is sent behind an edit ends the
word.  `Shielded`: no suggestion is open when a backspace of a replacement arrives, be it now or
after what is in flight (`Safe`).  `Eras`: in a renderer, where a key can arrive before own events that
were sent earlier, the two are of different words, or the key ends one.  The lemmas about
`Arrived`, `Replaced` and `Safe` are again by induction over the events.  The hypothesis `GuardedWindows`
says that the clipboard is not forced on a window with suggestions or a renderer:
`ClipboardInjector` carries no traits (`OutputInjectorFactory.cpp:45-47`), and `MCOutputDispatchClip.cfg`
shows that the screen differs there.  The windows of `MCOutputDispatch.cfg` satisfy it; all
windows the factory classifies by itself do.

**Text service.**  A handler is an operator on the service and the application, so a proof is about
operators first: each handler keeps the shape of its argument and leaves the link to the
main program alone (`Placed`, `Linked`), and none holds a word outside a composition
(`Joint`).  `LinkInv` is about the epochs: the service's is not ahead of the main program's, and where the two
are equal and the mapping is readable the configuration is the published one; a start of the
program sets its epoch back, from where nothing is claimed.  `WordInv` adds for password
fields that the answer kept for a context is that of the field it was asked in (`past.asked`), that
nothing is composed in a password field of a context that was asked in one and that no key is on its way
there between the two handlers (`Guarded`).  `EmptyEngine`, that a
Backspace leaves an engine without a word without one, is the first branch of `Backspace` in
`TypingEngine`.

`InStep` and `PrimedBehindBody` are about texts and places.  `EngineOK` asks that what an engine
shows, commits and is pressed are texts, that it is closed under what the service does with it, and that a
letter, or a digit behind one, leaves a word; the last of these, and `KeepsKeys`, is what
`KeyPressed` of `TypingEngineProofs` says of the engine.  `TextInv` is
proved with `LinkInv` and `WordInv`.  Its parts: every text and place is well formed and the
fields of the service agree with each other (`GoodPair`); the composition shows what the
engine does, as long as nothing has disturbed the word (`ToldPair`); what `OnTestKeyDown`
has promised for the key on its way still holds when `OnKeyDown` comes (`KeyKept`); and the committed word,
or what a Backspace has left of it, stands before the caret while its undo is open
(`UndoKept`).  None is inductive alone.  A word is taken up again from the text that stands before the
caret, so that `ToldPair` needs the place the test has looked at to be the place of the key; `Primed`
is reached from `Ready` by the very Backspace that takes the blank behind the word, so that `UndoKept` begins
at the commit; and the commit leaves the word where it was only if the composition showed it.
`Replaced` and `Stands` say what an edit of the document leaves and where, and `Splice` is the
arithmetic below them.  `LettersAlwaysArrive` follows from the two handlers: a letter that starts a composition
is eaten only when it was granted, and one that is added to a word is in it whatever becomes of its edit
session.  The hypothesis is the service's own: a word taken up again and then refused is the exception
`LetterArrives` makes.

Proved and not among the properties of the runs, which each ask a question of their
own: the type invariants, `FocusReachable`, `FocusNeverGoesBack`, `CadenceInEffect`,
`ReadIsSnapshot`, `FocusOutClears`, `EpochEvenIfSerial`, `WindowHasWord`, `OffStateEmpty`,
`UndoOnScreen`.

**Typing engine.**  The proofs follow the handlers and never ask what a syllable is.  A word is a
sequence of things that have a letter; moving a tone, pairing horns and setting a mark leave it its
places (`SamePlaces`), so that every handler is shown to keep the frame: history, quick start and letters (`Framed`), and the
raw keys unless a mark was escaped (`Keeps`).  The handlers of marks have some forty ways out,
but are built from seven steps that keep the frame (`Closed`), and this is all that is asked of
them.  A rule that takes a key moreover leaves a word whose flag is fresh (`Done`), and a rule behind
it does nothing, so that the rules compose (`RuleTrans`); a key that no rule takes ends in
`FinalizeRegularChar`.  `KeyPressed` collects this for every engine whatsoever.  The attempt to prove
`SpellFlagFresh` without `TurnedBack` found the leading `w` that is turned back behind
`UpdateSpellState`, and `ToneSettlesHorn` says what is wrong with it.  The assumptions are that the
letters a key map inserts carry marks and that the texts to be seeded are glyphs.

`RawAlwaysKept` is about a fall-back that must not be taken.  For a word that shows no mark
`ShouldAutoRestore` falls back to the raw keys when they are no more than its letters and
differ from them: when an escape has taken away a key too many, or another one than its own.  That
is not inductive, as an escape must know which key the mark came from.  The strengthening is the
layout (`Layout`, `Laid`): every letter stands for a raw key of its own (`rawIdx`), which is its
base letter, or the `w` it was made of; the letters are in the order of their keys; and
every tone that a key has set stands for one more (`toneRawIdx`), which no letter and no other tone has.
With no more raw keys than letters the two are therefore the same (`Increasing`, `Aligned`), and there
is nothing to fall back to (`PlainCommits`).  That an escape keeps the layout is the arithmetic of one
key taken out of a sequence: the places behind it move down by one (`Down`, `Lowered`), and no letter and
no other tone stood for it.  Each rule is then shown to answer for its key (`Answers`): it takes the key
and leaves a layout, or leaves one of the keys before it to the rules behind.  `PlaceInv` asks for the
layout only where `PlainStays` speaks: brackets, quick consonants and the user's own key map break
it by design, since one key stands for two letters there or for another one.

Left to TLC: all liveness properties (fairness and `ENABLED` are beyond the
prover), and what is said of syllables: `ToneOnTarget`, `TwiceIsLiteral` and `CircumflexKeepsSyllable`
depend on tables and on every order of the rules, which is for enumeration.  Of `NoKeyLost` the part
`WordsStay` is model-checked only: whether a commit is as long as what was shown is the engine's affair.
`CycleFromOrigin` of `Clipboard` is model-checked only: it is about texts, and for arbitrary pieces
a conversion of one may happen to be another, which `IsNewSelection` cannot tell.  No
module declares a `RECURSIVE` operator.

## What is not modelled

- *Code tables, macros*: conversions between characters, with large tables.  The repository's
  unit tests are the better tool for them.
- *Hook installation guard, watchdog, hotkeys*: in the plan.  They run on clocks of their own and
  touch the rest only by a reinstall, a restart and a posted bit, which `HookMailbox`
  allows for at any moment.
- *Updates*: network, signatures and file replacement.
- *Tray, floating icon, logging*: presentation.  What the icon shows is
  a variable of `ModeSync`, what the menu stores is in `ConfigSync` and `ConfigFile`.

Within what is modelled:

- *Mailbox*: the reinstall throttle and the five-second start timeout of
  `HookLifecycle`.  A thread that were still inside `Post` when `Stop` resets the
  latch would leave it set for the next start (`HookLifecycle.cpp:80-84` promises
  otherwise); the shutdown order excludes such a thread.  `main.cpp` starts the lifecycle once; the
  second start of the run is what `Stop` is written for (`:80-84`).  `ConfigNotLost` is about
  configurations something was posted for: one stored silently reaches the engine with the next.
- *Worker*: a `Signal` after `Stop` is latched and runs the handler after the next
  start, though `MainThreadWorker.h:67-70` calls it a no-op.  Nothing starts the worker
  twice in the program as it is.
- *Cadence*: a key between the worker's read of the activity time and its publication
  of the park signals nobody.  The next key does, which is what
  `TypingResumesTicks` says.
- *Anchor*: one writing process at a time.  While focus moves there are two, and their
  writes may overlap: the generation is then even while both store, and a reader
  accepts fields of both (`SharedState.h:191-195` has it that readers retry).  A
  process that is killed inside a write inverts the parity for all that write
  later.  The wrap of the generation after 2^31 writes inside one read.
- *Mode*: `LayoutFollowed` excepts locks dropped as stale by a toggle or a key, which do
  not replay the layout check (`HookEngine.cpp:4077-4080`); `LockNotRemembered` excepts
  a toggle that finds the lock stale and saves for the application; `ModesAgree` and
  `IconSettles` say that the mode settles, not which of two racing decisions wins: a
  tick's store on the worker can undo a toggle that came after its read.
  Configurations do not change, and process ids are not reused.
- *Configuration*: once two read-modify-writes overlap, a change can be lost and the
  epoch can end odd with nobody writing.  Every later `Read` then fails, and with
  it every later `Write`, until the processes are restarted.  The fields of one
  `Write` are stored in one step, since readers discard what they read under an odd
  epoch.  Not modelled: the hotkey fields and the input method, which follow the flag's
  way; the start and the end of the settings process; exceptions inside a reload.
  While the settings dialog has not saved a code table, a reload for another reason
  brings back the file's; `TableFollows` speaks once they agree.  The code table of the
  application in front may be the global one until the next change of focus.
- *Engine*: letter case; words longer than the bound, in particular the limits of its
  buffers.  `RawKept` speaks of words without a Backspace, `ToneOnTarget` of complete
  syllables without quick consonants, `CircumflexKeepsSyllable` of the spell check without
  exclusions: elsewhere the code does otherwise, as said above.
- *Text service*: letter case and auto-capitals, keys with Shift, registration, the language
  bar.  `past` names what the properties except: refused sessions, a configuration over a word,
  a caret moved by others, a restart; and a password field in a context that was asked elsewhere.
- *Configuration file*: which field of the typing section is which; the section of the
  convert tool; the macro table opened from the tray without the settings window; the mirror of the
  smart-switch map in shared memory; list dialogs side by side (`SettingsDialog.cpp:335-368` may start
  several processes; one is modelled, and what two writers do to each other it does to the settings window
  and the tray); the caches of the processes other than the hook's, which live as long as a window; a clock
  that is set back.  The
  properties except a writer that gave up waiting and a file that could not be read, after which
  sections can be lost.
- *Clipboard*: the application handles what is sent before the sleep after it ends; an
  application slower than that gets the clipboard after the restore.  `ReplacesItsOwn` and
  `CycleFromOrigin` except selections the window did not tell of (`untold`); what Shift+Left makes of such a
  selection is not told apart.
- *Output*: code tables other than Unicode, the formula mode of Excel, the swap of the
  injector in the middle of a word, own events that the hook sees inside `SendInput`, and a
  dispatch before the first window is classified (`OutputDispatcher.cpp:173-178`).
- *Reloads*: `ReloadFromToml` throwing after epoch and generation were claimed
  (`HookEngine.cpp:694`), a failing second read of the shared state (`:819`), and the code table
  set on the main thread while the hook thread is inside a key (`:576`).
- *Typing pipeline*: Telex, the Unicode table, the default injector and an
  ordinary window; no macros, auto-capitals, digit-led words, VNI digits or ghost keys; the
  mode and the focus do not change; Enter is a line break.  Synthetic events are not
  lost, so that the watchdog of 500 ms has nothing to do.  `WordOnScreen`, `UndoOnScreen` and
  `EntriesReplay` end where the hook loses track (`lost`): a letter at a primed
  window drops the top of the stack only; a word that ends in a quick consonant is
  not pushed and those below it stay; Esc on a word being composed keeps its
  history; a second trigger, or a backspace over one, overtakes edits in
  flight; more spaces are typed behind a word than `IncrementPendingTriggers` counts; a caret moved by a key that finds the window idle.
- *Memory orders* weaker than seq_cst are represented by the order the code's fences
  allow and not by a memory model.

## Plan

In this order; each module comes with its `MC` module and the proof of its type
invariant.

1. `HookGuard`: hijack detector, burst scheduler and throttles over a bounded clock
   that wraps; `Watchdog`: heartbeat, graceful exit, respawn, the restart of the hook process.
2. `CommandChannel`: what the mailbox promises its posters, as an abstract
   specification that `HookMailbox` implements, with the refinement proved.
3. `KeyPipeline`: macros, digit-led words and auto-capitals, which share the
   history and the stack; its engine instantiated by `TypingEngine`.
4. `FocusRules`: the classification as operators, checked against the decision table of
   its tests.
5. `Hotkeys`: the detection of a tap of modifiers as a state machine.

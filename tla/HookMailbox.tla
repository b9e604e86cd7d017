---------------------------- MODULE HookMailbox ----------------------------
(***************************************************************************)
(* The cross-thread command channel of the keyboard hook.                  *)
(*                                                                         *)
(* Any thread asks the hook thread for work by HookCommandMailbox::Post:   *)
(* publish a focus snapshot, set a bit, and wake the hook thread's message *)
(* pump if the wake latch was clear.  The hook thread drains the bits in   *)
(* HookEngine::DrainHookCommands, from the pump (WM_APP_HOOK_COMMAND) and  *)
(* from every keyboard callback.  Each atomic operation on the shared      *)
(* words is one step; the operations are seq_cst, so their steps           *)
(* interleave.  HookLifecycle starts and stops the pump.                   *)
(***************************************************************************)
EXTENDS Integers, FiniteSets

CONSTANTS
    Producers,    \* threads other than the hook thread that post commands
    Classifier,   \* the producer that classifies focused windows (the worker)
    Hook,         \* the hook thread, which posts too (a hotkey's toggle)
    MaxPosts,     \* bound on the number of posts
    MaxCount,     \* bound on the characters of the word being composed
    MaxStarts     \* bound on the starts of the hook thread

ASSUME HookAssumption == Hook \notin Producers
ASSUME ClassifierAssumption == Classifier \in Producers
ASSUME BoundAssumption == MaxPosts \in Nat /\ MaxCount \in Nat /\ MaxStarts \in Nat

Posters == Producers \cup {Hook}

\* HookCommand::kFocusChanged, kConfigApply, kTickPoll, kToggleVN.
Commands == {"focus", "config", "tick", "toggle"}

NoFocus == 0   \* the null snapshot; snapshots are numbered as windows are classified

VARIABLES
    bits,          \* bits_: commands posted and not drained
    pendingFocus,  \* pendingFocus_: the snapshot to apply, or NoFocus
    wakePosted,    \* wakePosted_: the wake latch
    wakeFn,        \* wakeFn_: the hook thread the trampoline posts to, 0 if unset
    wakes,         \* WM_APP_HOOK_COMMAND messages queued ahead of WM_QUIT
    quit,          \* WM_QUIT is in the hook thread's queue
    pc,            \* pc[p]: where p is inside Post
    cmd,           \* cmd[p]: the command p posts
    hookPc,        \* where the hook thread is
    keyEvent,      \* the running drain was called by the keyboard callback
    taken,         \* the bits the running drain exchanged out
    deferred,      \* deferredConfigApply_
    count,         \* engine_->Count()
    config,        \* version of the published TypingConfig (config_)
    due,           \* the last of them whose publisher goes on to post kConfigApply
    engineConfig,  \* version engine_ was created with
    dropped,       \* helper: version at the last apply that threw
    life,          \* the lifecycle as its owner, the main thread, sees it
    starts,        \* hook threads started; the current one is number starts
    posts,         \* posts begun
    cls,           \* cls[p]: the snapshot p posts
    classified,    \* number of windows classified
    applied        \* number of the last focus snapshot applied

mailboxVars == <<bits, pendingFocus, wakePosted, wakeFn>>
queueVars   == <<wakes, quit>>
postVars    == <<pc, cmd, cls, posts, classified, config, due>>
hookVars    == <<hookPc, keyEvent, taken, deferred, count, engineConfig, dropped, applied>>
lifeVars    == <<life, starts>>
channelVars == <<mailboxVars, queueVars, postVars, hookVars, lifeVars>>

MailboxInit ==
    /\ bits = {} /\ pendingFocus = NoFocus /\ wakePosted = FALSE /\ wakeFn = 0
    /\ wakes = 0 /\ quit = FALSE
    /\ pc = [p \in Posters |-> "idle"] /\ cmd = [p \in Posters |-> "tick"]
    /\ cls = [p \in Posters |-> NoFocus]
    /\ hookPc = "none" /\ keyEvent = FALSE /\ taken = {}
    /\ deferred = FALSE /\ count = 0
    /\ config = 0 /\ due = 0 /\ engineConfig = 0 /\ dropped = 0
    /\ life = "down" /\ starts = 0
    /\ posts = 0 /\ classified = 0 /\ applied = NoFocus

(***************************************************************************)
(* HookCommandMailbox::Post, one step for each atomic operation.           *)
(***************************************************************************)

\* main.cpp starts the worker after the hook engine and stops it before; the
\* main thread itself is the one inside Start and Stop.
MayPost(p) == IF p = Hook THEN hookPc = "pump" ELSE life = "up"

\* Which thread posts what: a hotkey's toggle may come from the hook thread
\* itself, and only OnFocusChangedSyncOnWorker posts a focus snapshot.
MayPostCommand(p, c) ==
    /\ p = Hook => c = "toggle"
    /\ c = "focus" => p = Classifier

\* A caller of Post.  ReloadFromToml, and QuickSyncFromSharedState when the input
\* method changed, publish the new config_ before they post;
\* OnFocusChangedSyncOnWorker classifies the window before it posts.
BeginPost(p, c) ==
    /\ pc[p] = "idle" /\ MayPost(p) /\ MayPostCommand(p, c) /\ posts < MaxPosts
    /\ pc' = [pc EXCEPT ![p] = IF c = "focus" THEN "publish" ELSE "setbit"]
    /\ cmd' = [cmd EXCEPT ![p] = c]
    /\ config' = IF c = "config" THEN config + 1 ELSE config
    /\ due' = IF c = "config" THEN config + 1 ELSE due
    /\ classified' = IF c = "focus" THEN classified + 1 ELSE classified
    /\ cls' = [cls EXCEPT ![p] = IF c = "focus" THEN classified + 1 ELSE NoFocus]
    /\ posts' = posts + 1
    /\ UNCHANGED <<mailboxVars, queueVars, hookVars, lifeVars>>

\* QuickSyncFromSharedState with the input method as it was: config_ is
\* published and nothing posted.  The next apply takes it up.
PublishSilently(p) ==
    /\ pc[p] = "idle" /\ MayPost(p) /\ posts < MaxPosts
    /\ config' = config + 1
    /\ posts' = posts + 1
    /\ UNCHANGED <<mailboxVars, queueVars, pc, cmd, cls, classified, due, hookVars, lifeVars>>

\* pendingFocus_.store(cls)
PublishFocus(p) ==
    /\ pc[p] = "publish"
    /\ pendingFocus' = cls[p]
    /\ pc' = [pc EXCEPT ![p] = "setbit"]
    /\ UNCHANGED <<bits, wakePosted, wakeFn, queueVars, cmd, cls, posts, classified, config, due,
                   hookVars, lifeVars>>

\* bits_.fetch_or(bit)
SetBit(p) ==
    /\ pc[p] = "setbit"
    /\ bits' = bits \cup {cmd[p]}
    /\ pc' = [pc EXCEPT ![p] = "latch"]
    /\ UNCHANGED <<pendingFocus, wakePosted, wakeFn, queueVars, cmd, cls, posts,
                   classified, config, due, hookVars, lifeVars>>

\* if (!wakePosted_.exchange(true)) ...
ExchangeLatch(p) ==
    /\ pc[p] = "latch"
    /\ wakePosted' = TRUE
    /\ pc' = [pc EXCEPT ![p] = IF wakePosted THEN "idle" ELSE "wake"]
    /\ UNCHANGED <<bits, pendingFocus, wakeFn, queueVars, cmd, cls, posts,
                   classified, config, due, hookVars, lifeVars>>

\* The hook thread has a message queue once it has installed its hooks.
PumpAlive == hookPc \notin {"none", "boot", "install"}

\* Faulty variant: no wake while a drain runs, as if it were sure to see the bit.
FireWakeUnlessDraining(p) ==
    /\ pc[p] = "wake"
    /\ wakes' = IF hookPc = "pump" /\ wakeFn = starts /\ ~quit THEN wakes + 1 ELSE wakes
    /\ pc' = [pc EXCEPT ![p] = "idle"]
    /\ UNCHANGED <<mailboxVars, quit, cmd, cls, posts, classified, config, due, hookVars, lifeVars>>

\* ... wakeFn_(): PostThreadMessageW to the captured thread.  It is lost when
\* that thread is gone or has no queue yet, and not retrieved behind WM_QUIT.
FireWake(p) ==
    /\ pc[p] = "wake"
    /\ wakes' = IF PumpAlive /\ wakeFn = starts /\ ~quit THEN wakes + 1 ELSE wakes
    /\ pc' = [pc EXCEPT ![p] = "idle"]
    /\ UNCHANGED <<mailboxVars, quit, cmd, cls, posts, classified, config, due, hookVars, lifeVars>>

PostStep(p) ==
    PublishFocus(p) \/ SetBit(p) \/ ExchangeLatch(p) \/ FireWake(p)

(***************************************************************************)
(* The hook thread: pump, keyboard callback and drain.                     *)
(***************************************************************************)

\* The pump retrieves messages only between callbacks and its own posts.
AtPump == hookPc = "pump" /\ pc[Hook] = "idle"

\* GetMessageW returned WM_APP_HOOK_COMMAND: drainFn_().
PumpCommand ==
    /\ AtPump /\ wakes > 0
    /\ wakes' = wakes - 1
    /\ hookPc' = "clear" /\ keyEvent' = FALSE
    /\ UNCHANGED <<mailboxVars, quit, postVars, taken, deferred, count, engineConfig,
                   dropped, applied, lifeVars>>

\* LowLevelKeyboardProc for a real key: drain before the key is classified.
KeyEvent ==
    /\ AtPump
    /\ hookPc' = "clear" /\ keyEvent' = TRUE
    /\ UNCHANGED <<mailboxVars, queueVars, postVars, taken, deferred, count,
                   engineConfig, dropped, applied, lifeVars>>

\* LowLevelMouseProc: a click resets the composition and drains nothing.
MouseDown ==
    /\ AtPump
    /\ count > 0 /\ count' = 0
    /\ UNCHANGED <<mailboxVars, queueVars, postVars, hookPc, keyEvent, taken, deferred,
                   engineConfig, dropped, applied, lifeVars>>

\* Faulty variant: the drain leaves the latch set.
ClearLatchForgotten ==
    /\ hookPc = "clear"
    /\ hookPc' = "take"
    /\ UNCHANGED <<mailboxVars, queueVars, postVars, keyEvent, taken, deferred, count,
                   engineConfig, dropped, applied, lifeVars>>

\* DrainBits, first operation: wakePosted_.store(false).
ClearLatch ==
    /\ hookPc = "clear"
    /\ wakePosted' = FALSE
    /\ hookPc' = "take"
    /\ UNCHANGED <<bits, pendingFocus, wakeFn, queueVars, postVars, keyEvent, taken,
                   deferred, count, engineConfig, dropped, applied, lifeVars>>

\* Where DrainHookCommands returns to.
AfterDrain == IF keyEvent THEN "key" ELSE "pump"

\* Faulty variant: the latch of an earlier drain is overwritten.
TakeBitsForgetsDeferred ==
    /\ hookPc = "take"
    /\ taken' = bits /\ bits' = {}
    /\ deferred' = ("config" \in bits)
    /\ hookPc' = IF bits = {} /\ ~deferred THEN AfterDrain ELSE "focus"
    /\ UNCHANGED <<pendingFocus, wakePosted, wakeFn, queueVars, postVars, keyEvent,
                   count, engineConfig, dropped, applied, lifeVars>>

\* DrainBits, second operation, the early return and the kConfigApply latch.
TakeBits ==
    /\ hookPc = "take"
    /\ taken' = bits /\ bits' = {}
    /\ deferred' = (deferred \/ "config" \in bits)
    /\ hookPc' = IF bits = {} /\ ~deferred THEN AfterDrain ELSE "focus"
    /\ UNCHANGED <<pendingFocus, wakePosted, wakeFn, queueVars, postVars, keyEvent,
                   count, engineConfig, dropped, applied, lifeVars>>

\* kFocusChanged: consume the snapshot; a null one is ignored, any other
\* resets the composition and may, for an application with an input method of
\* its own, create engine_ again.
DrainFocus ==
    /\ hookPc = "focus"
    /\ IF "focus" \in taken
         THEN /\ pendingFocus' = NoFocus
              /\ IF pendingFocus = NoFocus
                   THEN UNCHANGED <<applied, count, engineConfig>>
                   ELSE /\ applied' = pendingFocus /\ count' = 0
                        /\ engineConfig' \in {engineConfig, config}
         ELSE UNCHANGED <<pendingFocus, applied, count, engineConfig>>
    /\ hookPc' = "tick"
    /\ UNCHANGED <<bits, wakePosted, wakeFn, queueVars, postVars, keyEvent, taken,
                   deferred, dropped, lifeVars>>

\* kTickPoll: CheckLayoutChange commits the word when a CJK layout came up.
DrainTick ==
    /\ hookPc = "tick"
    /\ count' \in IF "tick" \in taken THEN {count, 0} ELSE {count}
    /\ hookPc' = "toggle"
    /\ UNCHANGED <<mailboxVars, queueVars, postVars, keyEvent, taken, deferred,
                   engineConfig, dropped, applied, lifeVars>>

\* kToggleVN: the word is committed unless the toggle is blocked or suppressed.
DrainToggle ==
    /\ hookPc = "toggle"
    /\ count' \in IF "toggle" \in taken THEN {count, 0} ELSE {count}
    /\ hookPc' = "config"
    /\ UNCHANGED <<mailboxVars, queueVars, postVars, keyEvent, taken, deferred,
                   engineConfig, dropped, applied, lifeVars>>

\* Faulty variant: the apply of the drained bit, word in progress or not.
DrainConfigAtOnce ==
    /\ hookPc = "config"
    /\ IF "config" \in taken
         THEN deferred' = FALSE /\ engineConfig' = config
         ELSE UNCHANGED <<deferred, engineConfig>>
    /\ taken' = {}
    /\ hookPc' = AfterDrain
    /\ UNCHANGED <<mailboxVars, queueVars, postVars, keyEvent, count, dropped, applied, lifeVars>>

\* The deferred config apply: only with no word in progress is engine_
\* created again, with whatever config_ holds now.
DrainConfig ==
    /\ hookPc = "config"
    /\ IF deferred /\ count = 0
         THEN deferred' = FALSE /\ engineConfig' = config
         ELSE UNCHANGED <<deferred, engineConfig>>
    /\ taken' = {}
    /\ hookPc' = AfterDrain
    /\ UNCHANGED <<mailboxVars, queueVars, postVars, keyEvent, count, dropped, applied, lifeVars>>

\* A handler of a command throws: the rest of the drain is skipped; the keyboard
\* callback also resets the composition.
DrainThrows ==
    /\ hookPc \in {"focus", "tick", "toggle"}
    /\ count' \in IF keyEvent THEN {0} ELSE {count, 0}
    /\ pendingFocus' = IF hookPc = "focus" /\ "focus" \in taken THEN NoFocus ELSE pendingFocus
    /\ applied' = IF pendingFocus' # pendingFocus THEN pendingFocus ELSE applied
    /\ taken' = {}
    /\ hookPc' = "pump"
    /\ UNCHANGED <<bits, wakePosted, wakeFn, queueVars, postVars, keyEvent, deferred,
                   engineConfig, dropped, lifeVars>>

\* ApplyConfigOnHookThread throws while it copies the configuration or creates
\* the engine: the latch was cleared before, and engine_ stays as it is.
ConfigThrows ==
    /\ hookPc = "config" /\ deferred /\ count = 0
    /\ deferred' = FALSE /\ dropped' = config
    /\ taken' = {}
    /\ hookPc' = "pump"
    /\ UNCHANGED <<mailboxVars, queueVars, postVars, keyEvent, count, engineConfig,
                   applied, lifeVars>>

\* ProcessKeyDown: a letter, a backspace, a commit or a passed-through key.
ProcessKey ==
    /\ hookPc = "key"
    /\ count' \in {count, 0} \cup {n \in 0..MaxCount : n = count + 1 \/ n + 1 = count}
    /\ hookPc' = "pump"
    /\ UNCHANGED <<mailboxVars, queueVars, postVars, keyEvent, taken, deferred,
                   engineConfig, dropped, applied, lifeVars>>

(***************************************************************************)
(* HookLifecycle.                                                          *)
(***************************************************************************)

\* HookEngine::Start creates the engine and HookLifecycle::Start the thread.
Start ==
    /\ life = "down" /\ starts < MaxStarts
    /\ life' = "starting" /\ starts' = starts + 1
    /\ engineConfig' = config
    /\ hookPc' = "boot"
    /\ count' = 0
    /\ UNCHANGED <<mailboxVars, queueVars, postVars, keyEvent, taken, deferred, dropped, applied>>

\* ThreadProc: publish the thread id and wire the wake trampoline.
Boot ==
    /\ hookPc = "boot"
    /\ wakeFn' = starts
    /\ hookPc' = "install"
    /\ UNCHANGED <<bits, pendingFocus, wakePosted, queueVars, postVars, keyEvent, taken,
                   deferred, count, engineConfig, dropped, applied, lifeVars>>

\* ThreadProc: SetWindowsHookExW; the ready flag lets Start return true.
InstallHooks ==
    /\ hookPc = "install"
    /\ hookPc' = "pump" /\ life' = "up"
    /\ UNCHANGED <<mailboxVars, queueVars, postVars, keyEvent, taken, deferred, count,
                   engineConfig, dropped, applied, starts>>

\* ThreadProc: SetWindowsHookExW failed; the thread ends and Start returns false.
InstallFails ==
    /\ hookPc = "install"
    /\ hookPc' = "none" /\ life' = "down"
    /\ UNCHANGED <<mailboxVars, queueVars, postVars, keyEvent, taken, deferred, count,
                   engineConfig, dropped, applied, starts>>

\* HookLifecycle::Stop, first half: PostThreadMessage(WM_QUIT), then join.
\* main.cpp has stopped the producers by then.
StopRequest ==
    /\ life = "up"
    /\ \A p \in Producers : pc[p] = "idle"
    /\ life' = "joining" /\ quit' = TRUE
    /\ UNCHANGED <<mailboxVars, wakes, postVars, hookVars, starts>>

\* The pump retrieves WM_QUIT, unhooks and the thread ends.
PumpQuit ==
    /\ AtPump /\ quit /\ wakes = 0
    /\ hookPc' = "none" /\ quit' = FALSE
    /\ UNCHANGED <<mailboxVars, wakes, postVars, keyEvent, taken, deferred, count,
                   engineConfig, dropped, applied, lifeVars>>

\* HookLifecycle::Stop after the join: mailbox_.ResetLatch(), two stores.
ResetBits ==
    /\ life = "joining" /\ hookPc = "none"
    /\ bits' = {}
    /\ life' = "reset"
    /\ UNCHANGED <<pendingFocus, wakePosted, wakeFn, queueVars, postVars, hookVars, starts>>

ResetLatch ==
    /\ life = "reset"
    /\ wakePosted' = FALSE
    /\ life' = "down"
    /\ UNCHANGED <<bits, pendingFocus, wakeFn, queueVars, postVars, hookVars, starts>>

HookStep ==
    \/ PumpCommand \/ ClearLatch \/ TakeBits
    \/ DrainFocus \/ DrainTick \/ DrainToggle \/ DrainConfig \/ ProcessKey
    \/ Boot \/ InstallHooks \/ PumpQuit

StopStep == ResetBits \/ ResetLatch

Environment ==
    \/ KeyEvent \/ MouseDown \/ DrainThrows \/ ConfigThrows \/ InstallFails
    \/ Start \/ StopRequest
    \/ \E p \in Producers : PublishSilently(p)
    \/ \E p \in Posters, c \in Commands : BeginPost(p, c)

MailboxNext ==
    \/ HookStep
    \/ StopStep
    \/ Environment
    \/ \E p \in Posters : PostStep(p)

\* The scheduler runs the hook thread, the thread inside Stop and every thread
\* inside Post.  Nothing obliges the user to press a key, or a producer to
\* begin a post.
MailboxFairness ==
    /\ WF_channelVars(HookStep) /\ WF_channelVars(StopStep)
    /\ \A p \in Posters : WF_channelVars(PostStep(p))

MailboxSpec == MailboxInit /\ [][MailboxNext]_channelVars /\ MailboxFairness

-----------------------------------------------------------------------------
(***************************************************************************)
(* Properties.                                                             *)
(***************************************************************************)

\* The type of every variable.
MailboxTypeOK ==
    /\ bits \in SUBSET Commands /\ pendingFocus \in Nat
    /\ wakePosted \in BOOLEAN /\ wakeFn \in Nat
    /\ wakes \in Nat /\ quit \in BOOLEAN
    /\ pc \in [Posters -> {"idle", "publish", "setbit", "latch", "wake"}]
    /\ cmd \in [Posters -> Commands]
    /\ hookPc \in {"none", "boot", "install", "pump", "clear", "take", "focus", "tick",
                   "toggle", "config", "key"}
    /\ keyEvent \in BOOLEAN /\ taken \in SUBSET Commands
    /\ deferred \in BOOLEAN /\ count \in Nat
    /\ config \in Nat /\ due \in Nat /\ engineConfig \in Nat /\ dropped \in Nat
    /\ life \in {"down", "starting", "up", "joining", "reset"} /\ starts \in Nat
    /\ posts \in Nat /\ applied \in Nat
    /\ cls \in [Posters -> Nat] /\ classified \in Nat

\* The mailbox's contract ("no stranded bits"): while the hook thread serves
\* its pump, a command in bits_ is on its way to a drain - a wake is queued, a
\* drain is about to exchange the bits, or its poster has yet to test the latch
\* or fire the wake.  No keystroke is needed to find it.
NoStrandedCommand ==
    life = "up" /\ bits # {} =>
        \/ wakes > 0
        \/ hookPc \in {"clear", "take"}
        \/ \E p \in Posters : pc[p] \in {"latch", "wake"}

\* What ResetLatch is for: in a restarted lifecycle a set latch means a wake is
\* on its way, so that "a stale wakePosted_ cannot suppress the FIRST Post's
\* wake after a subsequent Start".
LatchFreshAfterRestart ==
    life = "up" /\ starts > 1 /\ wakePosted =>
        \/ wakes > 0
        \/ hookPc = "clear"
        \/ \E p \in Posters : pc[p] = "wake"

\* A published focus snapshot can still be reached: its bit is set, was taken
\* by a drain that has yet to consume it, or is about to be set.  Otherwise
\* the hook thread would keep another window's classification.  ResetLatch
\* clears the bits and not the snapshot, so this is about a running pump.
FocusReachable ==
    life = "up" /\ starts = 1 /\ pendingFocus # NoFocus =>
        \/ "focus" \in bits
        \/ "focus" \in taken /\ hookPc = "focus"
        \/ \E p \in Posters : cmd[p] = "focus" /\ pc[p] = "setbit"

\* "Later wins": no window's classification is applied after that of a window
\* focused later.  It rests on one thread classifying and posting: with two,
\* the older snapshot could be stored last.
FocusNeverGoesBack == [][applied' >= applied]_channelVars

\* A published config is never lost: while engine_ runs one older than the last
\* its publisher posts for, the apply is deferred, posted, or about to be posted,
\* however posts coalesce, however often a word in progress defers it and whatever
\* handler of a command throws before it.  The one way to lose it is an exception
\* in the apply itself, which has cleared the latch by then; that of a config
\* published later repairs this.
ConfigNotLost ==
    life = "up" /\ engineConfig < due /\ dropped < due =>
        \/ deferred
        \/ "config" \in bits
        \/ \E p \in Posters : cmd[p] = "config" /\ pc[p] = "setbit"

\* P3f: while the hook runs, engine_ is never recreated with a word in
\* progress, whatever the handlers that ran before in the same drain did; the
\* focus handler resets the word before it creates the engine.
NoMidWordSwap ==
    [][engineConfig' # engineConfig /\ life = "up" => count' = 0]_channelVars

\* Every posted command is eventually drained with no keystroke to help.
CommandsDrained == \A c \in Commands : (c \in bits) ~> (c \notin bits)
=============================================================================

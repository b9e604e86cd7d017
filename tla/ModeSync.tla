------------------------------ MODULE ModeSync ------------------------------
(***************************************************************************)
(* Who decides whether the user types Vietnamese.                          *)
(*                                                                         *)
(* vietnameseMode_ is written by the hook thread - the user's toggle, the  *)
(* per-application locks, smart switch, the CJK layout switch - and by the *)
(* worker, whose tick copies VIETNAMESE_MODE out of the shared state.      *)
(* Every change of the mode is shown: NotifyModeChange computes what the   *)
(* tray icon says and stores that into VIETNAMESE_MODE, which the TSF DLL  *)
(* toggles too.                                                            *)
(*                                                                         *)
(* The command mailbox is the one HookMailbox shows it to be: a drain      *)
(* takes the last snapshot and the bits posted since the one before.  A    *)
(* handler is one step up to each of its notifications, which are two      *)
(* steps; OnTickPoll's read of the shared flags and its store are two.     *)
(* Processes stand for their executables.  The lists are those of one      *)
(* configuration.  The flags of tsfModeCallback_, which only the DLLs      *)
(* read, and the output settings of the focused window are left out.       *)
(***************************************************************************)
EXTENDS Naturals, FiniteSets

CONSTANTS
    Apps,           \* executables
    NoApp,          \* the empty name
    Excluded,       \* excludedAppSet
    Forced,         \* forcedVietnameseAppSet
    Tsf,            \* tsfAppSet
    CjkApps,        \* applications whose keyboard layout is a CJK one at first
    HelperApps,     \* applications that show helper windows (skipAppTracking)
    SmartSwitch,    \* TypingConfig::smartSwitch
    CjkAutoSwitch,  \* TypingConfig::cjkAutoSwitch
    MaxEntries,     \* kMaxSmartSwitchEntries
    MaxWindows,     \* bound on the windows that come to the foreground
    MaxToggles,     \* bound on the toggles, the DLL's included
    MaxLayouts,     \* bound on the changes of a keyboard layout
    MaxTips,        \* bound on the changes of TSF_TIP_ACTIVE
    MaxEvents       \* bound on all of these together

ASSUME AppsAssumption == NoApp \notin Apps
ASSUME ListsAssumption ==
    /\ Excluded \cup Forced \cup Tsf \cup CjkApps \cup HelperApps \subseteq Apps
    /\ Excluded \cap (Forced \cup Tsf) = {}
ASSUME SwitchAssumption == {SmartSwitch, CjkAutoSwitch} \subseteq BOOLEAN
ASSUME BoundsAssumption ==
    {MaxEntries, MaxWindows, MaxToggles, MaxLayouts, MaxTips, MaxEvents} \subseteq Nat

Windows == {w \in [app : Apps, helper : BOOLEAN] : w.helper => w.app \in HelperApps}
Threads == {"hook", "worker"}

VARIABLES
    foreground,  \* the foreground window
    cjkApps,     \* applications whose keyboard layout is a CJK one
    tip,         \* TSF_TIP_ACTIVE
    sharedVn,    \* VIETNAMESE_MODE, which is what the tray icon shows
    left,        \* what the environment may still do: windows, toggles, layouts, tips
    mode,        \* vietnameseMode_
    lock,        \* isExcludedApp_, isForcedVnApp_, isTsfApp_
    pids,        \* excludedPid_, forcedVnPid_, lastForegroundPid_
    exe,         \* activeExe_ and lastRealExe_
    appModes,    \* appModeMap_
    cjk,         \* layoutSuppressed_, modeBeforeCjk_, cachedIsCompatLayout_
    latch,       \* pendingClassifyHwnd_: no window or one
    pending,     \* pendingFocus_ with its bit: no window or one
    bits,        \* the tick and toggle bits of the mailbox
    hookPc,      \* where the hook thread's drain is
    taken,       \* the bits and the snapshot the drain took
    workerPc,    \* where the worker's tick is
    seen,        \* the shared flags the tick has read
    lastTip,     \* lastFlags_, TSF_TIP_ACTIVE
    notify,      \* notify[t]: where t is inside NotifyModeChange
    show,        \* show[t]: the display mode t has computed
    choice,      \* the mode last decided: on the hook thread, or by the DLL's toggle
    leftIn,      \* the application in lastRealExe_ that was left last, and its mode then
    unfollowed,  \* a lock was dropped as stale, and no layout check ran since
    touched      \* applications a toggle was saved for, or whose lock was stale

envVars    == <<foreground, cjkApps, left, leftIn>>
ipcVars    == <<tip, sharedVn>>
focusVars  == <<lock, pids, exe, appModes>>
postVars   == <<latch, pending, bits>>
hookVars   == <<hookPc, taken>>
workerVars == <<workerPc, seen, lastTip>>
noteVars   == <<notify, show>>
ghostVars  == <<choice, unfollowed, touched>>
vars == <<envVars, ipcVars, mode, focusVars, cjk, postVars, hookVars, workerVars,
          noteVars, ghostVars>>

None == [tick |-> FALSE, toggle |-> FALSE, focus |-> {}]
Unread == [vn |-> FALSE, tip |-> FALSE]

Init ==
    /\ foreground \in Windows /\ cjkApps = CjkApps
    /\ ~foreground.helper /\ foreground.app \notin CjkApps
    /\ tip = FALSE /\ sharedVn \in BOOLEAN /\ mode = sharedVn
    /\ left = [windows |-> MaxWindows, toggles |-> MaxToggles,
               layouts |-> MaxLayouts, tips |-> MaxTips, events |-> MaxEvents]
    /\ lock = [excluded |-> FALSE, forced |-> FALSE, tsf |-> FALSE]
    /\ pids = [excluded |-> NoApp, forced |-> NoApp, last |-> NoApp]
    /\ exe = [active |-> NoApp, real |-> NoApp]
    /\ appModes = [a \in {} |-> FALSE]
    /\ cjk = [suppressed |-> FALSE, before |-> TRUE, compat |-> TRUE]
    /\ latch = {} /\ pending = {} /\ bits = {}
    /\ hookPc = "idle" /\ taken = None
    /\ workerPc = "idle" /\ seen = Unread /\ lastTip = FALSE
    /\ notify = [t \in Threads |-> "no"] /\ show = [t \in Threads |-> FALSE]
    /\ choice = mode /\ leftIn = [app |-> NoApp, mode |-> mode] /\ unfollowed = FALSE /\ touched = {}

-----------------------------------------------------------------------------
(***************************************************************************)
(* NotifyModeChange.                                                       *)
(***************************************************************************)

\* A handler of t goes on once its notification, if it made one, is done.
At(t, pc, here) == pc = here /\ notify[t] = "no"

Notify(t, needed) ==
    /\ notify' = [notify EXCEPT ![t] = IF needed THEN "compute" ELSE @]
    /\ UNCHANGED show

\* Excluded applications show E, forced ones V, and a TSF application E while
\* the VKey TIP is not the active input processor.
Display ==
    /\ lock.forced \/ (~lock.excluded /\ mode)
    /\ lock.tsf => tip

ComputeDisplay(t) ==
    /\ notify[t] = "compute"
    /\ show' = [show EXCEPT ![t] = Display]
    /\ notify' = [notify EXCEPT ![t] = "publish"]
    /\ UNCHANGED <<envVars, ipcVars, mode, focusVars, cjk, postVars, hookVars, workerVars,
                   ghostVars>>

\* modeChangeCallback_: SetOrClearFlag(VIETNAMESE_MODE, display).
PublishDisplay(t) ==
    /\ notify[t] = "publish"
    /\ sharedVn' = show[t]
    /\ notify' = [notify EXCEPT ![t] = "no"] /\ show' = [show EXCEPT ![t] = FALSE]
    /\ UNCHANGED <<envVars, tip, mode, focusVars, cjk, postVars, hookVars, workerVars,
                   ghostVars>>

-----------------------------------------------------------------------------
(***************************************************************************)
(* The user, the system and the TSF DLL.                                   *)
(***************************************************************************)

Spend(what) ==
    /\ left[what] > 0 /\ left.events > 0
    /\ left' = [left EXCEPT ![what] = @ - 1, !.events = @ - 1]

\* A window comes to the foreground; its WinEvent is latched, or missed.
ShowWindow(w) ==
    /\ w # foreground /\ Spend("windows")
    /\ foreground' = w
    /\ latch' \in {{w}, latch}
    /\ leftIn' = IF foreground.app = exe.real /\ w.app # exe.real
                   THEN [app |-> exe.real, mode |-> mode]
                   ELSE leftIn
    /\ UNCHANGED <<cjkApps, ipcVars, mode, focusVars, cjk, pending, bits, hookVars, workerVars,
                   noteVars, ghostVars>>

\* The user changes the keyboard layout of the application in front.
SwitchLayout ==
    /\ Spend("layouts")
    /\ cjkApps' = IF foreground.app \in cjkApps THEN cjkApps \ {foreground.app}
                                                ELSE cjkApps \cup {foreground.app}
    /\ UNCHANGED <<foreground, leftIn, ipcVars, mode, focusVars, cjk, postVars, hookVars,
                   workerVars, noteVars, ghostVars>>

\* SetTsfTipActive, in the DLL.
TipChanges ==
    /\ Spend("tips")
    /\ tip' = ~tip
    /\ UNCHANGED <<foreground, cjkApps, leftIn, sharedVn, mode, focusVars, cjk, postVars,
                   hookVars, workerVars, noteVars, ghostVars>>

\* EngineController::ToggleVietnameseMode: the DLL's language bar button.
DllToggle ==
    /\ tip /\ Spend("toggles")
    /\ sharedVn' = ~sharedVn /\ choice' = ~sharedVn
    /\ UNCHANGED <<foreground, cjkApps, leftIn, tip, mode, focusVars, cjk, postVars, hookVars,
                   workerVars, noteVars, unfollowed, touched>>

\* HookEngine::ToggleVietnameseMode: a hotkey, the tray menu, the settings.
PostToggle ==
    /\ Spend("toggles")
    /\ bits' = bits \cup {"toggle"}
    /\ UNCHANGED <<foreground, cjkApps, leftIn, ipcVars, mode, focusVars, cjk, latch, pending,
                   hookVars, workerVars, noteVars, ghostVars>>

Environment ==
    \/ \E w \in Windows : ShowWindow(w)
    \/ SwitchLayout \/ TipChanges \/ DllToggle \/ PostToggle

-----------------------------------------------------------------------------
(***************************************************************************)
(* The hook thread: the drain and its handlers, in their order.            *)
(***************************************************************************)

CompatNow == foreground.app \notin cjkApps
PerAppFeatures == SmartSwitch \/ Excluded \cup Forced \cup Tsf # {}
Put(m, a, v) == [b \in DOMAIN m \cup {a} |-> IF b = a THEN v ELSE m[b]]

\* DrainHookCommands.
Drain ==
    /\ At("hook", hookPc, "idle") /\ (bits # {} \/ pending # {})
    /\ taken' = [tick |-> "tick" \in bits, toggle |-> "toggle" \in bits, focus |-> pending]
    /\ bits' = {} /\ pending' = {}
    /\ hookPc' = IF pending # {} THEN "layout" ELSE "tick"
    /\ UNCHANGED <<envVars, ipcVars, mode, focusVars, cjk, latch, workerVars, noteVars, ghostVars>>

\* OnLayoutChanged with DecideCjkSwitch: leaving and entering a CJK layout,
\* neither while a lock owns the mode.
Enters(compat) ==
    CjkAutoSwitch /\ ~lock.excluded /\ ~lock.forced /\ ~compat /\ ~cjk.suppressed
Leaves(compat) ==
    CjkAutoSwitch /\ ~lock.excluded /\ ~lock.forced /\ compat /\ cjk.suppressed

OnLayoutChanged(compat) ==
    /\ mode' = CASE Enters(compat) -> FALSE
                 [] Leaves(compat) -> cjk.before
                 [] OTHER -> mode
    /\ cjk' = [suppressed |-> (cjk.suppressed \/ Enters(compat)) /\ ~Leaves(compat),
               before |-> IF Enters(compat) THEN mode ELSE cjk.before,
               compat |-> compat]
    /\ choice' = IF mode' = mode THEN choice ELSE mode'
    /\ unfollowed' = (unfollowed /\ (lock.excluded \/ lock.forced))

LayoutNotifies(compat) == (Enters(compat) /\ mode) \/ Leaves(compat)

CheckLayoutChange ==
    IF CompatNow = cjk.compat
      THEN UNCHANGED <<mode, cjk, noteVars, choice, unfollowed>>
      ELSE OnLayoutChanged(CompatNow) /\ Notify("hook", LayoutNotifies(CompatNow))

Snapshot == CHOOSE w \in taken.focus : TRUE

\* ApplyFocusOnHookThread up to the early returns for helper windows and for
\* configurations without per-application features.
FocusLayout ==
    /\ At("hook", hookPc, "layout")
    /\ CheckLayoutChange
    /\ exe' = [exe EXCEPT !.active = Snapshot.app]
    /\ hookPc' = IF Snapshot.helper \/ ~PerAppFeatures THEN "tick" ELSE "apps"
    /\ UNCHANGED <<envVars, ipcVars, lock, pids, appModes, postVars, taken, workerVars, touched>>

\* Faulty variant: the save forgets the locks.
SavedLocked ==
    IF SmartSwitch /\ exe.real # NoApp THEN Put(appModes, exe.real, mode) ELSE appModes

\* The SAVE: the mode is remembered for the application being left.
Saved ==
    IF SmartSwitch /\ exe.real # NoApp /\ ~lock.excluded /\ ~lock.forced
      THEN Put(IF Cardinality(DOMAIN appModes) >= MaxEntries THEN [a \in {} |-> FALSE]
                                                             ELSE appModes,
               exe.real, mode)
      ELSE appModes

\* What every focus on a real window of a stores.
EnterApp(a) ==
    /\ appModes' = Saved
    /\ exe' = [exe EXCEPT !.real = a]
    /\ lock' = [excluded |-> a \in Excluded, forced |-> a \in Forced, tsf |-> a \in Tsf]
    /\ pids' = [excluded |-> IF a \in Excluded THEN a ELSE pids.excluded,
                forced |-> IF a \in Forced THEN a ELSE pids.forced,
                last |-> a]
    /\ UNCHANGED <<envVars, ipcVars, cjk, postVars, taken, workerVars, unfollowed, touched>>

\* ApplyFocusOnHookThread, an excluded application: only the icon changes.
FocusExcluded ==
    /\ At("hook", hookPc, "apps") /\ Snapshot.app \in Excluded
    /\ EnterApp(Snapshot.app)
    /\ Notify("hook", ~lock.excluded)
    /\ hookPc' = "tick"
    /\ UNCHANGED <<mode, choice>>

\* The mode of the application that is entered: locked, remembered, inherited.
ModeFor(a) ==
    CASE a \in Forced -> TRUE
      [] a \notin Forced /\ SmartSwitch /\ a \in DOMAIN Saved -> Saved[a]
      [] OTHER -> mode

\* ApplyFocusOnHookThread, any other application.
FocusIncluded ==
    /\ At("hook", hookPc, "apps") /\ Snapshot.app \notin Excluded
    /\ EnterApp(Snapshot.app)
    /\ mode' = ModeFor(Snapshot.app)
    /\ choice' = IF mode' = mode THEN choice ELSE mode'
    /\ Notify("hook", mode' # mode)
    /\ hookPc' = IF lock.excluded \/ lock.forced THEN "replay" ELSE "tick"

\* Faulty variant: leaving a lock replays nothing.
ReplayNotifyOnly ==
    /\ At("hook", hookPc, "replay")
    /\ Notify("hook", TRUE)
    /\ hookPc' = "tick"
    /\ UNCHANGED <<envVars, ipcVars, mode, focusVars, cjk, postVars, taken, workerVars, ghostVars>>

\* Leaving a lock: the layout check it gated off is made now.
Replay ==
    /\ At("hook", hookPc, "replay")
    /\ OnLayoutChanged(cjk.compat)
    /\ Notify("hook", LayoutNotifies(cjk.compat) \/ cjk'.suppressed = cjk.suppressed)
    /\ hookPc' = "tick"
    /\ UNCHANGED <<envVars, ipcVars, focusVars, postVars, taken, workerVars, touched>>

\* DrainHookCommands returns; what it took is dead.
DrainDone == hookPc' = "idle" /\ taken' = None

\* ApplyTickPollOnHookThread.
ApplyTick ==
    /\ At("hook", hookPc, "tick")
    /\ IF taken.tick THEN CheckLayoutChange
                     ELSE UNCHANGED <<mode, cjk, noteVars, choice, unfollowed>>
    /\ IF taken.toggle THEN hookPc' = "toggle" /\ UNCHANGED taken ELSE DrainDone
    /\ UNCHANGED <<envVars, ipcVars, focusVars, postVars, workerVars, touched>>

ToggleDone ==
    /\ DrainDone
    /\ UNCHANGED <<envVars, ipcVars, cjk, postVars, workerVars>>

GenuinelyExcluded == lock.excluded /\ foreground.app = pids.excluded
GenuinelyForced == lock.forced /\ foreground.app = pids.forced

\* ApplyToggleVNOnHookThread: the toggle is blocked in a locked application.
ToggleBlocked ==
    /\ At("hook", hookPc, "toggle")
    /\ GenuinelyExcluded \/ (~lock.excluded /\ GenuinelyForced)
    /\ ToggleDone
    /\ UNCHANGED <<mode, focusVars, noteVars, ghostVars>>

\* The user has left the excluded application already: Vietnamese.
ToggleStaleExcluded ==
    /\ At("hook", hookPc, "toggle")
    /\ lock.excluded /\ ~GenuinelyExcluded
    /\ lock' = [lock EXCEPT !.excluded = FALSE]
    /\ mode' = TRUE /\ choice' = TRUE
    /\ unfollowed' = TRUE /\ touched' = touched \cup {exe.real}
    /\ Notify("hook", TRUE)
    /\ ToggleDone
    /\ UNCHANGED <<pids, exe, appModes>>

\* The toggle, remembered for the application in activeExe_.
ToggleMode ==
    /\ At("hook", hookPc, "toggle")
    /\ ~lock.excluded /\ ~GenuinelyForced
    /\ lock' = [lock EXCEPT !.forced = FALSE]
    /\ mode' = ~mode /\ choice' = ~mode
    /\ appModes' = IF SmartSwitch /\ exe.active # NoApp THEN Put(appModes, exe.active, ~mode)
                                                        ELSE appModes
    /\ unfollowed' = (unfollowed \/ lock.forced)
    /\ touched' = touched \cup {exe.active} \cup (IF lock.forced THEN {exe.real} ELSE {})
    /\ Notify("hook", TRUE)
    /\ ToggleDone
    /\ UNCHANGED <<pids, exe>>

\* RunTopGuards for a key while the application counts as excluded and the
\* process in front is another one: VerifyExcludedState.
KeyWhileExcluded ==
    /\ At("hook", hookPc, "idle") /\ bits = {} /\ pending = {}
    /\ ~lock.tsf /\ lock.excluded /\ foreground.app # pids.excluded
    /\ LET still == foreground.app \in Excluded IN
         /\ lock' = [lock EXCEPT !.excluded = still]
         /\ pids' = [pids EXCEPT !.excluded = IF still THEN foreground.app ELSE NoApp]
         /\ unfollowed' = (unfollowed \/ ~still)
         /\ touched' = IF still THEN touched ELSE touched \cup {exe.real}
         /\ Notify("hook", ~still)
    /\ UNCHANGED <<envVars, ipcVars, mode, exe, appModes, cjk, postVars, hookVars, workerVars,
                   choice>>

HookStep ==
    \/ Drain \/ FocusLayout \/ FocusExcluded \/ FocusIncluded \/ Replay
    \/ ApplyTick \/ ToggleBlocked \/ ToggleStaleExcluded \/ ToggleMode
    \/ ComputeDisplay("hook") \/ PublishDisplay("hook")

-----------------------------------------------------------------------------
(***************************************************************************)
(* The worker.                                                             *)
(***************************************************************************)

\* DrainClassifyOnWorker: the latched window is classified and posted.
ClassifyLatched ==
    /\ At("worker", workerPc, "idle") /\ latch # {}
    /\ pending' = latch /\ latch' = {}
    /\ UNCHANGED <<envVars, ipcVars, mode, focusVars, cjk, bits, hookVars, workerVars, noteVars,
                   ghostVars>>

\* Faulty variant: the poll puts the process on record and classifies nothing.
TickPostOnlyRecords ==
    /\ At("worker", workerPc, "idle")
    /\ bits' = bits \cup {"tick"}
    /\ pids' = [pids EXCEPT !.last = foreground.app]
    /\ workerPc' = "read"
    /\ UNCHANGED <<envVars, ipcVars, mode, lock, exe, appModes, cjk, latch, pending, hookVars,
                   seen, lastTip, noteVars, ghostVars>>

\* OnTickPoll: post the tick, and classify the window in front when its
\* process is not the one on record.
TickPost ==
    /\ At("worker", workerPc, "idle")
    /\ bits' = bits \cup {"tick"}
    /\ pids' = [pids EXCEPT !.last = foreground.app]
    /\ pending' = IF pids.last = foreground.app THEN pending ELSE {foreground}
    /\ workerPc' = "read"
    /\ UNCHANGED <<envVars, ipcVars, mode, lock, exe, appModes, cjk, latch, hookVars, seen,
                   lastTip, noteVars, ghostVars>>

\* OnTickPoll: sharedStatePtr_->Read().
TickRead ==
    /\ At("worker", workerPc, "read")
    /\ seen' = [vn |-> sharedVn, tip |-> tip]
    /\ workerPc' = "sync"
    /\ UNCHANGED <<envVars, ipcVars, mode, focusVars, cjk, postVars, hookVars, lastTip, noteVars,
                   ghostVars>>

\* Faulty variant: the DLL's toggle is not brought over.
TickSyncNever ==
    /\ At("worker", workerPc, "sync")
    /\ workerPc' = "tip"
    /\ UNCHANGED <<envVars, ipcVars, mode, focusVars, cjk, postVars, hookVars, seen, lastTip,
                   noteVars, ghostVars>>

\* OnTickPoll: "DLL may have toggled it".
TickSync ==
    /\ At("worker", workerPc, "sync")
    /\ mode' = seen.vn
    /\ Notify("worker", seen.vn # mode)
    /\ workerPc' = "tip"
    /\ UNCHANGED <<envVars, ipcVars, focusVars, cjk, postVars, hookVars, seen, lastTip, ghostVars>>

\* OnTickPoll: TSF_TIP_ACTIVE has changed since the last tick.
TickTip ==
    /\ At("worker", workerPc, "tip")
    /\ Notify("worker", seen.tip # lastTip)
    /\ lastTip' = seen.tip /\ seen' = Unread
    /\ workerPc' = "idle"
    /\ UNCHANGED <<envVars, ipcVars, mode, focusVars, cjk, postVars, hookVars, ghostVars>>

TickStep ==
    \/ TickPost \/ TickRead \/ TickSync \/ TickTip
    \/ ComputeDisplay("worker") \/ PublishDisplay("worker")

Next == Environment \/ HookStep \/ KeyWhileExcluded \/ ClassifyLatched \/ TickStep

\* The hook thread and the worker are scheduled, and the worker ticks: the user
\* is active (FocusCadence says when it is parked).
Fairness == WF_vars(HookStep) /\ WF_vars(TickStep) /\ SF_vars(ClassifyLatched)

Spec == Init /\ [][Next]_vars /\ Fairness

-----------------------------------------------------------------------------
\* The type of every variable.
TypeOK ==
    /\ foreground \in Windows /\ cjkApps \in SUBSET Apps
    /\ {tip, sharedVn, mode, lastTip, choice, unfollowed} \subseteq BOOLEAN
    /\ left \in [{"windows", "toggles", "layouts", "tips", "events"} -> Nat]
    /\ lock \in [excluded : BOOLEAN, forced : BOOLEAN, tsf : BOOLEAN]
    /\ pids \in [excluded : Apps \cup {NoApp}, forced : Apps \cup {NoApp},
                 last : Apps \cup {NoApp}]
    /\ exe \in [active : Apps \cup {NoApp}, real : Apps \cup {NoApp}]
    /\ DOMAIN appModes \subseteq Apps /\ \A a \in DOMAIN appModes : appModes[a] \in BOOLEAN
    /\ cjk \in [suppressed : BOOLEAN, before : BOOLEAN, compat : BOOLEAN]
    /\ latch \in SUBSET Windows /\ pending \in SUBSET Windows /\ bits \subseteq {"tick", "toggle"}
    /\ hookPc \in {"idle", "layout", "apps", "replay", "tick", "toggle"}
    /\ taken \in [tick : BOOLEAN, toggle : BOOLEAN, focus : SUBSET Windows]
    /\ hookPc \in {"layout", "apps"} => taken.focus # {}
    /\ workerPc \in {"idle", "read", "sync", "tip"} /\ seen \in [vn : BOOLEAN, tip : BOOLEAN]
    /\ notify \in [Threads -> {"no", "compute", "publish"}] /\ show \in [Threads -> BOOLEAN]
    /\ touched \in SUBSET (Apps \cup {NoApp})
    /\ leftIn \in [app : Apps \cup {NoApp}, mode : BOOLEAN]

\* The CJK switch follows the layout: while no lock owns the mode and none was
\* dropped as stale, the mode is suppressed exactly under a CJK layout, also
\* when the layout changed while a lock gated the switch off.
LayoutFollowed ==
    CjkAutoSwitch /\ hookPc # "replay" /\ ~lock.excluded /\ ~lock.forced /\ ~unfollowed
        => (cjk.suppressed <=> ~cjk.compat)

\* The save on leaving an application never remembers the mode of a lock: a
\* locked application is remembered only when a toggle was saved for it, or its
\* lock was dropped as stale before it was left.
LockNotRemembered ==
    \A a \in (Excluded \cup Forced) \cap DOMAIN appModes : a \in touched

\* "lastRealExe_ correctly still points to the app whose mode the engine state
\* corresponds to": what is saved for an application is the mode it was left in.
SavesModeLeft ==
    [][appModes' # appModes /\ exe'.real # exe.real /\ leftIn.app = exe.real
         => appModes'[exe.real] = leftIn.mode]_vars

\* "DLL may have toggled it": the tick changes the mode only to one that the
\* hook thread or the DLL's toggle had decided on.
SyncBringsDecision == [][workerPc = "sync" /\ mode' # mode => mode' = choice]_vars

\* Two threads write the mode and two the flag it is shown by, each from the
\* other's; once nobody touches anything, the icon shows what the locks and the
\* mode say.
IconSettles == <>[](sharedVn = Display)

\* Whatever the interleaving of focus, tick, TIP and the two toggles, the mode
\* and its flag do not chase each other for ever, and the DLL's toggle arrives.
ModesAgree == <>[](sharedVn = mode)

\* An application locked to Vietnamese is typed in Vietnamese in the end, though
\* a tick may have undone the lock's store.
ForcedHolds == <>[]lock.forced => <>[]mode

\* "PID-changed fallback (catches missed/phantom focus events)": the application
\* whose window stays in front becomes the one smart switch and the locks act
\* for, whichever WinEvents were missed.
FocusCatchesUp == <>[](exe.real = foreground.app)

\* Once the environment rests, what several threads write from each other's
\* variables comes to rest too, and in the right place.
Settles == IconSettles /\ ForcedHolds /\ FocusCatchesUp
=============================================================================

--------------------------- MODULE ModeSyncProofs ---------------------------
(***************************************************************************)
(* For any applications, lists and environment: the CJK switch follows the *)
(* layout unless a lock gates it off, and the mode of a locked application *)
(* is remembered only where a toggle or a stale lock lets it in.           *)
(***************************************************************************)
EXTENDS ModeSync, TLAPS

\* The application that is in front for smart switch has the lock its lists
\* give it, or has lost it as stale.
LockInv ==
    /\ exe.real \in Excluded => lock.excluded \/ exe.real \in touched
    /\ exe.real \in Forced => lock.forced \/ exe.real \in touched

Inv == TypeOK /\ LockInv /\ LockNotRemembered /\ LayoutFollowed

LEMMA InvInit == Init => Inv
<1> SUFFICES ASSUME Init PROVE Inv
  OBVIOUS
<1> USE AppsAssumption, ListsAssumption DEF Init
<1>1. TypeOK
  <2>1. left \in [{"windows", "toggles", "layouts", "tips", "events"} -> Nat]
    BY BoundsAssumption
  <2>2. /\ lock \in [excluded : BOOLEAN, forced : BOOLEAN, tsf : BOOLEAN]
        /\ cjk \in [suppressed : BOOLEAN, before : BOOLEAN, compat : BOOLEAN]
        /\ exe \in [active : Apps \cup {NoApp}, real : Apps \cup {NoApp}]
        /\ pids \in [excluded : Apps \cup {NoApp}, forced : Apps \cup {NoApp},
                     last : Apps \cup {NoApp}]
    OBVIOUS
  <2>3. {tip, sharedVn, mode, lastTip, choice, unfollowed} \subseteq BOOLEAN
    OBVIOUS
  <2>4. leftIn \in [app : Apps \cup {NoApp}, mode : BOOLEAN]
    OBVIOUS
  <2>5. taken \in [tick : BOOLEAN, toggle : BOOLEAN, focus : SUBSET Windows]
    BY DEF None
  <2>6. seen \in [vn : BOOLEAN, tip : BOOLEAN] /\ show \in [Threads -> BOOLEAN]
    BY DEF Unread
  <2>7. notify \in [Threads -> {"no", "compute", "publish"}]
    OBVIOUS
  <2>8. DOMAIN appModes \subseteq Apps /\ \A a \in DOMAIN appModes : appModes[a] \in BOOLEAN
    OBVIOUS
  <2>9. foreground \in Windows /\ cjkApps \in SUBSET Apps
    OBVIOUS
  <2> QED
    BY <2>1, <2>2, <2>3, <2>4, <2>5, <2>6, <2>7, <2>8, <2>9 DEF TypeOK
<1>2. LockInv /\ LockNotRemembered
  BY DEF LockInv, LockNotRemembered
<1>3. LayoutFollowed
  BY DEF LayoutFollowed
<1> QED
  BY <1>1, <1>2, <1>3 DEF Inv

\* A window that was posted is a window.
LEMMA SnapshotType ==
    ASSUME TypeOK, hookPc \in {"layout", "apps"}
    PROVE  Snapshot \in Windows /\ Snapshot.app \in Apps
<1>1. taken.focus # {} /\ taken.focus \subseteq Windows
  BY DEF TypeOK
<1>2. Snapshot \in taken.focus
  BY <1>1 DEF Snapshot
<1> QED
  BY <1>1, <1>2 DEF Windows

\* What a layout check establishes when no lock is in force.
LEMMA LayoutCheck ==
    ASSUME TypeOK, LayoutFollowed, hookPc # "replay", CheckLayoutChange,
           lock' = lock
    PROVE  /\ cjk' \in [suppressed : BOOLEAN, before : BOOLEAN, compat : BOOLEAN]
           /\ mode' \in BOOLEAN /\ unfollowed' \in BOOLEAN
           /\ LayoutFollowed'
<1> USE SwitchAssumption DEF TypeOK
<1>1. CASE CompatNow = cjk.compat
  BY <1>1 DEF CheckLayoutChange, LayoutFollowed
<1>2. CASE CompatNow # cjk.compat
  <2>1. CompatNow \in BOOLEAN
    BY DEF CompatNow
  <2> USE <1>2, <2>1 DEF CheckLayoutChange, OnLayoutChanged, Enters, Leaves
  <2>2. cjk' \in [suppressed : BOOLEAN, before : BOOLEAN, compat : BOOLEAN]
    OBVIOUS
  <2>3. mode' \in BOOLEAN /\ unfollowed' \in BOOLEAN
    OBVIOUS
  <2>4. LayoutFollowed'
    BY DEF LayoutFollowed
  <2> QED
    BY <2>2, <2>3, <2>4
<1> QED
  BY <1>1, <1>2

-----------------------------------------------------------------------------
(* The environment, the notifications and the worker touch neither the locks *)
(* nor the switch.                                                           *)

Untouched ==
    /\ lock' = lock /\ exe'.real = exe.real /\ touched' = touched
    /\ appModes' = appModes /\ cjk' = cjk /\ unfollowed' = unfollowed
    /\ hookPc = "replay" => hookPc' = "replay"

LEMMA UntouchedStep == ASSUME Inv, Untouched, TypeOK' PROVE Inv'
  BY DEF Inv, Untouched, LockInv, LockNotRemembered, LayoutFollowed

LEMMA SpendType ==
    ASSUME TypeOK, NEW what \in {"windows", "toggles", "layouts", "tips"}, Spend(what)
    PROVE  left' \in [{"windows", "toggles", "layouts", "tips", "events"} -> Nat]
<1> DEFINE Keys == {"windows", "toggles", "layouts", "tips", "events"}
<1>1. left \in [Keys -> Nat]
  BY DEF TypeOK
<1>2. left[what] - 1 \in Nat /\ what \in Keys /\ what # "events"
  <2>1. what \in Keys /\ what # "events"
    OBVIOUS
  <2>2. left[what] \in Nat
    BY <1>1, <2>1
  <2>3. left[what] > 0
    BY DEF Spend
  <2> QED
    BY <2>1, <2>2, <2>3
<1>3. left["events"] \in Nat /\ left.events = left["events"]
  BY <1>1
<1>4. left.events > 0
  BY DEF Spend
<1>5. left["events"] - 1 \in Nat
  BY <1>3, <1>4
<1>6. left' = [left EXCEPT ![what] = left[what] - 1, !["events"] = left["events"] - 1]
  BY <1>1, <1>2, <1>3 DEF Spend
<1> HIDE DEF Keys
<1>7. left' \in [Keys -> Nat]
  BY <1>1, <1>2, <1>5, <1>6 DEF Keys
<1> QED
  BY <1>7 DEF Keys

LEMMA EnvironmentStep == ASSUME Inv, Environment PROVE Inv'
<1> USE DEF Inv, vars, envVars, ipcVars, focusVars, postVars, hookVars, workerVars, noteVars,
        ghostVars
<1>1. CASE \E w \in Windows : ShowWindow(w)
  <2>1. PICK w \in Windows : ShowWindow(w)
    BY <1>1
  <2>2. TypeOK'
    BY <2>1, SpendType DEF ShowWindow, TypeOK, Windows
  <2> QED
    BY <2>1, <2>2, UntouchedStep DEF ShowWindow, Untouched
<1>2. CASE SwitchLayout
  <2>1. TypeOK'
    BY <1>2, SpendType DEF SwitchLayout, TypeOK, Windows
  <2> QED
    BY <1>2, <2>1, UntouchedStep DEF SwitchLayout, Untouched
<1>3. CASE TipChanges
  <2>1. TypeOK'
    BY <1>3, SpendType DEF TipChanges, TypeOK
  <2> QED
    BY <1>3, <2>1, UntouchedStep DEF TipChanges, Untouched
<1>4. CASE DllToggle
  <2>1. TypeOK'
    BY <1>4, SpendType DEF DllToggle, TypeOK
  <2> QED
    BY <1>4, <2>1, UntouchedStep DEF DllToggle, Untouched
<1>5. CASE PostToggle
  <2>1. TypeOK'
    BY <1>5, SpendType DEF PostToggle, TypeOK
  <2> QED
    BY <1>5, <2>1, UntouchedStep DEF PostToggle, Untouched
<1> QED
  BY <1>1, <1>2, <1>3, <1>4, <1>5 DEF Environment

LEMMA NotifyType ==
    ASSUME TypeOK, NEW t \in Threads, NEW needed, Notify(t, needed)
    PROVE  notify' \in [Threads -> {"no", "compute", "publish"}] /\ show' \in [Threads -> BOOLEAN]
  BY DEF TypeOK, Notify

LEMMA DisplayStep ==
    ASSUME Inv, NEW t \in Threads, ComputeDisplay(t) \/ PublishDisplay(t) PROVE Inv'
<1> USE DEF Inv, vars, envVars, ipcVars, focusVars, postVars, hookVars, workerVars, noteVars,
        ghostVars
<1>1. CASE ComputeDisplay(t)
  <2>1. Display \in BOOLEAN
    BY DEF Display
  <2>2. TypeOK'
    BY <1>1, <2>1 DEF ComputeDisplay, TypeOK
  <2> QED
    BY <1>1, <2>2, UntouchedStep DEF ComputeDisplay, Untouched
<1>2. CASE PublishDisplay(t)
  <2>1. TypeOK'
    BY <1>2 DEF PublishDisplay, TypeOK
  <2> QED
    BY <1>2, <2>1, UntouchedStep DEF PublishDisplay, Untouched
<1> QED
  BY <1>1, <1>2

LEMMA WorkerStep == ASSUME Inv, TickStep \/ ClassifyLatched PROVE Inv'
<1> USE DEF Inv, vars, envVars, ipcVars, focusVars, postVars, hookVars, workerVars, noteVars,
        ghostVars
<1>0. "worker" \in Threads
  BY DEF Threads
<1>1. CASE TickPost
  <2>1. TypeOK'
    BY <1>1 DEF TickPost, TypeOK, Windows
  <2> QED
    BY <1>1, <2>1, UntouchedStep DEF TickPost, Untouched
<1>2. CASE TickRead
  <2>1. TypeOK'
    BY <1>2 DEF TickRead, TypeOK
  <2> QED
    BY <1>2, <2>1, UntouchedStep DEF TickRead, Untouched
<1>3. CASE TickSync
  <2>1. TypeOK'
    BY <1>0, <1>3, NotifyType DEF TickSync, TypeOK
  <2> QED
    BY <1>3, <2>1, UntouchedStep DEF TickSync, Untouched
<1>4. CASE TickTip
  <2>1. TypeOK'
    BY <1>0, <1>4, NotifyType DEF TickTip, TypeOK, Unread
  <2> QED
    BY <1>4, <2>1, UntouchedStep DEF TickTip, Untouched
<1>5. CASE ClassifyLatched
  <2>1. TypeOK'
    BY <1>5 DEF ClassifyLatched, TypeOK
  <2> QED
    BY <1>5, <2>1, UntouchedStep DEF ClassifyLatched, Untouched
<1> QED
  BY <1>0, <1>1, <1>2, <1>3, <1>4, <1>5, DisplayStep DEF TickStep

-----------------------------------------------------------------------------
(* The hook thread.                                                          *)

\* A map of modes, and what Put and the save make of it.
ModeMap(m) == DOMAIN m \subseteq Apps /\ \A a \in DOMAIN m : m[a] \in BOOLEAN

LEMMA PutType ==
    ASSUME NEW m, ModeMap(m), NEW a \in Apps, NEW v \in BOOLEAN
    PROVE  ModeMap(Put(m, a, v)) /\ DOMAIN Put(m, a, v) = DOMAIN m \cup {a}
  BY DEF ModeMap, Put

LEMMA SavedType ==
    ASSUME TypeOK
    PROVE  /\ ModeMap(Saved)
           /\ \A a \in DOMAIN Saved : \/ a \in DOMAIN appModes
                                      \/ a = exe.real /\ ~lock.excluded /\ ~lock.forced
<1>1. ModeMap(appModes) /\ mode \in BOOLEAN /\ exe.real \in Apps \cup {NoApp}
  BY DEF TypeOK, ModeMap
<1>2. ModeMap([a \in {} |-> FALSE])
  BY DEF ModeMap
<1>3. CASE SmartSwitch /\ exe.real # NoApp /\ ~lock.excluded /\ ~lock.forced
  <2> DEFINE kept == IF Cardinality(DOMAIN appModes) >= MaxEntries THEN [a \in {} |-> FALSE]
                                                                   ELSE appModes
  <2>1. ModeMap(kept) /\ DOMAIN kept \subseteq DOMAIN appModes
    BY <1>1, <1>2
  <2>2. exe.real \in Apps
    BY <1>1, <1>3
  <2>3. Saved = Put(kept, exe.real, mode)
    BY <1>3 DEF Saved
  <2> HIDE DEF kept
  <2>4. ModeMap(Put(kept, exe.real, mode))
        /\ DOMAIN Put(kept, exe.real, mode) = DOMAIN kept \cup {exe.real}
    BY <1>1, <2>1, <2>2, PutType
  <2> QED
    BY <1>3, <2>1, <2>3, <2>4
<1>4. CASE ~(SmartSwitch /\ exe.real # NoApp /\ ~lock.excluded /\ ~lock.forced)
  BY <1>1, <1>4 DEF Saved
<1> QED
  BY <1>3, <1>4

\* Entering an application: its lock is set, and the one left is remembered
\* only if no lock was in force.
LEMMA EnterAppStep ==
    ASSUME Inv, NEW a \in Apps, EnterApp(a)
    PROVE  /\ ModeMap(appModes')
           /\ exe' \in [active : Apps \cup {NoApp}, real : Apps \cup {NoApp}]
           /\ lock' \in [excluded : BOOLEAN, forced : BOOLEAN, tsf : BOOLEAN]
           /\ pids' \in [excluded : Apps \cup {NoApp}, forced : Apps \cup {NoApp},
                         last : Apps \cup {NoApp}]
           /\ LockInv' /\ LockNotRemembered'
<1> USE DEF Inv, EnterApp
<1>1. ModeMap(appModes')
  BY SavedType
<1>2. /\ exe' \in [active : Apps \cup {NoApp}, real : Apps \cup {NoApp}]
      /\ exe'.real = a
  BY DEF TypeOK
<1>3. /\ lock' \in [excluded : BOOLEAN, forced : BOOLEAN, tsf : BOOLEAN]
      /\ lock'.excluded = (a \in Excluded) /\ lock'.forced = (a \in Forced)
  OBVIOUS
<1>4. pids' \in [excluded : Apps \cup {NoApp}, forced : Apps \cup {NoApp},
                 last : Apps \cup {NoApp}]
  BY DEF TypeOK
<1>5. LockInv'
  BY <1>2, <1>3 DEF LockInv
<1>6. LockNotRemembered'
  BY SavedType DEF LockNotRemembered, LockInv
<1> QED
  BY <1>1, <1>2, <1>3, <1>4, <1>5, <1>6

LEMMA DrainStep == ASSUME Inv, Drain PROVE Inv'
<1> USE DEF Inv, vars, envVars, ipcVars, focusVars, postVars, hookVars, workerVars, noteVars,
        ghostVars
<1>1. taken' \in [tick : BOOLEAN, toggle : BOOLEAN, focus : SUBSET Windows]
  BY DEF Drain, TypeOK
<1>2. hookPc' \in {"layout", "apps"} => taken'.focus # {}
  BY DEF Drain
<1>3. TypeOK'
  BY <1>1, <1>2 DEF Drain, TypeOK
<1> QED
  BY <1>3, UntouchedStep DEF Drain, Untouched, At

\* A layout check notifies or leaves the notification alone.
LEMMA LayoutCheckNotes ==
    ASSUME TypeOK, CheckLayoutChange
    PROVE  notify' \in [Threads -> {"no", "compute", "publish"}] /\ show' \in [Threads -> BOOLEAN]
<1>1. "hook" \in Threads
  BY DEF Threads
<1>2. CASE CompatNow = cjk.compat
  BY <1>2 DEF CheckLayoutChange, TypeOK, noteVars
<1>3. CASE CompatNow # cjk.compat
  BY <1>1, <1>3, NotifyType DEF CheckLayoutChange
<1> QED
  BY <1>2, <1>3

LEMMA LayoutCheckChoice ==
    ASSUME TypeOK, CheckLayoutChange, mode' \in BOOLEAN PROVE choice' \in BOOLEAN
  BY DEF CheckLayoutChange, OnLayoutChanged, TypeOK

LEMMA FocusLayoutStep == ASSUME Inv, FocusLayout PROVE Inv'
<1> USE DEF Inv, vars, envVars, ipcVars, focusVars, postVars, hookVars, workerVars, noteVars,
        ghostVars
<1>1. hookPc = "layout" /\ CheckLayoutChange /\ lock' = lock
  BY DEF FocusLayout, At
<1>2. Snapshot.app \in Apps
  BY <1>1, SnapshotType
<1>3. /\ exe' \in [active : Apps \cup {NoApp}, real : Apps \cup {NoApp}]
      /\ exe'.real = exe.real
  BY <1>2 DEF FocusLayout, TypeOK
<1>4. /\ cjk' \in [suppressed : BOOLEAN, before : BOOLEAN, compat : BOOLEAN]
      /\ mode' \in BOOLEAN /\ unfollowed' \in BOOLEAN /\ LayoutFollowed'
  BY <1>1, LayoutCheck
<1>5. hookPc' \in {"tick", "apps"} /\ taken' = taken /\ taken.focus # {}
  BY <1>1 DEF FocusLayout, TypeOK
<1>6. TypeOK'
  BY <1>1, <1>3, <1>4, <1>5, LayoutCheckNotes, LayoutCheckChoice DEF FocusLayout, TypeOK
<1>7. LockInv' /\ LockNotRemembered'
  BY <1>3 DEF FocusLayout, LockInv, LockNotRemembered
<1> QED
  BY <1>4, <1>6, <1>7

LEMMA FocusExcludedStep == ASSUME Inv, FocusExcluded PROVE Inv'
<1> USE DEF Inv, vars, envVars, ipcVars, postVars, workerVars, noteVars
<1>1. hookPc = "apps" /\ Snapshot.app \in Apps
  BY SnapshotType DEF FocusExcluded, At
<1>2. EnterApp(Snapshot.app) /\ Notify("hook", ~lock.excluded)
  BY DEF FocusExcluded
<1>3. "hook" \in Threads /\ lock.excluded \in BOOLEAN
  BY DEF Threads, TypeOK
<1>4. notify' \in [Threads -> {"no", "compute", "publish"}] /\ show' \in [Threads -> BOOLEAN]
  BY <1>2, <1>3, NotifyType
<1>5. TypeOK'
  BY <1>1, <1>2, <1>4, EnterAppStep DEF FocusExcluded, EnterApp, TypeOK, ModeMap
<1>6. lock'.excluded
  BY DEF FocusExcluded, EnterApp
<1>7. LayoutFollowed'
  BY <1>6 DEF LayoutFollowed
<1> QED
  BY <1>1, <1>2, <1>5, <1>7, EnterAppStep

LEMMA FocusIncludedStep == ASSUME Inv, FocusIncluded PROVE Inv'
<1> USE DEF Inv, vars, envVars, ipcVars, postVars, workerVars, noteVars
<1>1. hookPc = "apps" /\ Snapshot.app \in Apps
  BY SnapshotType DEF FocusIncluded, At
<1>2. EnterApp(Snapshot.app)
  BY DEF FocusIncluded
<1>3. mode' \in BOOLEAN /\ choice' \in BOOLEAN
  <2>1. ModeFor(Snapshot.app) \in BOOLEAN
    BY SavedType DEF ModeFor, ModeMap, TypeOK
  <2> QED
    BY <2>1 DEF FocusIncluded, TypeOK
<1>4. notify' \in [Threads -> {"no", "compute", "publish"}] /\ show' \in [Threads -> BOOLEAN]
  BY NotifyType DEF FocusIncluded, Threads
<1>5. hookPc' = IF lock.excluded \/ lock.forced THEN "replay" ELSE "tick"
  BY DEF FocusIncluded
<1>6. TypeOK'
  BY <1>1, <1>2, <1>3, <1>4, <1>5, EnterAppStep DEF EnterApp, TypeOK, ModeMap
<1>7. LayoutFollowed'
  BY <1>1, <1>2, <1>5 DEF EnterApp, LayoutFollowed
<1> QED
  BY <1>1, <1>2, <1>6, <1>7, EnterAppStep

LEMMA ReplayStep == ASSUME Inv, Replay PROVE Inv'
<1> USE SwitchAssumption
    DEF Inv, vars, envVars, ipcVars, focusVars, postVars, workerVars, noteVars
<1>1. OnLayoutChanged(cjk.compat) /\ cjk.compat \in BOOLEAN
  BY DEF Replay, TypeOK
<1>2. /\ cjk' \in [suppressed : BOOLEAN, before : BOOLEAN, compat : BOOLEAN]
      /\ mode' \in BOOLEAN /\ unfollowed' \in BOOLEAN /\ choice' \in BOOLEAN
  <2>1. cjk' \in [suppressed : BOOLEAN, before : BOOLEAN, compat : BOOLEAN]
    BY <1>1 DEF OnLayoutChanged, Enters, Leaves, TypeOK
  <2>2. mode' \in BOOLEAN
    BY <1>1 DEF OnLayoutChanged, TypeOK
  <2>3. unfollowed' \in BOOLEAN
    BY <1>1 DEF OnLayoutChanged, TypeOK
  <2>4. choice' \in BOOLEAN
    BY <1>1, <2>2 DEF OnLayoutChanged, TypeOK
  <2> QED
    BY <2>1, <2>2, <2>3, <2>4
<1>3. notify' \in [Threads -> {"no", "compute", "publish"}] /\ show' \in [Threads -> BOOLEAN]
  BY NotifyType DEF Replay, Threads
<1>4. TypeOK'
  BY <1>2, <1>3 DEF Replay, TypeOK
<1>5. LayoutFollowed'
  <2>1. /\ cjk'.compat = cjk.compat
        /\ cjk'.suppressed = ((cjk.suppressed \/ Enters(cjk.compat)) /\ ~Leaves(cjk.compat))
    BY <1>1 DEF OnLayoutChanged
  <2>2. cjk.suppressed \in BOOLEAN
    BY DEF TypeOK
  <2>3. CjkAutoSwitch /\ ~lock.excluded /\ ~lock.forced
          => (cjk'.suppressed <=> ~cjk'.compat)
    BY <1>1, <2>1, <2>2, Zenon DEF Enters, Leaves
  <2>4. lock' = lock
    BY DEF Replay
  <2> QED
    BY <2>3, <2>4 DEF LayoutFollowed
<1>6. LockInv' /\ LockNotRemembered'
  BY DEF Replay, LockInv, LockNotRemembered
<1> QED
  BY <1>4, <1>5, <1>6

LEMMA ApplyTickStep == ASSUME Inv, ApplyTick PROVE Inv'
<1> USE DEF Inv, vars, envVars, ipcVars, focusVars, postVars, workerVars, noteVars
<1>1. hookPc = "tick" /\ lock' = lock
  BY DEF ApplyTick, At
<1>2. /\ hookPc' \in {"toggle", "idle"}
      /\ taken' \in [tick : BOOLEAN, toggle : BOOLEAN, focus : SUBSET Windows]
  <2>1. CASE taken.toggle
    BY <2>1 DEF ApplyTick, TypeOK
  <2>2. CASE ~taken.toggle
    <3>1. hookPc' = "idle" /\ taken' = None
      BY <2>2 DEF ApplyTick, DrainDone
    <3> QED
      BY <3>1 DEF None
  <2> QED
    BY <2>1, <2>2
<1>3. CASE taken.tick
  <2>1. CheckLayoutChange
    BY <1>3 DEF ApplyTick
  <2>2. /\ cjk' \in [suppressed : BOOLEAN, before : BOOLEAN, compat : BOOLEAN]
        /\ mode' \in BOOLEAN /\ unfollowed' \in BOOLEAN /\ LayoutFollowed'
    BY <1>1, <2>1, LayoutCheck
  <2>3. TypeOK'
    BY <1>2, <2>1, <2>2, LayoutCheckNotes, LayoutCheckChoice DEF ApplyTick, TypeOK
  <2>4. LockInv' /\ LockNotRemembered'
    BY DEF ApplyTick, LockInv, LockNotRemembered
  <2> QED
    BY <2>2, <2>3, <2>4
<1>4. CASE ~taken.tick
  <2>1. UNCHANGED <<mode, cjk, noteVars, choice, unfollowed>>
    BY <1>4 DEF ApplyTick
  <2>2. TypeOK'
    BY <1>2, <2>1 DEF ApplyTick, TypeOK
  <2>3. Untouched
    BY <1>1, <2>1 DEF ApplyTick, Untouched
  <2> QED
    BY <2>2, <2>3, UntouchedStep
<1> QED
  BY <1>3, <1>4

LEMMA ToggleStep ==
    ASSUME Inv, ToggleBlocked \/ ToggleStaleExcluded \/ ToggleMode PROVE Inv'
<1> USE DEF Inv, vars, envVars, ipcVars, focusVars, postVars, workerVars, noteVars, ghostVars
<1>1. hookPc = "toggle" /\ ToggleDone
  BY DEF ToggleBlocked, ToggleStaleExcluded, ToggleMode, At
<1>2. /\ hookPc' = "idle"
      /\ taken' \in [tick : BOOLEAN, toggle : BOOLEAN, focus : SUBSET Windows]
  BY <1>1 DEF ToggleDone, DrainDone, None
<1>3. CASE ToggleBlocked
  <2>1. TypeOK'
    BY <1>1, <1>2, <1>3 DEF ToggleBlocked, ToggleDone, TypeOK
  <2> QED
    BY <1>1, <1>3, <2>1, UntouchedStep DEF ToggleBlocked, ToggleDone, Untouched
<1>4. CASE ToggleStaleExcluded
  <2>1. notify' \in [Threads -> {"no", "compute", "publish"}] /\ show' \in [Threads -> BOOLEAN]
    BY <1>4, NotifyType DEF ToggleStaleExcluded, Threads
  <2>2. lock' \in [excluded : BOOLEAN, forced : BOOLEAN, tsf : BOOLEAN] /\ lock'.forced = lock.forced
    BY <1>4 DEF ToggleStaleExcluded, TypeOK
  <2>3. touched' = touched \cup {exe.real} /\ exe.real \in Apps \cup {NoApp}
    BY <1>4 DEF ToggleStaleExcluded, TypeOK
  <2>4. TypeOK'
    BY <1>1, <1>2, <1>4, <2>1, <2>2, <2>3 DEF ToggleStaleExcluded, ToggleDone, TypeOK
  <2>5. LockInv' /\ LockNotRemembered'
    BY <1>4, <2>3 DEF ToggleStaleExcluded, LockInv, LockNotRemembered
  <2>6. LayoutFollowed'
    BY <1>4 DEF ToggleStaleExcluded, LayoutFollowed
  <2> QED
    BY <2>4, <2>5, <2>6
<1>5. CASE ToggleMode
  <2>1. notify' \in [Threads -> {"no", "compute", "publish"}] /\ show' \in [Threads -> BOOLEAN]
    BY <1>5, NotifyType DEF ToggleMode, Threads
  <2>2. /\ lock' \in [excluded : BOOLEAN, forced : BOOLEAN, tsf : BOOLEAN]
        /\ lock'.excluded = lock.excluded /\ ~lock.excluded
    BY <1>5 DEF ToggleMode, TypeOK
  <2>3. /\ ModeMap(appModes')
        /\ DOMAIN appModes' \subseteq DOMAIN appModes \cup {exe.active}
    <3>1. ModeMap(appModes) /\ exe.active \in Apps \cup {NoApp} /\ (~mode) \in BOOLEAN
      BY DEF TypeOK, ModeMap
    <3>2. CASE SmartSwitch /\ exe.active # NoApp
      <4>1. appModes' = Put(appModes, exe.active, ~mode) /\ exe.active \in Apps
        BY <1>5, <3>1, <3>2 DEF ToggleMode
      <4> QED
        BY <3>1, <4>1, PutType
    <3>3. CASE ~(SmartSwitch /\ exe.active # NoApp)
      BY <1>5, <3>1, <3>3 DEF ToggleMode
    <3> QED
      BY <3>2, <3>3
  <2>4. /\ touched' \in SUBSET (Apps \cup {NoApp}) /\ touched \subseteq touched'
        /\ exe.active \in touched' /\ (lock.forced => exe.real \in touched')
    BY <1>5 DEF ToggleMode, TypeOK
  <2>5. {mode', choice', unfollowed'} \subseteq BOOLEAN
    BY <1>5 DEF ToggleMode, TypeOK
  <2>6. TypeOK'
    BY <1>1, <1>2, <1>5, <2>1, <2>2, <2>3, <2>4, <2>5 DEF ToggleMode, ToggleDone, TypeOK, ModeMap
  <2>7. LockInv' /\ LockNotRemembered'
    BY <1>5, <2>2, <2>3, <2>4 DEF ToggleMode, LockInv, LockNotRemembered
  <2>8. LayoutFollowed'
    BY <1>1, <1>5, <2>2 DEF ToggleMode, ToggleDone, LayoutFollowed
  <2> QED
    BY <2>6, <2>7, <2>8
<1> QED
  BY <1>3, <1>4, <1>5

LEMMA KeyStep == ASSUME Inv, KeyWhileExcluded PROVE Inv'
<1> USE DEF Inv, vars, envVars, ipcVars, postVars, hookVars, workerVars, noteVars
<1> DEFINE still == foreground.app \in Excluded
<1>1. /\ lock' = [lock EXCEPT !.excluded = still]
      /\ pids' = [pids EXCEPT !.excluded = IF still THEN foreground.app ELSE NoApp]
      /\ unfollowed' = (unfollowed \/ ~still)
      /\ touched' = IF still THEN touched ELSE touched \cup {exe.real}
      /\ Notify("hook", ~still)
  BY DEF KeyWhileExcluded
<1>2. /\ lock' \in [excluded : BOOLEAN, forced : BOOLEAN, tsf : BOOLEAN]
      /\ lock'.forced = lock.forced /\ lock'.excluded = still
  <2>1. lock \in [excluded : BOOLEAN, forced : BOOLEAN, tsf : BOOLEAN] /\ still \in BOOLEAN
    BY DEF TypeOK
  <2> HIDE DEF still
  <2> QED
    BY <1>1, <2>1
<1>3. /\ pids' \in [excluded : Apps \cup {NoApp}, forced : Apps \cup {NoApp},
                    last : Apps \cup {NoApp}]
      /\ touched' \in SUBSET (Apps \cup {NoApp}) /\ unfollowed' \in BOOLEAN
  BY <1>1 DEF TypeOK, Windows
<1>4. notify' \in [Threads -> {"no", "compute", "publish"}] /\ show' \in [Threads -> BOOLEAN]
  BY <1>1, NotifyType DEF Threads
<1>5. TypeOK'
  BY <1>2, <1>3, <1>4 DEF KeyWhileExcluded, TypeOK
<1>6. LockInv' /\ LockNotRemembered'
  BY <1>1, <1>2 DEF KeyWhileExcluded, LockInv, LockNotRemembered
<1>7. LayoutFollowed'
  BY <1>1, <1>2 DEF KeyWhileExcluded, LayoutFollowed
<1> QED
  BY <1>5, <1>6, <1>7

-----------------------------------------------------------------------------
LEMMA InvNext == Inv /\ [Next]_vars => Inv'
<1> SUFFICES ASSUME Inv, [Next]_vars PROVE Inv'
  OBVIOUS
<1>1. CASE Environment
  BY <1>1, EnvironmentStep
<1>2. CASE HookStep
  BY <1>2, DrainStep, FocusLayoutStep, FocusExcludedStep, FocusIncludedStep, ReplayStep,
     ApplyTickStep, ToggleStep, DisplayStep DEF HookStep, Threads
<1>3. CASE KeyWhileExcluded
  BY <1>3, KeyStep
<1>4. CASE ClassifyLatched \/ TickStep
  BY <1>4, WorkerStep
<1>5. CASE UNCHANGED vars
  BY <1>5, UntouchedStep DEF Inv, vars, envVars, ipcVars, focusVars, postVars, hookVars,
     workerVars, noteVars, ghostVars, TypeOK, Untouched
<1> QED
  BY <1>1, <1>2, <1>3, <1>4, <1>5 DEF Next

LEMMA Invariance == Spec => []Inv
  BY InvInit, InvNext, PTL DEF Spec

\* Every owner of the mode leaves its state well formed; a drain that took a
\* focus change has one to apply.
THEOREM ModeTypeCorrect == Spec => []TypeOK
  BY Invariance, PTL DEF Inv

\* Smart switch never remembers the mode of a lock on leaving an application.
THEOREM LockNeverRemembered == Spec => []LockNotRemembered
  BY Invariance, PTL DEF Inv

\* The CJK switch follows the layout, whichever locks were entered and left and
\* whichever changes of layout they gated off meanwhile.
THEOREM LayoutAlwaysFollowed == Spec => []LayoutFollowed
  BY Invariance, PTL DEF Inv
=============================================================================

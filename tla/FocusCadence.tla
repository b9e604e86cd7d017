---------------------------- MODULE FocusCadence ----------------------------
(***************************************************************************)
(* What the hook engine does with its worker thread: focus changes are     *)
(* latched by the main thread and classified by the worker, and the        *)
(* worker's tick cadence follows the user's activity.                      *)
(*                                                                         *)
(* The worker is MainThreadWorker; its handlers, opaque there, are the     *)
(* steps of SyncConfigFromSharedState, DrainClassifyOnWorker, OnTickPoll   *)
(* and RetuneCadenceIfNeeded here.  Each access to a shared atomic is a    *)
(* step.  Time is the one thing it is compared with: the last key is       *)
(* younger than kIdleStopThreshMs ("recent") or it is not.                 *)
(***************************************************************************)
EXTENDS MainThreadWorker

CONSTANTS
    Hook,        \* the hook thread
    Main,        \* the main thread: WinEventProc and the tray window
    MaxWindows   \* bound on the number of windows that come to the foreground

ASSUME ThreadsAssumption == Hook \in Signalers /\ Main \in Signalers /\ Hook # Main
ASSUME CadenceAssumption == {0, 40, 200} \subseteq Intervals

Parked == 0     \* ComputeTickInterval past kIdleStopThreshMs
Pinned == 40    \* kChromiumActiveInterval
Active == 200   \* kTickActiveMs

NoWindow == 0   \* kClassifyEmpty; windows are numbered as they come to the foreground

VARIABLES
    foreground,    \* the foreground window
    latch,         \* pendingClassifyHwnd_
    latched,       \* the last window OnFocusChanged latched
    taken,         \* the window the running handler exchanged out of the latch
    classified,    \* the last window classified and posted
    lastPid,       \* lastForegroundPid_: the window whose process is on record
    recent,        \* the last MarkActivity is younger than kIdleStopThreshMs
    hijacker,      \* isKnownHijackerApp_
    cadence,       \* currentTickIntervalMs_
    desired,       \* the interval the running retune computed
    handler,       \* where the running handler is
    hookPc,        \* where the hook thread is
    eventPc,       \* where the main thread is inside OnFocusChanged
    failed         \* a handler threw, and none has classified a latched window since

focusVars   == <<foreground, latch, latched, taken, classified, lastPid>>
cadenceVars == <<recent, hijacker, cadence, desired>>
threadVars  == <<handler, hookPc, eventPc, failed>>
vars == <<workerVars, focusVars, cadenceVars, threadVars>>

\* main sets the active cadence before it starts the worker.
FCInit ==
    /\ Init /\ tickInterval = Active
    /\ foreground = 1 /\ latch = NoWindow /\ latched = NoWindow /\ taken = NoWindow
    /\ classified = NoWindow /\ lastPid = NoWindow
    /\ recent = TRUE /\ hijacker = FALSE /\ cadence = Active /\ desired = Active
    /\ handler = "none" /\ hookPc = "idle" /\ eventPc = "idle" /\ failed = FALSE

-----------------------------------------------------------------------------
(***************************************************************************)
(* The user and the system.                                                *)
(***************************************************************************)

\* Another window comes to the foreground.
WindowShown ==
    /\ foreground < MaxWindows
    /\ foreground' = foreground + 1
    /\ UNCHANGED <<workerVars, latch, latched, taken, classified, lastPid, cadenceVars,
                   threadVars>>

\* kIdleStopThreshMs pass without a key.
UserIdles ==
    /\ recent /\ hookPc = "idle"
    /\ recent' = FALSE
    /\ UNCHANGED <<workerVars, focusVars, hijacker, cadence, desired, threadVars>>

(***************************************************************************)
(* The main thread: OnFocusChanged, from WinEventProc.                     *)
(***************************************************************************)

\* pendingClassifyHwnd_.store: the event may be missed, never early.
LatchFocus ==
    /\ eventPc = "idle" /\ signal[Main] = "idle" /\ latched # foreground
    /\ latch' = foreground /\ latched' = foreground
    /\ eventPc' = "signal"
    /\ UNCHANGED <<workerVars, foreground, taken, classified, lastPid, cadenceVars,
                   handler, hookPc, failed>>

\* Faulty variant: no signal while the worker is at work already.
SignalFocusIfIdle ==
    /\ eventPc = "signal"
    /\ eventPc' = "idle"
    /\ IF worker = "work"
         THEN UNCHANGED workerVars
         ELSE SignalSet(Main)
    /\ UNCHANGED <<focusVars, cadenceVars, handler, hookPc, failed>>

\* workerSignalFn_()
SignalFocus ==
    /\ eventPc = "signal"
    /\ SignalSet(Main)
    /\ eventPc' = "idle"
    /\ UNCHANGED <<focusVars, cadenceVars, handler, hookPc, failed>>

(***************************************************************************)
(* The hook thread: MarkActivity for every key, ApplyFocusOnHookThread.    *)
(***************************************************************************)

HookIdle == hookPc = "idle" /\ signal[Hook] = "idle"

\* lastActivityTickMs_.store(now)
MarkActivity ==
    /\ HookIdle
    /\ recent' = TRUE
    /\ hookPc' = "gate"
    /\ UNCHANGED <<workerVars, focusVars, hijacker, cadence, desired, handler, eventPc, failed>>

\* Faulty variant: the gate lets no key signal.
ActivityGateClosed ==
    /\ hookPc = "gate"
    /\ hookPc' = "idle"
    /\ UNCHANGED <<workerVars, focusVars, cadenceVars, handler, eventPc, failed>>

\* The currentTickIntervalMs_ gate.
ActivityGate ==
    /\ hookPc = "gate"
    /\ hookPc' = IF cadence # Active THEN "signal" ELSE "idle"
    /\ UNCHANGED <<workerVars, focusVars, cadenceVars, handler, eventPc, failed>>

\* The classification reaches the hook thread: the process is put on record
\* and the hijacker flag stored; a flip signals the worker.
ApplyFocus ==
    /\ HookIdle
    /\ lastPid' = classified
    /\ hijacker' \in BOOLEAN
    /\ hookPc' = IF hijacker' # hijacker THEN "signal" ELSE "idle"
    /\ UNCHANGED <<workerVars, foreground, latch, latched, taken, classified,
                   recent, cadence, desired, handler, eventPc, failed>>

\* workerSignalFn_()
SignalHook ==
    /\ hookPc = "signal"
    /\ SignalSet(Hook)
    /\ hookPc' = "idle"
    /\ UNCHANGED <<focusVars, cadenceVars, handler, eventPc, failed>>

\* The tray window's reload message: workerSignalFn_() too.
SignalTray ==
    /\ eventPc = "idle"
    /\ SignalSet(Main)
    /\ UNCHANGED <<focusVars, cadenceVars, threadVars>>

-----------------------------------------------------------------------------
(***************************************************************************)
(* The worker's handlers.                                                  *)
(***************************************************************************)

\* A wait that ends in a handler starts the handler that was set for it.
Dispatch ==
    /\ EnterWait \/ Recheck \/ Timeout
    /\ handler' = CASE worker' = "work" -> "sync"
                    [] worker' = "tick" -> "poll"
                    [] OTHER -> "none"
    /\ UNCHANGED <<focusVars, cadenceVars, hookPc, eventPc, failed>>

\* SyncConfigFromSharedState, then DrainClassifyOnWorker.
SyncConfig ==
    /\ handler = "sync"
    /\ handler' = "drain"
    /\ UNCHANGED <<workerVars, focusVars, cadenceVars, hookPc, eventPc, failed>>

\* pendingClassifyHwnd_.exchange(kClassifyEmpty)
TakeLatch ==
    /\ handler = "drain"
    /\ taken' = latch /\ latch' = NoWindow
    /\ handler' = IF latch = NoWindow THEN "retune" ELSE "classify"
    /\ UNCHANGED <<workerVars, foreground, latched, classified, lastPid, cadenceVars,
                   hookPc, eventPc, failed>>

\* Faulty variant: the latch is cleared when its window is classified.
ClassifyClearsLatch ==
    /\ handler = "classify"
    /\ classified' = taken /\ latch' = NoWindow
    /\ failed' = (failed /\ worker = "tick")
    /\ handler' = "retune"
    /\ UNCHANGED <<workerVars, foreground, latched, taken, lastPid, cadenceVars,
                   hookPc, eventPc>>

\* OnFocusChangedSyncOnWorker: classify the window and post the snapshot.  The
\* snapshot of a window has its handle, so the sentinel without one is not met.
Classify ==
    /\ handler = "classify"
    /\ classified' = taken
    /\ failed' = (failed /\ worker = "tick")
    /\ handler' = "retune"
    /\ UNCHANGED <<workerVars, foreground, latch, latched, taken, lastPid, cadenceVars,
                   hookPc, eventPc>>

\* OnTickPoll up to the PID check: with no foreground window it returns, and
\* with another process in front than the one on record it classifies that.
PollForeground ==
    /\ handler = "poll"
    /\ \/ handler' = "done" /\ UNCHANGED <<taken, lastPid>>
       \/ /\ foreground = lastPid
          /\ handler' = "retune" /\ UNCHANGED <<taken, lastPid>>
       \/ /\ foreground # lastPid
          /\ taken' = foreground /\ lastPid' = foreground
          /\ handler' = "classify"
    /\ UNCHANGED <<workerVars, foreground, latch, latched, classified, cadenceVars,
                   hookPc, eventPc, failed>>

\* A handler throws in the reload or in the classification; the worker goes on.
HandlerThrows ==
    /\ handler \in {"sync", "classify"}
    /\ handler' = "done" /\ failed' = TRUE
    /\ UNCHANGED <<workerVars, focusVars, cadenceVars, hookPc, eventPc>>

\* RetuneCadenceIfNeeded, what it reads.
Retune ==
    /\ handler = "retune"
    /\ desired' = IF recent THEN IF hijacker THEN Pinned ELSE Active ELSE Parked
    /\ handler' = "publish"
    /\ UNCHANGED <<workerVars, focusVars, recent, hijacker, cadence, hookPc, eventPc, failed>>

\* RetuneCadenceIfNeeded: currentTickIntervalMs_.store.
PublishCadence ==
    /\ handler = "publish"
    /\ cadence' = desired
    /\ handler' = IF desired = cadence THEN "done" ELSE "interval"
    /\ UNCHANGED <<workerVars, focusVars, recent, hijacker, desired, hookPc, eventPc, failed>>

\* tickRetuneFn_: MainThreadWorker::SetTickInterval.
RetuneWorker ==
    /\ handler = "interval"
    /\ SetTickInterval(desired)
    /\ handler' = "done"
    /\ UNCHANGED <<focusVars, cadenceVars, hookPc, eventPc, failed>>

\* The handler returns to Run.
FinishHandler ==
    /\ handler = "done"
    /\ HandlerDone
    /\ handler' = "none"
    /\ UNCHANGED <<focusVars, cadenceVars, hookPc, eventPc, failed>>

Handler ==
    \/ SyncConfig \/ TakeLatch \/ Classify \/ PollForeground
    \/ Retune \/ PublishCadence \/ RetuneWorker \/ FinishHandler

\* The steps of MainThreadWorker that concern neither handler nor signaller.
\* Stop is called by main at the end and by the destructor, not before Start.
WorkerOnly ==
    /\ Start \/ (StopIdle /\ starts > 0) \/ StopRequest \/ StopStep \/ Expire \/ SpuriousWake
       \/ \E s \in Signalers : SignalNotify(s)
    /\ UNCHANGED <<focusVars, cadenceVars, threadVars>>

FCNext ==
    \/ WindowShown \/ UserIdles
    \/ LatchFocus \/ SignalFocus
    \/ MarkActivity \/ ActivityGate \/ ApplyFocus \/ SignalHook
    \/ SignalTray
    \/ Dispatch \/ Handler \/ HandlerThrows
    \/ WorkerOnly

\* The scheduler runs the worker and every thread that is inside a call; no
\* user has to press a key and no window has to come to the foreground.
FCFairness ==
    /\ WF_vars(Dispatch) /\ WF_vars(Handler)
    /\ WF_vars(SignalFocus) /\ WF_vars(SignalHook) /\ WF_vars(ActivityGate)
    /\ WF_vars(WorkerOnly /\ (Expire \/ StopStep))
    /\ \A s \in Signalers : WF_vars(WorkerOnly /\ SignalNotify(s))

FCSpec == FCInit /\ [][FCNext]_vars /\ FCFairness

-----------------------------------------------------------------------------

\* The worker has been told to look at the latch and has yet to do it.
ClassifyOnItsWay ==
    \/ workPending \/ eventPc = "signal"
    \/ worker = "work" /\ handler \in {"sync", "drain"}

\* A latched focus change is not forgotten: the worker was signalled and has
\* not drained the latch since, however the signals coalesce.  Stop drops the
\* signal and not the latch, so this is about the worker's one start.
FocusNotForgotten ==
    running /\ starts = 1 /\ latch # NoWindow => ClassifyOnItsWay \/ failed

\* Focus storms collapse to the last window: once the latch is empty and no
\* classification runs, the window last latched is the one last classified,
\* unless a poll has classified a newer one or a handler threw.
LatestWindowClassified ==
    latch = NoWindow /\ handler # "classify" => classified >= latched \/ failed

\* The worker waits the way the published cadence says: without a deadline
\* exactly when the cadence is parked, so that "the worker STOPS (parks)".
CadenceInEffect ==
    worker \in {"blocked", "woken"} => (timed <=> cadence # Parked)

\* A user who goes on typing has the ticks going again for good, and with them
\* the layout poll and the hijack detector: the key that finds the worker parked
\* wakes it, and a park under way when the user came back is undone.
TypingResumesTicks ==
    /\ <>[](recent /\ running /\ ~stopRequested /\ ~failed)
    /\ []<><<MarkActivity>>_vars
    => <>[](cadence # Parked)

=============================================================================

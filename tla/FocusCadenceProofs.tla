------------------------- MODULE FocusCadenceProofs -------------------------
(***************************************************************************)
(* For any set of signalling threads and any tick intervals: the worker's  *)
(* type invariant, no lost wakeup, and no handler after Stop.  With the    *)
(* handlers of the hook engine, for any number of windows as well: a       *)
(* latched focus change keeps a classification on its way, the latest one  *)
(* is classified, and the worker waits the way the published cadence says. *)
(***************************************************************************)
EXTENDS FocusCadence, TLAPS

(***************************************************************************)
(* MainThreadWorker, whatever its handlers do                              *)
(***************************************************************************)
\* The owner is inside Stop only while there is a thread to join, and it has
\* asked that thread to stop.
OwnerInv ==
    /\ owner \in {"notify", "join"} => running /\ stopRequested
    /\ owner = "clear" => ~running
    /\ running => worker # "none"

\* NoLostWakeup and StopJoins with what makes them inductive.
WorkerInv == TypeOK /\ OwnerInv /\ NoLostWakeup /\ StopJoins

\* The initial states satisfy the invariant.
LEMMA WorkerInvInit == Init => WorkerInv
  BY IntervalsAssumption DEF Init, WorkerInv, TypeOK, OwnerInv, NoLostWakeup, StopJoins, Predicate

\* Every step of every thread preserves the invariant.
LEMMA WorkerInvNext == WorkerInv /\ [Next]_workerVars => WorkerInv'
<1> SUFFICES ASSUME WorkerInv, [Next]_workerVars PROVE WorkerInv'
  OBVIOUS
<1> USE DEF WorkerInv, TypeOK, OwnerInv, NoLostWakeup, StopJoins, Predicate
<1>1. CASE Start
  <2>1. starts' \in Nat
    BY <1>1 DEF Start
  <2>2. TypeOK'
    BY <1>1, <2>1, Zenon DEF Start
  <2>3. OwnerInv' /\ NoLostWakeup' /\ StopJoins'
    BY <1>1 DEF Start
  <2> QED
    BY <2>2, <2>3
<1>2. CASE StopIdle
  BY <1>2 DEF StopIdle
<1>3. CASE StopRequest
  BY <1>3 DEF StopRequest
<1>4. CASE StopNotify
  BY <1>4 DEF StopNotify, Notified
<1>5. CASE StopJoin
  BY <1>5 DEF StopJoin
<1>6. CASE StopClear
  BY <1>6 DEF StopClear
<1>7. CASE EnterWait
  <2>1. timed' \in BOOLEAN
    <3>1. tickInterval \in Nat
      BY IntervalsAssumption
    <3>2. timed' = TRUE \/ timed' = FALSE
      BY <1>7, <3>1, SMT DEF EnterWait
    <3> QED
      BY <3>2
  <2>2. TypeOK'
    BY <1>7, <2>1, Zenon DEF EnterWait, Proceed
  <2>3. OwnerInv' /\ NoLostWakeup' /\ StopJoins'
    BY <1>7 DEF EnterWait, Proceed
  <2> QED
    BY <2>2, <2>3
<1>8. CASE Expire
  BY <1>8 DEF Expire
<1>9. CASE Recheck
  BY <1>9 DEF Recheck, Proceed
<1>10. CASE Timeout
  BY <1>10 DEF Timeout, Proceed
<1>11. CASE HandlerDone
  BY <1>11 DEF HandlerDone
<1>12. CASE SpuriousWake
  BY <1>12 DEF SpuriousWake
<1>13. ASSUME NEW i \in Intervals, SetTickInterval(i) PROVE WorkerInv'
  BY <1>13 DEF SetTickInterval
<1>14. ASSUME NEW s \in Signalers, SignalSet(s) PROVE WorkerInv'
  <2>1. TypeOK' /\ OwnerInv' /\ StopJoins'
    BY <1>14 DEF SignalSet
  <2>2. signal'[s] = "notify"
    BY <1>14 DEF SignalSet
  <2> QED
    BY <2>1, <2>2
<1>15. ASSUME NEW s \in Signalers, SignalNotify(s) PROVE WorkerInv'
  BY <1>15 DEF SignalNotify, Notified
<1>16. CASE UNCHANGED workerVars
  BY <1>16 DEF workerVars
<1> QED
  BY <1>1, <1>2, <1>3, <1>4, <1>5, <1>6, <1>7, <1>8, <1>9, <1>10, <1>11, <1>12, <1>13,
     <1>14, <1>15, <1>16
     DEF Next, StopStep, WorkerStep

LEMMA WorkerInvariance == Spec => []WorkerInv
  BY WorkerInvInit, WorkerInvNext, PTL DEF Spec

\* Type correctness of the worker and of the threads that use it.
THEOREM WorkerTypeCorrect == Spec => []TypeOK
  BY WorkerInvariance, PTL DEF WorkerInv

\* However many threads signal, before Start, during a handler or in the gap
\* between two waits, the worker never sleeps on work or on a stop request
\* with nobody left to notify it.
THEOREM WakeupNeverLost == Spec => []NoLostWakeup
  BY WorkerInvariance, PTL DEF WorkerInv

\* When Stop has marked the worker as not running, its thread is joined: no
\* handler is running or can start.
THEOREM NoHandlerAfterStop == Spec => []StopJoins
  BY WorkerInvariance, PTL DEF WorkerInv

(***************************************************************************)
(* FocusCadence, the worker with the handlers of the hook engine           *)
(***************************************************************************)

\* The types the two arguments need.
Types ==
    /\ signal \in [Signalers -> {"idle", "notify"}]
    /\ cadence \in {Parked, Pinned, Active}
    /\ desired \in {Parked, Pinned, Active}
    /\ handler \in {"none", "sync", "drain", "classify", "poll", "retune", "publish",
                    "interval", "done"}
    /\ starts \in Nat

\* A handler is in progress exactly while the worker is between two waits.
HandlerInv ==
    /\ handler = "none" <=> worker \notin {"work", "tick"}
    /\ handler \in {"sync", "drain"} => worker = "work"
    /\ handler = "poll" => worker = "tick"
    /\ running <=> worker # "none"

\* Only between the two stores of a retune do the published cadence and the
\* worker's interval differ.
IntervalInv ==
    /\ handler = "interval" => cadence = desired
    /\ handler # "interval" => tickInterval = cadence
    /\ worker \in {"blocked", "woken", "expired"} => (timed <=> cadence # Parked)

\* Before the first start the thread does not exist, and Stop never runs.
FirstStartInv ==
    /\ starts = 0 => ~running /\ worker = "none" /\ owner = "idle"
    /\ starts = 0 /\ latch # NoWindow => workPending \/ eventPc = "signal"
    /\ running => starts # 0
    /\ owner = "clear" => ~running

\* What was latched since the running work handler drained the latch has a
\* signal of its own.
DrainedInv ==
    running /\ starts = 1 /\ latch # NoWindow /\ worker = "work" /\ handler = "classify" =>
        workPending \/ eventPc = "signal"

\* FocusNotForgotten and CadenceInEffect with what makes them inductive.
Inv == Types /\ HandlerInv /\ IntervalInv /\ FirstStartInv /\ DrainedInv /\ FocusNotForgotten

LEMMA InvInit == FCInit => Inv
  BY IntervalsAssumption, ThreadsAssumption
     DEF FCInit, Init, Inv, Types, HandlerInv, IntervalInv, FirstStartInv, DrainedInv, FocusNotForgotten,
         ClassifyOnItsWay, Parked, Pinned, Active, NoWindow

\* Every step preserves the invariant.
LEMMA InvNext == Inv /\ [FCNext]_vars => Inv'
<1> SUFFICES ASSUME Inv, [FCNext]_vars PROVE Inv'
  OBVIOUS
<1> USE ThreadsAssumption
    DEF Inv, Types, HandlerInv, IntervalInv, FirstStartInv, DrainedInv, FocusNotForgotten, ClassifyOnItsWay,
        workerVars, focusVars, cadenceVars, threadVars, Parked, Pinned, Active, NoWindow
<1>1. CASE WindowShown
  BY <1>1 DEF WindowShown
<1>2. CASE UserIdles
  BY <1>2 DEF UserIdles
<1>3. CASE LatchFocus
  BY <1>3 DEF LatchFocus
<1>4. CASE SignalFocus
  BY <1>4 DEF SignalFocus, SignalSet
<1>5. CASE MarkActivity
  BY <1>5 DEF MarkActivity
<1>6. CASE ActivityGate
  BY <1>6 DEF ActivityGate
<1>7. CASE ApplyFocus
  BY <1>7 DEF ApplyFocus
<1>8. CASE SignalHook
  BY <1>8 DEF SignalHook, SignalSet
<1>9. CASE SignalTray
  BY <1>9 DEF SignalTray, SignalSet
<1>10. CASE Dispatch
  <2> USE <1>10 DEF Dispatch
  <2>1. worker \in {"loop", "woken", "expired"} /\ handler = "none"
    BY DEF EnterWait, Recheck, Timeout
  <2>2. CASE stopRequested
    <3>1. worker' = "exited" /\ handler' = "none" /\ UNCHANGED workPending
      BY <2>2 DEF EnterWait, Recheck, Timeout, Proceed, Predicate
    <3> QED
      BY <2>1, <3>1 DEF EnterWait, Recheck, Timeout
  <2>3. CASE ~stopRequested /\ workPending
    <3>1. worker' = "work" /\ handler' = "sync"
      BY <2>3 DEF EnterWait, Recheck, Timeout, Proceed, Predicate
    <3> QED
      BY <2>1, <3>1 DEF EnterWait, Recheck, Timeout
  <2>4. CASE ~stopRequested /\ ~workPending
    <3>1. UNCHANGED <<workPending, tickInterval>>
      BY <2>4 DEF EnterWait, Recheck, Timeout, Predicate
    <3>2. \/ worker' = "blocked" /\ handler' = "none"
          \/ worker' = "tick" /\ handler' = "poll"
      BY <2>4 DEF EnterWait, Recheck, Timeout, Predicate
    <3>3. worker' = "blocked" => (timed' <=> cadence # Parked)
      <4>1. CASE EnterWait
        <5>1. timed' = (tickInterval > 0)
          BY <4>1 DEF EnterWait
        <5>2. tickInterval > 0 <=> cadence # Parked
          BY <2>1, SMT
        <5>3. ASSUME timed' PROVE cadence # Parked
          BY <5>1, <5>2, <5>3, Zenon
        <5>4. ASSUME cadence # Parked PROVE timed'
          BY <5>1, <5>2, <5>4, Zenon
        <5> QED
          BY <5>3, <5>4
      <4>2. CASE Recheck
        BY <4>2 DEF Recheck
      <4>3. CASE Timeout
        BY <2>4, <4>3 DEF Timeout, Predicate
      <4> QED
        BY <4>1, <4>2, <4>3
    <3> QED
      BY <2>1, <3>1, <3>2, <3>3 DEF EnterWait, Recheck, Timeout
  <2> QED
    BY <2>2, <2>3, <2>4
<1>11. CASE SyncConfig
  BY <1>11 DEF SyncConfig
<1>12. CASE TakeLatch
  BY <1>12 DEF TakeLatch
<1>13. CASE Classify
  <2>1. CASE worker = "work"
    BY <1>13, <2>1 DEF Classify
  <2>2. CASE worker = "tick"
    <3>1. failed => failed'
      BY <1>13, <2>2 DEF Classify
    <3> QED
      BY <1>13, <2>2, <3>1 DEF Classify
  <2> QED
    BY <1>13, <2>1, <2>2 DEF Classify
<1>14. CASE PollForeground
  BY <1>14 DEF PollForeground
<1>15. CASE Retune
  BY <1>15 DEF Retune
<1>16. CASE PublishCadence
  BY <1>16 DEF PublishCadence
<1>17. CASE RetuneWorker
  BY <1>17 DEF RetuneWorker, SetTickInterval
<1>18. CASE FinishHandler
  BY <1>18 DEF FinishHandler, HandlerDone
<1>19. CASE HandlerThrows
  BY <1>19 DEF HandlerThrows
<1>20. CASE WorkerOnly
  <2> USE <1>20 DEF WorkerOnly
  <2>1. CASE Start
    <3>1. starts' \in Nat /\ starts' # 0 /\ (starts' = 1 => starts = 0)
      BY <2>1 DEF Start
    <3>2. UNCHANGED <<latch, workPending, eventPc, handler, cadence, desired, tickInterval,
                      timed, signal, owner>>
      BY <2>1 DEF Start
    <3>3. /\ worker = "none" /\ worker' = "loop" /\ owner = "idle"
          /\ ~running /\ running' = TRUE
      BY <2>1 DEF Start
    <3> QED
      BY <3>1, <3>2, <3>3
  <2>2. CASE StopRequest
    BY <2>2 DEF StopRequest
  <2>3. CASE StopStep
    <3>1. CASE StopNotify
      BY <3>1 DEF StopNotify, Notified
    <3>2. CASE StopJoin
      BY <3>2 DEF StopJoin
    <3>3. CASE StopClear
      BY <3>3 DEF StopClear
    <3> QED
      BY <2>3, <3>1, <3>2, <3>3 DEF StopStep
  <2>4. CASE Expire
    BY <2>4 DEF Expire
  <2>5. CASE SpuriousWake
    BY <2>5 DEF SpuriousWake
  <2>6. ASSUME NEW s \in Signalers, SignalNotify(s) PROVE Inv'
    BY <2>6 DEF SignalNotify, Notified
  <2>7. CASE StopIdle /\ starts > 0
    BY <2>7 DEF StopIdle
  <2> QED
    BY <2>1, <2>2, <2>3, <2>4, <2>5, <2>6, <2>7
<1>21. CASE UNCHANGED vars
  BY <1>21 DEF vars
<1> QED
  BY <1>1, <1>2, <1>3, <1>4, <1>5, <1>6, <1>7, <1>8, <1>9, <1>10, <1>11, <1>12, <1>13, <1>14,
     <1>15, <1>16, <1>17, <1>18, <1>19, <1>20, <1>21
     DEF FCNext, Handler

LEMMA Invariance == FCSpec => []Inv
  BY InvInit, InvNext, PTL DEF FCSpec

\* A focus change that WinEventProc latched cannot be lost while the worker
\* runs: not to coalescing signals, not to a signal that comes before Start.
THEOREM FocusNeverForgotten == FCSpec => []FocusNotForgotten
  BY Invariance, PTL DEF Inv

\* Parking and ticking are put into effect: the worker never sleeps without a
\* deadline when the published cadence asks for ticks, nor the other way.
THEOREM CadenceAlwaysInEffect == FCSpec => []CadenceInEffect
<1>1. Inv => CadenceInEffect
  BY DEF Inv, IntervalInv, CadenceInEffect
<1> QED
  BY <1>1, Invariance, PTL

-----------------------------------------------------------------------------
\* A full latch holds the window latched last.  A classification under way
\* with nothing latched behind it is that of a window as new.
WindowInv ==
    /\ foreground \in Nat \ {NoWindow} /\ latch \in Nat /\ latched \in Nat
    /\ taken \in Nat /\ classified \in Nat
    /\ latched <= foreground
    /\ latch # NoWindow => latch = latched
    /\ latch = NoWindow /\ handler = "classify" => taken >= latched
    /\ LatestWindowClassified

LEMMA WindowNext == Inv /\ WindowInv /\ [FCNext]_vars => WindowInv'
<1> SUFFICES ASSUME Inv, WindowInv, [FCNext]_vars PROVE WindowInv'
  OBVIOUS
<1> USE DEF WindowInv, LatestWindowClassified, NoWindow
<1>1. CASE LatchFocus
  BY <1>1 DEF LatchFocus, cadenceVars
<1>2. CASE TakeLatch
  BY <1>2 DEF TakeLatch
<1>3. CASE Classify
  BY <1>3 DEF Classify
<1>4. CASE PollForeground
  BY <1>4 DEF PollForeground
<1>5. CASE HandlerThrows
  BY <1>5 DEF HandlerThrows, focusVars
<1>6. CASE Dispatch
  <2>1. handler = "none" /\ handler' # "classify"
    BY <1>6 DEF Dispatch, EnterWait, Recheck, Timeout, Inv, HandlerInv
  <2> QED
    BY <1>6, <2>1 DEF Dispatch, focusVars
<1>7. CASE WindowShown
  BY <1>7 DEF WindowShown, threadVars
<1>8. CASE SyncConfig \/ Retune \/ PublishCadence \/ RetuneWorker \/ FinishHandler
  <2>1. /\ UNCHANGED <<focusVars, failed>>
        /\ handler # "classify" /\ handler' # "classify"
    BY <1>8 DEF SyncConfig, Retune, PublishCadence, RetuneWorker, FinishHandler
  <2> QED
    BY <2>1 DEF focusVars
<1>9. ASSUME UNCHANGED <<foreground, latch, latched, taken, classified, handler, failed>>
      PROVE  WindowInv'
  BY <1>9
<1>10. CASE UserIdles \/ SignalFocus \/ MarkActivity \/ ActivityGate \/ ApplyFocus
            \/ SignalHook \/ SignalTray \/ WorkerOnly \/ UNCHANGED vars
  <2>1. UNCHANGED <<foreground, latch, latched, taken, classified, handler, failed>>
    BY <1>10 DEF UserIdles, SignalFocus, MarkActivity, ActivityGate, ApplyFocus,
       SignalHook, SignalTray, WorkerOnly, focusVars, threadVars, vars
  <2> QED
    BY <1>9, <2>1
<1> QED
  BY <1>1, <1>2, <1>3, <1>4, <1>5, <1>6, <1>7, <1>8, <1>10 DEF FCNext, Handler

\* However focus events, ticks and failures interleave: once the latch is
\* empty and nothing is being classified, the last window that WinEventProc
\* latched, or a newer one, has been classified (DrainClassifyOnWorker).
THEOREM LatestAlwaysClassified == FCSpec => []LatestWindowClassified
<1>1. FCInit => Inv /\ WindowInv
  <2>1. FCInit => WindowInv
    BY DEF FCInit, WindowInv, LatestWindowClassified, NoWindow
  <2> QED
    BY <2>1, InvInit
<1>2. (Inv /\ WindowInv) /\ [FCNext]_vars => (Inv /\ WindowInv)'
  BY InvNext, WindowNext
<1>3. WindowInv => LatestWindowClassified
  BY DEF WindowInv
<1> QED
  BY <1>1, <1>2, <1>3, PTL DEF FCSpec
=============================================================================

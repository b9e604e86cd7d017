-------------------------- MODULE MainThreadWorker --------------------------
(***************************************************************************)
(* The worker thread on which configuration, focus and tick work runs.     *)
(*                                                                         *)
(* Any thread calls Signal; one owner calls Start and Stop; the worker     *)
(* waits on a condition variable, with a deadline when ticks are enabled,  *)
(* and runs a work handler or a tick handler outside the lock.  A critical *)
(* section of mutex_ is one step; a wait releases the mutex and blocks in  *)
(* one step, and notify_all, which the callers do after unlocking, is a    *)
(* step of its own.                                                        *)
(***************************************************************************)
EXTENDS Naturals

CONSTANTS
    Signalers,   \* threads that call Signal
    Intervals,   \* the tick intervals in use, in ms; 0 disables ticks
    MaxStarts    \* bound on the calls of Start

ASSUME IntervalsAssumption == Intervals \subseteq Nat /\ 0 \in Intervals
ASSUME StartsAssumption == MaxStarts \in Nat

VARIABLES
    running,        \* running_
    stopRequested,  \* stopRequested_
    workPending,    \* workPending_
    tickInterval,   \* tickInterval_
    worker,         \* where the worker thread is; "none" when thread_ is not joinable
    timed,          \* the wait in progress has a deadline
    signal,         \* signal[s]: where s is inside Signal
    owner,          \* where the owner is inside Stop
    starts          \* calls of Start that launched a thread

workerVars == <<running, stopRequested, workPending, tickInterval, worker, timed,
                signal, owner, starts>>

Init ==
    /\ running = FALSE /\ stopRequested = FALSE /\ workPending = FALSE
    /\ tickInterval \in Intervals
    /\ worker = "none" /\ timed = FALSE
    /\ signal = [s \in Signalers |-> "idle"]
    /\ owner = "idle" /\ starts = 0

-----------------------------------------------------------------------------
\* Start: the flags under the lock, then the thread.  A second Start while
\* running returns false and changes nothing.
Start ==
    /\ owner = "idle" /\ ~running /\ starts < MaxStarts
    /\ running' = TRUE /\ stopRequested' = FALSE
    /\ worker' = "loop"
    /\ starts' = starts + 1
    /\ UNCHANGED <<workPending, tickInterval, timed, signal, owner>>

\* notify_all: a blocked worker has to test its predicate again.
Notified(w) == IF w = "blocked" THEN "woken" ELSE w

\* Stop without a thread to join: drop what was latched.
StopIdle ==
    /\ owner = "idle" /\ ~running
    /\ workPending' = FALSE
    /\ UNCHANGED <<running, stopRequested, tickInterval, worker, timed, signal, owner, starts>>

\* Stop, first critical section.
StopRequest ==
    /\ owner = "idle" /\ running
    /\ stopRequested' = TRUE
    /\ owner' = "notify"
    /\ UNCHANGED <<running, workPending, tickInterval, worker, timed, signal, starts>>

\* Stop: cv_.notify_all().
StopNotify ==
    /\ owner = "notify"
    /\ worker' = Notified(worker)
    /\ owner' = "join"
    /\ UNCHANGED <<running, stopRequested, workPending, tickInterval, timed, signal,
                   starts>>

\* thread_.join(), then running_.store(false).
StopJoin ==
    /\ owner = "join" /\ worker = "exited"
    /\ worker' = "none" /\ running' = FALSE
    /\ owner' = "clear"
    /\ UNCHANGED <<stopRequested, workPending, tickInterval, timed, signal, starts>>

\* Stop, last critical section.
StopClear ==
    /\ owner = "clear"
    /\ workPending' = FALSE
    /\ owner' = "idle"
    /\ UNCHANGED <<running, stopRequested, tickInterval, worker, timed, signal, starts>>

-----------------------------------------------------------------------------
\* Signal, the critical section.
SignalSet(s) ==
    /\ signal[s] = "idle"
    /\ workPending' = TRUE
    /\ signal' = [signal EXCEPT ![s] = "notify"]
    /\ UNCHANGED <<running, stopRequested, tickInterval, worker, timed, owner, starts>>

\* Signal: cv_.notify_all().
SignalNotify(s) ==
    /\ signal[s] = "notify"
    /\ worker' = Notified(worker)
    /\ signal' = [signal EXCEPT ![s] = "idle"]
    /\ UNCHANGED <<running, stopRequested, workPending, tickInterval, timed, owner, starts>>

\* SetTickInterval: the handlers call it (through RetuneCadenceIfNeeded), so
\* there is no wait for its notify_all to interrupt.
SetTickInterval(i) ==
    /\ worker \in {"work", "tick"}
    /\ tickInterval' = i
    /\ UNCHANGED <<running, stopRequested, workPending, worker, timed, signal, owner, starts>>

-----------------------------------------------------------------------------
(***************************************************************************)
(* Run.                                                                    *)
(***************************************************************************)

\* The predicate of both waits.
Predicate == stopRequested \/ workPending

\* After the wait: return, or take the signal and run the work handler.
Proceed ==
    IF stopRequested
      THEN worker' = "exited" /\ UNCHANGED workPending
      ELSE worker' = "work" /\ workPending' = FALSE

\* Faulty variant: a wait without a predicate.
EnterWaitBlindly ==
    /\ worker = "loop"
    /\ worker' = "blocked" /\ timed' = (tickInterval > 0)
    /\ UNCHANGED <<running, stopRequested, tickInterval, workPending, signal, owner, starts>>

\* The loop takes the lock, reads the interval and tests the predicate before
\* it blocks.
EnterWait ==
    /\ worker = "loop"
    /\ timed' = (tickInterval > 0)
    /\ IF Predicate
         THEN Proceed
         ELSE worker' = "blocked" /\ UNCHANGED workPending
    /\ UNCHANGED <<running, stopRequested, tickInterval, signal, owner, starts>>

\* A condition variable may wake for no reason.
SpuriousWake ==
    /\ worker = "blocked"
    /\ worker' = "woken"
    /\ UNCHANGED <<running, stopRequested, workPending, tickInterval, timed, signal, owner,
                   starts>>

\* The deadline of wait_for passes.
Expire ==
    /\ worker = "blocked" /\ timed
    /\ worker' = "expired"
    /\ UNCHANGED <<running, stopRequested, workPending, tickInterval, timed, signal, owner,
                   starts>>

\* Awake again, with the lock: the predicate, or back to the same wait.
Recheck ==
    /\ worker = "woken"
    /\ IF Predicate
         THEN Proceed
         ELSE worker' = "blocked" /\ UNCHANGED workPending
    /\ UNCHANGED <<running, stopRequested, tickInterval, timed, signal, owner, starts>>

\* wait_for returns the predicate's value at the deadline; false means a tick.
Timeout ==
    /\ worker = "expired"
    /\ IF Predicate
         THEN Proceed
         ELSE worker' = "tick" /\ UNCHANGED workPending
    /\ UNCHANGED <<running, stopRequested, tickInterval, timed, signal, owner, starts>>

\* A handler returns, or throws and the exception is swallowed.
HandlerDone ==
    /\ worker \in {"work", "tick"}
    /\ worker' = "loop"
    /\ UNCHANGED <<running, stopRequested, workPending, tickInterval, timed, signal, owner,
                   starts>>

WorkerStep == EnterWait \/ Expire \/ Recheck \/ Timeout \/ HandlerDone

StopStep == StopNotify \/ StopJoin \/ StopClear

Next ==
    \/ Start \/ StopIdle \/ StopRequest \/ StopStep
    \/ WorkerStep \/ SpuriousWake
    \/ \E i \in Intervals : SetTickInterval(i)
    \/ \E s \in Signalers : SignalSet(s) \/ SignalNotify(s)

\* The scheduler runs the worker, whose handlers return and whose deadlines
\* pass, the thread inside Stop and the threads inside Signal.
Fairness ==
    /\ WF_workerVars(WorkerStep) /\ WF_workerVars(StopStep)
    /\ \A s \in Signalers : WF_workerVars(SignalNotify(s))

Spec == Init /\ [][Next]_workerVars /\ Fairness

-----------------------------------------------------------------------------
\* The type of every variable.
TypeOK ==
    /\ running \in BOOLEAN /\ stopRequested \in BOOLEAN /\ workPending \in BOOLEAN
    /\ tickInterval \in Intervals
    /\ worker \in {"none", "loop", "blocked", "woken", "expired", "work", "tick", "exited"}
    /\ timed \in BOOLEAN
    /\ signal \in [Signalers -> {"idle", "notify"}]
    /\ owner \in {"idle", "notify", "join", "clear"}
    /\ starts \in Nat

\* No lost wakeup: a worker that blocks while it has something to do is about
\* to be notified by the thread that gave it that to do, with or without a
\* deadline, and whenever the signal came - before Start, between two waits,
\* while a handler ran.
NoLostWakeup ==
    worker = "blocked" /\ Predicate =>
        owner = "notify" \/ \E s \in Signalers : signal[s] = "notify"

\* Once Stop has returned no handler runs and none will: the handlers use a
\* HookEngine that is torn down next.
StopJoins == ~running => worker = "none"

=============================================================================

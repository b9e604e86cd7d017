----------------------------- MODULE ConfigSync -----------------------------
(***************************************************************************)
(* How a change of the configuration reaches the hook engine.              *)
(*                                                                         *)
(* The configuration lives twice outside the engine: in shared memory (the *)
(* fast fields, a generation and the epoch of a seqlock) and in            *)
(* config.toml (everything).  Three parties change it, each in its own     *)
(* order: the settings dialog writes the memory at once and the file half  *)
(* a minute later, the list dialogs write the file and then bump the       *)
(* generation, the tray menu does either.  All of them read the whole      *)
(* shared state, change fields of the copy and write it back; nothing      *)
(* keeps two of them apart.  The worker thread of the hook process reads   *)
(* memory and file at different moments.                                   *)
(*                                                                         *)
(* The fast fields are represented by one flag and the code table, what    *)
(* only the file holds by the version of the lists.                        *)
(***************************************************************************)
EXTENDS Naturals

CONSTANTS
  Tables,      \* code tables
  Unicode,     \* the one at first
  Apps,        \* applications that can have the focus
  Override,    \* per-app code table: [Apps -> Tables \cup {NoTable}]
  NoTable,     \* no override
  NoApp,       \* no application
  Uses,        \* what the user does, a subset of Operations
  MaxUses,     \* bound on operations
  MaxFocus     \* bound on changes of focus

Operations == {"edit", "list", "menu", "table"}
Writers == {"settings", "dialog", "tray"}
GenerationSize == 256

ASSUME ConstantsOK ==
  /\ NoTable \notin Tables /\ NoApp \notin Apps /\ Unicode \in Tables
  /\ Override \in [Apps -> Tables \cup {NoTable}]
  /\ Uses \subseteq Operations
  /\ MaxUses \in Nat /\ MaxFocus \in Nat

VARIABLES
  shm,         \* SharedState: [epoch, gen, flag, table]
  toml,        \* config.toml: [flag, table, lists]
  settings,    \* the settings dialog's config_ and configDirty_
  refresh,     \* WM_VKEY_CONFIG_CHANGED is queued for the settings dialog
  reload,      \* WM_VKEY_HOOK_RELOAD is queued for the tray window
  at, doing,   \* [Writers -> ...]: where a writer is, in which operation
  copy,        \* [Writers -> ...]: the state it read, with its changes
  menu,        \* what the tray menu writes: [flag, table]
  lastEpoch,   \* lastEpoch_
  seen,        \* lastConfigGeneration_, lastFeatureFlags_, lastCodeTable_
  run,         \* config_'s flag, currentCodeTable_, globalCodeTable_, snapshot
  signal,      \* the worker has been signalled
  worker,      \* where the worker is in its work handler
  snap,        \* the state QuickSync read
  stored,      \* what ReloadFromToml loaded
  latched,     \* application of the latched focus event
  classifying, \* application being classified
  target,      \* classification posted: [app, table]
  active,      \* activeExe_
  left,        \* bounds: [uses, focus]
  overlapped,  \* helper: two read-modify-writes have overlapped
  picked       \* helper: a code table has been chosen in the tray menu

writerVars == <<at, doing, copy, menu, settings, refresh, reload>>
engineVars == <<lastEpoch, seen, run>>
workerVars == <<worker, snap, stored>>
focusVars  == <<latched, classifying, target, active>>
vars == <<shm, toml, writerVars, engineVars, workerVars, focusVars, signal,
          left, overlapped, picked>>

NoTarget == [app |-> NoApp, table |-> NoTable]

\* The program starts with memory and file in agreement.  Local variables
\* that are out of scope have these values too.
Default == [flag |-> FALSE, table |-> Unicode]
DefaultFields == [gen |-> 0, flag |-> FALSE, table |-> Unicode]
NoCopy == [gen |-> 0, flag |-> FALSE, table |-> Unicode, seq |-> 0]
DefaultState == [epoch |-> 2, gen |-> 0, flag |-> FALSE, table |-> Unicode]

Init ==
  /\ shm = DefaultState
  /\ toml = [flag |-> FALSE, table |-> Unicode, lists |-> 0]
  /\ settings = [flag |-> FALSE, table |-> Unicode, dirty |-> FALSE]
  /\ refresh = FALSE /\ reload = FALSE
  /\ at = [w \in Writers |-> "idle"]
  /\ doing = [w \in Writers |-> "none"]
  /\ copy = [w \in Writers |-> NoCopy]
  /\ menu = Default
  /\ lastEpoch = 0
  /\ seen = DefaultFields
  /\ run = [flag |-> FALSE, current |-> Unicode, global |-> Unicode,
            lists |-> 0]
  /\ signal = FALSE /\ worker = "idle"
  /\ snap = DefaultState /\ stored = Default
  /\ latched = NoApp /\ classifying = NoApp
  /\ target = NoTarget /\ active = NoApp
  /\ left = [uses |-> MaxUses, focus |-> MaxFocus]
  /\ overlapped = FALSE /\ picked = FALSE

-----------------------------------------------------------------------------
(* The shared state, as SharedStateManager reads and writes it.  A reader   *)
(* retries five times and then returns an invalid state; it can fail only   *)
(* while the epoch is odd.                                                  *)

Stable == shm.epoch % 2 = 0

NewGen(w) ==
  IF doing[w] = "table" THEN shm.gen ELSE (shm.gen + 1) % GenerationSize

\* What each operation changes in the copy it read: the settings dialog and
\* the menu write their whole configuration, the code table item one field,
\* a save nothing but the generation.
Changed(w) ==
  [gen   |-> NewGen(w),
   flag  |-> IF doing[w] = "edit" THEN settings.flag
             ELSE IF doing[w] = "menu" THEN menu.flag ELSE shm.flag,
   table |-> IF doing[w] = "edit" THEN settings.table
             ELSE IF doing[w] \in {"menu", "table"} THEN menu.table
             ELSE shm.table,
   seq   |-> 0]

\* What follows the write in each operation, whether or not it took place.
AfterWrite(w) ==
  /\ at' = [at EXCEPT ![w] = IF doing[w] = "table" THEN "store" ELSE "idle"]
  /\ doing' = [doing EXCEPT ![w] = "none"]
  /\ copy' = [copy EXCEPT ![w] = NoCopy]
  /\ menu' = IF doing[w] = "menu" THEN Default ELSE menu
  /\ settings' = IF doing[w] = "edit" THEN [settings EXCEPT !.dirty = TRUE]
                  ELSE settings
  /\ reload' = (reload \/ doing[w] = "list")
  /\ refresh' = (refresh \/ doing[w] = "menu")

Read(w) ==
  /\ at[w] = "read" /\ Stable
  /\ copy' = [copy EXCEPT ![w] = Changed(w)]
  /\ at' = [at EXCEPT ![w] = "open"]
  /\ UNCHANGED <<doing, menu, settings, refresh, reload, shm, toml>>

ReadFails(w) ==
  /\ at[w] = "read" /\ ~Stable
  /\ AfterWrite(w)
  /\ UNCHANGED <<shm, toml>>

\* The epoch is made odd and remembered; it is not checked again.
OpenWrite(w) ==
  /\ at[w] = "open"
  /\ copy' = [copy EXCEPT ![w].seq = shm.epoch + 1]
  /\ shm' = [shm EXCEPT !.epoch = @ + 1]
  /\ at' = [at EXCEPT ![w] = "close"]
  /\ UNCHANGED <<doing, menu, settings, refresh, reload, toml>>

\* The fields, then the epoch: one step, as nobody uses fields between.
CloseWrite(w) ==
  /\ at[w] = "close"
  /\ shm' = [epoch |-> copy[w].seq + 1, gen |-> copy[w].gen,
             flag |-> copy[w].flag, table |-> copy[w].table]
  /\ AfterWrite(w)
  /\ UNCHANGED toml

WriterStep(w) ==
  /\ Read(w) \/ ReadFails(w) \/ OpenWrite(w) \/ CloseWrite(w)
  /\ UNCHANGED <<engineVars, workerVars, focusVars, signal, left,
                 overlapped, picked>>

-----------------------------------------------------------------------------
(* The operations, up to where they read the shared state.  Writing the     *)
(* file is one step: a mutex keeps the processes apart and the file is      *)
(* replaced by a rename.  It may fail, and no caller cares.  Bound: once two *)
(* writers have overlapped or the table has been picked in the tray menu,   *)
(* what is under way is finished and nothing more is begun.                 *)

Undisturbed == ~overlapped /\ ~picked

Begin(w, operation) ==
  /\ at[w] = "idle" /\ Undisturbed
  /\ at' = [at EXCEPT ![w] = "read"]
  /\ doing' = [doing EXCEPT ![w] = operation]
  /\ overlapped' = (overlapped \/ \E v \in Writers : at[v] /= "idle")
  /\ UNCHANGED <<shm, copy, reload, engineVars, workerVars, focusVars, signal>>

Use(w, operation) ==
  /\ operation \in Uses /\ left.uses > 0
  /\ left' = [left EXCEPT !.uses = @ - 1]
  /\ Begin(w, operation)

Save(content) == toml' \in {toml, content}

\* A control of the settings dialog: saveSettings, syncToSharedState.
EditSettings ==
  /\ Use("settings", "edit")
  /\ \/ settings' = [settings EXCEPT !.flag = ~@]
     \/ \E t \in Tables \ {settings.table} :
          settings' = [settings EXCEPT !.table = t]
  /\ UNCHANGED <<toml, menu, refresh, picked>>

\* The deferred save, by the timer or when the dialog closes: saveToToml.
SaveSettings ==
  /\ settings.dirty
  /\ Begin("settings", "save")
  /\ Save([toml EXCEPT !.flag = settings.flag, !.table = settings.table])
  /\ settings' = [settings EXCEPT !.dirty = FALSE]
  /\ UNCHANGED <<menu, refresh, left, picked>>

\* A list dialog: ConfigManager saves the list, then SignalConfigChange.
SaveList ==
  /\ Use("dialog", "list")
  /\ Save([toml EXCEPT !.lists = @ + 1])
  /\ UNCHANGED <<settings, menu, refresh, picked>>

\* A check item of the tray menu: load the file, flip, ApplyConfigChange.
FlipInMenu ==
  /\ Use("tray", "menu")
  /\ menu' = [flag |-> ~toml.flag, table |-> toml.table]
  /\ Save([toml EXCEPT !.flag = menu'.flag])
  /\ UNCHANGED <<settings, refresh, picked>>

\* A code table item of the tray menu: SetCodeTable, then the shared state.
PickTable(t) ==
  /\ "table" \in Uses /\ left.uses > 0 /\ Undisturbed
  /\ at["tray"] = "idle"
  /\ left' = [left EXCEPT !.uses = @ - 1]
  /\ at' = [at EXCEPT !["tray"] = "read"]
  /\ doing' = [doing EXCEPT !["tray"] = "table"]
  /\ overlapped' = (overlapped \/ \E v \in Writers : at[v] /= "idle")
  /\ run' = [run EXCEPT !.current = t]
  /\ menu' = [menu EXCEPT !.table = t]
  /\ picked' = TRUE
  /\ UNCHANGED <<shm, toml, copy, settings, refresh, reload, lastEpoch, seen,
                 workerVars, focusVars, signal>>

\* ... and then the file and the settings dialog.
StoreTable ==
  /\ at["tray"] = "store"
  /\ at' = [at EXCEPT !["tray"] = "idle"]
  /\ Save([toml EXCEPT !.table = menu.table])
  /\ refresh' = TRUE /\ menu' = Default
  /\ UNCHANGED <<shm, doing, copy, settings, reload, engineVars,
                 workerVars, focusVars, signal, left, overlapped, picked>>

\* WM_VKEY_CONFIG_CHANGED: loadSettings.
RefreshSettings ==
  /\ refresh /\ at["settings"] = "idle"
  /\ refresh' = FALSE
  /\ settings' = [settings EXCEPT !.flag = toml.flag, !.table = toml.table]
  /\ UNCHANGED <<shm, toml, at, doing, copy, menu, reload, engineVars,
                 workerVars, focusVars, signal, left, overlapped, picked>>

\* WM_VKEY_HOOK_RELOAD on the main thread, which also runs the tray menu.
HandleReload ==
  /\ reload /\ at["tray"] = "idle"
  /\ reload' = FALSE /\ signal' = TRUE
  /\ UNCHANGED <<shm, toml, at, doing, copy, menu, settings, refresh,
                 engineVars, workerVars, focusVars, left, overlapped, picked>>

-----------------------------------------------------------------------------
(* The hook thread: the fast path of QuickSync before every key, and the    *)
(* classifications that the worker posts.                                   *)

\* Faulty variant: the hook thread advances lastEpoch_ before it signals.
KeyPressedClaims ==
  /\ ~(Stable /\ shm.epoch = lastEpoch)
  /\ ~signal /\ signal' = TRUE /\ lastEpoch' = shm.epoch
  /\ UNCHANGED <<shm, toml, writerVars, seen, run, workerVars, focusVars,
                 left, overlapped, picked>>

KeyPressed ==
  /\ ~(Stable /\ shm.epoch = lastEpoch)
  /\ ~signal /\ signal' = TRUE
  /\ UNCHANGED <<shm, toml, writerVars, engineVars, workerVars, focusVars,
                 left, overlapped, picked>>

TableOf(app, global) ==
  IF app \in Apps /\ Override[app] /= NoTable THEN Override[app] ELSE global

FocusEvent(app) ==
  /\ left.focus > 0 /\ Undisturbed
  /\ left' = [left EXCEPT !.focus = @ - 1]
  /\ latched' = app /\ signal' = TRUE
  /\ UNCHANGED <<shm, toml, writerVars, engineVars, workerVars, classifying,
                 target, active, overlapped, picked>>

ApplyFocus ==
  /\ target /= NoTarget
  /\ target' = NoTarget /\ active' = target.app
  /\ run' = [run EXCEPT !.current = target.table]
  /\ UNCHANGED <<shm, toml, writerVars, lastEpoch, seen, workerVars, latched,
                 classifying, signal, left, overlapped, picked>>

-----------------------------------------------------------------------------
(* The worker: QuickSyncFromSharedState and ReloadFromToml, once for the    *)
(* signal and once more for a latched window before it is classified.       *)

WorkerRest == UNCHANGED <<shm, toml, writerVars, left, overlapped, picked>>
SyncRest == WorkerRest /\ UNCHANGED <<focusVars, signal>>

Wake ==
  /\ worker = "idle" /\ signal
  /\ signal' = FALSE /\ worker' = "check"
  /\ WorkerRest /\ UNCHANGED <<engineVars, snap, stored, focusVars>>

CheckEpoch ==
  /\ worker = "check"
  /\ worker' = IF Stable /\ shm.epoch = lastEpoch THEN "done" ELSE "read"
  /\ SyncRest /\ UNCHANGED <<engineVars, snap, stored>>

ReadState ==
  /\ worker = "read"
  /\ IF Stable THEN snap' = shm /\ worker' = "claim"
               ELSE worker' = "done" /\ UNCHANGED snap
  /\ SyncRest /\ UNCHANGED <<engineVars, stored>>

\* Faulty variant: the epoch claimed is the one in memory by now.
ClaimPresent ==
  /\ worker = "claim"
  /\ lastEpoch' = IF Stable THEN shm.epoch ELSE snap.epoch
  /\ seen' = [seen EXCEPT !.gen = snap.gen]
  /\ worker' = IF snap.gen /= seen.gen THEN "load" ELSE "diff"
  /\ SyncRest /\ UNCHANGED <<run, snap, stored>>

\* Only the worker claims, so its compare-and-swap cannot fail.
Claim ==
  /\ worker = "claim"
  /\ lastEpoch' = snap.epoch
  /\ seen' = [seen EXCEPT !.gen = snap.gen]
  /\ worker' = IF snap.gen /= seen.gen THEN "load" ELSE "diff"
  /\ SyncRest /\ UNCHANGED <<run, snap, stored>>

LoadFile ==
  /\ worker = "load"
  /\ stored' = [flag |-> toml.flag, table |-> toml.table]
  /\ worker' = "publish"
  /\ SyncRest /\ UNCHANGED <<engineVars, snap>>

\* The fast fields but the code table come from memory, if it can be read.
PublishConfig ==
  /\ worker = "publish"
  /\ stored' = Default
  /\ run' = [run EXCEPT !.flag = IF Stable THEN shm.flag ELSE stored.flag,
                        !.current = stored.table, !.global = stored.table]
  /\ worker' = "lists"
  /\ SyncRest /\ UNCHANGED <<lastEpoch, seen, snap>>

\* The lists are parsed again.
RebuildSnapshotFromToml == [run EXCEPT !.lists = toml.lists]

\* So they are after a reload, and the override of the application in front
\* is put back.
PublishLists ==
  /\ worker = "lists"
  /\ run' = [RebuildSnapshotFromToml EXCEPT
       !.current = IF active = NoApp THEN @ ELSE TableOf(active, run.global)]
  /\ worker' = "diff"
  /\ SyncRest /\ UNCHANGED <<lastEpoch, seen, snap, stored>>

\* The fields against those of the last time.  Macros switched on or off
\* rebuild the lists.
Diff ==
  /\ worker = "diff"
  /\ worker' = "done" /\ snap' = DefaultState
  /\ IF snap.flag = seen.flag /\ snap.table = seen.table
     THEN UNCHANGED <<seen, run>>
     ELSE /\ seen' = [seen EXCEPT !.flag = snap.flag, !.table = snap.table]
          /\ \E lists \in {run.lists, RebuildSnapshotFromToml.lists} :
               run' = [flag |-> snap.flag, lists |-> lists,
                       current |-> snap.table,
                       global |-> IF run.current /= snap.table
                                  THEN snap.table ELSE run.global]
  /\ SyncRest /\ UNCHANGED <<lastEpoch, stored>>

\* DrainClassifyOnWorker takes a latched window and syncs once more, then
\* classifies it and posts the result.
Classify ==
  /\ worker = "done"
  /\ IF classifying = NoApp
     THEN /\ classifying' = latched /\ latched' = NoApp
          /\ worker' = IF latched = NoApp THEN "idle" ELSE "check"
          /\ UNCHANGED target
     ELSE /\ target' = [app |-> classifying,
                        table |-> TableOf(classifying, run.global)]
          /\ classifying' = NoApp /\ worker' = "idle"
          /\ UNCHANGED latched
  /\ WorkerRest /\ UNCHANGED <<engineVars, snap, stored, active, signal>>

WorkerStep ==
  \/ Wake \/ CheckEpoch \/ ReadState \/ Claim
  \/ LoadFile \/ PublishConfig \/ PublishLists \/ Diff \/ Classify

Next ==
  \/ \E w \in Writers : WriterStep(w)
  \/ EditSettings \/ SaveSettings \/ RefreshSettings
  \/ SaveList
  \/ FlipInMenu \/ (\E t \in Tables : PickTable(t)) \/ StoreTable
  \/ HandleReload
  \/ KeyPressed \/ (\E app \in Apps : FocusEvent(app)) \/ ApplyFocus
  \/ WorkerStep

\* Processes run; the deferred save's timer fires; the user types on, so that
\* a change that nobody signals is found by a key.
Fairness ==
  /\ \A w \in Writers : WF_vars(WriterStep(w))
  /\ WF_vars(StoreTable) /\ WF_vars(SaveSettings) /\ WF_vars(RefreshSettings)
  /\ WF_vars(HandleReload) /\ WF_vars(KeyPressed) /\ WF_vars(ApplyFocus)
  /\ WF_vars(WorkerStep)

Spec == Init /\ [][Next]_vars /\ Fairness

-----------------------------------------------------------------------------
Generations == 0 .. GenerationSize - 1

StoreType ==
  /\ shm \in [epoch : Nat, gen : Generations, flag : BOOLEAN, table : Tables]
  /\ toml \in [flag : BOOLEAN, table : Tables, lists : 0 .. MaxUses]
  /\ left \in [uses : 0 .. MaxUses, focus : 0 .. MaxFocus]

WriterType ==
  /\ settings \in [flag : BOOLEAN, table : Tables, dirty : BOOLEAN]
  /\ menu \in [flag : BOOLEAN, table : Tables]
  /\ at \in [Writers -> {"idle", "read", "open", "close", "store"}]
  /\ doing \in [Writers -> Operations \cup {"none", "save"}]
  /\ copy \in [Writers -> [gen : Generations, flag : BOOLEAN,
                           table : Tables, seq : Nat]]
  /\ refresh \in BOOLEAN /\ reload \in BOOLEAN
  /\ overlapped \in BOOLEAN /\ picked \in BOOLEAN

EngineType ==
  /\ lastEpoch \in Nat /\ lastEpoch % 2 = 0
  /\ seen \in [gen : Generations, flag : BOOLEAN, table : Tables]
  /\ run \in [flag : BOOLEAN, current : Tables, global : Tables,
              lists : 0 .. MaxUses]
  /\ signal \in BOOLEAN

WorkerType ==
  /\ worker \in {"idle", "check", "read", "claim", "load", "publish",
                 "lists", "diff", "done"}
  /\ snap \in [epoch : Nat, gen : Generations, flag : BOOLEAN, table : Tables]
  /\ stored \in [flag : BOOLEAN, table : Tables]
  /\ latched \in Apps \cup {NoApp} /\ classifying \in Apps \cup {NoApp}
  /\ active \in Apps \cup {NoApp}
  /\ target \in [app : Apps, table : Tables] \cup {NoTarget}

\* What every variable holds; the epoch claimed is always that of a finished
\* write (QuickSyncFromSharedState).
TypeOK == StoreType /\ WriterType /\ EngineType /\ WorkerType

\* The engine has nothing left to notice: what a key would find.
CaughtUp ==
  Stable /\ shm.epoch = lastEpoch /\ worker \in {"idle", "check", "done"}

\* As long as no two writers overlap, an engine with nothing left to notice
\* runs with the flags that are in memory.  The reload takes them from a
\* second read, later than the one whose epoch was claimed, and the comparison
\* with the last flags leaves early: it is the generation, bumped by
\* everybody who writes flags, that makes up for a flag that goes and returns
\* (QuickSyncFromSharedState, ReloadFromToml).
FlagsFollow == Undisturbed /\ CaughtUp => run.flag = shm.flag

\* ... and with the lists that are in the file, if the dialog that saved them
\* has also bumped the generation: the file may change at any moment of a
\* reload, and the bump comes after it (SignalConfigChange).
ListsFollow ==
  Undisturbed /\ CaughtUp /\ at["dialog"] = "idle" => run.lists = toml.lists

Saved == toml.table = shm.table /\ \A w \in Writers : at[w] = "idle"

\* ... and falls back on the code table that memory and file agree on.  While
\* the settings dialog has not saved it, a reload brings the old table back;
\* the second bump, by the deferred save, repairs that (saveToToml).
TableFollows ==
  Undisturbed /\ CaughtUp /\ Saved => run.global = toml.table

\* An engine that has caught up runs with all of it, although flags, lists and
\* table come over three ways.
EngineFollows == FlagsFollow /\ ListsFollow /\ TableFollows

\* The code table chosen in the tray menu is the one that an application
\* without an override of its own is given from then on: globalCodeTable_ is
\* the "config value, restored when no override" (HookEngine.h).
PickedTableKept == CaughtUp /\ Saved => run.global = toml.table

\* An epoch that is odd means that a write is in progress, "even = stable, odd
\* = write in progress" (SharedState.h): otherwise no read succeeds any more.
EpochEvenAtRest == (\A w \in Writers : at[w] /= "close") => Stable

\* This holds as long as no two read-modify-writes overlap.
EpochEvenIfSerial == ~overlapped => EpochEvenAtRest

\* In the end the engine runs with the flags in memory and the lists in the
\* file, whichever thread noticed a change first: the hook thread, which only
\* signals the worker, must leave the change for the worker to see.
ChangesArrive ==
  <>[](overlapped \/ picked
       \/ (run.flag = shm.flag /\ run.lists = toml.lists))
=============================================================================

----------------------------- MODULE ConfigFile -----------------------------
(***************************************************************************)
(* config.toml and the threads that read and write it.                     *)
(*                                                                         *)
(* Every save replaces the sections it owns in a table freshly read from   *)
(* the file, writes the table beside the file and renames it over the      *)
(* file, under a named mutex it waits five seconds for.  Loads take no     *)
(* mutex; those of the hook process go through a cache keyed by the        *)
(* file's time stamp.  What a dialog saves it may have loaded long before, *)
(* and the sections a save does not replace must come through it.          *)
(*                                                                         *)
(* A table maps a key to the number of the edit its value comes from, 0    *)
(* where the key is absent.  The typing section has a key for each of the  *)
(* parties that edit part of it; every other section is one key.  In the   *)
(* Sciter edition the settings window and each list dialog are processes;  *)
(* in the Classic edition they share one thread of the hook process.       *)
(***************************************************************************)
EXTENDS Naturals, Sequences, FiniteSets

CONSTANTS
  Kinds,       \* list dialogs that can be opened, a subset of AllKinds
  HeldKeys,    \* what is changed in the settings window, a subset of
               \* {"method", "switch"}
  Editions,    \* editions to look at, a subset of {"sciter", "classic"}
  Starts,      \* files to start with, a subset of {"none", "v2", "v3"}
  Reasons,     \* outside troubles that can happen, a subset of AllReasons
  MaxEdits,    \* bound on edits
  MaxTied,     \* bound on the saves in one tick of the clock after its first
  MaxTroubles, \* bound on the outside troubles of a behaviour
  NoThread,    \* nobody holds the mutex
  NoKind       \* no dialog is open

AllKinds == {"macro", "spell", "keymap", "excluded", "tsf", "overrides", "hotkeys"}
AllReasons == {"timeout", "unreadable", "refused", "exit", "tick"}
Threads == {"settings", "dialog", "tray", "worker"}

\* For each pair of a load and a save: the keys the load takes out of a table
\* and the save replaces in the one it has read.
TypingKeys == {"method", "trigger", "exclusions", "keymap", "mirror"}
HotkeyConfig == {"switch"}
HotkeyRegistry == {"registry", "mirror"}
ExcludedList == {"excluded"}
ForcedVnList == {"forced"}
SmartSwitchMap == {"smart"}
TsfList == {"tsf"}
OverrideTable == {"overrides"}
SystemConfig == {"system"}
Macros == {"macros"}

ListKeys == {"macros", "excluded", "forced", "tsf", "overrides", "registry"}
Keys == TypingKeys \cup ListKeys \cup {"switch", "system", "smart"}

\* The value of a list of hotkeys derived from the fields of version 2.
Derived == MaxEdits + 1
Values == 0 .. Derived
Tables == [Keys -> Values]
Blank == [k \in Keys |-> 0]
Only(ks, table) == [k \in Keys |-> IF k \in ks THEN table[k] ELSE 0]
Over(table, ks, other) == [k \in Keys |-> IF k \in ks THEN other[k] ELSE table[k]]
Jobs == [keys : SUBSET Keys, table : Tables]

ASSUME ConstantsOK ==
  /\ Kinds \subseteq AllKinds /\ NoKind \notin AllKinds
  /\ HeldKeys \subseteq {"method", "switch"}
  /\ Editions \subseteq {"sciter", "classic"}
  /\ Starts \subseteq {"none", "v2", "v3"}
  /\ Reasons \subseteq AllReasons
  /\ MaxEdits \in Nat /\ MaxTroubles \in Nat /\ MaxTied \in Nat /\ NoThread \notin Threads

VARIABLES
  edition,     \* which of the two programs runs
  life,        \* the main program: "on", "leaving" or "flushing"
  file,        \* config.toml: [exists, torn, table, version, stamp]; its stamp is the
               \* version written first in the tick of the clock it was written in
  tmp,         \* config.toml.tmp: [there, open, mixed, table]
  lock,        \* owner of Local\VKeyConfigLock
  saver,       \* [Threads -> [pc, jobs, base]]: the save a thread is in
  cache,       \* g_tomlCache of the hook process: [stamp, table, since]
  reader,      \* the load the worker is in: [pc, stamp, table, since, from]
  settings,    \* the settings window: [open, dirty, closing, held]
  pane,        \* the list dialog: [kind, list]
  smart,       \* smart-switch map: [snap, late, dirty, flushing]
  bump,        \* the generation in shared memory is new to the worker
  refresh,     \* WM_VKEY_CONFIG_CHANGED is queued for the settings window
  edits, picked, \* edits so far; [Keys -> Values]: last value the user chose
  trouble      \* what went wrong so far

owners == <<settings, pane, smart, refresh, edits, picked>>
vars == <<edition, life, file, tmp, lock, saver, cache, reader, settings, pane, smart,
          bump, refresh, edits, picked, trouble>>

Idle == [pc |-> "idle", jobs |-> <<>>, base |-> Blank]
NoPane == [kind |-> NoKind, list |-> Blank]
Shut == [open |-> FALSE, dirty |-> FALSE, closing |-> FALSE, held |-> Blank]
Uncached == [stamp |-> 0, table |-> Blank, since |-> 0]
AtRest == [pc |-> "idle", stamp |-> 0, table |-> Blank, since |-> 0, from |-> 0]

\* A file of version 2 has no [hotkey_state]; there may be no file at all.
Init ==
  /\ edition \in Editions /\ life = "on"
  /\ \E start \in Starts :
       file = [exists |-> start # "none", torn |-> FALSE, version |-> 1, stamp |-> 1,
               table |-> [Blank EXCEPT !["registry"] = IF start = "v3" THEN Derived ELSE 0]]
  /\ tmp = [there |-> FALSE, open |-> {}, mixed |-> FALSE, table |-> Blank]
  /\ lock = NoThread
  /\ saver = [t \in Threads |-> Idle]
  /\ cache = Uncached /\ reader = AtRest
  /\ settings = Shut /\ pane = NoPane
  /\ smart = [snap |-> 0, late |-> FALSE, dirty |-> FALSE, flushing |-> FALSE]
  /\ bump = TRUE /\ refresh = FALSE
  /\ edits = 0 /\ picked = file.table
  /\ trouble \in SUBSET (Reasons \cap {"tick"})

\* The worker and the hook thread are joined before the last flush.
Working == life # "flushing"

InHookProcess(t) == edition = "classic" \/ t \in {"tray", "worker"}

\* The Classic windows are modal in one thread.
Free(t) ==
  /\ saver[t].pc = "idle"
  /\ edition = "classic" /\ t \in {"settings", "dialog"} =>
       saver["settings"].pc = "idle" /\ saver["dialog"].pc = "idle"

(***************************************************************************)
(* Loads                                                                   *)
(***************************************************************************)

\* What parsing the file gives: nothing when it is missing or half-written.
Parsed == IF file.exists /\ ~file.torn THEN file.table ELSE Blank

\* The cache of the hook process after a load that nothing interrupts.
CacheAfter(t) ==
  IF ~InHookProcess(t) THEN cache
  ELSE IF ~file.exists THEN Uncached
  ELSE IF cache.stamp = file.stamp THEN cache
  ELSE [stamp |-> file.stamp, table |-> Parsed, since |-> file.version]

\* What such a load gives.
Load(t) == IF InHookProcess(t) THEN CacheAfter(t).table ELSE Parsed

\* Mutant: only the saves of this process empty the cache.
StartLoadTrustCache ==
  /\ Working /\ bump /\ reader.pc = "idle" /\ ~smart.flushing /\ Free("worker")
  /\ reader' = IF ~file.exists
               THEN AtRest
               ELSE IF cache.stamp # 0
               THEN [AtRest EXCEPT !.pc = "loaded", !.table = cache.table,
                                   !.since = cache.since, !.from = file.stamp]
               ELSE [AtRest EXCEPT !.pc = "stat", !.stamp = file.stamp,
                                   !.from = file.stamp]
  /\ cache' = IF file.exists THEN cache ELSE Uncached
  /\ bump' = FALSE
  /\ UNCHANGED <<edition, life, file, tmp, lock, saver, trouble, owners>>

\* The worker reloads when the generation changed.
StartLoad ==
  /\ Working /\ bump /\ reader.pc = "idle" /\ ~smart.flushing /\ Free("worker")
  /\ reader' = IF ~file.exists
               THEN AtRest
               ELSE IF cache.stamp = file.stamp
               THEN [AtRest EXCEPT !.pc = "loaded", !.table = cache.table,
                                   !.since = cache.since, !.from = file.stamp]
               ELSE [AtRest EXCEPT !.pc = "stat", !.stamp = file.stamp,
                                   !.from = file.stamp]
  /\ cache' = IF file.exists THEN cache ELSE Uncached
  /\ bump' = FALSE
  /\ UNCHANGED <<edition, life, file, tmp, lock, saver, trouble, owners>>

\* The stamp was read before the file is opened, and the lock of the cache
\* is not held meanwhile.
OpenToParse ==
  /\ reader.pc = "stat"
  /\ reader' = [reader EXCEPT !.pc = "parse", !.table = Parsed, !.since = file.version]
  /\ UNCHANGED <<edition, life, file, tmp, lock, saver, cache, bump, trouble, owners>>

\* The file is closed before the entry is stored, and renames pass again.
CloseFile ==
  /\ reader.pc = "parse"
  /\ reader' = [reader EXCEPT !.pc = "parsed"]
  /\ UNCHANGED <<edition, life, file, tmp, lock, saver, cache, bump, trouble, owners>>

\* A save that emptied the cache in between does not keep this entry out.
StoreParsed ==
  /\ reader.pc = "parsed"
  /\ reader' = [reader EXCEPT !.pc = "loaded"]
  /\ cache' = [stamp |-> reader.stamp, table |-> reader.table, since |-> reader.since]
  /\ UNCHANGED <<edition, life, file, tmp, lock, saver, bump, trouble, owners>>

\* The section [hotkey_state], which every save of the hotkeys writes.
HasHotkeyState(table) == table["registry"] # 0

\* MigrateLegacyHotkeysIfNeeded: without it, the hotkeys are derived from the
\* older fields and saved.
UseLoaded ==
  /\ reader.pc = "loaded"
  /\ reader' = AtRest
  /\ saver' = IF ~HasHotkeyState(reader.table)
              THEN [saver EXCEPT !["worker"] =
                     [pc |-> "lock", base |-> Blank,
                      jobs |-> <<[keys |-> HotkeyRegistry,
                                  table |-> [Blank EXCEPT !["registry"] = Derived,
                                                          !["mirror"] = Derived]]>>]]
              ELSE saver
  /\ UNCHANGED <<edition, life, file, tmp, lock, cache, bump, trouble, owners>>

(***************************************************************************)
(* Saves                                                                   *)
(***************************************************************************)
Job(t) == Head(saver[t].jobs)

Asked(keys, table) == [keys |-> keys, table |-> Only(keys, table)]

Start(t, jobs) ==
  saver' = [saver EXCEPT ![t] = [pc |-> "lock", jobs |-> jobs, base |-> Blank]]

At(t, pc) == saver[t].pc = pc
Step(t, pc) == saver' = [saver EXCEPT ![t].pc = pc]
May(reason) ==
  reason \in Reasons \ trouble /\ Cardinality(trouble \cap AllReasons) < MaxTroubles
Trouble(reason) == May(reason) /\ trouble' = trouble \cup {reason}

\* LoadExistingToml: a file that cannot be read counts as an empty one.
ReadExisting(t) ==
  \/ /\ saver' = [saver EXCEPT ![t].pc = "open", ![t].base = Parsed]
     /\ UNCHANGED trouble
  \/ /\ Trouble("unreadable")
     /\ saver' = [saver EXCEPT ![t].pc = "open", ![t].base = Blank]

\* Mutant: the mutex is opened, and nobody waits for it.
AcquireNoWait(t) ==
  /\ At(t, "lock")
  /\ lock' = t
  /\ ReadExisting(t)
  /\ UNCHANGED <<edition, life, file, tmp, cache, reader, bump, owners>>

\* The first thing done under the mutex is to read the file.
Acquire(t) ==
  /\ At(t, "lock") /\ lock = NoThread
  /\ lock' = t
  /\ ReadExisting(t)
  /\ UNCHANGED <<edition, life, file, tmp, cache, reader, bump, owners>>

\* WAIT_TIMEOUT: "proceed without lock (better than blocking user)".
GiveUpWaiting(t) ==
  /\ At(t, "lock") /\ lock # NoThread
  /\ Trouble("timeout")
  /\ saver' = [saver EXCEPT ![t].pc = "open", ![t].base = Parsed]
  /\ UNCHANGED <<edition, life, file, tmp, lock, cache, reader, bump, owners>>

\* Opening truncates what another writer has in hand.
OpenTmp(t) ==
  /\ At(t, "open") /\ Step(t, "write")
  /\ tmp' = [there |-> TRUE, open |-> tmp.open \cup {t},
             mixed |-> tmp.open # {}, table |-> Blank]
  /\ UNCHANGED <<edition, life, file, lock, cache, reader, bump, trouble, owners>>

WriteTmp(t) ==
  /\ At(t, "write") /\ Step(t, "move")
  /\ tmp' = [tmp EXCEPT !.open = @ \ {t},
                        !.table = Over(saver[t].base, Job(t).keys, Job(t).table)]
  /\ UNCHANGED <<edition, life, file, lock, cache, reader, bump, trouble, owners>>

\* Mutant: the next save of the operation goes on from the table at hand.
FinishOneLoad(t) ==
  LET rest == Tail(saver[t].jobs) IN
  /\ saver' = [saver EXCEPT ![t] =
                IF rest = <<>> THEN Idle
                ELSE [pc |-> "open", jobs |-> rest,
                      base |-> Over(saver[t].base, Job(t).keys, Job(t).table)]]
  /\ lock' = IF lock = t THEN NoThread ELSE lock
  /\ bump' = (bump \/ (rest = <<>> /\ t # "worker"))
  /\ refresh' = (refresh \/ (t = "tray" /\ settings.open))

\* The end of a save; the next of the same operation follows.  The last one
\* bumps the generation; the tray also tells the settings window.
Finish(t) ==
  LET rest == Tail(saver[t].jobs) IN
  /\ saver' = [saver EXCEPT ![t] =
                IF rest = <<>> THEN Idle
                ELSE [pc |-> "lock", jobs |-> rest, base |-> Blank]]
  /\ lock' = IF lock = t THEN NoThread ELSE lock
  /\ bump' = (bump \/ (rest = <<>> /\ t # "worker"))
  /\ refresh' = (refresh \/ (t = "tray" /\ settings.open))

\* MoveFileEx fails while a load has the file open or another writer the
\* temporary one.
InTheWay == reader.pc = "parse" \/ tmp.open # {} \/ ~tmp.there

\* Where the clock of the volume is coarse ("tick", from the beginning), files
\* written in one tick of it have one time stamp.
Stamps ==
  {file.version + 1} \cup
  (IF "tick" \in trouble /\ file.exists /\ file.version - file.stamp < MaxTied
   THEN {file.stamp} ELSE {})

\* Only the saves of the hook process empty its cache.
Move(t) ==
  /\ At(t, "move") /\ ~InTheWay
  /\ \E stamp \in Stamps :
       file' = [exists |-> TRUE, torn |-> tmp.mixed, table |-> tmp.table,
                version |-> file.version + 1, stamp |-> stamp]
  /\ tmp' = [tmp EXCEPT !.there = FALSE, !.table = Blank]
  /\ cache' = IF InHookProcess(t) THEN Uncached ELSE cache
  /\ Finish(t)
  /\ UNCHANGED <<edition, life, reader, trouble, settings, pane, smart, edits, picked>>

\* Mutant: nobody looks at the result of a save.
MoveFailsQuietly(t) ==
  /\ At(t, "move")
  /\ \/ InTheWay /\ trouble' = trouble \cup {"lost"}
     \/ ~InTheWay /\ Trouble("refused")
  /\ tmp' = IF tmp.open = {} THEN [tmp EXCEPT !.there = FALSE, !.table = Blank] ELSE tmp
  /\ Finish(t)
  /\ UNCHANGED <<edition, life, file, cache, reader, settings, pane, smart, edits, picked>>

\* A failed save is reported to its caller, and only the flush of the
\* smart-switch map looks: it marks the map dirty again.
MoveFails(t) ==
  /\ At(t, "move")
  /\ \/ InTheWay /\ trouble' = trouble \cup {"lost"}
     \/ ~InTheWay /\ Trouble("refused")
  /\ tmp' = IF tmp.open = {} THEN [tmp EXCEPT !.there = FALSE, !.table = Blank] ELSE tmp
  /\ smart' = [smart EXCEPT !.dirty = @ \/ (t = "worker" /\ "smart" \in Job(t).keys)]
  /\ Finish(t)
  /\ UNCHANGED <<edition, life, file, cache, reader, settings, pane, edits, picked>>

(***************************************************************************)
(* The settings window                                                     *)
(***************************************************************************)
Edited == edits + 1
Edit(ks) ==
  /\ edits < MaxEdits /\ edits' = Edited
  /\ picked' = [k \in Keys |-> IF k \in ks THEN Edited ELSE picked[k]]

SettingsKeys == TypingKeys \cup HotkeyConfig \cup SystemConfig
SettingsFree == settings.open /\ ~settings.closing /\ Free("settings")

\* What the system does for terminated threads.
Release(ts) ==
  /\ lock' = IF lock \in ts THEN NoThread ELSE lock
  /\ tmp' = [tmp EXCEPT !.open = @ \ ts, !.mixed = (@ \/ tmp.open \cap ts # {})]

Interrupted(ts) == IF \E t \in ts : ~At(t, "idle") THEN {"killed"} ELSE {}

\* LoadSettings: what the window holds is replaced; that it was dirty stays.
Reloaded == [settings EXCEPT !.held = Only(SettingsKeys, Load("settings"))]

\* Windows open while there is an edit left to make in them (MaxEdits).
OpenWindow ==
  /\ ~settings.open /\ life = "on" /\ edits < MaxEdits
  /\ settings' = [Reloaded EXCEPT !.open = TRUE] /\ cache' = CacheAfter("settings")
  /\ UNCHANGED <<edition, life, file, tmp, lock, saver, reader, pane, smart,
                 bump, refresh, edits, picked, trouble>>

SciterOpen == edition = "sciter" /\ OpenWindow
ClassicOpen == edition = "classic" /\ OpenWindow

\* WM_VKEY_CONFIG_CHANGED from the tray.
SettingsNotified ==
  /\ refresh /\ SettingsFree
  /\ refresh' = FALSE
  /\ settings' = Reloaded /\ cache' = CacheAfter("settings")
  /\ UNCHANGED <<edition, life, file, tmp, lock, saver, reader, pane, smart,
                 bump, edits, picked, trouble>>

\* A change of the typing configuration or of the switch hotkey goes to
\* shared memory at once and to the file when the timer fires.
EditHeld(k) ==
  /\ SettingsFree
  /\ Edit({k})
  /\ settings' = [settings EXCEPT !.held[k] = Edited, !.dirty = TRUE]
  /\ bump' = TRUE
  /\ UNCHANGED <<edition, life, file, tmp, lock, saver, cache, reader, pane, smart,
                 refresh, trouble>>

SciterToggle(k) == edition = "sciter" /\ EditHeld(k)
ClassicCommand(k) == edition = "classic" /\ pane.kind = NoKind /\ EditHeld(k)

SciterSaves(held) == <<Asked(TypingKeys, held), Asked(HotkeyConfig, held)>>
ClassicSaves(held) == SciterSaves(held) \o <<Asked(SystemConfig, held)>>
Saves(held) == IF edition = "sciter" THEN SciterSaves(held) ELSE ClassicSaves(held)

SaveToToml(held) == Start("settings", Saves(held))

\* System settings of the Sciter edition are saved where they are changed.
SciterSystemEdit ==
  /\ edition = "sciter" /\ SettingsFree
  /\ Edit({"system"})
  /\ settings' = [settings EXCEPT !.held["system"] = Edited]
  /\ Start("settings", <<Asked(SystemConfig, settings'.held)>>)
  /\ UNCHANGED <<edition, life, file, tmp, lock, cache, reader, pane, smart, bump,
                 refresh, trouble>>

\* In the Classic edition they wait like the others, or everything is saved
\* at once, depending on the control.
ClassicSystemEdit ==
  /\ edition = "classic" /\ SettingsFree /\ pane.kind = NoKind
  /\ Edit({"system"})
  /\ LET held == [settings.held EXCEPT !["system"] = Edited] IN
     \/ /\ settings' = [settings EXCEPT !.held = held, !.dirty = TRUE]
        /\ UNCHANGED saver
     \/ /\ settings' = [settings EXCEPT !.held = held, !.dirty = FALSE]
        /\ SaveToToml(held)
  /\ bump' = TRUE
  /\ UNCHANGED <<edition, life, file, tmp, lock, cache, reader, pane, smart, refresh,
                 trouble>>

\* The timer also fires in the message loop of a modal Classic dialog.
DeferredSave ==
  /\ SettingsFree /\ settings.dirty
  /\ settings' = [settings EXCEPT !.dirty = FALSE]
  /\ SaveToToml(settings.held)
  /\ UNCHANGED <<edition, life, file, tmp, lock, cache, reader, pane, smart, bump,
                 refresh, edits, picked, trouble>>

\* The list dialogs of the Sciter edition are terminated first, wherever
\* they are.
SciterClose ==
  /\ edition = "sciter" /\ SettingsFree
  /\ pane' = NoPane
  /\ settings' = [settings EXCEPT !.closing = TRUE, !.dirty = FALSE]
  /\ saver' = [saver EXCEPT
                !["dialog"] = Idle,
                !["settings"] = IF settings.dirty
                                THEN [pc |-> "lock", base |-> Blank,
                                      jobs |-> SciterSaves(settings.held)]
                                ELSE @]
  /\ Release({"dialog"})
  /\ trouble' = trouble \cup Interrupted({"dialog"})
  /\ UNCHANGED <<edition, life, file, cache, reader, smart, bump, refresh, edits,
                 picked>>

\* The close button of the Classic window drops what is not saved yet.
ClassicClose ==
  /\ edition = "classic" /\ SettingsFree /\ pane.kind = NoKind
  /\ settings' = [settings EXCEPT !.closing = TRUE, !.dirty = FALSE]
  /\ \/ settings.dirty /\ SaveToToml(settings.held)
     \/ UNCHANGED saver
  /\ UNCHANGED <<edition, life, file, tmp, lock, cache, reader, pane, smart, bump,
                 refresh, edits, picked, trouble>>

SettingsGone ==
  /\ settings.closing /\ At("settings", "idle")
  /\ settings' = Shut /\ refresh' = FALSE
  /\ UNCHANGED <<edition, life, file, tmp, lock, saver, cache, reader, pane, smart,
                 bump, edits, picked, trouble>>

(***************************************************************************)
(* The list dialogs                                                        *)
(***************************************************************************)

\* What a dialog saves: lists of its own, in this order, and its part of the
\* typing section.
MacroTable == [lists |-> <<Macros>>, part |-> {"trigger"}]
SpellExclusions == [lists |-> <<>>, part |-> {"exclusions"}]
UserDefined == [lists |-> <<>>, part |-> {"keymap"}]
ExcludedApps == [lists |-> <<ExcludedList, ForcedVnList>>, part |-> {}]
TsfApps == [lists |-> <<TsfList>>, part |-> {}]
AppOverrides == [lists |-> <<OverrideTable>>, part |-> {}]
Hotkeys == [lists |-> <<HotkeyRegistry>>, part |-> {}]

Dialog == [macro |-> MacroTable, spell |-> SpellExclusions, keymap |-> UserDefined,
           excluded |-> ExcludedApps, tsf |-> TsfApps, overrides |-> AppOverrides,
           hotkeys |-> Hotkeys]

Lists == Dialog[pane.kind].lists
Part == Dialog[pane.kind].part

OwnLists(kind) == UNION {Dialog[kind].lists[i] : i \in DOMAIN Dialog[kind].lists}

\* One list dialog at a time: the saves of two would follow one another
\* under the mutex like those of two of the threads.
OpenDialog(kind) ==
  /\ pane.kind = NoKind
  /\ SettingsFree /\ edits < MaxEdits
  /\ pane' = [kind |-> kind,
              list |-> Only(OwnLists(kind) \cup Dialog[kind].part, Load("dialog"))]
  /\ cache' = CacheAfter("dialog")
  /\ UNCHANGED <<edition, life, file, tmp, lock, saver, reader, settings, smart,
                 bump, refresh, edits, picked, trouble>>

\* persistAndSignal of a list with sections of its own.
EditList ==
  /\ pane.kind # NoKind /\ Free("dialog")
  /\ Lists # <<>>
  /\ Edit(OwnLists(pane.kind))
  /\ pane' = [pane EXCEPT !.list = Over(@, OwnLists(pane.kind), picked')]
  /\ Start("dialog", [i \in DOMAIN Lists |-> Asked(Lists[i], pane'.list)])
  /\ UNCHANGED <<edition, life, file, tmp, lock, cache, reader, settings, smart, bump,
                 refresh, trouble>>

\* A part of the typing section: the whole of it is loaded, changed and
\* saved, and the mutex covers the save only.
EditPart ==
  /\ pane.kind # NoKind /\ Free("dialog")
  /\ Part # {}
  /\ Edit(Part)
  /\ pane' = [pane EXCEPT !.list = Over(@, Part, picked')]
  /\ Start("dialog", <<Asked(TypingKeys, Over(Load("dialog"), Part, picked'))>>)
  /\ cache' = CacheAfter("dialog")
  /\ UNCHANGED <<edition, life, file, tmp, lock, reader, settings, smart, bump,
                 refresh, trouble>>

\* The Classic settings window reloads after some of the dialogs.
CloseDialog ==
  /\ pane.kind # NoKind /\ Free("dialog")
  /\ pane' = NoPane
  /\ settings' =
       IF edition = "sciter" THEN settings
       ELSE IF pane.kind \in {"overrides", "keymap"} THEN Reloaded
       ELSE IF pane.kind = "spell"
       THEN [settings EXCEPT !.held = Over(@, TypingKeys, Load("settings"))]
       ELSE settings
  /\ cache' = IF pane.kind \in {"overrides", "keymap", "spell"}
              THEN CacheAfter("settings") ELSE cache
  /\ UNCHANGED <<edition, life, file, tmp, lock, saver, reader, smart, bump,
                 refresh, edits, picked, trouble>>

(***************************************************************************)
(* The tray menu and the smart-switch map                                  *)
(***************************************************************************)

\* A menu entry loads the typing section, changes it and saves it.
TrayEdit ==
  /\ life = "on" /\ Free("tray")
  /\ Edit({"method"})
  /\ Start("tray", <<Asked(TypingKeys, Over(Load("tray"), {"method"}, picked'))>>)
  /\ cache' = CacheAfter("tray")
  /\ UNCHANGED <<edition, life, file, tmp, lock, reader, settings, pane, smart,
                 bump, refresh, trouble>>

\* The menus of the two editions.
SciterMenu == edition = "sciter" /\ TrayEdit
ClassicMenu == edition = "classic" /\ TrayEdit

\* Exit: the position of the floating icon is saved.
CleanupFloatingIcon == Asked(SystemConfig, Load("tray"))

\* The windows of the Sciter edition are terminated first.
SciterLeave ==
  /\ edition = "sciter" /\ life = "on" /\ Free("tray")
  /\ May("exit")
  /\ trouble' = trouble \cup {"exit"} \cup Interrupted({"settings", "dialog"})
  /\ life' = "leaving"
  /\ settings' = Shut /\ pane' = NoPane /\ refresh' = FALSE
  /\ Release({"settings", "dialog"})
  /\ saver' = [t \in Threads |->
                IF t = "tray"
                THEN [pc |-> "lock", jobs |-> <<CleanupFloatingIcon>>,
                      base |-> Blank]
                ELSE IF t = "worker" THEN saver[t] ELSE Idle]
  /\ cache' = CacheAfter("tray")
  /\ UNCHANGED <<edition, file, reader, smart, bump, edits, picked>>

\* The settings thread of the Classic edition lives as long as the process.
ClassicLeave ==
  /\ edition = "classic" /\ life = "on" /\ Free("tray")
  /\ Trouble("exit")
  /\ life' = "leaving"
  /\ Start("tray", <<CleanupFloatingIcon>>) /\ cache' = CacheAfter("tray")
  /\ UNCHANGED <<edition, file, tmp, lock, reader, settings, pane, smart, bump,
                 refresh, edits, picked>>

\* Stop: with the worker and the hook thread joined, the live map is saved.
FlushOnStop ==
  /\ life = "leaving" /\ Free("tray")
  /\ Free("worker") /\ reader.pc = "idle" /\ ~smart.flushing /\ ~smart.late
  /\ life' = "flushing"
  /\ Start("tray", <<Asked(SmartSwitchMap, picked)>>)
  /\ UNCHANGED <<edition, file, tmp, lock, cache, reader, trouble, bump, owners>>

\* The process ends, whatever its settings thread is doing, and a new one
\* reads the file.
Restart ==
  /\ life = "flushing" /\ Free("tray")
  /\ life' = "on"
  /\ settings' = Shut /\ pane' = NoPane /\ refresh' = FALSE
  /\ Release({"settings", "dialog"})
  /\ saver' = [t \in Threads |-> Idle]
  /\ cache' = Uncached /\ bump' = TRUE
  /\ smart' = [snap |-> Parsed["smart"], late |-> FALSE, dirty |-> FALSE, flushing |-> FALSE]
  /\ trouble' = trouble \cup Interrupted({"settings", "dialog"})
  /\ UNCHANGED <<edition, file, reader, edits, picked>>

\* The hook thread publishes a snapshot of the map, then marks it dirty.
PublishMode ==
  /\ Working /\ ~smart.late
  /\ Edit({"smart"})
  /\ smart' = [smart EXCEPT !.snap = Edited, !.late = TRUE]
  /\ UNCHANGED <<edition, life, file, tmp, lock, saver, cache, reader, settings, pane,
                 bump, refresh, trouble>>

MarkDirty ==
  /\ smart.late
  /\ smart' = [smart EXCEPT !.late = FALSE, !.dirty = TRUE]
  /\ UNCHANGED <<edition, life, file, tmp, lock, saver, cache, reader, settings, pane,
                 bump, refresh, edits, picked, trouble>>

\* "Clear BEFORE snap".
ClearDirty ==
  /\ Working /\ smart.dirty /\ ~smart.flushing /\ reader.pc = "idle" /\ Free("worker")
  /\ smart' = [smart EXCEPT !.dirty = FALSE, !.flushing = TRUE]
  /\ UNCHANGED <<edition, life, file, tmp, lock, saver, cache, reader, settings, pane,
                 bump, refresh, edits, picked, trouble>>

FlushMap ==
  /\ smart.flushing
  /\ smart' = [smart EXCEPT !.flushing = FALSE]
  /\ Start("worker", <<Asked(SmartSwitchMap, [Blank EXCEPT !["smart"] = smart.snap])>>)
  /\ UNCHANGED <<edition, life, file, tmp, lock, cache, reader, settings, pane, bump,
                 refresh, edits, picked, trouble>>

(***************************************************************************)
(* The specification                                                       *)
(***************************************************************************)
LoadStep == StartLoad \/ OpenToParse \/ CloseFile \/ StoreParsed \/ UseLoaded

SaveStep(t) ==
  \/ Acquire(t) \/ GiveUpWaiting(t) \/ OpenTmp(t) \/ WriteTmp(t)
  \/ Move(t) \/ MoveFails(t)

SettingsStep ==
  \/ SciterOpen \/ ClassicOpen \/ SettingsNotified \/ SciterSystemEdit \/ ClassicSystemEdit
  \/ DeferredSave \/ SciterClose \/ ClassicClose \/ SettingsGone
  \/ \E k \in HeldKeys : SciterToggle(k) \/ ClassicCommand(k)

DialogStep ==
  \/ EditList \/ EditPart \/ CloseDialog
  \/ \E kind \in Kinds : OpenDialog(kind)

ExitStep == SciterLeave \/ ClassicLeave \/ FlushOnStop \/ Restart

MapStep == PublishMode \/ MarkDirty \/ ClearDirty \/ FlushMap

Next ==
  \/ LoadStep \/ SettingsStep \/ DialogStep \/ SciterMenu \/ ClassicMenu \/ MapStep \/ ExitStep
  \/ \E t \in Threads : SaveStep(t)

Spec == Init /\ [][Next]_vars

(***************************************************************************)
(* Properties                                                              *)
(***************************************************************************)

Pcs == {"idle", "lock", "open", "write", "move"}

StoreType ==
  /\ file \in [exists : BOOLEAN, torn : BOOLEAN, table : Tables, version : Nat, stamp : Nat]
  /\ tmp \in [there : BOOLEAN, open : SUBSET Threads, mixed : BOOLEAN, table : Tables]
  /\ lock \in Threads \cup {NoThread}
  /\ cache \in [stamp : Nat, table : Tables, since : Nat]
  /\ reader \in [pc : {"idle", "stat", "parse", "parsed", "loaded"}, stamp : Nat,
                 table : Tables, since : Nat, from : Nat]

SaverType ==
  /\ saver \in [Threads -> [pc : Pcs, jobs : Seq(Jobs), base : Tables]]
  /\ \A t \in Threads : saver[t].pc = "idle" <=> saver[t].jobs = <<>>

OwnerType ==
  /\ settings \in [open : BOOLEAN, dirty : BOOLEAN, closing : BOOLEAN, held : Tables]
  /\ pane \in [kind : Kinds \cup {NoKind}, list : Tables]
  /\ smart \in [snap : Values, late : BOOLEAN, dirty : BOOLEAN, flushing : BOOLEAN]
  /\ refresh \in BOOLEAN /\ edits \in 0 .. MaxEdits /\ picked \in Tables

\* Every variable has its type, and a thread without a save has none to make.
TypeOK ==
  /\ edition \in {"sciter", "classic"} /\ life \in {"on", "leaving", "flushing"}
  /\ StoreType /\ SaverType /\ OwnerType
  /\ bump \in BOOLEAN /\ trouble \subseteq AllReasons \cup {"lost", "killed"}

\* Nobody ever finds a half-written config.toml: the temporary file two
\* writers share is renamed only when one writer filled it, unless a writer
\* went on without the mutex.
FileWhole == file.torn => "timeout" \in trouble

\* A save keeps the sections it does not own, whoever saved them and however
\* long ago its caller loaded the file, unless the file could not be read or
\* a writer went on without the mutex.
OthersKept ==
  [][file'.table # file.table /\ trouble' \cap {"timeout", "unreadable"} = {}
     => \E t \in Threads :
          /\ saver[t].pc = "move"
          /\ file'.table = Over(file.table, Job(t).keys, Job(t).table)]_vars

\* A load of the worker gives a table the file had while the load ran, or
\* earlier in the tick of the clock of the last save before it: the cache
\* hides no save that the time stamp tells from those before it, whichever
\* process made it and whatever fell between the steps of the loads.
LoadIsCurrent == reader.pc = "loaded" => reader.since >= reader.from

\* A mode the hook published and the file lacks is on its way: about to be
\* marked, marked, being flushed, in a save under way, or left to the flush
\* of the exit.  It survives failed saves and, unless the last one fails too,
\* an exit at any moment.
SmartKept ==
  \/ picked["smart"] = file.table["smart"]
  \/ smart.late \/ smart.dirty \/ smart.flushing \/ life = "leaving"
  \/ \E t \in {"worker", "tray"} : \E i \in DOMAIN saver[t].jobs :
        /\ "smart" \in saver[t].jobs[i].keys
        /\ saver[t].jobs[i].table["smart"] = picked["smart"]
  \/ trouble \cap {"timeout", "unreadable"} # {}
  \/ "exit" \in trouble /\ trouble \cap {"refused", "lost"} # {}

\* A list edited in a dialog reaches the file, whatever else is saved
\* meanwhile, unless a save failed or the dialog was terminated: it is in the
\* file or in the saves the dialog still has to make.
ListsLand ==
  \A k \in ListKeys \ {"registry"} :
    \/ picked[k] = file.table[k]
    \/ \E i \in DOMAIN saver["dialog"].jobs :
         /\ k \in saver["dialog"].jobs[i].keys
         /\ saver["dialog"].jobs[i].table[k] = picked[k]
    \/ trouble \ {"exit", "tick"} # {}

\* The mutex is never left behind: its owner is inside a save, even when the
\* owner was a dialog that the settings window terminated.
MutexOwned == lock # NoThread => saver[lock].pc \in {"open", "write", "move"}

\* Writers come one at a time, and none leaves the mutex or half a file behind.
WritersExclude == FileWhole /\ MutexOwned

\* What was picked and is not in the file is on its way there: the modes of
\* smart switch and the lists of the dialogs.
PickedLands == SmartKept /\ ListsLand

\* The comment at the emptying of the cache (ConfigManager.cpp:95-99): after a
\* save "a subsequent Load() re-parses even when filesystem mtime resolution
\* is too coarse to tick".  A load under way stores the table it parsed
\* before, and the saves of other processes empty no cache but their own.
LoadGivesFile ==
  [][reader.pc = "idle" /\ reader'.pc = "loaded" => reader'.since = file.version]_vars

\* The comment at the mutex (ConfigManager.cpp:137-138): it "prevents race
\* where Settings deferred save overwrites Macro/ExcludedApps changes".  The
\* macro dialog also changes a key of the typing section, which the settings
\* window saves as it loaded it.
SettingsKeepTrigger ==
  [][saver["settings"].pc = "move" => file'.table["trigger"] = file.table["trigger"]]_vars
=============================================================================

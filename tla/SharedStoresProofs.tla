------------------------- MODULE SharedStoresProofs -------------------------
(***************************************************************************)
(* Proofs about what the program shares with others by storing it: the      *)
(* configuration file, for any dialogs, editions, first files, edits and    *)
(* troubles, and the clipboard, for any pieces of text, configurations,     *)
(* holdings and bounds.                                                     *)
(*                                                                          *)
(* The file: no writer leaves the mutex or half a file behind, every save   *)
(* keeps the sections it does not own, and no load of the worker is older   *)
(* than its beginning.  The clipboard: no restore takes away what another   *)
(* program copied, no copy or restore comes between a word and the Ctrl+V   *)
(* that pastes it, what the user copied is on the clipboard again in the    *)
(* end, and a conversion pastes over what it converted, but for the slips   *)
(* named.                                                                   *)
(***************************************************************************)
EXTENDS ConfigFile, Clipboard, TLAPS

-----------------------------------------------------------------------------
(* The configuration file.                                                  *)

\* The keys of a section are seen as such throughout, and a choice of either
\* menu is one of the tray.
USE DEF HotkeyConfig, HotkeyRegistry, ExcludedList, ForcedVnList, SmartSwitchMap,
        TsfList, OverrideTable, SystemConfig, Macros, HasHotkeyState, CleanupFloatingIcon,
        SciterMenu, ClassicMenu

(***************************************************************************)
(* Tables and the jobs made of them                                        *)
(***************************************************************************)

\* The helpers on tables give tables.
LEMMA TableTypes ==
  /\ Blank \in Tables
  /\ \A ks : \A table \in Tables : Only(ks, table) \in Tables
  /\ \A ks : \A table, other \in Tables : Over(table, ks, other) \in Tables
  /\ \A table \in Tables : \A k : \A v \in Values : [table EXCEPT ![k] = v] \in Tables
<1> USE ConstantsOK
<1>1. 0 \in Values /\ Derived \in Values
  BY DEF Values, Derived
<1> QED
  BY <1>1 DEF Tables, Blank, Only, Over

\* The derived hotkeys are a table, with the two keys the migration saves.
LEMMA DerivedType ==
  [Blank EXCEPT !["registry"] = Derived, !["mirror"] = Derived] \in Tables
<1>1. Derived \in Values
  BY ConstantsOK DEF Values, Derived
<1>2. [Blank EXCEPT !["registry"] = Derived] \in Tables
  BY <1>1, TableTypes
<1>3. [[Blank EXCEPT !["registry"] = Derived] EXCEPT !["mirror"] = Derived] \in Tables
  BY <1>1, <1>2, TableTypes
<1> QED
  BY <1>3

\* A load gives a table, whether the cache or the file answers.
LEMMA LoadTypes ==
  ASSUME StoreType
  PROVE  /\ Parsed \in Tables
         /\ \A t : CacheAfter(t) \in [stamp : Nat, table : Tables, since : Nat]
         /\ \A t : Load(t) \in Tables
<1>1. Parsed \in Tables
  BY TableTypes DEF StoreType, Parsed
<1>2. ASSUME NEW t
      PROVE  CacheAfter(t) \in [stamp : Nat, table : Tables, since : Nat]
  BY <1>1, TableTypes DEF StoreType, CacheAfter, Uncached
<1>3. ASSUME NEW t
      PROVE  Load(t) \in Tables
  BY <1>1, <1>2 DEF Load
<1> QED
  BY <1>1, <1>2, <1>3

\* A load changes nothing of the store but the cache.
LEMMA CachedType ==
  ASSUME StoreType, UNCHANGED <<file, tmp, lock, reader>>,
         cache' = cache \/ \E t : cache' = CacheAfter(t)
  PROVE  StoreType'
<1>1. cache' \in [stamp : Nat, table : Tables, since : Nat]
  BY LoadTypes DEF StoreType
<1> QED
  BY <1>1 DEF StoreType

\* What a save is asked to write is a job.
LEMMA AskedType ==
  ASSUME NEW ks \in SUBSET Keys, NEW table \in Tables
  PROVE  Asked(ks, table) \in Jobs
BY TableTypes DEF Asked, Jobs

\* The keys of every dialog are keys of the file.
LEMMA DialogTypes ==
  ASSUME NEW kind \in AllKinds
  PROVE  Dialog[kind].lists \in Seq(SUBSET Keys) /\ Dialog[kind].part \in SUBSET Keys
<1> DEFINE D == [lists : Seq(SUBSET Keys), part : SUBSET Keys]
<1>1. MacroTable \in D
  BY DEF MacroTable, Keys, TypingKeys, ListKeys
<1>2. SpellExclusions \in D
  BY DEF SpellExclusions, Keys, TypingKeys, ListKeys
<1>3. UserDefined \in D
  BY DEF UserDefined, Keys, TypingKeys, ListKeys
<1>4. ExcludedApps \in D
  BY DEF ExcludedApps, Keys, TypingKeys, ListKeys
<1>5. TsfApps \in D
  BY DEF TsfApps, Keys, TypingKeys, ListKeys
<1>6. AppOverrides \in D
  BY DEF AppOverrides, Keys, TypingKeys, ListKeys
<1>7. Hotkeys \in D
  BY DEF Hotkeys, Keys, TypingKeys, ListKeys
<1> HIDE DEF D
<1>8. Dialog[kind] \in D
  BY <1>1, <1>2, <1>3, <1>4, <1>5, <1>6, <1>7 DEF Dialog, AllKinds
<1> QED
  BY <1>8 DEF D

\* The sections a dialog saves are sections of the file.
LEMMA OwnListsType ==
  ASSUME NEW kind \in AllKinds
  PROVE  OwnLists(kind) \in SUBSET Keys
<1>1. Dialog[kind].lists \in Seq(SUBSET Keys)
  BY DialogTypes
<1>2. \A i \in DOMAIN Dialog[kind].lists : Dialog[kind].lists[i] \in SUBSET Keys
  BY <1>1
<1> QED
  BY <1>2 DEF OwnLists

\* An edit numbers itself and is what its keys hold from then on.
LEMMA EditTypes ==
  ASSUME NEW ks, edits \in 0 .. MaxEdits, picked \in Tables, Edit(ks)
  PROVE  edits' \in 0 .. MaxEdits /\ picked' \in Tables /\ Edited \in Values
<1>1. Edited \in 0 .. MaxEdits /\ Edited \in Values
  BY ConstantsOK DEF Edit, Edited, Values, Derived
<1> QED
  BY <1>1 DEF Edit, Tables

\* A thread that begins, continues or ends its saves.
LEMMA SaverStep ==
  ASSUME SaverType, NEW t \in Threads, NEW pc \in Pcs, NEW jobs \in Seq(Jobs),
         NEW from \in Tables, pc = "idle" <=> jobs = <<>>,
         saver' = [saver EXCEPT ![t] = [pc |-> pc, jobs |-> jobs, base |-> from]]
  PROVE  SaverType'
<1>1. [pc |-> pc, jobs |-> jobs, base |-> from] \in [pc : Pcs, jobs : Seq(Jobs), base : Tables]
  OBVIOUS
<1>2. saver' \in [Threads -> [pc : Pcs, jobs : Seq(Jobs), base : Tables]]
  BY <1>1 DEF SaverType
<1>3. \A u \in Threads : saver'[u].pc = "idle" <=> saver'[u].jobs = <<>>
  BY DEF SaverType
<1> QED
  BY <1>2, <1>3 DEF SaverType

LEMMA StartType ==
  ASSUME SaverType, NEW t \in Threads, NEW jobs \in Seq(Jobs), jobs # <<>>,
         Start(t, jobs)
  PROVE  SaverType'
<1>1. "lock" \in Pcs /\ Blank \in Tables
  BY TableTypes DEF Pcs
<1> QED
  BY <1>1, SaverStep DEF Start

LEMMA OneJobType ==
  ASSUME SaverType, NEW t \in Threads, NEW job \in Jobs, Start(t, <<job>>)
  PROVE  SaverType'
<1>1. <<job>> \in Seq(Jobs) /\ <<job>> # <<>>
  OBVIOUS
<1> QED
  BY <1>1, StartType

\* A step inside a save leaves its jobs and its base alone.
LEMMA InsideType ==
  ASSUME SaverType, NEW t \in Threads, NEW pc \in Pcs \ {"idle"}, NEW from \in Tables,
         saver[t].pc # "idle", saver' = [saver EXCEPT ![t].pc = pc, ![t].base = from]
  PROVE  SaverType'
<1> DEFINE R == [pc : Pcs, jobs : Seq(Jobs), base : Tables]
           mid == [saver EXCEPT ![t].pc = pc]
<1>1. saver \in [Threads -> R]
  BY DEF SaverType
<1>2. saver[t] \in R
  BY <1>1
<1>3. mid[t] \in R /\ mid \in [Threads -> R]
  BY <1>1, <1>2
<1>4. saver' = [mid EXCEPT ![t].base = from]
  OBVIOUS
<1>5. saver' \in [Threads -> R]
  <2>1. [mid[t] EXCEPT !.base = from] \in R
    BY <1>3
  <2>2. saver' = [mid EXCEPT ![t] = [mid[t] EXCEPT !.base = from]]
    BY <1>4
  <2> HIDE DEF mid, R
  <2>3. QED  BY ONLY <1>3, <2>1, <2>2, Zenon
<1>6. \A u \in Threads : saver'[u].pc = "idle" <=> saver'[u].jobs = <<>>
  BY DEF SaverType
<1> QED
  BY <1>5, <1>6 DEF SaverType

LEMMA IdleType == Idle \in [pc : Pcs, jobs : Seq(Jobs), base : Tables]
BY TableTypes DEF Idle, Pcs

LEMMA AtRestType ==
  AtRest \in [pc : {"idle", "stat", "parse", "parsed", "loaded"}, stamp : Nat,
              table : Tables, since : Nat, from : Nat]
BY TableTypes DEF AtRest

LEMMA UncachedType == Uncached \in [stamp : Nat, table : Tables, since : Nat]
BY TableTypes DEF Uncached

LEMMA ShutType ==
  Shut \in [open : BOOLEAN, dirty : BOOLEAN, closing : BOOLEAN, held : Tables]
BY TableTypes DEF Shut

LEMMA NoPaneType == NoPane \in [kind : Kinds \cup {NoKind}, list : Tables]
BY TableTypes DEF NoPane

(***************************************************************************)
(* Types                                                                   *)
(***************************************************************************)
LEMMA TypeInit == Init => TypeOK
<1> SUFFICES ASSUME Init PROVE TypeOK
  OBVIOUS
<1> USE ConstantsOK DEF Init
<1>1. PICK start \in Starts :
        file = [exists |-> start # "none", torn |-> FALSE, version |-> 1, stamp |-> 1,
                table |-> [Blank EXCEPT !["registry"] = IF start = "v3" THEN Derived ELSE 0]]
  OBVIOUS
<1>2. 0 \in Values /\ Derived \in Values
  BY DEF Values, Derived
<1>3. file.table \in Tables
  BY <1>1, <1>2, TableTypes
<1>4. file \in [exists : BOOLEAN, torn : BOOLEAN, table : Tables, version : Nat,
               stamp : Nat]
  BY <1>1, <1>3
<1>5. tmp \in [there : BOOLEAN, open : SUBSET Threads, mixed : BOOLEAN, table : Tables]
  BY TableTypes
<1>6. StoreType
  BY <1>4, <1>5, AtRestType, UncachedType DEF StoreType
<1>7. SaverType
  BY IdleType DEF SaverType, Idle
<1>8. OwnerType
  <2>1. smart \in [snap : Values, late : BOOLEAN, dirty : BOOLEAN, flushing : BOOLEAN]
    BY <1>2
  <2>2. edits \in 0 .. MaxEdits
    OBVIOUS
  <2>3. settings \in [open : BOOLEAN, dirty : BOOLEAN, closing : BOOLEAN, held : Tables]
    BY ShutType
  <2>4. pane \in [kind : Kinds \cup {NoKind}, list : Tables]
    BY NoPaneType
  <2> QED
    BY <1>3, <2>1, <2>2, <2>3, <2>4 DEF OwnerType
<1> QED
  BY <1>6, <1>7, <1>8 DEF TypeOK

LEMMA LoadStepType ==
  ASSUME TypeOK, LoadStep
  PROVE  TypeOK'
<1> USE DEF TypeOK
<1>0. OwnerType'
  BY DEF LoadStep, StartLoad, OpenToParse, CloseFile, StoreParsed, UseLoaded, OwnerType, owners
<1>1. CASE StartLoad
  <2>1. reader' \in [pc : {"idle", "stat", "parse", "parsed", "loaded"}, stamp : Nat,
                     table : Tables, since : Nat, from : Nat]
    BY <1>1, AtRestType DEF StartLoad, StoreType
  <2>2. cache' \in [stamp : Nat, table : Tables, since : Nat]
    BY <1>1, UncachedType DEF StartLoad, StoreType
  <2>3. StoreType'
    BY <1>1, <2>1, <2>2 DEF StartLoad, StoreType
  <2> QED
    BY <1>0, <1>1, <2>3 DEF StartLoad, SaverType
<1>2. CASE OpenToParse
  <2>1. reader' \in [pc : {"idle", "stat", "parse", "parsed", "loaded"}, stamp : Nat,
                     table : Tables, since : Nat, from : Nat]
    BY <1>2, LoadTypes DEF OpenToParse, StoreType
  <2> QED
    BY <1>0, <1>2, <2>1 DEF OpenToParse, StoreType, SaverType
<1>3. CASE StoreParsed
  <2>1. reader' \in [pc : {"idle", "stat", "parse", "parsed", "loaded"}, stamp : Nat,
                     table : Tables, since : Nat, from : Nat]
    BY <1>3 DEF StoreParsed, StoreType
  <2>2. cache' \in [stamp : Nat, table : Tables, since : Nat]
    BY <1>3 DEF StoreParsed, StoreType
  <2> QED
    BY <1>0, <1>3, <2>1, <2>2 DEF StoreParsed, StoreType, SaverType
<1>4. CASE UseLoaded
  <2> DEFINE derived == [Blank EXCEPT !["registry"] = Derived, !["mirror"] = Derived]
             job == [keys |-> {"registry", "mirror"}, table |-> derived]
  <2>1. job \in Jobs
    BY DerivedType DEF Jobs, Keys, TypingKeys, ListKeys
  <2>2. <<job>> \in Seq(Jobs) /\ <<job>> # <<>>
    BY <2>1
  <2>3. \/ saver' = [saver EXCEPT !["worker"] = [pc |-> "lock", jobs |-> <<job>>,
                                                   base |-> Blank]]
        \/ saver' = saver
    BY <1>4 DEF UseLoaded
  <2> HIDE DEF job
  <2>4. SaverType'
    BY <2>2, <2>3, StartType DEF Start, Threads, SaverType
  <2>5. StoreType'
    BY <1>4, AtRestType DEF UseLoaded, StoreType
  <2> QED
    BY <1>0, <1>4, <2>4, <2>5 DEF UseLoaded
<1>5. CASE CloseFile
  <2>1. reader' \in [pc : {"idle", "stat", "parse", "parsed", "loaded"}, stamp : Nat,
                     table : Tables, since : Nat, from : Nat]
    BY <1>5 DEF CloseFile, StoreType
  <2> QED
    BY <1>0, <1>5, <2>1 DEF CloseFile, StoreType, SaverType
<1> QED
  BY <1>1, <1>2, <1>3, <1>4, <1>5 DEF LoadStep

\* The job a save is at, and what is left after it.
LEMMA JobTypes ==
  ASSUME SaverType, NEW t \in Threads, saver[t].pc # "idle"
  PROVE  Job(t) \in Jobs /\ Tail(saver[t].jobs) \in Seq(Jobs)
<1>1. saver[t].jobs \in Seq(Jobs) /\ saver[t].jobs # <<>>
  BY DEF SaverType
<1> QED
  BY <1>1 DEF Job

LEMMA FinishType ==
  ASSUME TypeOK, NEW t \in Threads, At(t, "move"), Finish(t)
  PROVE  SaverType' /\ lock' \in Threads \cup {NoThread} /\ bump' \in BOOLEAN
         /\ refresh' \in BOOLEAN
<1>1. Tail(saver[t].jobs) \in Seq(Jobs)
  BY JobTypes DEF TypeOK, At
<1>2. CASE Tail(saver[t].jobs) = <<>>
  <2>1. saver' = [saver EXCEPT ![t] = [pc |-> "idle", jobs |-> <<>>, base |-> Blank]]
    BY <1>2 DEF Finish, Idle
  <2>2. <<>> \in Seq(Jobs) /\ "idle" \in Pcs /\ Blank \in Tables
    BY TableTypes DEF Pcs
  <2>3. SaverType'
    BY <2>1, <2>2, SaverStep DEF TypeOK
  <2> QED
    BY <2>3 DEF TypeOK, Finish, StoreType, OwnerType
<1>3. CASE Tail(saver[t].jobs) # <<>>
  <2>1. SaverType'
    BY <1>1, <1>3, StartType DEF Finish, Start, TypeOK
  <2> QED
    BY <2>1 DEF TypeOK, Finish, StoreType, OwnerType
<1> QED
  BY <1>2, <1>3

LEMMA SaveStepType ==
  ASSUME TypeOK, NEW t \in Threads, SaveStep(t)
  PROVE  TypeOK'
<1> USE DEF TypeOK
<1>1. ASSUME Acquire(t) \/ GiveUpWaiting(t)
      PROVE  TypeOK'
  <2>1. PICK from \in Tables : saver' = [saver EXCEPT ![t].pc = "open", ![t].base = from]
    BY <1>1, TableTypes, LoadTypes DEF Acquire, GiveUpWaiting, ReadExisting
  <2>2. SaverType'
    BY <1>1, <2>1, InsideType DEF Acquire, GiveUpWaiting, At, Pcs
  <2>3. trouble' \subseteq AllReasons \cup {"lost", "killed"}
    BY <1>1 DEF Acquire, GiveUpWaiting, ReadExisting, Trouble, AllReasons
  <2>4. StoreType'
    BY <1>1 DEF Acquire, GiveUpWaiting, StoreType
  <2>5. OwnerType'
    BY <1>1 DEF Acquire, GiveUpWaiting, OwnerType, owners
  <2> QED
    BY <1>1, <2>2, <2>3, <2>4, <2>5 DEF Acquire, GiveUpWaiting
<1>2. ASSUME NEW here \in Pcs \ {"idle"}, NEW next \in Pcs \ {"idle"},
             At(t, here), Step(t, next)
      PROVE  SaverType'
  <2>1. saver[t].base \in Tables
    BY DEF SaverType
  <2>2. saver' = [saver EXCEPT ![t].pc = next, ![t].base = saver[t].base]
    BY <1>2 DEF Step, SaverType
  <2> QED
    BY <1>2, <2>1, <2>2, InsideType DEF At
<1>3. CASE OpenTmp(t)
  <2>1. SaverType'
    BY <1>2, <1>3 DEF OpenTmp, Pcs
  <2>2. tmp' \in [there : BOOLEAN, open : SUBSET Threads, mixed : BOOLEAN, table : Tables]
    BY <1>3, TableTypes DEF OpenTmp, StoreType
  <2>3. StoreType' /\ OwnerType'
    BY <1>3, <2>2 DEF OpenTmp, StoreType, OwnerType, owners
  <2> QED
    BY <1>3, <2>1, <2>3 DEF OpenTmp
<1>4. CASE WriteTmp(t)
  <2>1. SaverType'
    BY <1>2, <1>4 DEF WriteTmp, Pcs
  <2>2. Over(saver[t].base, Job(t).keys, Job(t).table) \in Tables
    BY <1>4, JobTypes, TableTypes DEF WriteTmp, At, SaverType, Jobs
  <2>3. tmp' \in [there : BOOLEAN, open : SUBSET Threads, mixed : BOOLEAN, table : Tables]
    BY <1>4, <2>2 DEF WriteTmp, StoreType
  <2>4. StoreType' /\ OwnerType'
    BY <1>4, <2>3 DEF WriteTmp, StoreType, OwnerType, owners
  <2> QED
    BY <1>4, <2>1, <2>4 DEF WriteTmp
<1>5. CASE Move(t)
  <2>1. SaverType' /\ lock' \in Threads \cup {NoThread} /\ bump' \in BOOLEAN
        /\ refresh' \in BOOLEAN
    BY <1>5, FinishType DEF Move
  <2>2. tmp' \in [there : BOOLEAN, open : SUBSET Threads, mixed : BOOLEAN, table : Tables]
    BY <1>5, TableTypes DEF Move, StoreType
  <2>3. file' \in [exists : BOOLEAN, torn : BOOLEAN, table : Tables, version : Nat,
               stamp : Nat]
    BY <1>5 DEF Move, Stamps, StoreType
  <2>4. cache' \in [stamp : Nat, table : Tables, since : Nat]
    BY <1>5, UncachedType DEF Move, StoreType
  <2>5. StoreType' /\ OwnerType'
    BY <1>5, <2>1, <2>2, <2>3, <2>4 DEF Move, StoreType, OwnerType
  <2> QED
    BY <1>5, <2>1, <2>5 DEF Move
<1>6. CASE MoveFails(t)
  <2>1. SaverType' /\ lock' \in Threads \cup {NoThread} /\ bump' \in BOOLEAN
        /\ refresh' \in BOOLEAN
    BY <1>6, FinishType DEF MoveFails
  <2>2. tmp' \in [there : BOOLEAN, open : SUBSET Threads, mixed : BOOLEAN, table : Tables]
    BY <1>6, TableTypes DEF MoveFails, StoreType
  <2>3. trouble' \subseteq AllReasons \cup {"lost", "killed"}
    BY <1>6 DEF MoveFails, Trouble, AllReasons
  <2>4. smart' \in [snap : Values, late : BOOLEAN, dirty : BOOLEAN, flushing : BOOLEAN]
    BY <1>6 DEF MoveFails, OwnerType
  <2>5. StoreType' /\ OwnerType'
    BY <1>6, <2>1, <2>2, <2>4 DEF MoveFails, StoreType, OwnerType
  <2> QED
    BY <1>6, <2>1, <2>3, <2>5 DEF MoveFails
<1> QED
  BY <1>1, <1>3, <1>4, <1>5, <1>6 DEF SaveStep

Windows == [open : BOOLEAN, dirty : BOOLEAN, closing : BOOLEAN, held : Tables]

LEMMA SettingsSavesTypes ==
  ASSUME NEW held \in Tables
  PROVE  /\ SciterSaves(held) \in Seq(Jobs) /\ SciterSaves(held) # <<>>
         /\ Saves(held) \in Seq(Jobs) /\ Saves(held) # <<>>
<1>1. /\ Asked(TypingKeys, held) \in Jobs /\ Asked({"switch"}, held) \in Jobs
      /\ Asked({"system"}, held) \in Jobs
  BY AskedType DEF Keys, TypingKeys
<1>2. SciterSaves(held) \in Seq(Jobs) /\ SciterSaves(held) # <<>>
  BY <1>1 DEF SciterSaves
<1>3. ClassicSaves(held) \in Seq(Jobs) /\ ClassicSaves(held) # <<>>
  BY <1>1 DEF ClassicSaves, SciterSaves
<1> QED
  BY <1>2, <1>3 DEF Saves

LEMMA ReloadedType ==
  ASSUME TypeOK
  PROVE  Reloaded \in Windows
BY TableTypes, LoadTypes DEF TypeOK, OwnerType, Reloaded, Windows

\* What terminating threads does to the mutex and to the temporary file.
LEMMA ReleaseType ==
  ASSUME StoreType, NEW ts, Release(ts)
  PROVE  /\ lock' \in Threads \cup {NoThread}
         /\ tmp' \in [there : BOOLEAN, open : SUBSET Threads, mixed : BOOLEAN, table : Tables]
BY DEF StoreType, Release

LEMMA WindowStepType ==
  ASSUME TypeOK,
         \/ OpenWindow \/ SettingsNotified \/ (\E k \in HeldKeys : EditHeld(k))
         \/ SettingsGone
  PROVE  TypeOK'
<1> USE DEF TypeOK
<1>0. /\ StoreType' /\ SaverType' /\ trouble' = trouble /\ edition' = edition
      /\ life' = life /\ bump' \in BOOLEAN
  <2>1. CASE OpenWindow
    BY <2>1, CachedType DEF OpenWindow, SaverType
  <2>2. CASE SettingsNotified
    BY <2>2, CachedType DEF SettingsNotified, SaverType
  <2>3. CASE \E k \in HeldKeys : EditHeld(k)
    <3>1. PICK k \in HeldKeys : EditHeld(k)
      BY <2>3
    <3> QED
      BY <3>1, ZenonT(60) DEF EditHeld, StoreType, SaverType
  <2>4. CASE SettingsGone
    BY <2>4 DEF SettingsGone, StoreType, SaverType
  <2> QED
    BY <2>1, <2>2, <2>3, <2>4
<1>1. settings' \in Windows
  <2>1. ASSUME NEW k \in HeldKeys, EditHeld(k)
        PROVE  settings' \in Windows
    <3>1. [settings.held EXCEPT ![k] = Edited] \in Tables
      BY <2>1, EditTypes, TableTypes DEF EditHeld, OwnerType
    <3> QED
      BY <2>1, <3>1 DEF EditHeld, OwnerType, Windows
  <2>2. [Reloaded EXCEPT !.open = TRUE] \in Windows
    BY ReloadedType DEF Windows
  <2> QED
    BY <2>1, <2>2, ReloadedType, ShutType
       DEF OpenWindow, SettingsNotified, SettingsGone, Windows
<1>2. edits' \in 0 .. MaxEdits /\ picked' \in Tables
  BY EditTypes DEF OpenWindow, SettingsNotified, EditHeld, SettingsGone, OwnerType
<1>3. /\ pane' = pane /\ smart' = smart /\ refresh' \in BOOLEAN
  BY DEF OpenWindow, SettingsNotified, EditHeld, SettingsGone, OwnerType
<1>4. OwnerType'
  BY <1>1, <1>2, <1>3 DEF OwnerType, Windows
<1> QED
  BY <1>0, <1>4

LEMMA SavingWindowType ==
  ASSUME TypeOK,
         SciterSystemEdit \/ ClassicSystemEdit \/ DeferredSave \/ ClassicClose
  PROVE  TypeOK'
<1> USE DEF TypeOK
<1>0. /\ StoreType' /\ trouble' = trouble /\ edition' = edition /\ life' = life
      /\ bump' \in BOOLEAN /\ pane' = pane /\ smart' = smart /\ refresh' \in BOOLEAN
  <2>1. CASE SciterSystemEdit
    BY <2>1 DEF SciterSystemEdit, StoreType, OwnerType
  <2>2. CASE ClassicSystemEdit
    BY <2>2 DEF ClassicSystemEdit, StoreType, OwnerType
  <2>3. CASE DeferredSave
    BY <2>3 DEF DeferredSave, StoreType, OwnerType
  <2>4. CASE ClassicClose
    BY <2>4 DEF ClassicClose, StoreType, OwnerType
  <2> QED
    BY <2>1, <2>2, <2>3, <2>4
<1>1. edits' \in 0 .. MaxEdits /\ picked' \in Tables
  BY EditTypes DEF SciterSystemEdit, ClassicSystemEdit, DeferredSave, ClassicClose, OwnerType
<1>2. settings \in Windows /\ settings.held \in Tables
  BY DEF OwnerType, Windows
<1> DEFINE held == [settings.held EXCEPT !["system"] = Edited]
<1>3. ASSUME SciterSystemEdit \/ ClassicSystemEdit
      PROVE  held \in Tables
  BY <1>3, EditTypes, TableTypes DEF SciterSystemEdit, ClassicSystemEdit, OwnerType
<1>4. ASSUME NEW table \in Tables, SaveToToml(table)
      PROVE  SaverType'
  BY <1>4, SettingsSavesTypes, StartType DEF SaveToToml, Threads
<1>5. settings' \in Windows /\ SaverType'
  <2>1. CASE SciterSystemEdit
    <3>1. settings' = [settings EXCEPT !.held = held]
      BY <1>2, <2>1 DEF SciterSystemEdit, Windows
    <3>2. settings' \in Windows
      BY <1>2, <1>3, <2>1, <3>1 DEF Windows
    <3>3. Asked({"system"}, settings'.held) \in Jobs
      BY <3>2, AskedType DEF Windows, Keys
    <3>4. SaverType'
      BY <2>1, <3>3, OneJobType DEF SciterSystemEdit, Threads
    <3> QED
      BY <3>2, <3>4
  <2>2. CASE ClassicSystemEdit
    <3>1. held \in Tables
      BY <1>3, <2>2
    <3>2. settings' \in Windows
      BY <1>2, <2>2, <3>1 DEF ClassicSystemEdit, Windows
    <3>3. saver' = saver \/ SaveToToml(held)
      BY <2>2 DEF ClassicSystemEdit
    <3> QED
      BY <1>4, <3>1, <3>2, <3>3 DEF SaverType
  <2>3. CASE DeferredSave \/ ClassicClose
    <3>1. settings' \in Windows
      BY <1>2, <2>3 DEF DeferredSave, ClassicClose, Windows
    <3>2. saver' = saver \/ SaveToToml(settings.held)
      BY <2>3 DEF DeferredSave, ClassicClose
    <3> QED
      BY <1>2, <1>4, <3>1, <3>2 DEF SaverType
  <2> QED
    BY <2>1, <2>2, <2>3
<1>6. OwnerType'
  BY <1>0, <1>1, <1>5 DEF OwnerType, Windows
<1> QED
  BY <1>0, <1>5, <1>6

\* The list dialogs are terminated, and what the window holds is saved.
LEMMA SciterCloseType ==
  ASSUME TypeOK, SciterClose
  PROVE  TypeOK'
<1> USE DEF TypeOK
<1> DEFINE R == [pc : Pcs, jobs : Seq(Jobs), base : Tables]
           last == [pc |-> "lock", base |-> Blank, jobs |-> SciterSaves(settings.held)]
           mid == [saver EXCEPT !["dialog"] = Idle]
<1>1. settings \in Windows /\ settings.held \in Tables
  BY DEF OwnerType, Windows
<1>2. last \in R /\ last.pc # "idle" /\ last.jobs # <<>>
  BY <1>1, SettingsSavesTypes, TableTypes DEF Pcs
<1>3. mid \in [Threads -> R] /\ \A t \in Threads : mid[t].pc = "idle" <=> mid[t].jobs = <<>>
  BY IdleType DEF SaverType, Idle
<1>4. saver' = mid \/ saver' = [mid EXCEPT !["settings"] = last]
  BY <1>3 DEF SciterClose, SaverType, Threads
<1>5. SaverType'
  <2> HIDE DEF mid, last
  <2>1. saver' \in [Threads -> R]
    BY <1>2, <1>3, <1>4
  <2>2. \A t \in Threads : saver'[t].pc = "idle" <=> saver'[t].jobs = <<>>
    BY <1>2, <1>3, <1>4
  <2> QED
    BY <2>1, <2>2 DEF SaverType
<1>6. StoreType'
  BY ReleaseType DEF SciterClose, StoreType
<1>7. settings' \in Windows
  BY <1>1 DEF SciterClose, Windows
<1>8. OwnerType'
  BY <1>7, NoPaneType DEF SciterClose, OwnerType, Windows
<1> QED
  BY <1>5, <1>6, <1>8 DEF SciterClose, Interrupted

LEMMA SettingsStepType ==
  ASSUME TypeOK, SettingsStep
  PROVE  TypeOK'
BY WindowStepType, SavingWindowType, SciterCloseType
   DEF SettingsStep, SciterOpen, ClassicOpen, SciterToggle, ClassicCommand

LEMMA DialogStepType ==
  ASSUME TypeOK, DialogStep
  PROVE  TypeOK'
<1> USE DEF TypeOK
<1> DEFINE Panes == [kind : Kinds \cup {NoKind}, list : Tables]
<1>0. /\ StoreType' /\ trouble' = trouble /\ edition' = edition /\ life' = life
      /\ bump' = bump /\ refresh' = refresh /\ smart' = smart
  BY CachedType DEF DialogStep, EditList, EditPart, CloseDialog, OpenDialog
<1>1. edits' \in 0 .. MaxEdits /\ picked' \in Tables
  BY EditTypes DEF DialogStep, EditList, EditPart, CloseDialog, OpenDialog, OwnerType
<1>2. Kinds \subseteq AllKinds
  BY ConstantsOK
<1>3. ASSUME pane.kind # NoKind
      PROVE  pane.kind \in AllKinds /\ pane.list \in Tables
  BY <1>2, <1>3 DEF OwnerType
<1>4. ASSUME settings' \in Windows, pane' \in Panes
      PROVE  OwnerType'
  BY <1>0, <1>1, <1>4 DEF OwnerType, Windows
<1>5. settings \in Windows
  BY DEF OwnerType, Windows
<1>6. ASSUME NEW kind \in Kinds, OpenDialog(kind)
      PROVE  TypeOK'
  <2>1. pane' \in Panes
    BY <1>6, TableTypes, LoadTypes DEF OpenDialog
  <2>2. SaverType' /\ settings' = settings
    BY <1>6 DEF OpenDialog, SaverType
  <2> QED
    BY <1>0, <1>4, <1>5, <2>1, <2>2
<1>7. CASE EditList
  <2>1. pane' \in Panes
    BY <1>1, <1>3, <1>7, TableTypes DEF EditList, OwnerType
  <2>2. Lists \in Seq(SUBSET Keys) /\ Lists # <<>>
    BY <1>3, <1>7, DialogTypes DEF EditList, Lists
  <2> DEFINE jobs == [i \in DOMAIN Lists |-> Asked(Lists[i], pane'.list)]
  <2>3. \A i \in DOMAIN Lists : Asked(Lists[i], pane'.list) \in Jobs
    BY <2>1, <2>2, AskedType
  <2>4. jobs \in Seq(Jobs) /\ jobs # <<>>
    BY <2>2, <2>3
  <2>5. SaverType'
    BY <1>7, <2>4, StartType DEF EditList, Threads
  <2>6. settings' = settings
    BY <1>7 DEF EditList
  <2> QED
    BY <1>0, <1>4, <1>5, <2>1, <2>5, <2>6
<1>8. CASE EditPart
  <2>1. pane' \in Panes
    BY <1>1, <1>3, <1>8, TableTypes DEF EditPart, OwnerType
  <2>2. Asked(TypingKeys, Over(Load("dialog"), Part, picked')) \in Jobs
    BY <1>1, TableTypes, LoadTypes, AskedType DEF Keys
  <2>3. SaverType'
    BY <1>8, <2>2, OneJobType DEF EditPart, Threads
  <2>4. settings' = settings
    BY <1>8 DEF EditPart
  <2> QED
    BY <1>0, <1>4, <1>5, <2>1, <2>3, <2>4
<1>9. CASE CloseDialog
  <2>1. pane' \in Panes
    BY <1>9, NoPaneType DEF CloseDialog
  <2>2. [settings EXCEPT !.held = Over(@, TypingKeys, Load("settings"))] \in Windows
    BY <1>5, TableTypes, LoadTypes DEF Windows
  <2>3. settings' \in Windows
    BY <1>5, <1>9, <2>2, ReloadedType DEF CloseDialog
  <2>4. SaverType'
    BY <1>9 DEF CloseDialog, SaverType
  <2> QED
    BY <1>0, <1>4, <2>1, <2>3, <2>4
<1> QED
  BY <1>6, <1>7, <1>8, <1>9 DEF DialogStep

LEMMA MapStepType ==
  ASSUME TypeOK, MapStep
  PROVE  TypeOK'
<1> USE DEF TypeOK
<1>0. /\ StoreType' /\ trouble' = trouble /\ edition' = edition /\ life' = life
      /\ bump' = bump /\ refresh' = refresh /\ settings' = settings /\ pane' = pane
  BY DEF MapStep, PublishMode, MarkDirty, ClearDirty, FlushMap, StoreType
<1>1. /\ edits' \in 0 .. MaxEdits /\ picked' \in Tables
      /\ PublishMode => Edited \in Values
  BY EditTypes DEF MapStep, PublishMode, MarkDirty, ClearDirty, FlushMap, OwnerType
<1>2. smart' \in [snap : Values, late : BOOLEAN, dirty : BOOLEAN, flushing : BOOLEAN]
  <2>1. CASE PublishMode
    BY <1>1, <2>1 DEF PublishMode, OwnerType
  <2>2. CASE MarkDirty \/ ClearDirty \/ FlushMap
    <3>0. smart \in [snap : Values, late : BOOLEAN, dirty : BOOLEAN, flushing : BOOLEAN]
      BY DEF OwnerType
    <3>1. CASE MarkDirty
      BY <3>0, <3>1 DEF MarkDirty
    <3>2. CASE ClearDirty
      BY <3>0, <3>2 DEF ClearDirty
    <3>3. CASE FlushMap
      BY <3>0, <3>3 DEF FlushMap
    <3> QED
      BY <2>2, <3>1, <3>2, <3>3
  <2> QED
    BY <2>1, <2>2 DEF MapStep
<1>3. SaverType'
  <2>1. CASE FlushMap
    <3>1. [Blank EXCEPT !["smart"] = smart.snap] \in Tables
      BY TableTypes DEF OwnerType
    <3>2. Asked({"smart"}, [Blank EXCEPT !["smart"] = smart.snap]) \in Jobs
      BY <3>1, AskedType DEF Keys
    <3> QED
      BY <2>1, <3>2, OneJobType DEF FlushMap, Threads
  <2>2. CASE PublishMode \/ MarkDirty \/ ClearDirty
    BY <2>2 DEF PublishMode, MarkDirty, ClearDirty, SaverType
  <2> QED
    BY <2>1, <2>2 DEF MapStep
<1>4. OwnerType'
  BY <1>0, <1>1, <1>2 DEF OwnerType
<1> QED
  BY <1>0, <1>3, <1>4

LEMMA TrayStepType ==
  ASSUME TypeOK, TrayEdit
  PROVE  TypeOK'
<1> USE DEF TypeOK
<1>1. edits' \in 0 .. MaxEdits /\ picked' \in Tables
  BY EditTypes DEF TrayEdit, OwnerType
<1>2. Asked(TypingKeys, Over(Load("tray"), {"method"}, picked')) \in Jobs
  BY <1>1, TableTypes, LoadTypes, AskedType DEF Keys
<1>3. SaverType'
  BY <1>2, OneJobType DEF TrayEdit, Threads
<1>4. StoreType'
  BY CachedType DEF TrayEdit
<1>5. OwnerType'
  BY <1>1 DEF TrayEdit, OwnerType
<1> QED
  BY <1>3, <1>4, <1>5 DEF TrayEdit

LEMMA ExitStepType ==
  ASSUME TypeOK, ExitStep
  PROVE  TypeOK'
<1> USE DEF TypeOK
<1> DEFINE R == [pc : Pcs, jobs : Seq(Jobs), base : Tables]
           leave == Asked({"system"}, Load("tray"))
<1>0. leave \in Jobs /\ <<leave>> \in Seq(Jobs) /\ <<leave>> # <<>>
  <2>1. leave \in Jobs
    BY LoadTypes, AskedType DEF Keys
  <2> HIDE DEF leave
  <2> QED
    BY <2>1
<1> HIDE DEF leave
<1>1. CASE SciterLeave
  <2> DEFINE last == [pc |-> "lock", jobs |-> <<leave>>, base |-> Blank]
  <2>1. last \in R /\ last.pc # "idle" /\ last.jobs # <<>>
    BY <1>0, TableTypes DEF Pcs
  <2>2. saver' = [t \in Threads |-> IF t = "tray" THEN last
                                    ELSE IF t = "worker" THEN saver[t] ELSE Idle]
    BY <1>1 DEF SciterLeave, leave
  <2> HIDE DEF last
  <2>3. saver' \in [Threads -> R]
    BY <2>1, <2>2, IdleType DEF SaverType
  <2>4. \A t \in Threads : saver'[t].pc = "idle" <=> saver'[t].jobs = <<>>
    BY <2>1, <2>2 DEF SaverType, Idle
  <2>5. SaverType'
    BY <2>3, <2>4 DEF SaverType
  <2>6. StoreType'
    <3>1. /\ file' = file /\ reader' = reader /\ Release({"settings", "dialog"})
          /\ cache' = CacheAfter("tray")
      BY <1>1 DEF SciterLeave
    <3> QED
      BY <3>1, ReleaseType, LoadTypes DEF StoreType
  <2>7. OwnerType'
    BY <1>1, NoPaneType, ShutType DEF SciterLeave, OwnerType
  <2> QED
    BY <1>1, <2>5, <2>6, <2>7 DEF SciterLeave, Interrupted, AllReasons
<1>2. CASE ClassicLeave
  <2>1. SaverType'
    BY <1>0, <1>2, OneJobType DEF ClassicLeave, Threads, leave
  <2>2. StoreType' /\ OwnerType'
    BY <1>2, CachedType DEF ClassicLeave, OwnerType
  <2> QED
    BY <1>2, <2>1, <2>2 DEF ClassicLeave, Trouble, AllReasons
<1>3. CASE FlushOnStop
  <2>1. Asked({"smart"}, picked) \in Jobs
    BY AskedType DEF Keys, OwnerType
  <2>2. SaverType'
    BY <1>3, <2>1, OneJobType DEF FlushOnStop, Threads
  <2>3. StoreType' /\ OwnerType'
    BY <1>3 DEF FlushOnStop, StoreType, OwnerType, owners
  <2> QED
    BY <1>3, <2>2, <2>3 DEF FlushOnStop
<1>4. CASE Restart
  <2>1. SaverType'
    BY <1>4, IdleType DEF Restart, SaverType, Idle
  <2>2. StoreType'
    BY <1>4, ReleaseType, UncachedType DEF Restart, StoreType
  <2>3. Parsed["smart"] \in Values
    BY LoadTypes DEF Tables, Keys
  <2>4. OwnerType'
    BY <1>4, <2>3, NoPaneType, ShutType DEF Restart, OwnerType
  <2> QED
    BY <1>4, <2>1, <2>2, <2>4 DEF Restart, Interrupted
<1> QED
  BY <1>1, <1>2, <1>3, <1>4 DEF ExitStep

LEMMA TypeStep == TypeOK /\ [Next]_vars => TypeOK'
<1> SUFFICES ASSUME TypeOK, [Next]_vars PROVE TypeOK'
  OBVIOUS
<1>1. CASE UNCHANGED vars
  BY <1>1 DEF vars, owners, TypeOK, StoreType, SaverType, OwnerType
<1> QED
  BY <1>1, LoadStepType, SaveStepType, SettingsStepType, DialogStepType, TrayStepType,
     MapStepType, ExitStepType DEF Next

\* Every variable keeps its type: the tables have every key, the threads
\* stay inside the protocol of a save, and one without a save has none to
\* make (ConfigManager.cpp, WriteToml and its callers).
THEOREM FileTypeCorrect == Spec => []TypeOK
BY TypeInit, TypeStep, PTL DEF Spec

(***************************************************************************)
(* The invariant                                                           *)
(*                                                                         *)
(* As long as nobody gave up waiting, at most one thread is between the    *)
(* acquisition of the mutex and the rename: the owner, which alone has the *)
(* temporary file.  What it read of config.toml is what config.toml still  *)
(* holds.  The worker does one thing at a time.                            *)
(***************************************************************************)
Critical(t) == saver[t].pc \in {"open", "write", "move"}

Filled(t) == tmp.table = Over(saver[t].base, Job(t).keys, Job(t).table)

OpenInv == tmp.open = {t \in Threads : saver[t].pc = "write"}

OwnerInv ==
  "timeout" \notin trouble =>
    /\ ~file.torn
    /\ \A t \in Threads : Critical(t) => lock = t
    /\ \A t \in Threads : saver[t].pc \in {"write", "move"} => ~tmp.mixed

BaseInv ==
  "timeout" \notin trouble /\ "unreadable" \notin trouble =>
    \A t \in Threads : /\ Critical(t) => saver[t].base = file.table
                       /\ saver[t].pc = "move" => Filled(t)

SaveInv == OpenInv /\ MutexOwned /\ OwnerInv /\ BaseInv

BareInv == ~file.exists => file.table = Blank

WorkerInv ==
  /\ reader.pc # "idle" \/ smart.flushing => saver["worker"].pc = "idle"
  /\ reader.pc = "idle" \/ ~smart.flushing
  /\ life = "flushing" =>
       saver["worker"].pc = "idle" /\ reader.pc = "idle" /\ ~smart.flushing

\* The table of a load was in the file no earlier than the first version of
\* its stamp.
LoadInv ==
  /\ reader.from <= file.stamp /\ file.stamp <= file.version
  /\ cache.stamp <= cache.since
  /\ reader.pc = "stat" => reader.stamp = reader.from
  /\ reader.pc \in {"parse", "parsed"} =>
       reader.stamp = reader.from /\ reader.from <= reader.since
  /\ reader.pc = "loaded" => reader.from <= reader.since

Inv == TypeOK /\ SaveInv /\ BareInv /\ WorkerInv /\ LoadInv

LEMMA InvInit == Init => Inv
<1> SUFFICES ASSUME Init PROVE Inv
  OBVIOUS
<1> USE ConstantsOK DEF Init
<1>1. \A t \in Threads : saver[t].pc = "idle"
  BY DEF Idle
<1>2. SaveInv
  BY <1>1 DEF SaveInv, OpenInv, MutexOwned, OwnerInv, BaseInv, Critical
<1>3. BareInv
  <2>1. PICK start \in Starts :
          file = [exists |-> start # "none", torn |-> FALSE, version |-> 1, stamp |-> 1,
                  table |-> [Blank EXCEPT !["registry"] =
                               IF start = "v3" THEN Derived ELSE 0]]
    OBVIOUS
  <2>2. ~file.exists => file.table = [Blank EXCEPT !["registry"] = 0]
    BY <2>1
  <2> QED
    BY <2>2 DEF BareInv, Blank
<1>4. WorkerInv
  BY DEF WorkerInv, AtRest
<1>5. LoadInv
  BY DEF LoadInv, AtRest, Uncached
<1> QED
  BY <1>2, <1>3, <1>4, <1>5, TypeInit DEF Inv

\* A thread that begins a save disturbs no save under way.
LEMMA BeginKeeps ==
  ASSUME TypeOK, SaveInv, lock' = lock, tmp' = tmp, file' = file, trouble \subseteq trouble',
         \A t \in Threads : saver'[t] = saver[t] \/ (~Critical(t) /\ ~Critical(t)')
  PROVE  SaveInv'
<1>1. OpenInv'
  BY DEF SaveInv, OpenInv, Critical
<1>2. MutexOwned'
  BY DEF SaveInv, MutexOwned, Critical, TypeOK, StoreType
<1>3. OwnerInv'
  BY DEF SaveInv, OwnerInv, Critical
<1>4. BaseInv'
  BY DEF SaveInv, BaseInv, Critical, Filled, Job
<1> QED
  BY <1>1, <1>2, <1>3, <1>4 DEF SaveInv

\* Terminated threads give up the mutex and the temporary file together.
LEMMA TerminateKeeps ==
  ASSUME TypeOK, SaveInv, NEW ts, Release(ts), file' = file, trouble \subseteq trouble',
         \A t \in Threads : \/ saver'[t] = saver[t] /\ t \notin ts
                            \/ ~Critical(t)' /\ (t \in ts \/ ~Critical(t))
  PROVE  SaveInv'
<1> USE DEF SaveInv
<1>1. OpenInv'
  BY DEF OpenInv, Critical, Release, TypeOK, StoreType
<1>2. MutexOwned'
  BY DEF MutexOwned, Critical, Release, TypeOK, StoreType
<1>3. OwnerInv'
  <2> SUFFICES ASSUME "timeout" \notin trouble' PROVE OwnerInv'
    BY DEF OwnerInv
  <2>1. ASSUME NEW t \in Threads, Critical(t)'
        PROVE  t \notin ts /\ saver'[t] = saver[t] /\ lock = t /\ lock' = t
    BY <2>1 DEF OwnerInv, Critical, Release
  <2>2. ASSUME NEW t \in Threads, saver'[t].pc \in {"write", "move"}
        PROVE  ~tmp'.mixed
    <3>1. t \notin ts /\ saver'[t] = saver[t] /\ lock = t
      BY <2>1, <2>2 DEF Critical
    <3>2. tmp.open \cap ts = {}
      BY <3>1 DEF OwnerInv, OpenInv, Critical
    <3>3. ~tmp.mixed
      BY <2>2, <3>1 DEF OwnerInv
    <3> QED
      BY <3>2, <3>3 DEF Release, TypeOK, StoreType
  <2> QED
    BY <2>1, <2>2 DEF OwnerInv
<1>4. BaseInv'
  <2>1. tmp'.table = tmp.table
    BY DEF Release, TypeOK, StoreType
  <2> QED
    BY <2>1 DEF BaseInv, Critical, Filled, Job
<1> QED
  BY <1>1, <1>2, <1>3, <1>4

\* One step of a save.
LEMMA SaveStepKeeps ==
  ASSUME TypeOK, SaveInv, BareInv, NEW t \in Threads, SaveStep(t)
  PROVE  SaveInv' /\ BareInv'
<1> USE DEF SaveInv
<1>0. /\ \A u \in Threads \ {t} : saver'[u] = saver[u]
      /\ trouble \subseteq trouble' /\ DOMAIN saver = Threads
      /\ NoThread \notin Threads
  BY ConstantsOK DEF SaveStep, Acquire, GiveUpWaiting, OpenTmp, WriteTmp, Move, MoveFails,
     ReadExisting, Trouble, Step, Finish, TypeOK, SaverType
<1>a. ASSUME "timeout" \notin trouble, Critical(t)
      PROVE  \A u \in Threads \ {t} : ~Critical(u)
  BY <1>a DEF OwnerInv
<1>1. CASE Acquire(t)
  <2>1. PICK from \in Tables :
          /\ saver' = [saver EXCEPT ![t].pc = "open", ![t].base = from]
          /\ from = Parsed \/ "unreadable" \in trouble'
    BY <1>1, TableTypes, LoadTypes DEF Acquire, ReadExisting, Trouble, TypeOK
  <2>2. saver'[t].pc = "open" /\ saver'[t].base = from
    BY <1>0, <2>1 DEF TypeOK, SaverType
  <2>3. OpenInv'
    BY <1>0, <1>1, <2>2 DEF Acquire, At, OpenInv
  <2>4. MutexOwned'
    BY <1>0, <1>1, <2>2 DEF Acquire, MutexOwned
  <2>5. ASSUME "timeout" \notin trouble'
        PROVE  ~file.torn /\ \A u \in Threads \ {t} : ~Critical(u)
    BY <1>0, <1>1, <2>5 DEF Acquire, OwnerInv
  <2>6. OwnerInv'
    BY <1>0, <1>1, <2>2, <2>5 DEF Acquire, OwnerInv, Critical
  <2>7. BaseInv'
    <3> SUFFICES ASSUME "timeout" \notin trouble', "unreadable" \notin trouble'
                 PROVE  BaseInv'
      BY DEF BaseInv
    <3>1. from = file.table
      BY <2>1, <2>5 DEF BareInv, Parsed
    <3> QED
      BY <1>0, <1>1, <2>2, <2>5, <3>1 DEF Acquire, BaseInv, Critical
  <2> QED
    BY <1>1, <2>3, <2>4, <2>6, <2>7 DEF Acquire, BareInv
<1>2. CASE GiveUpWaiting(t)
  <2>1. saver'[t].pc = "open" /\ "timeout" \in trouble'
    BY <1>0, <1>2 DEF GiveUpWaiting, Trouble, TypeOK, SaverType
  <2>2. OpenInv'
    BY <1>0, <1>2, <2>1 DEF GiveUpWaiting, At, OpenInv
  <2>3. MutexOwned'
    BY <1>0, <1>2, <2>1 DEF GiveUpWaiting, MutexOwned, TypeOK, StoreType
  <2> QED
    BY <1>2, <2>1, <2>2, <2>3 DEF GiveUpWaiting, BareInv, OwnerInv, BaseInv
<1>3. CASE OpenTmp(t)
  <2>1. /\ saver[t].pc = "open" /\ saver'[t].pc = "write"
        /\ saver'[t].base = saver[t].base
    BY <1>0, <1>3 DEF OpenTmp, At, Step, TypeOK, SaverType
  <2>2. OpenInv'
    BY <1>0, <1>3, <2>1 DEF OpenTmp, OpenInv
  <2>3. MutexOwned'
    BY <1>0, <1>3, <2>1 DEF OpenTmp, MutexOwned, TypeOK, StoreType
  <2>4. OwnerInv'
    BY <1>0, <1>a, <1>3, <2>1 DEF OpenTmp, OwnerInv, OpenInv, Critical
  <2>5. BaseInv'
    BY <1>0, <1>a, <1>3, <2>1 DEF OpenTmp, BaseInv, Critical
  <2> QED
    BY <1>3, <2>2, <2>3, <2>4, <2>5 DEF OpenTmp, BareInv
<1>4. CASE WriteTmp(t)
  <2>1. /\ saver[t].pc = "write" /\ saver'[t].pc = "move"
        /\ saver'[t].base = saver[t].base /\ saver'[t].jobs = saver[t].jobs
    BY <1>0, <1>4 DEF WriteTmp, At, Step, TypeOK, SaverType
  <2>2. /\ tmp'.open = tmp.open \ {t} /\ tmp'.mixed = tmp.mixed
        /\ Filled(t)'
    BY <1>4, <2>1 DEF WriteTmp, Filled, Job, TypeOK, StoreType
  <2>3. OpenInv'
    BY <1>0, <2>1, <2>2 DEF OpenInv
  <2>4. MutexOwned'
    BY <1>0, <1>4, <2>1 DEF WriteTmp, MutexOwned, TypeOK, StoreType
  <2>5. OwnerInv'
    BY <1>0, <1>4, <2>1, <2>2 DEF WriteTmp, OwnerInv, Critical
  <2>6. BaseInv'
    BY <1>0, <1>a, <1>4, <2>1, <2>2 DEF WriteTmp, BaseInv, Critical
  <2> QED
    BY <1>4, <2>3, <2>4, <2>5, <2>6 DEF WriteTmp, BareInv
<1>5. ASSUME Move(t) \/ MoveFails(t)
      PROVE  SaveInv' /\ BareInv'
  <2>1. saver[t].pc = "move" /\ saver'[t].pc \in {"idle", "lock"}
    BY <1>0, <1>5 DEF Move, MoveFails, At, Finish, Idle, TypeOK, SaverType
  <2>2. /\ tmp'.open = tmp.open /\ tmp'.mixed = tmp.mixed
        /\ lock' = IF lock = t THEN NoThread ELSE lock
    BY <1>5 DEF Move, MoveFails, Finish, TypeOK, StoreType
  <2>3. OpenInv'
    BY <1>0, <2>1, <2>2 DEF OpenInv
  <2>4. MutexOwned'
    BY <1>0, <2>1, <2>2 DEF MutexOwned, TypeOK, StoreType
  <2>5. ASSUME "timeout" \notin trouble'
        PROVE  ~file'.torn /\ \A u \in Threads : ~Critical(u)'
    <3>1. \A u \in Threads \ {t} : ~Critical(u)
      BY <1>0, <1>a, <2>1, <2>5 DEF Critical
    <3>2. ~file'.torn
      BY <1>0, <1>5, <2>1, <2>5 DEF Move, MoveFails, OwnerInv
    <3> QED
      BY <1>0, <2>1, <3>1, <3>2 DEF Critical
  <2>6. OwnerInv' /\ BaseInv'
    BY <2>5 DEF OwnerInv, BaseInv, Critical
  <2>7. BareInv'
    BY <1>5 DEF Move, MoveFails, BareInv
  <2> QED
    BY <2>3, <2>4, <2>6, <2>7
<1> QED
  BY <1>1, <1>2, <1>3, <1>4, <1>5 DEF SaveStep

\* A step that is no step of any save.
LEMMA StutterKeeps ==
  ASSUME TypeOK, SaveInv, BareInv, saver' = saver,
         lock' = lock, tmp' = tmp, file' = file, trouble \subseteq trouble'
  PROVE  SaveInv' /\ BareInv'
<1>1. \A u \in Threads : saver'[u] = saver[u] \/ (~Critical(u) /\ ~Critical(u)')
  BY DEF Critical
<1>2. SaveInv'
  BY <1>1, BeginKeeps
<1> QED
  BY <1>2 DEF BareInv

\* A step that begins the saves of a thread without any.
LEMMA StartKeeps ==
  ASSUME TypeOK, SaveInv, BareInv, NEW t \in Threads, saver[t].pc = "idle",
         NEW jobs, Start(t, jobs),
         lock' = lock, tmp' = tmp, file' = file, trouble \subseteq trouble'
  PROVE  SaveInv' /\ BareInv'
<1>1. ~Critical(t) /\ ~Critical(t)'
  BY DEF Critical, Start, TypeOK, SaverType
<1>2. \A u \in Threads : u # t => saver'[u] = saver[u]
  BY DEF Start, TypeOK, SaverType
<1>3. \A u \in Threads : saver'[u] = saver[u] \/ (~Critical(u) /\ ~Critical(u)')
  BY <1>1, <1>2 DEF Critical
<1>4. SaveInv'
  BY <1>3, BeginKeeps
<1> QED
  BY <1>4 DEF BareInv

LEMMA OtherStepKeeps ==
  ASSUME TypeOK, SaveInv, BareInv, WorkerInv,
         \/ LoadStep \/ SettingsStep \/ DialogStep \/ TrayEdit \/ MapStep \/ ExitStep
  PROVE  SaveInv' /\ BareInv'
<1> USE DEF Free
<1>1. CASE LoadStep
  <2>1. saver' = saver \/ (reader.pc = "loaded" /\ \E jobs : Start("worker", jobs))
    BY <1>1 DEF LoadStep, StartLoad, OpenToParse, CloseFile, StoreParsed, UseLoaded, Start
  <2>2. CASE saver' = saver
    <3>1. /\ lock' = lock /\ tmp' = tmp /\ file' = file /\ trouble' = trouble
      BY <1>1 DEF LoadStep, StartLoad, OpenToParse, CloseFile, StoreParsed, UseLoaded
    <3> QED
      BY <2>2, <3>1, StutterKeeps
  <2>3. CASE reader.pc = "loaded" /\ \E jobs : Start("worker", jobs)
    <3>1. /\ lock' = lock /\ tmp' = tmp /\ file' = file /\ trouble' = trouble
      BY <1>1 DEF LoadStep, StartLoad, OpenToParse, CloseFile, StoreParsed, UseLoaded
    <3>2. saver["worker"].pc = "idle"
      BY <2>3 DEF WorkerInv
    <3> QED
      BY <2>3, <3>1, <3>2, StartKeeps DEF Threads
  <2> QED
    BY <2>1, <2>2, <2>3
<1>2. CASE SettingsStep
  <2>1. CASE SciterClose
    <3>1. \A t \in Threads : \/ saver'[t] = saver[t] /\ t \notin {"dialog"}
                             \/ ~Critical(t)' /\ (t \in {"dialog"} \/ ~Critical(t))
      BY <2>1 DEF SciterClose, SettingsFree, Critical, Idle, TypeOK, SaverType, Threads
    <3>2. SaveInv'
      BY <2>1, <3>1, TerminateKeeps DEF SciterClose
    <3> QED
      BY <2>1, <3>2 DEF SciterClose, BareInv
  <2>2. CASE ~SciterClose
    <3>1. /\ lock' = lock /\ tmp' = tmp /\ file' = file /\ trouble' = trouble
          /\ saver["settings"].pc = "idle" \/ saver' = saver
          /\ saver' = saver \/ \E jobs : Start("settings", jobs)
      BY <1>2, <2>2
         DEF SettingsStep, SciterOpen, ClassicOpen, OpenWindow, SettingsNotified,
             SciterSystemEdit, ClassicSystemEdit, DeferredSave, ClassicClose, SettingsGone,
             SciterToggle, ClassicCommand, EditHeld, SettingsFree, SaveToToml
    <3>2. CASE saver' = saver
      BY <3>1, <3>2, StutterKeeps
    <3>3. CASE saver' # saver
      BY <3>1, <3>3, StartKeeps DEF Threads
    <3> QED
      BY <3>2, <3>3
  <2> QED
    BY <2>1, <2>2
<1>3. CASE DialogStep
  <2>1. /\ lock' = lock /\ tmp' = tmp /\ file' = file /\ trouble' = trouble
        /\ saver["dialog"].pc = "idle" \/ saver' = saver
        /\ saver' = saver \/ \E jobs : Start("dialog", jobs)
    BY <1>3 DEF DialogStep, EditList, EditPart, CloseDialog, OpenDialog
  <2>2. CASE saver' = saver
    BY <2>1, <2>2, StutterKeeps
  <2>3. CASE saver' # saver
    BY <2>1, <2>3, StartKeeps DEF Threads
  <2> QED
    BY <2>2, <2>3
<1>4. CASE TrayEdit
  <2>1. saver["tray"].pc = "idle" /\ \E jobs : Start("tray", jobs)
    BY <1>4 DEF TrayEdit
  <2> QED
    BY <1>4, <2>1, StartKeeps DEF TrayEdit, Threads
<1>5. CASE MapStep
  <2>1. /\ lock' = lock /\ tmp' = tmp /\ file' = file /\ trouble' = trouble
        /\ saver["worker"].pc = "idle" \/ saver' = saver
        /\ saver' = saver \/ \E jobs : Start("worker", jobs)
    BY <1>5 DEF MapStep, PublishMode, MarkDirty, ClearDirty, FlushMap, WorkerInv
  <2>2. CASE saver' = saver
    BY <2>1, <2>2, StutterKeeps
  <2>3. CASE saver' # saver
    BY <2>1, <2>3, StartKeeps DEF Threads
  <2> QED
    BY <2>2, <2>3
<1>6. CASE ExitStep
  <2>1. CASE SciterLeave \/ Restart
    <3> DEFINE ts == {"settings", "dialog"}
    <3>1. Release(ts) /\ file' = file /\ trouble \subseteq trouble'
      BY <2>1 DEF SciterLeave, Restart
    <3>2. Restart => ~Critical("worker") /\ ~Critical("tray")
      BY DEF Restart, WorkerInv, Critical
    <3>3. SciterLeave => ~Critical("tray")
      BY DEF SciterLeave, Critical
    <3>4. ~Critical("tray")' /\ \A t \in Threads : t # "worker" => ~Critical(t)'
      BY <2>1 DEF SciterLeave, Restart, Critical, Idle, Threads
    <3>5. Restart => ~Critical("worker")'
      BY DEF Restart, Critical, Idle, Threads
    <3>6. SciterLeave => saver'["worker"] = saver["worker"]
      BY DEF SciterLeave, Threads
    <3>7. \A t \in Threads : \/ saver'[t] = saver[t] /\ t \notin ts
                             \/ ~Critical(t)' /\ (t \in ts \/ ~Critical(t))
      BY <2>1, <3>2, <3>3, <3>4, <3>5, <3>6 DEF Threads
    <3>8. SaveInv'
      BY <3>1, <3>7, TerminateKeeps
    <3> QED
      BY <3>1, <3>8 DEF BareInv
  <2>2. CASE ClassicLeave \/ FlushOnStop
    <3>1. /\ lock' = lock /\ tmp' = tmp /\ file' = file /\ trouble \subseteq trouble'
          /\ saver["tray"].pc = "idle" /\ \E jobs : Start("tray", jobs)
      BY <2>2 DEF ClassicLeave, FlushOnStop, Trouble
    <3> QED
      BY <3>1, StartKeeps DEF Threads
  <2> QED
    BY <1>6, <2>1, <2>2 DEF ExitStep
<1> QED
  BY <1>1, <1>2, <1>3, <1>4, <1>5, <1>6

LEMMA WorkerStepKeeps ==
  ASSUME TypeOK, WorkerInv, Next
  PROVE  WorkerInv'
<1> USE DEF WorkerInv
<1> DEFINE same == UNCHANGED <<reader, smart.flushing, life>>
<1>0. saver \in [Threads -> [pc : Pcs, jobs : Seq(Jobs), base : Tables]]
      /\ "worker" \in Threads /\ Threads = {"settings", "dialog", "tray", "worker"}
  BY DEF TypeOK, SaverType, Threads
<1>1. CASE LoadStep
  BY <1>0, <1>1 DEF LoadStep, StartLoad, OpenToParse, CloseFile, StoreParsed, UseLoaded, Working, Free,
     AtRest, owners
<1>2. CASE SettingsStep
  <2>1. same
    BY <1>2 DEF SettingsStep, SciterOpen, ClassicOpen, OpenWindow, SettingsNotified,
       SciterSystemEdit, ClassicSystemEdit, DeferredSave, SciterClose, ClassicClose,
       SettingsGone, SciterToggle, ClassicCommand, EditHeld
  <2>2. saver'["worker"] = saver["worker"]
    BY <1>0, <1>2 DEF SettingsStep, SciterOpen, ClassicOpen, OpenWindow, SettingsNotified,
       SciterSystemEdit, ClassicSystemEdit, DeferredSave, SciterClose, ClassicClose,
       SettingsGone, SciterToggle, ClassicCommand, EditHeld, SaveToToml, Start
  <2> QED
    BY <2>1, <2>2
<1>3. CASE DialogStep
  BY <1>0, <1>3 DEF DialogStep, EditList, EditPart, CloseDialog, OpenDialog, Start
<1>4. CASE TrayEdit
  BY <1>0, <1>4 DEF TrayEdit, Start
<1>5. CASE MapStep
  BY <1>0, <1>5 DEF MapStep, PublishMode, MarkDirty, ClearDirty, FlushMap, Start, Working,
     Free, TypeOK, OwnerType
<1>6. CASE ExitStep
  BY <1>0, <1>6, SMTT(60) DEF ExitStep, SciterLeave, ClassicLeave, FlushOnStop, Restart,
     Start, Free, Idle, owners
<1>7. ASSUME NEW t \in Threads, SaveStep(t)
      PROVE  WorkerInv'
  <2>1. same
    BY <1>7 DEF SaveStep, Acquire, GiveUpWaiting, OpenTmp, WriteTmp, Move, MoveFails, owners,
       TypeOK, OwnerType
  <2>2. saver[t].pc # "idle" /\ \A u \in Threads \ {t} : saver'[u] = saver[u]
    BY <1>0, <1>7 DEF SaveStep, Acquire, GiveUpWaiting, OpenTmp, WriteTmp, Move, MoveFails,
       ReadExisting, Step, Finish, At
  <2> QED
    BY <1>0, <2>1, <2>2
<1> QED
  BY <1>1, <1>2, <1>3, <1>4, <1>5, <1>6, <1>7 DEF Next

\* Only the worker's load, a rename and the end of the process touch what
\* LoadInv speaks of, and a rename makes the file younger.
LEMMA LoadStepKeeps ==
  ASSUME TypeOK, LoadInv, Next
  PROVE  LoadInv'
<1> USE DEF LoadInv
<1>0. /\ file.stamp \in Nat /\ file.version \in Nat /\ cache.stamp \in Nat /\ cache.since \in Nat
      /\ reader.stamp \in Nat /\ reader.since \in Nat /\ reader.from \in Nat
  BY DEF TypeOK, StoreType
<1>8. \A t : CacheAfter(t).stamp <= CacheAfter(t).since
  BY <1>0 DEF CacheAfter, Uncached
<1>1. CASE StartLoad
  BY <1>0, <1>1 DEF StartLoad, AtRest, Uncached
<1>9. CASE CloseFile
  <2>1. /\ reader.pc = "parse" /\ reader' = [reader EXCEPT !.pc = "parsed"]
        /\ UNCHANGED <<file, cache>>
    BY <1>9 DEF CloseFile
  <2>2. /\ reader'.pc = "parsed" /\ reader'.stamp = reader.stamp
        /\ reader'.from = reader.from /\ reader'.since = reader.since
    BY <2>1 DEF TypeOK, StoreType
  <2> QED
    BY <2>1, <2>2
<1>2. CASE OpenToParse
  <2>1. /\ reader'.pc = "parse" /\ reader'.stamp = reader.stamp
        /\ reader'.from = reader.from /\ reader'.since = file.version
    BY <1>2 DEF OpenToParse, TypeOK, StoreType
  <2> QED
    BY <1>0, <1>2, <2>1 DEF OpenToParse
<1>3. CASE StoreParsed
  <2>1. /\ reader'.pc = "loaded" /\ reader'.from = reader.from
        /\ reader'.since = reader.since
    BY <1>3 DEF StoreParsed, TypeOK, StoreType
  <2> QED
    BY <1>0, <1>3, <2>1 DEF StoreParsed
<1>4. CASE UseLoaded
  BY <1>0, <1>4 DEF UseLoaded, AtRest
<1>5. CASE SettingsStep \/ DialogStep \/ TrayEdit \/ MapStep
  <2>1. UNCHANGED <<file, reader>>
   BY <1>5 DEF SettingsStep, SciterOpen, ClassicOpen, OpenWindow, SettingsNotified,
     SciterSystemEdit, ClassicSystemEdit, DeferredSave, SciterClose, ClassicClose,
     SettingsGone, SciterToggle, ClassicCommand, EditHeld,
     DialogStep, EditList, EditPart, CloseDialog, OpenDialog, TrayEdit,
     MapStep, PublishMode, MarkDirty, ClearDirty, FlushMap
  <2>2. cache' = cache \/ \E t : cache' = CacheAfter(t)
   BY <1>5 DEF SettingsStep, SciterOpen, ClassicOpen, OpenWindow, SettingsNotified,
     SciterSystemEdit, ClassicSystemEdit, DeferredSave, SciterClose, ClassicClose,
     SettingsGone, SciterToggle, ClassicCommand, EditHeld,
     DialogStep, EditList, EditPart, CloseDialog, OpenDialog, TrayEdit,
     MapStep, PublishMode, MarkDirty, ClearDirty, FlushMap
  <2> QED
    BY <1>8, <2>1, <2>2
<1>6. CASE ExitStep
  <2>1. UNCHANGED <<file, reader>>
    BY <1>6 DEF ExitStep, SciterLeave, ClassicLeave, FlushOnStop, Restart
  <2>2. cache' = cache \/ cache' = Uncached \/ cache' = CacheAfter("tray")
    BY <1>6 DEF ExitStep, SciterLeave, ClassicLeave, FlushOnStop, Restart
  <2> QED
    BY <1>0, <1>8, <2>1, <2>2 DEF Uncached
<1>7. ASSUME NEW t \in Threads, SaveStep(t)
      PROVE  LoadInv'
  <2>1. CASE Move(t)
    <3>1. /\ reader' = reader /\ (cache' = cache \/ cache' = Uncached)
          /\ file'.version = file.version + 1
          /\ file'.stamp \in {file.stamp, file.version + 1}
      BY <2>1 DEF Move, Stamps
    <3> QED
      BY <1>0, <3>1 DEF Uncached
  <2>2. CASE ~Move(t)
    BY <1>7, <2>2 DEF SaveStep, Acquire, GiveUpWaiting, OpenTmp, WriteTmp, MoveFails
  <2> QED
    BY <2>1, <2>2
<1> QED
  BY <1>1, <1>2, <1>3, <1>4, <1>5, <1>6, <1>7, <1>9 DEF Next, LoadStep

LEMMA InvStep == Inv /\ [Next]_vars => Inv'
<1> SUFFICES ASSUME Inv, [Next]_vars PROVE Inv'
  OBVIOUS
<1> USE DEF Inv
<1>1. CASE UNCHANGED vars
  <2>1. SaveInv'
    BY <1>1 DEF vars, SaveInv, OpenInv, MutexOwned, OwnerInv, BaseInv, Critical, Filled, Job
  <2> QED
    BY <1>1, <2>1, TypeStep DEF vars, BareInv, WorkerInv, LoadInv
<1>2. CASE Next
  <2>1. TypeOK' /\ WorkerInv' /\ LoadInv'
    BY <1>2, TypeStep, WorkerStepKeeps, LoadStepKeeps
  <2>2. SaveInv' /\ BareInv'
    BY <1>2, SaveStepKeeps, OtherStepKeeps DEF Next
  <2> QED
    BY <2>1, <2>2
<1> QED
  BY <1>1, <1>2

LEMMA InvAlways == Spec => []Inv
BY InvInit, InvStep, PTL DEF Spec

\* No half-written configuration is ever found and the mutex is never left
\* behind, whatever is terminated while it saves (ConfigFileLock, WriteToml,
\* TerminateAllSubprocesses).
THEOREM WritersAlwaysExclude == Spec => []WritersExclude
<1>1. Inv => WritersExclude
  BY DEF Inv, SaveInv, OwnerInv, WritersExclude, FileWhole
<1> QED
  BY <1>1, InvAlways, PTL

\* A load of the worker never gives a table older than the tick of the clock in
\* which the file was written that it began with: the cache is as good as the
\* time stamps (TomlFileCache::Load), whatever is saved and loaded between its
\* steps and however many saves fall into one tick.
THEOREM LoadAlwaysCurrent == Spec => []LoadIsCurrent
<1>1. Inv => LoadIsCurrent
  BY DEF Inv, TypeOK, StoreType, LoadInv, LoadIsCurrent
<1> QED
  BY <1>1, InvAlways, PTL

\* A save changes the sections it owns and no other, although the file is
\* read and written again between other threads' steps (LoadExistingToml,
\* WriteToml).
THEOREM OthersAlwaysKept == Spec => OthersKept
<1> DEFINE Kept ==
      file'.table # file.table /\ trouble' \cap {"timeout", "unreadable"} = {}
        => \E t \in Threads :
             /\ saver[t].pc = "move"
             /\ file'.table = Over(file.table, Job(t).keys, Job(t).table)
<1>1. ASSUME Inv, [Next]_vars
      PROVE  [Kept]_vars
  <2>1. ASSUME NEW t \in Threads, SaveStep(t)
        PROVE  Kept
    <3>1. CASE Move(t)
      <4>1. saver[t].pc = "move" /\ file'.table = tmp.table /\ trouble' = trouble
        BY <3>1 DEF Move, At
      <4>2. trouble \cap {"timeout", "unreadable"} = {} =>
              Filled(t) /\ saver[t].base = file.table
        BY <1>1, <4>1 DEF Inv, SaveInv, BaseInv, Critical
      <4> QED
        BY <4>1, <4>2 DEF Filled
    <3>2. CASE ~Move(t)
      BY <2>1, <3>2 DEF SaveStep, Acquire, GiveUpWaiting, OpenTmp, WriteTmp, MoveFails
    <3> QED
      BY <3>1, <3>2
  <2>2. ASSUME \/ LoadStep \/ SettingsStep \/ DialogStep \/ TrayEdit \/ MapStep \/ ExitStep
        PROVE  file' = file
    BY <2>2 DEF LoadStep, StartLoad, OpenToParse, CloseFile, StoreParsed, UseLoaded,
       SettingsStep, SciterOpen, ClassicOpen, OpenWindow, SettingsNotified,
       SciterSystemEdit, ClassicSystemEdit, DeferredSave, SciterClose, ClassicClose,
       SettingsGone, SciterToggle, ClassicCommand, EditHeld,
       DialogStep, EditList, EditPart, CloseDialog, OpenDialog, TrayEdit,
       MapStep, PublishMode, MarkDirty, ClearDirty, FlushMap,
       ExitStep, SciterLeave, ClassicLeave, FlushOnStop, Restart
  <2> QED
    BY <1>1, <2>1, <2>2 DEF Next
<1> QED
  BY <1>1, InvAlways, PTL DEF Spec, OthersKept

(***************************************************************************)
(* What was picked                                                         *)
(*                                                                         *)
(* Each thread saves sections of its own.  The list dialog saves lists as  *)
(* they were edited last.  What the worker and the tray save of the        *)
(* smart-switch map is the mode published last, or else the map is marked. *)
(***************************************************************************)
OwnKeys == ListKeys \ {"registry"}

JobsOf(t) == {saver[t].jobs[i] : i \in DOMAIN saver[t].jobs}

KeysInv ==
  \A t \in Threads : \A job \in JobsOf(t) :
    /\ t # "dialog" => job.keys \cap OwnKeys = {}
    /\ t \in {"settings", "dialog"} => "smart" \notin job.keys

ListInv ==
  \A job \in JobsOf("dialog") : \A k \in job.keys \cap OwnKeys : job.table[k] = picked[k]

MapInv ==
  /\ smart.late \/ smart.dirty \/ smart.flushing => smart.snap = picked["smart"]
  /\ \A job \in JobsOf("worker") : "smart" \in job.keys =>
       /\ smart.snap = picked["smart"]
       /\ job.table["smart"] = picked["smart"] \/ smart.late \/ smart.dirty
  /\ \A job \in JobsOf("tray") : "smart" \in job.keys =>
       /\ life = "flushing"
       /\ job.table["smart"] = picked["smart"]
  /\ life # "on" => "exit" \in trouble
  /\ life = "flushing" => ~smart.late

\* A save of the map that is under way, and the troubles that undo one.
MapInSave(ts) ==
  \E t \in ts : \E job \in JobsOf(t) :
    "smart" \in job.keys /\ job.table["smart"] = picked["smart"]

MapForgiven ==
  \/ "timeout" \in trouble \/ "unreadable" \in trouble
  \/ "exit" \in trouble /\ ("refused" \in trouble \/ "lost" \in trouble)

MapLands ==
  \/ picked["smart"] = file.table["smart"] \/ MapForgiven
  \/ /\ life # "flushing"
     /\ \/ smart.late \/ smart.dirty \/ smart.flushing \/ life = "leaving"
        \/ MapInSave({"worker"})
  \/ MapInSave({"tray"})

ListForgiven == trouble \ {"exit", "tick"} # {}

ListLands(k) ==
  \/ picked[k] = file.table[k] \/ ListForgiven
  \/ \E job \in JobsOf("dialog") : k \in job.keys /\ job.table[k] = picked[k]

LandInv == KeysInv /\ ListInv /\ MapInv /\ MapLands /\ \A k \in OwnKeys : ListLands(k)

LEMMA LandInit == Init => LandInv
<1> SUFFICES ASSUME Init PROVE LandInv
  OBVIOUS
<1>1. \A t \in Threads : JobsOf(t) = {}
  BY DEF Init, Idle, JobsOf
<1>2. picked = file.table
  BY DEF Init
<1>3. MapInv
  BY <1>1 DEF Init, MapInv, Threads
<1> QED
  BY <1>1, <1>2, <1>3 DEF LandInv, KeysInv, ListInv, MapLands, ListLands, Threads

\* The jobs a thread has, has begun with, goes on with, and is rid of.
LEMMA IdleHasNoJobs ==
  ASSUME TypeOK, NEW t \in Threads, saver[t].pc = "idle"
  PROVE  JobsOf(t) = {}
BY DEF TypeOK, SaverType, JobsOf

LEMMA SameJobs ==
  ASSUME NEW t, saver'[t].jobs = saver[t].jobs
  PROVE  JobsOf(t)' = JobsOf(t)
BY DEF JobsOf

LEMMA StartHasJobs ==
  ASSUME TypeOK, NEW t \in Threads, NEW jobs, Start(t, jobs)
  PROVE  /\ JobsOf(t)' = {jobs[i] : i \in DOMAIN jobs}
         /\ \A u \in Threads \ {t} : JobsOf(u)' = JobsOf(u)
BY DEF TypeOK, SaverType, Start, JobsOf

LEMMA OneJob ==
  ASSUME NEW job
  PROVE  {<<job>>[i] : i \in DOMAIN <<job>>} = {job}
OBVIOUS

LEMMA FinishHasJobs ==
  ASSUME TypeOK, NEW t \in Threads, saver[t].pc # "idle", Finish(t)
  PROVE  /\ JobsOf(t) = {Job(t)} \cup JobsOf(t)'
         /\ \A u \in Threads \ {t} : JobsOf(u)' = JobsOf(u)
<1> DEFINE jobs == saver[t].jobs
           Range(js) == {js[i] : i \in DOMAIN js}
<1>1. jobs \in Seq(Jobs) /\ jobs # <<>>
  BY DEF TypeOK, SaverType
<1>2. Tail(jobs) \in Seq(Jobs) /\ Len(Tail(jobs)) = Len(jobs) - 1 /\ Len(jobs) \in Nat \ {0}
  BY <1>1
<1>3. \A i \in 1 .. Len(jobs) - 1 : Tail(jobs)[i] = jobs[i + 1]
  BY <1>1
<1>4. Range(jobs) = {Head(jobs)} \cup Range(Tail(jobs))
  <2>1. DOMAIN jobs = 1 .. Len(jobs) /\ DOMAIN Tail(jobs) = 1 .. Len(jobs) - 1
    BY <1>1, <1>2
  <2>2. Head(jobs) = jobs[1] /\ 1 \in DOMAIN jobs
    BY <1>1, <1>2, <2>1
  <2>3. ASSUME NEW i \in DOMAIN jobs
        PROVE  jobs[i] \in {Head(jobs)} \cup Range(Tail(jobs))
    <3>1. CASE i = 1
      BY <2>2, <3>1
    <3>2. CASE i # 1
      <4>1. i - 1 \in 1 .. Len(jobs) - 1 /\ Tail(jobs)[i - 1] = jobs[i]
        BY <1>2, <1>3, <2>1, <3>2
      <4> QED
        BY <2>1, <4>1
    <3> QED
      BY <3>1, <3>2
  <2>4. ASSUME NEW i \in DOMAIN Tail(jobs)
        PROVE  Tail(jobs)[i] \in Range(jobs)
    <3>1. i + 1 \in DOMAIN jobs /\ Tail(jobs)[i] = jobs[i + 1]
      BY <1>2, <1>3, <2>1
    <3> QED
      BY <3>1
  <2> QED
    BY <2>2, <2>3, <2>4
<1>5. saver'[t].jobs = Tail(jobs)
  BY DEF Finish, Idle, TypeOK, SaverType
<1>6. \A u \in Threads \ {t} : saver'[u] = saver[u]
  BY DEF Finish, TypeOK, SaverType
<1> QED
  BY <1>4, <1>5, <1>6 DEF JobsOf, Job

Harmless(job) == job.keys \cap OwnKeys = {} /\ "smart" \notin job.keys

\* A step that changes neither lists nor the smart-switch map and begins no
\* save of them.
LEMMA LandFrame ==
  ASSUME LandInv, smart' = smart, life' = life, file' = file, trouble \subseteq trouble',
         \A k \in OwnKeys \cup {"smart"} : picked'[k] = picked[k],
         \A t \in Threads : \/ JobsOf(t)' = JobsOf(t)
                            \/ JobsOf(t) = {} /\ \A job \in JobsOf(t)' : Harmless(job)
  PROVE  LandInv'
<1> USE DEF LandInv, Harmless
<1>0. {"settings", "dialog", "tray", "worker"} = Threads
  BY DEF Threads
<1>1. KeysInv'
  BY <1>0 DEF KeysInv
<1>2. ListInv'
  BY <1>0 DEF ListInv
<1>3. MapInv'
  BY <1>0 DEF MapInv
<1>4. MapForgiven => MapForgiven'
  BY DEF MapForgiven
<1>5. MapLands'
  BY <1>0, <1>4 DEF MapLands, MapInSave
<1>6. \A k \in OwnKeys : ListLands(k)'
  BY <1>0 DEF ListLands, ListForgiven
<1> QED
  BY <1>1, <1>2, <1>3, <1>5, <1>6

\* Under the mutex a rename changes the sections of its save and no other.
LEMMA MoveWrites ==
  ASSUME Inv, NEW t \in Threads, Move(t),
         "timeout" \notin trouble, "unreadable" \notin trouble
  PROVE  file'.table = Over(file.table, Job(t).keys, Job(t).table)
<1>1. saver[t].pc = "move" /\ file'.table = tmp.table
  BY DEF Move, At
<1>2. Filled(t) /\ saver[t].base = file.table
  BY <1>1 DEF Inv, SaveInv, BaseInv, Critical
<1> QED
  BY <1>1, <1>2 DEF Filled

LEMMA KeyFacts ==
  /\ OwnKeys \subseteq Keys /\ "smart" \in Keys /\ "smart" \notin OwnKeys
  /\ Threads = {"settings", "dialog", "tray", "worker"}
BY DEF OwnKeys, ListKeys, Keys, Threads

LEMMA LandMove ==
  ASSUME Inv, LandInv, NEW t \in Threads, Move(t)
  PROVE  LandInv'
<1> USE DEF LandInv
<1>1. /\ saver[t].pc = "move" /\ Finish(t)
      /\ UNCHANGED <<life, trouble, smart, picked>>
  BY DEF Move, At
<1>2. /\ JobsOf(t) = {Job(t)} \cup JobsOf(t)'
      /\ \A u \in Threads \ {t} : JobsOf(u)' = JobsOf(u)
  BY <1>1, FinishHasJobs DEF Inv
<1>3. \A u \in Threads : \A job \in JobsOf(u)' : job \in JobsOf(u)
  BY <1>2
<1>4. KeysInv' /\ ListInv' /\ MapInv'
  BY <1>1, <1>3, KeyFacts DEF KeysInv, ListInv, MapInv
<1>5. ASSUME NEW k \in Keys, "timeout" \notin trouble, "unreadable" \notin trouble
      PROVE  file'.table[k] = IF k \in Job(t).keys THEN Job(t).table[k] ELSE file.table[k]
  BY <1>5, MoveWrites DEF Over
<1>6. MapLands'
  <2> SUFFICES ASSUME ~MapForgiven PROVE MapLands'
    BY <1>1 DEF MapLands, MapForgiven
  <2>1. file'.table["smart"] = IF "smart" \in Job(t).keys THEN Job(t).table["smart"]
                               ELSE file.table["smart"]
    BY <1>5, KeyFacts DEF MapForgiven
  <2>2. CASE "smart" \notin Job(t).keys
    <3>1. \A u \in Threads : \A job \in JobsOf(u) : "smart" \in job.keys => job \in JobsOf(u)'
      BY <1>2, <2>2
    <3>2. MapInSave({"worker"}) => MapInSave({"worker"})'
      BY <1>1, <3>1, KeyFacts DEF MapInSave
    <3>3. MapInSave({"tray"}) => MapInSave({"tray"})'
      BY <1>1, <3>1, KeyFacts DEF MapInSave
    <3> QED
      BY <1>1, <2>1, <2>2, <3>2, <3>3 DEF MapLands
  <2>3. CASE "smart" \in Job(t).keys
    <3>1. Job(t) \in JobsOf(t) /\ t \in {"worker", "tray"}
      BY <1>2, <2>3, KeyFacts DEF KeysInv
    <3>2. CASE Job(t).table["smart"] = picked["smart"]
      BY <1>1, <2>1, <2>3, <3>2 DEF MapLands
    <3>3. CASE Job(t).table["smart"] # picked["smart"]
      <4>1. t = "worker" /\ (smart.late \/ smart.dirty)
        BY <3>1, <3>3, <2>3 DEF MapInv
      <4>2. life # "flushing"
        BY <1>1, <4>1 DEF Inv, WorkerInv
      <4> QED
        BY <1>1, <4>1, <4>2 DEF MapLands
    <3> QED
      BY <3>2, <3>3
  <2> QED
    BY <2>2, <2>3
<1>7. ASSUME NEW k \in OwnKeys
      PROVE  ListLands(k)'
  <2> SUFFICES ASSUME ~ListForgiven PROVE ListLands(k)'
    BY <1>1 DEF ListLands, ListForgiven
  <2>1. file'.table[k] = IF k \in Job(t).keys THEN Job(t).table[k] ELSE file.table[k]
    BY <1>5, KeyFacts DEF ListForgiven
  <2>2. CASE k \in Job(t).keys
    <3>1. Job(t) \in JobsOf("dialog")
      BY <1>2, <2>2, KeyFacts DEF KeysInv
    <3>2. Job(t).table[k] = picked[k]
      BY <2>2, <3>1 DEF ListInv
    <3> QED
      BY <1>1, <2>1, <2>2, <3>2 DEF ListLands
  <2>3. CASE k \notin Job(t).keys
    <3>1. \A job \in JobsOf("dialog") : k \in job.keys => job \in JobsOf("dialog")'
      BY <1>2, <2>3, KeyFacts
    <3> QED
      BY <1>1, <2>1, <2>3, <3>1 DEF ListLands
  <2> QED
    BY <2>2, <2>3
<1> QED
  BY <1>4, <1>6, <1>7

LEMMA LandMoveFails ==
  ASSUME Inv, LandInv, NEW t \in Threads, MoveFails(t)
  PROVE  LandInv'
<1> USE DEF LandInv
<1>1. /\ saver[t].pc = "move" /\ Finish(t)
      /\ UNCHANGED <<life, file, picked>>
      /\ trouble \subseteq trouble' /\ ("refused" \in trouble' \/ "lost" \in trouble')
  BY DEF MoveFails, At, Trouble
<1>2. /\ JobsOf(t) = {Job(t)} \cup JobsOf(t)'
      /\ \A u \in Threads \ {t} : JobsOf(u)' = JobsOf(u)
  BY <1>1, FinishHasJobs DEF Inv
<1>3. \A u \in Threads : \A job \in JobsOf(u)' : job \in JobsOf(u)
  BY <1>2
<1>4. /\ smart'.snap = smart.snap /\ smart'.late = smart.late
      /\ smart'.flushing = smart.flushing
      /\ smart'.dirty = (smart.dirty \/ (t = "worker" /\ "smart" \in Job(t).keys))
  BY DEF MoveFails, Inv, TypeOK, OwnerType
<1>5. KeysInv' /\ ListInv'
  BY <1>1, <1>3, KeyFacts DEF KeysInv, ListInv
<1>6. MapInv'
  <2>1. smart'.dirty => smart.dirty \/ (Job(t) \in JobsOf("worker") /\ "smart" \in Job(t).keys)
    BY <1>2, <1>4
  <2> QED
    BY <1>1, <1>3, <1>4, <2>1, KeyFacts DEF MapInv
<1>7. MapLands'
  <2>1. MapForgiven => MapForgiven'
    BY <1>1 DEF MapForgiven
  <2>2. CASE "smart" \notin Job(t).keys
    <3>1. \A u \in Threads : \A job \in JobsOf(u) : "smart" \in job.keys => job \in JobsOf(u)'
      BY <1>2, <2>2
    <3>2. MapInSave({"worker"}) => MapInSave({"worker"})'
      BY <1>1, <3>1, KeyFacts DEF MapInSave
    <3>3. MapInSave({"tray"}) => MapInSave({"tray"})'
      BY <1>1, <3>1, KeyFacts DEF MapInSave
    <3> QED
      BY <1>1, <1>4, <2>1, <2>2, <3>2, <3>3 DEF MapLands
  <2>3. CASE "smart" \in Job(t).keys
    <3>1. Job(t) \in JobsOf(t) /\ t \in {"worker", "tray"}
      BY <1>2, <2>3, KeyFacts DEF KeysInv
    <3>2. CASE t = "worker"
      <4>1. life # "flushing"
        BY <1>1, <3>2 DEF Inv, WorkerInv
      <4> QED
        BY <1>1, <1>4, <2>3, <3>2, <4>1 DEF MapLands
    <3>3. CASE t = "tray"
      <4>1. "exit" \in trouble
        BY <2>3, <3>1, <3>3 DEF MapInv
      <4> QED
        BY <1>1, <4>1 DEF MapLands, MapForgiven
    <3> QED
      BY <3>1, <3>2, <3>3
  <2> QED
    BY <2>2, <2>3
<1>8. \A k \in OwnKeys : ListLands(k)'
  BY <1>1 DEF ListLands, ListForgiven
<1> QED
  BY <1>5, <1>6, <1>7, <1>8

LEMMA LandSave ==
  ASSUME Inv, LandInv, NEW t \in Threads, SaveStep(t)
  PROVE  LandInv'
<1>1. CASE Move(t)
  BY <1>1, LandMove
<1>2. CASE MoveFails(t)
  BY <1>2, LandMoveFails
<1>3. CASE ~Move(t) /\ ~MoveFails(t)
  <2>1. /\ smart' = smart /\ life' = life /\ file' = file /\ picked' = picked
        /\ trouble \subseteq trouble'
    BY <1>3 DEF SaveStep, Acquire, GiveUpWaiting, OpenTmp, WriteTmp, ReadExisting, Trouble,
       owners
  <2>2. \A u \in Threads : saver'[u].jobs = saver[u].jobs
    <3>1. saver \in [Threads -> [pc : Pcs, jobs : Seq(Jobs), base : Tables]]
      BY DEF Inv, TypeOK, SaverType
    <3>2. CASE Acquire(t) \/ GiveUpWaiting(t)
      <4> DEFINE mid == [saver EXCEPT ![t].pc = "open"]
      <4>1. PICK from : saver' = [mid EXCEPT ![t].base = from]
        BY <3>2 DEF Acquire, GiveUpWaiting, ReadExisting
      <4>2. /\ mid \in [Threads -> [pc : Pcs, jobs : Seq(Jobs), base : Tables]]
            /\ \A u \in Threads : mid[u].jobs = saver[u].jobs
        BY <3>1 DEF Pcs
      <4> HIDE DEF mid
      <4> QED
        BY <4>1, <4>2
    <3>3. CASE OpenTmp(t) \/ WriteTmp(t)
      BY <3>1, <3>3 DEF OpenTmp, WriteTmp, Step
    <3> QED
      BY <1>3, <3>2, <3>3 DEF SaveStep
  <2>3. \A u \in Threads : JobsOf(u)' = JobsOf(u)
    BY <2>2, SameJobs
  <2> QED
    BY <2>1, <2>3, LandFrame
<1> QED
  BY <1>1, <1>2, <1>3

\* A save of other sections begins, in a thread without one.
LEMMA LandStart ==
  ASSUME Inv, LandInv, NEW t \in Threads, saver[t].pc = "idle", NEW jobs, Start(t, jobs),
         \A i \in DOMAIN jobs : Harmless(jobs[i]),
         smart' = smart, life' = life, file' = file, trouble \subseteq trouble',
         \A k \in OwnKeys \cup {"smart"} : picked'[k] = picked[k]
  PROVE  LandInv'
<1>1. JobsOf(t) = {} /\ JobsOf(t)' = {jobs[i] : i \in DOMAIN jobs}
      /\ \A u \in Threads \ {t} : JobsOf(u)' = JobsOf(u)
  BY IdleHasNoJobs, StartHasJobs DEF Inv
<1>2. \A u \in Threads : \/ JobsOf(u)' = JobsOf(u)
                         \/ JobsOf(u) = {} /\ \A job \in JobsOf(u)' : Harmless(job)
  BY <1>1
<1> QED
  BY <1>2, LandFrame

\* No save begins.
LEMMA LandStutter ==
  ASSUME LandInv, saver' = saver,
         smart' = smart, life' = life, file' = file, trouble \subseteq trouble',
         \A k \in OwnKeys \cup {"smart"} : picked'[k] = picked[k]
  PROVE  LandInv'
<1>1. \A u \in Threads : JobsOf(u)' = JobsOf(u)
  BY DEF JobsOf
<1> QED
  BY <1>1, LandFrame

LEMMA OneHarmless ==
  ASSUME NEW job, Harmless(job)
  PROVE  \A i \in DOMAIN <<job>> : Harmless(<<job>>[i])
OBVIOUS

LEMMA HarmlessJobs ==
  /\ \A table : /\ Harmless(Asked(TypingKeys, table)) /\ Harmless(Asked({"switch"}, table))
                /\ Harmless(Asked({"system"}, table))
  /\ \A table : Harmless([keys |-> {"registry", "mirror"}, table |-> table])
  /\ \A held : \A i \in DOMAIN Saves(held) : Harmless(Saves(held)[i])
  /\ \A held : \A i \in DOMAIN SciterSaves(held) : Harmless(SciterSaves(held)[i])
<1>1. /\ TypingKeys \cap OwnKeys = {} /\ "smart" \notin TypingKeys
      /\ {"switch", "system", "registry", "mirror"} \cap OwnKeys = {}
  BY DEF OwnKeys, TypingKeys, ListKeys
<1>2. \A table : /\ Harmless(Asked(TypingKeys, table)) /\ Harmless(Asked({"switch"}, table))
                 /\ Harmless(Asked({"system"}, table))
  BY <1>1 DEF Harmless, Asked
<1>3. \A table : Harmless([keys |-> {"registry", "mirror"}, table |-> table])
  BY <1>1 DEF Harmless
<1>4. ASSUME NEW held
      PROVE  \A i \in DOMAIN SciterSaves(held) : Harmless(SciterSaves(held)[i])
  <2> DEFINE one == Asked(TypingKeys, held)
             two == Asked({"switch"}, held)
  <2>1. Harmless(one) /\ Harmless(two) /\ SciterSaves(held) = <<one, two>>
    BY <1>2 DEF SciterSaves
  <2> HIDE DEF one, two
  <2> QED
    BY <2>1
<1>5. ASSUME NEW held
      PROVE  \A i \in DOMAIN Saves(held) : Harmless(Saves(held)[i])
  <2> DEFINE one == Asked(TypingKeys, held)
             two == Asked({"switch"}, held)
             three == Asked({"system"}, held)
  <2>1. /\ Harmless(one) /\ Harmless(two) /\ Harmless(three)
        /\ SciterSaves(held) = <<one, two>>
        /\ ClassicSaves(held) = <<one, two>> \o <<three>>
    BY <1>2 DEF SciterSaves, ClassicSaves
  <2> HIDE DEF one, two, three
  <2>2. ClassicSaves(held) \in Seq({one, two, three})
    BY <2>1
  <2>3. \A i \in DOMAIN ClassicSaves(held) : ClassicSaves(held)[i] \in {one, two, three}
    BY <2>2
  <2> QED
    BY <1>4, <2>1, <2>3 DEF Saves
<1> QED
  BY <1>2, <1>3, <1>4, <1>5

LEMMA EditOthers ==
  ASSUME NEW ks, Edit(ks), ks \cap (OwnKeys \cup {"smart"}) = {}
  PROVE  \A k \in OwnKeys \cup {"smart"} : picked'[k] = picked[k]
BY KeyFacts DEF Edit

LEMMA LandLoad ==
  ASSUME Inv, LandInv, LoadStep
  PROVE  LandInv'
<1>1. /\ smart' = smart /\ life' = life /\ file' = file /\ trouble' = trouble
      /\ picked' = picked
  BY DEF LoadStep, StartLoad, OpenToParse, CloseFile, StoreParsed, UseLoaded, owners
<1>2. CASE saver' = saver
  BY <1>1, <1>2, LandStutter
<1>3. CASE saver' # saver
  <2> DEFINE derived == [Blank EXCEPT !["registry"] = Derived, !["mirror"] = Derived]
             job == [keys |-> {"registry", "mirror"}, table |-> derived]
  <2>1. Start("worker", <<job>>) /\ saver["worker"].pc = "idle"
    BY <1>3 DEF LoadStep, StartLoad, OpenToParse, CloseFile, StoreParsed, UseLoaded, Start, Inv, WorkerInv
  <2>2. Harmless(job)
    BY HarmlessJobs
  <2>3. \A i \in DOMAIN <<job>> : Harmless(<<job>>[i])
    BY <2>2, OneHarmless
  <2> QED
    BY <1>1, <2>1, <2>3, LandStart, KeyFacts
<1> QED
  BY <1>2, <1>3

LEMMA LandSettings ==
  ASSUME Inv, LandInv, SettingsStep, ~SciterClose
  PROVE  LandInv'
<1> USE DEF SettingsStep, SciterOpen, ClassicOpen, OpenWindow, SettingsNotified,
      SciterSystemEdit, ClassicSystemEdit, DeferredSave, ClassicClose, SettingsGone,
      SciterToggle, ClassicCommand, EditHeld
<1>1. smart' = smart /\ life' = life /\ file' = file /\ trouble' = trouble
  OBVIOUS
<1>2. \A k \in OwnKeys \cup {"smart"} : picked'[k] = picked[k]
  <2>1. {"method", "switch", "system"} \cap (OwnKeys \cup {"smart"}) = {}
    BY DEF OwnKeys, ListKeys
  <2>2. \A k \in HeldKeys : k \in {"method", "switch"}
    BY ConstantsOK
  <2>3. picked' = picked \/ \E k \in {"method", "switch", "system"} : Edit({k})
    BY <2>2
  <2>4. ASSUME NEW k \in {"method", "switch", "system"}
        PROVE  {k} \cap (OwnKeys \cup {"smart"}) = {}
    BY <2>1
  <2> QED
    BY <2>3, <2>4, EditOthers
<1>3. CASE saver' = saver
  BY <1>1, <1>2, <1>3, LandStutter
<1>4. CASE saver' # saver
  <2>1. saver["settings"].pc = "idle"
    BY <1>4 DEF SettingsFree, Free
  <2>2. \/ \E held : Start("settings", Saves(held))
        \/ \E held : Start("settings", <<Asked({"system"}, held)>>)
    BY <1>4 DEF SaveToToml
  <2>3. ASSUME NEW held
        PROVE  \A i \in DOMAIN <<Asked({"system"}, held)>> :
                 Harmless(<<Asked({"system"}, held)>>[i])
    <3> DEFINE job == Asked({"system"}, held)
    <3>1. Harmless(job)
      BY HarmlessJobs
    <3> HIDE DEF job
    <3>2. \A i \in DOMAIN <<job>> : Harmless(<<job>>[i])
      BY <3>1, OneHarmless
    <3> QED
      BY <3>2 DEF job
  <2> QED
    BY <1>1, <1>2, <2>1, <2>2, <2>3, LandStart, HarmlessJobs, KeyFacts
<1> QED
  BY <1>3, <1>4

\* Terminated dialogs leave nothing to save, which is forgiven if they had.
LEMMA TerminatedLists ==
  ASSUME Inv, LandInv, NEW ts, "dialog" \in ts,
         file' = file, \A k \in OwnKeys : picked'[k] = picked[k],
         trouble \subseteq trouble', Interrupted(ts) \subseteq trouble',
         JobsOf("dialog")' = {}
  PROVE  \A k \in OwnKeys : ListLands(k)'
<1>1. CASE saver["dialog"].pc = "idle"
  <2>1. JobsOf("dialog") = {}
    BY <1>1, IdleHasNoJobs, KeyFacts DEF Inv
  <2> QED
    BY <2>1 DEF LandInv, ListLands, ListForgiven
<1>2. CASE saver["dialog"].pc # "idle"
  <2>1. "killed" \in trouble'
    BY <1>2 DEF Interrupted, At
  <2> QED
    BY <2>1 DEF ListLands, ListForgiven
<1> QED
  BY <1>1, <1>2

LEMMA LandClose ==
  ASSUME Inv, LandInv, SciterClose
  PROVE  LandInv'
<1>1. /\ smart' = smart /\ life' = life /\ file' = file /\ trouble \subseteq trouble'
      /\ picked' = picked /\ Interrupted({"dialog"}) \subseteq trouble'
  BY DEF SciterClose
<1>2. saver \in [Threads -> [pc : Pcs, jobs : Seq(Jobs), base : Tables]]
  BY DEF Inv, TypeOK, SaverType
<1>3. JobsOf("dialog")' = {}
  BY <1>2, KeyFacts DEF SciterClose, Idle, JobsOf
<1>4. JobsOf("worker")' = JobsOf("worker") /\ JobsOf("tray")' = JobsOf("tray")
  BY <1>2, KeyFacts DEF SciterClose, JobsOf
<1>5. \A job \in JobsOf("settings")' : Harmless(job)
  <2>1. saver["settings"].pc = "idle"
    BY DEF SciterClose, SettingsFree, Free
  <2>2. \/ saver'["settings"].jobs = SciterSaves(settings.held)
        \/ saver'["settings"] = saver["settings"]
    BY <1>2, KeyFacts DEF SciterClose
  <2>3. JobsOf("settings") = {}
    BY <2>1, IdleHasNoJobs, KeyFacts DEF Inv
  <2> QED
    BY <2>2, <2>3, HarmlessJobs DEF JobsOf
<1>6. KeysInv'
  BY <1>3, <1>4, <1>5, KeyFacts DEF LandInv, KeysInv, Harmless
<1>7. ListInv' /\ MapInv'
  BY <1>1, <1>3, <1>4 DEF LandInv, ListInv, MapInv
<1>8. MapLands'
  <2>1. MapForgiven => MapForgiven'
    BY <1>1 DEF MapForgiven
  <2> QED
    BY <1>1, <1>4, <2>1 DEF LandInv, MapLands, MapInSave
<1>9. \A k \in OwnKeys : ListLands(k)'
  BY <1>1, <1>3, TerminatedLists
<1> QED
  BY <1>6, <1>7, <1>8, <1>9 DEF LandInv

LEMMA DialogFacts ==
  ASSUME NEW kind \in AllKinds
  PROVE  /\ \A i \in DOMAIN Dialog[kind].lists :
              Dialog[kind].lists[i] \subseteq ListKeys \cup {"mirror"}
         /\ Dialog[kind].part \subseteq TypingKeys
<1> USE DEF ListKeys, TypingKeys
<1>1. CASE kind = "macro"
  BY <1>1 DEF Dialog, MacroTable
<1>2. CASE kind = "spell"
  BY <1>2 DEF Dialog, SpellExclusions
<1>3. CASE kind = "keymap"
  BY <1>3 DEF Dialog, UserDefined
<1>4. CASE kind = "excluded"
  BY <1>4 DEF Dialog, ExcludedApps
<1>5. CASE kind = "tsf"
  BY <1>5 DEF Dialog, TsfApps
<1>6. CASE kind = "overrides"
  BY <1>6 DEF Dialog, AppOverrides
<1>7. CASE kind = "hotkeys"
  BY <1>7 DEF Dialog, Hotkeys
<1> QED
  BY <1>1, <1>2, <1>3, <1>4, <1>5, <1>6, <1>7 DEF AllKinds

\* A list dialog saves all of its lists as they are after the edit.
LEMMA LandEditList ==
  ASSUME Inv, LandInv, EditList
  PROVE  LandInv'
<1> USE DEF LandInv
<1> DEFINE own == OwnLists(pane.kind)
           jobs == [i \in DOMAIN Lists |-> Asked(Lists[i], pane'.list)]
<1>1. /\ smart' = smart /\ life' = life /\ file' = file /\ trouble' = trouble
      /\ saver["dialog"].pc = "idle" /\ Start("dialog", jobs)
      /\ Edit(own) /\ pane'.list = Over(pane.list, own, picked')
  BY DEF EditList, Free, Inv, TypeOK, OwnerType
<1>2. own \subseteq Keys /\ "smart" \notin own
  <2>1. pane.kind \in AllKinds
    BY ConstantsOK DEF EditList, Inv, TypeOK, OwnerType
  <2>2. ListKeys \cup {"mirror"} \subseteq Keys /\ "smart" \notin ListKeys \cup {"mirror"}
    BY DEF ListKeys, TypingKeys, Keys
  <2> QED
    BY <2>1, <2>2, DialogFacts DEF OwnLists
<1>3. \A k \in Keys : k \notin own => picked'[k] = picked[k]
  BY <1>1 DEF Edit
<1>4. \A k \in own : pane'.list[k] = picked'[k]
  BY <1>1, <1>2 DEF Over
<1>5. /\ JobsOf("dialog") = {} /\ JobsOf("dialog")' = {jobs[i] : i \in DOMAIN Lists}
      /\ \A u \in Threads \ {"dialog"} : JobsOf(u)' = JobsOf(u)
  BY <1>1, IdleHasNoJobs, StartHasJobs, KeyFacts DEF Inv
<1>6. ASSUME NEW i \in DOMAIN Lists
      PROVE  /\ Lists[i] \subseteq own /\ jobs[i].keys = Lists[i]
             /\ \A k \in Lists[i] : jobs[i].table[k] = picked'[k]
  <2>1. Lists[i] \subseteq own
    BY DEF OwnLists, Lists
  <2>2. jobs[i].keys = Lists[i] /\ jobs[i].table = Only(Lists[i], pane'.list)
    BY DEF Asked
  <2> QED
    BY <1>2, <1>4, <2>1, <2>2 DEF Only
<1>7. KeysInv'
  BY <1>2, <1>5, <1>6, KeyFacts DEF KeysInv
<1>8. ListInv'
  BY <1>5, <1>6 DEF ListInv
<1>9. MapInv' /\ MapLands'
  <2>1. picked'["smart"] = picked["smart"]
    BY <1>2, <1>3, KeyFacts
  <2>2. JobsOf("worker")' = JobsOf("worker") /\ JobsOf("tray")' = JobsOf("tray")
    BY <1>5, KeyFacts
  <2> QED
    BY <1>1, <2>1, <2>2 DEF MapInv, MapLands, MapInSave, MapForgiven
<1>10. ASSUME NEW k \in OwnKeys
       PROVE  ListLands(k)'
  <2>1. CASE k \in own
    <3>1. PICK i \in DOMAIN Lists : k \in Lists[i]
      BY <2>1 DEF OwnLists, Lists
    <3>2. jobs[i] \in JobsOf("dialog")' /\ k \in jobs[i].keys /\ jobs[i].table[k] = picked'[k]
      BY <1>5, <1>6, <3>1
    <3> QED
      BY <3>2 DEF ListLands
  <2>2. CASE k \notin own
    BY <1>1, <1>3, <1>5, <2>2, KeyFacts DEF ListLands, ListForgiven
  <2> QED
    BY <2>1, <2>2
<1> QED
  BY <1>7, <1>8, <1>9, <1>10

LEMMA LandDialog ==
  ASSUME Inv, LandInv, DialogStep
  PROVE  LandInv'
<1>1. CASE EditList
  BY <1>1, LandEditList
<1>2. CASE EditPart
  <2> DEFINE job == Asked(TypingKeys, Over(Load("dialog"), Part, picked'))
  <2>1. /\ smart' = smart /\ life' = life /\ file' = file /\ trouble' = trouble
        /\ saver["dialog"].pc = "idle" /\ Start("dialog", <<job>>) /\ Edit(Part)
    BY <1>2 DEF EditPart, Free
  <2>2. Harmless(job)
    BY HarmlessJobs
  <2>3. \A i \in DOMAIN <<job>> : Harmless(<<job>>[i])
    BY <2>2, OneHarmless
  <2>4. Part \cap (OwnKeys \cup {"smart"}) = {}
    <3>1. pane.kind \in AllKinds
      BY <1>2, ConstantsOK DEF EditPart, Inv, TypeOK, OwnerType
    <3>2. TypingKeys \cap (OwnKeys \cup {"smart"}) = {}
      BY DEF TypingKeys, OwnKeys, ListKeys
    <3> QED
      BY <3>1, <3>2, DialogFacts DEF Part
  <2>5. \A k \in OwnKeys \cup {"smart"} : picked'[k] = picked[k]
    BY <2>1, <2>4, EditOthers
  <2> QED
    BY <2>1, <2>3, <2>5, LandStart, KeyFacts
<1>3. CASE CloseDialog \/ \E kind \in Kinds : OpenDialog(kind)
  <2>1. /\ smart' = smart /\ life' = life /\ file' = file /\ trouble' = trouble
        /\ picked' = picked /\ saver' = saver
    BY <1>3 DEF CloseDialog, OpenDialog
  <2> QED
    BY <2>1, LandStutter
<1> QED
  BY <1>1, <1>2, <1>3 DEF DialogStep

LEMMA LandTray ==
  ASSUME Inv, LandInv, TrayEdit
  PROVE  LandInv'
<1> DEFINE job == Asked(TypingKeys, Over(Load("tray"), {"method"}, picked'))
<1>1. /\ smart' = smart /\ life' = life /\ file' = file /\ trouble' = trouble
      /\ saver["tray"].pc = "idle" /\ Start("tray", <<job>>) /\ Edit({"method"})
  BY DEF TrayEdit, Free
<1>2. Harmless(job)
  BY HarmlessJobs
<1>3. \A i \in DOMAIN <<job>> : Harmless(<<job>>[i])
  BY <1>2, OneHarmless
<1>4. {"method"} \cap (OwnKeys \cup {"smart"}) = {}
  BY DEF OwnKeys, ListKeys
<1>5. \A k \in OwnKeys \cup {"smart"} : picked'[k] = picked[k]
  BY <1>1, <1>4, EditOthers
<1> QED
  BY <1>1, <1>3, <1>5, LandStart, KeyFacts

\* Publishing marks the map after the snapshot, and the worker clears the mark
\* before it takes one.
LEMMA LandMap ==
  ASSUME Inv, LandInv, MapStep
  PROVE  LandInv'
<1> USE DEF LandInv
<1>1. /\ life' = life /\ file' = file /\ trouble' = trouble
      /\ smart \in [snap : Values, late : BOOLEAN, dirty : BOOLEAN, flushing : BOOLEAN]
  BY DEF MapStep, PublishMode, MarkDirty, ClearDirty, FlushMap, Inv, TypeOK, OwnerType
<1>2. CASE PublishMode
  <2>1. /\ life # "flushing" /\ smart'.snap = Edited /\ smart'.late
        /\ Edit({"smart"}) /\ saver' = saver
    BY <1>1, <1>2 DEF PublishMode, Working
  <2>2. picked'["smart"] = Edited /\ \A k \in OwnKeys : picked'[k] = picked[k]
    BY <2>1, KeyFacts DEF Edit
  <2>3. \A t \in Threads : JobsOf(t)' = JobsOf(t)
    BY <2>1 DEF JobsOf
  <2>4. KeysInv' /\ ListInv'
    BY <2>2, <2>3, KeyFacts DEF KeysInv, ListInv
  <2>5. MapInv'
    BY <1>1, <2>1, <2>2, <2>3, KeyFacts DEF MapInv
  <2>6. MapLands'
    BY <1>1, <2>1 DEF MapLands
  <2>7. \A k \in OwnKeys : ListLands(k)'
    BY <1>1, <2>2, <2>3, KeyFacts DEF ListLands, ListForgiven
  <2> QED
    BY <2>4, <2>5, <2>6, <2>7
<1>3. CASE MarkDirty \/ ClearDirty
  <2>1. /\ life # "flushing" /\ smart'.snap = smart.snap /\ picked' = picked
        /\ saver' = saver /\ (smart.late \/ smart.dirty)
        /\ smart'.dirty \/ smart'.flushing
        /\ smart'.late => smart.late
        /\ smart.late => smart'.late \/ smart'.dirty
    BY <1>1, <1>3 DEF MarkDirty, ClearDirty, Working, MapInv
  <2>2. \A t \in Threads : JobsOf(t)' = JobsOf(t)
    BY <2>1 DEF JobsOf
  <2>3. smart.dirty /\ ~smart'.dirty => JobsOf("worker") = {}
    BY <1>1, <1>3, IdleHasNoJobs, KeyFacts DEF MarkDirty, ClearDirty, Free, Inv
  <2>4. KeysInv' /\ ListInv'
    BY <2>1, <2>2, KeyFacts DEF KeysInv, ListInv
  <2>5. MapInv'
    BY <1>1, <2>1, <2>2, <2>3, KeyFacts DEF MapInv
  <2>6. MapLands'
    BY <1>1, <2>1 DEF MapLands
  <2>7. \A k \in OwnKeys : ListLands(k)'
    BY <1>1, <2>1, <2>2, KeyFacts DEF ListLands, ListForgiven
  <2> QED
    BY <2>4, <2>5, <2>6, <2>7
<1>4. CASE FlushMap
  <2> DEFINE job == Asked({"smart"}, [Blank EXCEPT !["smart"] = smart.snap])
  <2>1. /\ life # "flushing" /\ saver["worker"].pc = "idle" /\ smart.flushing
        /\ Start("worker", <<job>>) /\ picked' = picked
        /\ smart'.snap = smart.snap /\ smart'.late = smart.late
        /\ smart'.dirty = smart.dirty /\ ~smart'.flushing
    BY <1>1, <1>4 DEF FlushMap, Inv, WorkerInv
  <2>2. smart.snap = picked["smart"]
    BY <2>1 DEF MapInv
  <2>3. job.keys = {"smart"} /\ job.table["smart"] = picked["smart"]
    BY <2>2, KeyFacts DEF Asked, Only, Blank
  <2> HIDE DEF job
  <2>4. /\ JobsOf("worker") = {} /\ JobsOf("worker")' = {job}
        /\ \A u \in Threads \ {"worker"} : JobsOf(u)' = JobsOf(u)
    BY <2>1, IdleHasNoJobs, StartHasJobs, OneJob, KeyFacts DEF Inv
  <2>5. KeysInv' /\ ListInv'
    BY <2>1, <2>3, <2>4, KeyFacts DEF KeysInv, ListInv
  <2>6. MapInv'
    BY <1>1, <2>1, <2>2, <2>3, <2>4, KeyFacts DEF MapInv
  <2>7. MapLands'
    BY <1>1, <2>1, <2>3, <2>4 DEF MapLands, MapInSave
  <2>8. \A k \in OwnKeys : ListLands(k)'
    BY <1>1, <2>1, <2>4, KeyFacts DEF ListLands, ListForgiven
  <2> QED
    BY <2>5, <2>6, <2>7, <2>8
<1> QED
  BY <1>2, <1>3, <1>4 DEF MapStep

LEMMA LandExit ==
  ASSUME Inv, LandInv, ExitStep
  PROVE  LandInv'
<1> USE DEF LandInv
<1>1. /\ file' = file /\ picked' = picked /\ trouble \subseteq trouble'
      /\ saver \in [Threads -> [pc : Pcs, jobs : Seq(Jobs), base : Tables]]
  BY DEF ExitStep, SciterLeave, ClassicLeave, FlushOnStop, Restart, Trouble, owners,
     Inv, TypeOK, SaverType
<1>2. MapForgiven => MapForgiven'
  BY <1>1 DEF MapForgiven
<1>3. CASE SciterLeave
  <2> DEFINE job == Asked({"system"}, Load("tray"))
  <2>1. /\ smart' = smart /\ life = "on" /\ life' = "leaving" /\ "exit" \in trouble'
        /\ Interrupted({"settings", "dialog"}) \subseteq trouble'
        /\ saver["tray"].pc = "idle" /\ saver'["tray"].jobs = <<job>>
        /\ saver'["worker"] = saver["worker"]
        /\ saver'["settings"].jobs = <<>> /\ saver'["dialog"].jobs = <<>>
    BY <1>3, KeyFacts DEF SciterLeave, Free, Idle
  <2>2. Harmless(job)
    BY HarmlessJobs
  <2> HIDE DEF job
  <2>3. /\ JobsOf("settings")' = {} /\ JobsOf("dialog")' = {}
        /\ JobsOf("worker")' = JobsOf("worker") /\ JobsOf("tray")' = {job}
    BY <2>1, OneJob DEF JobsOf
  <2>4. KeysInv' /\ ListInv'
    BY <2>2, <2>3, KeyFacts DEF KeysInv, ListInv, Harmless
  <2>5. MapInv'
    BY <1>1, <2>1, <2>2, <2>3 DEF MapInv, Harmless
  <2>6. MapLands'
    BY <2>1 DEF MapLands
  <2>7. \A k \in OwnKeys : ListLands(k)'
    BY <1>1, <2>1, <2>3, TerminatedLists
  <2> QED
    BY <2>4, <2>5, <2>6, <2>7
<1>4. CASE ClassicLeave
  <2> DEFINE job == Asked({"system"}, Load("tray"))
  <2>1. /\ smart' = smart /\ life = "on" /\ life' = "leaving" /\ "exit" \in trouble'
        /\ saver["tray"].pc = "idle" /\ Start("tray", <<job>>)
    BY <1>4 DEF ClassicLeave, Free, Trouble
  <2>2. Harmless(job)
    BY HarmlessJobs
  <2> HIDE DEF job
  <2>3. /\ JobsOf("tray")' = {job}
        /\ \A u \in Threads \ {"tray"} : JobsOf(u)' = JobsOf(u)
    BY <2>1, StartHasJobs, OneJob, KeyFacts DEF Inv
  <2>4. KeysInv' /\ ListInv'
    BY <1>1, <2>2, <2>3, KeyFacts DEF KeysInv, ListInv, Harmless
  <2>5. MapInv'
    BY <1>1, <2>1, <2>2, <2>3, KeyFacts DEF MapInv, Harmless
  <2>6. MapLands'
    BY <2>1 DEF MapLands
  <2>7. \A k \in OwnKeys : ListLands(k)'
    BY <1>1, <2>3, KeyFacts DEF ListLands, ListForgiven
  <2> QED
    BY <2>4, <2>5, <2>6, <2>7
<1>5. CASE FlushOnStop
  <2> DEFINE job == Asked({"smart"}, picked)
  <2>1. /\ smart' = smart /\ life = "leaving" /\ life' = "flushing"
        /\ trouble' = trouble /\ ~smart.late
        /\ saver["tray"].pc = "idle" /\ Start("tray", <<job>>)
    BY <1>5 DEF FlushOnStop, Free, owners
  <2>2. job.keys = {"smart"} /\ job.table["smart"] = picked["smart"]
    BY KeyFacts DEF Asked, Only
  <2> HIDE DEF job
  <2>3. /\ JobsOf("tray")' = {job}
        /\ \A u \in Threads \ {"tray"} : JobsOf(u)' = JobsOf(u)
    BY <2>1, StartHasJobs, OneJob, KeyFacts DEF Inv
  <2>4. KeysInv' /\ ListInv'
    BY <1>1, <2>2, <2>3, KeyFacts DEF KeysInv, ListInv
  <2>5. MapInv'
    BY <1>1, <2>1, <2>2, <2>3, KeyFacts DEF MapInv
  <2>6. MapLands'
    BY <1>1, <2>2, <2>3 DEF MapLands, MapInSave
  <2>7. \A k \in OwnKeys : ListLands(k)'
    BY <1>1, <2>3, KeyFacts DEF ListLands, ListForgiven
  <2> QED
    BY <2>4, <2>5, <2>6, <2>7
<1>6. CASE Restart
  <2>1. /\ life = "flushing" /\ life' = "on" /\ saver["tray"].pc = "idle"
        /\ Interrupted({"settings", "dialog"}) \subseteq trouble'
        /\ ~smart'.late /\ ~smart'.dirty /\ ~smart'.flushing
        /\ \A t \in Threads : saver'[t].jobs = <<>>
    BY <1>6 DEF Restart, Free, Idle
  <2>2. \A t \in Threads : JobsOf(t)' = {}
    BY <2>1 DEF JobsOf
  <2>3. JobsOf("tray") = {}
    BY <2>1, IdleHasNoJobs, KeyFacts DEF Inv
  <2>4. KeysInv' /\ ListInv' /\ MapInv'
    BY <2>1, <2>2, KeyFacts DEF KeysInv, ListInv, MapInv
  <2>5. picked["smart"] = file.table["smart"] \/ MapForgiven
    BY <2>1, <2>3 DEF MapLands, MapInSave
  <2>6. MapLands'
    BY <1>1, <1>2, <2>5 DEF MapLands
  <2>7. \A k \in OwnKeys : ListLands(k)'
    BY <1>1, <2>1, <2>2, KeyFacts, TerminatedLists
  <2> QED
    BY <2>4, <2>6, <2>7
<1> QED
  BY <1>3, <1>4, <1>5, <1>6 DEF ExitStep

LEMMA LandStep == Inv /\ LandInv /\ [Next]_vars => LandInv'
<1> SUFFICES ASSUME Inv, LandInv, [Next]_vars PROVE LandInv'
  OBVIOUS
<1>1. CASE LoadStep
  BY <1>1, LandLoad
<1>2. CASE SettingsStep
  BY <1>2, LandSettings, LandClose
<1>3. CASE DialogStep
  BY <1>3, LandDialog
<1>4. CASE TrayEdit
  BY <1>4, LandTray
<1>5. CASE MapStep
  BY <1>5, LandMap
<1>6. CASE ExitStep
  BY <1>6, LandExit
<1>7. ASSUME NEW t \in Threads, SaveStep(t) PROVE LandInv'
  BY <1>7, LandSave
<1>8. CASE UNCHANGED vars
  BY <1>8, LandStutter DEF vars
<1> QED
  BY <1>1, <1>2, <1>3, <1>4, <1>5, <1>6, <1>7, <1>8 DEF Next

LEMMA LandImplies == LandInv => PickedLands
<1> SUFFICES ASSUME LandInv PROVE SmartKept /\ ListsLand
  BY DEF PickedLands
<1>1. SmartKept
  BY DEF LandInv, MapLands, MapInSave, MapForgiven, SmartKept, JobsOf
<1>2. ListsLand
  BY DEF LandInv, OwnKeys, ListLands, ListForgiven, ListsLand, JobsOf
<1> QED
  BY <1>1, <1>2

\* What was picked is in the file or on its way there: the mode the hook
\* thread published, which the worker's tick (HookEngine::OnTickPoll) or the
\* last act of HookEngine::Stop flushes, and the lists the sub-dialogs save,
\* whoever else saves, loads, fails, exits or is terminated in between.
THEOREM PickedAlwaysLands == Spec => []PickedLands
<1>1. Init => Inv /\ LandInv
  BY InvInit, LandInit
<1>2. (Inv /\ LandInv) /\ [Next]_vars => (Inv /\ LandInv)'
  BY InvStep, LandStep
<1>3. Inv /\ LandInv => PickedLands
  BY LandImplies
<1> QED
  BY <1>1, <1>2, <1>3, PTL DEF Spec

-----------------------------------------------------------------------------
(* The clipboard.                                                           *)

Events == {"word", "copy", "paste", "left"}

\* What has to be known of the state's shape: the numbers are numbers, nobody
\* has one from the future, and a run has all its fields.
ShapeInv ==
  /\ seq \in Nat \ {0} /\ ourSeq \in 0 .. seq
  /\ DOMAIN q = DOMAIN NoRun /\ q.ourSeq \in 0 .. seq
  /\ input \in Seq(Events)

(***************************************************************************)
(* Restores                                                                *)
(***************************************************************************)

\* The injector's number is that of a session of the program's, or another
\* program copied where the injector could not tell.
StampInv ==
  (seq = ourSeq \/ ipc = "stamp") => ~theirs \/ Slipped({"gap"})

\* What a restore of the conversion would overwrite.
NothingToLose ==
  ~theirs \/ Slipped({"gap"}) \/ clip = q.saved \/ q.saved = NoText

\* From the first number to the last nothing can be lost unnoticed, nor
\* between the comparison and the restore.
SavedInv ==
  /\ qpc \in {"idle", "save", "number"} => q.ourSeq = 0
  /\ seq = q.ourSeq => NothingToLose
  /\ qpc \in {"number", "empty", "emptied", "copy", "wait", "read", "restore"}
       => NothingToLose
  /\ qpc = "restore" => q.saved # NoText

(***************************************************************************)
(* Words                                                                   *)
(***************************************************************************)
WordSafe == clip = Word \/ theirs \/ Slipped({"unwritten", "overlap"})

\* While a word is out no conversion runs, or the two overlap.
WordInv ==
  /\ InInput("word") => ipc = "settle"
  /\ ipc \in {"stamp", "send", "settle"} => WordSafe
  /\ ipc \in {"save", "write", "stamp", "send", "settle"} =>
       \/ Slipped({"overlap"})
       \/ qpc = "idle" /\ \A i \in DOMAIN input : input[i] = "word"

IInv == ShapeInv /\ StampInv /\ SavedInv /\ WordInv

(***************************************************************************)
(* The invariant                                                           *)
(***************************************************************************)
\* At first there is no word out and no number kept.
LEMMA IInvInit == ClipboardInit => IInv
<1> SUFFICES ASSUME ClipboardInit PROVE IInv
  OBVIOUS
<1> QED
  BY DEF ClipboardInit, IInv, ShapeInv, StampInv, SavedInv, NothingToLose, WordInv,
         WordSafe, NoRun, InInput, Events

\* The injector.
LEMMA HookKeeps == IInv /\ Hook => IInv'
<1> SUFFICES ASSUME IInv, Hook PROVE IInv'
  OBVIOUS
<1> USE DEF IInv, ShapeInv, StampInv, SavedInv, NothingToLose, WordInv,
            WordSafe, Slipped, InInput, Events, Mishap, Slip, Put,
            hook, convert, app, judge, ConvertQuiet, EndRun, NoRun,
            NextAttempt, Elsewhere, Quiescent, InGap
<1>1. CASE StartReplace
  BY <1>1 DEF StartReplace
<1>2. CASE SaveOriginal
  BY <1>2 DEF SaveOriginal
<1>3. CASE WriteWord
  <2>1. CASE Put(Word, FALSE) /\ ipc' = "stamp" /\ UNCHANGED <<slips, n>>
    BY <1>3, <2>1 DEF WriteWord
  <2>2. CASE /\ Mishap /\ Slip({"unwritten"}) /\ ipc' = "send"
             /\ UNCHANGED <<clip, seq, theirs>>
    BY <1>3, <2>2 DEF WriteWord
  <2> QED
    BY <1>3, <2>1, <2>2 DEF WriteWord
<1>4. CASE Stamp
  BY <1>4 DEF Stamp
<1>5. CASE SendPaste
  BY <1>5 DEF SendPaste
<1>6. CASE Settle
  BY <1>6 DEF Settle
<1>7. CASE RestoreTimer
  BY <1>7 DEF RestoreTimer
<1>8. CASE RestoreOriginal
  BY <1>8 DEF RestoreOriginal
<1> QED
  BY <1>1, <1>2, <1>3, <1>4, <1>5, <1>6, <1>7, <1>8 DEF Hook

\* The conversion.
LEMMA ConvertKeeps == IInv /\ Convert => IInv'
<1> SUFFICES ASSUME IInv, Convert PROVE IInv'
  OBVIOUS
<1> USE DEF IInv, ShapeInv, StampInv, SavedInv, NothingToLose, WordInv,
            WordSafe, Slipped, InInput, Events, Mishap, Slip, Put,
            hook, convert, app, judge, ConvertQuiet, EndRun, NoRun,
            NextAttempt, Elsewhere, Quiescent, InGap
<1>1. CASE Press
  BY <1>1 DEF Press
<1>2. CASE SaveClipboard
  BY <1>2 DEF SaveClipboard, TextOf, IsText, Empty, Picture
<1>3. CASE NumberClipboard
  BY <1>3 DEF NumberClipboard
<1>4. CASE EmptyForCopy
  BY <1>4 DEF EmptyForCopy
<1>5. CASE NumberEmpty
  BY <1>5 DEF NumberEmpty
<1>6. CASE SimulateCopy
  BY <1>6 DEF SimulateCopy
<1>7. CASE ReadCopy
  BY <1>7 DEF ReadCopy
<1>8. CASE CopyTimesOut
  BY <1>8 DEF CopyTimesOut
<1>9. CASE NumberCopy
  BY <1>9 DEF NumberCopy
<1>10. CASE Decide
  <2>1. /\ DOMAIN q' = DOMAIN q /\ q'.ourSeq = q.ourSeq /\ q'.saved = q.saved
        /\ UNCHANGED <<seq, clip, theirs, slips, ourSeq, ipc>>
        /\ qpc = "decide" /\ qpc' \in {"cycle", "bail"}
    BY <1>10 DEF Decide
  <2>2. input' = input \/ input' = Append(input, "left")
    BY <1>10 DEF Decide
  <2>3. input' \in Seq(Events) /\ (InInput("word")' => InInput("word"))
    BY <2>2
  <2> QED
    BY <2>1, <2>3
<1>11. CASE EnterCycle
  BY <1>11 DEF EnterCycle
<1>12. CASE Result
  BY <1>12 DEF Result
<1>13. CASE Compare
  BY <1>13 DEF Compare
<1>14. CASE WriteResult
  BY <1>14 DEF WriteResult
<1>15. CASE SimulatePaste
  BY <1>15 DEF SimulatePaste
<1>16. CASE Reselect
  <2>1. /\ qpc = "pasted" /\ qpc' = "idle" /\ q' = NoRun
        /\ input' \in {input, Append(input, "left")}
        /\ UNCHANGED <<clip, seq, ipc, saved, hasSaved, timer, ourSeq, owner, theirs, slips>>
    BY <1>16 DEF Reselect
  <2> QED
    BY <2>1, SMTT(30)
<1>17. CASE Bail
  BY <1>17 DEF Bail
<1>18. CASE RestoreSaved
  BY <1>18 DEF RestoreSaved
<1> QED
  BY <1>1, <1>2, <1>3, <1>4, <1>5, <1>6, <1>7, <1>8, <1>9,
     <1>10, <1>11, <1>12, <1>13, <1>14, <1>15, <1>16, <1>17, <1>18 DEF Convert

\* The application, the user and the others.
LEMMA AroundKeeps == IInv /\ Around => IInv'
<1> SUFFICES ASSUME IInv, Around PROVE IInv'
  OBVIOUS
<1> USE DEF IInv, ShapeInv, StampInv, SavedInv, NothingToLose, WordInv,
            WordSafe, Slipped, InInput, Events, Mishap, Slip, Put,
            hook, convert, app, judge, ConvertQuiet, EndRun, NoRun,
            NextAttempt, Elsewhere, Quiescent, InGap
<1>1. CASE HandleCopy
  BY <1>1 DEF HandleCopy
<1>2. CASE HandlePaste
  BY <1>2 DEF HandlePaste
<1>3. CASE HandleWord
  BY <1>3 DEF HandleWord
<1>4. CASE HandleLeft
  BY <1>4 DEF HandleLeft
<1>5. ASSUME NEW p \in Pieces, SelectPiece(p) PROVE IInv'
  BY <1>5 DEF SelectPiece
<1>6. ASSUME NEW p \in Pieces, ClickAway(p) PROVE IInv'
  BY <1>6 DEF ClickAway
<1>7. CASE Collapse
  BY <1>7 DEF Collapse
<1>8. CASE Expire
  BY <1>8 DEF Expire
<1>9. ASSUME NEW c \in {Plain("copied"), Picture}, OtherCopies(c) PROVE IInv'
  BY <1>9 DEF OtherCopies
<1>10. ASSUME NEW c \in Configs, UpdateConfig(c) PROVE IInv'
  BY <1>10 DEF UpdateConfig
<1> QED
  BY <1>1, <1>2, <1>3, <1>4, <1>5, <1>6, <1>7, <1>8, <1>9, <1>10 DEF Around

\* Every step of anybody keeps it.
LEMMA IInvNext == IInv /\ [ClipboardNext]_clipboardVars => IInv'
<1> SUFFICES ASSUME IInv, [ClipboardNext]_clipboardVars PROVE IInv'
  OBVIOUS
<1>1. CASE UNCHANGED clipboardVars
  BY <1>1 DEF clipboardVars, hook, convert, app, judge, IInv, ShapeInv, StampInv,
              SavedInv, NothingToLose, WordInv, WordSafe, Slipped, InInput
<1> QED
  BY <1>1, HookKeeps, ConvertKeeps, AroundKeeps DEF ClipboardNext

\* It holds of every run, whatever the user and the other programs do.
THEOREM Invariance == ClipboardSpec => []IInv
BY IInvInit, IInvNext, PTL DEF ClipboardSpec

(***************************************************************************)
(* The promise                                                             *)
(***************************************************************************)
Spared ==
  (\/ ipc = "restore" /\ ipc' = "idle"
   \/ qpc = "restore" /\ qpc' = "idle") /\ clip' # clip
  => ~theirs \/ Slipped({"gap"})

Pasted ==
  input # << >> /\ Head(input) = "word" /\ input' = Tail(input)
  => clip = Word \/ theirs \/ Slipped({"unwritten", "overlap"})

\* Only the two restores end a restore: one has compared the number in the
\* session that writes, the other before it.
LEMMA SparedNext == IInv /\ [ClipboardNext]_clipboardVars => Spared
<1> SUFFICES ASSUME IInv, [ClipboardNext]_clipboardVars, clip' # clip PROVE Spared
  BY DEF Spared
<1>1. CASE Hook
  <2>1. ~(qpc = "restore" /\ qpc' = "idle")
    BY <1>1 DEF Hook, StartReplace, SaveOriginal, WriteWord, Stamp, SendPaste,
                Settle, RestoreTimer, RestoreOriginal, convert
  <2>2. ipc = "restore" => RestoreOriginal
    BY <1>1 DEF Hook, StartReplace, SaveOriginal, WriteWord, Stamp, SendPaste,
                Settle, RestoreTimer
  <2>3. ipc = "restore" => seq = ourSeq
    BY <2>2 DEF RestoreOriginal
  <2> QED
    BY <2>1, <2>3 DEF Spared, IInv, StampInv
<1>2. CASE Convert
  <2>1. UNCHANGED ipc
    BY <1>2 DEF Convert, Press, SaveClipboard, NumberClipboard, EmptyForCopy,
         NumberEmpty, SimulateCopy, ReadCopy, CopyTimesOut, NumberCopy, Decide,
         EnterCycle, Result, Compare, WriteResult, SimulatePaste, Reselect,
         Bail, RestoreSaved, ConvertQuiet, hook
  <2>2. qpc = "restore" => RestoreSaved
    BY <1>2 DEF Convert, Press, SaveClipboard, NumberClipboard, EmptyForCopy,
         NumberEmpty, SimulateCopy, ReadCopy, CopyTimesOut, NumberCopy, Decide,
         EnterCycle, Result, Compare, WriteResult, SimulatePaste, Reselect, Bail
  <2>3. qpc = "restore" => ~theirs \/ Slipped({"gap"})
    <3> SUFFICES ASSUME qpc = "restore" PROVE ~theirs \/ Slipped({"gap"})
      OBVIOUS
    <3>1. clip' = q.saved
      BY <2>2 DEF RestoreSaved, Put
    <3> QED
      BY <3>1 DEF IInv, SavedInv, NothingToLose
  <2> QED
    BY <2>1, <2>3 DEF Spared
<1>3. CASE Around
  <2>1. UNCHANGED <<ipc, qpc>>
    BY <1>3 DEF Around, HandleCopy, HandlePaste, HandleWord, HandleLeft,
         SelectPiece, ClickAway, Collapse, Expire, OtherCopies, UpdateConfig,
         Elsewhere, hook, convert
  <2> QED
    BY <2>1 DEF Spared
<1> QED
  BY <1>1, <1>2, <1>3 DEF ClipboardNext, clipboardVars

\* A word at the head of the input is in the input.
LEMMA PastedNext == IInv => Pasted
<1> SUFFICES ASSUME IInv, input # << >>, Head(input) = "word"
             PROVE  clip = Word \/ theirs \/ Slipped({"unwritten", "overlap"})
  BY DEF Pasted
<1>1. InInput("word")
  BY DEF InInput, IInv, ShapeInv
<1> QED
  BY <1>1 DEF IInv, WordInv, WordSafe

\* The injector and a conversion share the clipboard with each other, the user
\* and all other programs: no restore overwrites a copy of theirs that the
\* program could have seen (restoreSavedClipboardIfSafe and RestoreOriginal
\* compare the sequence number), and a Ctrl+V of the injector pastes its word.
THEOREM ClipboardAlwaysShared == ClipboardSpec => ClipboardShared
<1>1. IInv /\ [ClipboardNext]_clipboardVars => [Spared]_clipboardVars
  BY SparedNext
<1>2. IInv /\ [ClipboardNext]_clipboardVars => [Pasted]_clipboardVars
  BY PastedNext
<1>3. ClipboardSpec => [][Spared]_clipboardVars
  BY <1>1, Invariance, PTL DEF ClipboardSpec
<1>4. ClipboardSpec => [][Pasted]_clipboardVars
  BY <1>2, Invariance, PTL DEF ClipboardSpec
<1> QED
  BY <1>3, <1>4 DEF ClipboardShared, RestoreSparesCopies, WordPasted, Spared, Pasted

(***************************************************************************)
(* The copy survives                                                       *)
(***************************************************************************)

\* The document holds texts, and what is selected has characters.
DocInv ==
  /\ DOMAIN doc = Spots /\ \A p \in Spots : IsText(doc[p])
  /\ sel \in Spots \cup {NoPiece} /\ caret \in Spots \cup {NoPiece}
  /\ sel # NoPiece => doc[sel] # NoText

\* Two contents a user does not tell apart, and what a saved text is kept for:
\* a string of no characters is saved of both.
Nothing == {NoText, Empty}
Same(c, d) == c = d \/ {c, d} \subseteq Nothing
Kept(t, c) == IF t = NoText THEN c \in Nothing ELSE c = t

Safe == ~Slipped({"busy", "picture", "gap", "overlap", "empty"})

\* A conversion begins with nothing pending, has one key of its own in the input
\* at most, and has the injector idle; until its Ctrl+C is handled the clipboard
\* is empty.
Alone ==
  /\ qpc = "idle" => input \in Seq({"word", "left"})
  /\ qpc # "idle" =>
       /\ ipc = "idle" /\ ~timer
       /\ \/ input = << >>
          \/ input = <<"copy">> /\ qpc = "wait"
          \/ input = <<"left">> /\ qpc = "cycle" /\ q.recovery
          \/ input = <<"paste">> /\ qpc = "pasted"
  /\ qpc \in {"emptied", "copy"} => clip = Empty
  /\ qpc = "wait" /\ input = <<"copy">> => clip = Empty

AloneInv == ~Slipped({"busy", "gap", "overlap"}) => Alone

\* While a word is out the injector has what the user copied last, or the
\* number shows that it is on the clipboard.
InjectorKeeps ==
  /\ ipc = "idle" /\ ~timer => ~hasSaved
  /\ seq = ourSeq => hasSaved
  /\ hasSaved /\ seq = ourSeq => Kept(saved, owner)
  /\ ipc \in {"write", "stamp"} => hasSaved /\ Kept(saved, owner)
  /\ ipc = "send" => hasSaved
  /\ qpc = "idle" /\ ipc # "stamp" /\ seq # ourSeq => Same(clip, owner)

\* So has a conversion, from the first step to the last.
ConversionKeeps ==
  /\ qpc \in {"save", "number", "paste", "pasted"} => Same(clip, owner)
  /\ qpc \in {"number", "empty", "emptied", "copy", "wait", "read", "restore"}
       => Kept(q.saved, owner)
  /\ qpc = "copy" => seq = q.ourSeq
  /\ qpc = "wait" => \/ IsText(clip) /\ clip # NoText
                     \/ clip = Empty /\ seq = q.ourSeq
  /\ qpc \in {"decide", "cycle", "result", "compare", "bail", "write", "keep"}
       => IF seq = q.ourSeq THEN Kept(q.saved, owner) ELSE Same(clip, owner)
  /\ qpc = "restore" => q.saved # NoText

CopyInv == Safe => InjectorKeeps /\ ConversionKeeps


\* What the contents without text are, and what is a text.
LEMMA Contents ==
  /\ NoText # Empty /\ NoText # Picture /\ Empty # Picture
  /\ Word # NoText /\ IsText(Word) /\ IsText(NoText) /\ ~IsText(Empty) /\ ~IsText(Picture)
  /\ \A p \in Pieces : IsText(Plain(p)) /\ Plain(p) # NoText
<1>1. /\ NoText # Empty /\ NoText # Picture /\ Empty # Picture
      /\ Word # NoText /\ Word # Empty /\ Word # Picture
  BY DEF NoText, Empty, Picture, Word, Plain
<1>2. ASSUME NEW p \in Pieces
      PROVE  Plain(p) # NoText /\ Plain(p) # Empty /\ Plain(p) # Picture
  <2>1. p # "blank" /\ p # "empty" /\ p # "picture"
    BY ClipboardAssumption DEF ClipboardAssumption
  <2> QED
    BY <2>1 DEF Plain, NoText, Empty, Picture
<1> QED
  BY <1>1, <1>2 DEF IsText

\* A place of the document is none of the markers.
LEMMA Places == New \in Spots /\ New \notin Pieces /\ NoPiece \notin Spots
BY ClipboardAssumption DEF ClipboardAssumption, Spots, New, NoPiece

\* A text that is saved and given back is the same to the user.
LEMMA SaveAndGiveBack ==
  ASSUME NEW c, NEW o, NEW t
  PROVE  /\ Same(c, o) /\ c # Picture => Kept(TextOf(c), o)
         /\ Kept(t, o) => Same(IF t = NoText THEN Empty ELSE t, o)
         /\ Kept(t, o) /\ t # NoText => t = o
         /\ Kept(t, o) /\ t = NoText /\ c \in Nothing => Same(c, o)
         /\ Same(o, o)
BY Contents DEF Same, Kept, Nothing, TextOf, IsText

\* What has slipped stays so.
LEMMA SlipsGrow == [ClipboardNext]_clipboardVars => slips \subseteq slips'
<1> SUFFICES ASSUME ClipboardNext PROVE slips \subseteq slips'
  BY DEF clipboardVars, judge
<1> USE DEF hook, convert, app, judge, ConvertQuiet, EndRun, Elsewhere, Mishap, Slip,
     Put, OtherCopies, NextAttempt
<1>1. CASE StartReplace
  BY <1>1 DEF StartReplace
<1>2. CASE SaveOriginal
  BY <1>2 DEF SaveOriginal
<1>3. CASE WriteWord
  BY <1>3 DEF WriteWord
<1>4. CASE Stamp
  BY <1>4 DEF Stamp
<1>5. CASE SendPaste
  BY <1>5 DEF SendPaste
<1>6. CASE Settle
  BY <1>6 DEF Settle
<1>7. CASE RestoreTimer
  BY <1>7 DEF RestoreTimer
<1>8. CASE RestoreOriginal
  BY <1>8 DEF RestoreOriginal
<1>9. CASE Press
  BY <1>9 DEF Press
<1>10. CASE SaveClipboard
  BY <1>10 DEF SaveClipboard
<1>11. CASE NumberClipboard
  BY <1>11 DEF NumberClipboard
<1>12. CASE EmptyForCopy
  BY <1>12 DEF EmptyForCopy
<1>13. CASE NumberEmpty
  BY <1>13 DEF NumberEmpty
<1>14. CASE SimulateCopy
  BY <1>14 DEF SimulateCopy
<1>15. CASE ReadCopy
  BY <1>15 DEF ReadCopy
<1>16. CASE CopyTimesOut
  BY <1>16 DEF CopyTimesOut
<1>17. CASE NumberCopy
  BY <1>17 DEF NumberCopy
<1>18. CASE Decide
  BY <1>18 DEF Decide
<1>19. CASE EnterCycle
  BY <1>19 DEF EnterCycle
<1>20. CASE Result
  BY <1>20 DEF Result
<1>21. CASE Compare
  BY <1>21 DEF Compare
<1>22. CASE WriteResult
  BY <1>22 DEF WriteResult
<1>23. CASE SimulatePaste
  BY <1>23 DEF SimulatePaste
<1>24. CASE Reselect
  BY <1>24 DEF Reselect
<1>25. CASE Bail
  BY <1>25 DEF Bail
<1>26. CASE RestoreSaved
  BY <1>26 DEF RestoreSaved
<1>27. CASE HandleCopy
  BY <1>27 DEF HandleCopy
<1>28. CASE HandlePaste
  BY <1>28 DEF HandlePaste
<1>29. CASE HandleWord
  BY <1>29 DEF HandleWord
<1>30. CASE HandleLeft
  BY <1>30 DEF HandleLeft
<1>31. ASSUME NEW p \in Pieces, SelectPiece(p) PROVE slips \subseteq slips'
  BY <1>31 DEF SelectPiece
<1>32. ASSUME NEW p \in Pieces, ClickAway(p) PROVE slips \subseteq slips'
  BY <1>32 DEF ClickAway
<1>33. CASE Collapse
  BY <1>33 DEF Collapse
<1>34. CASE Expire
  BY <1>34 DEF Expire
<1>35. ASSUME NEW c \in {Plain("copied"), Picture}, OtherCopies(c) PROVE slips \subseteq slips'
  BY <1>35 DEF OtherCopies
<1>36. ASSUME NEW c \in Configs, UpdateConfig(c) PROVE slips \subseteq slips'
  BY <1>36 DEF UpdateConfig
<1> QED
  BY <1>1, <1>2, <1>3, <1>4, <1>5, <1>6, <1>7, <1>8, <1>9, <1>10, <1>11, <1>12, <1>13, <1>14,
       <1>15, <1>16, <1>17, <1>18, <1>19, <1>20, <1>21, <1>22, <1>23, <1>24, <1>25, <1>26,
       <1>27, <1>28, <1>29, <1>30, <1>31, <1>32, <1>33, <1>34, <1>35, <1>36 DEF ClipboardNext,
       Hook, Convert, Around

\* Only a paste changes the document, and it collapses the selection; every way
\* of selecting looks for characters.
LEMMA SelectingIsPlace ==
  ASSUME NEW p
  PROVE  /\ Selecting(p) \in Spots \cup {NoPiece}
         /\ Selecting(p) # NoPiece => Selecting(p) = p /\ p \in Spots /\ doc[p] # NoText
BY Places DEF Selecting

\* Every step keeps it.
LEMMA DocNext == DocInv /\ [ClipboardNext]_clipboardVars => DocInv'
<1> SUFFICES ASSUME DocInv, [ClipboardNext]_clipboardVars PROVE DocInv'
  OBVIOUS
<1>1. CASE UNCHANGED <<doc, sel, caret>>
  BY <1>1 DEF DocInv
<1>2. CASE Hook
  BY <1>1, <1>2 DEF Hook, StartReplace, SaveOriginal, WriteWord, Stamp,
     SendPaste, Settle, RestoreTimer, RestoreOriginal, app
<1>3. CASE Convert
  <2>1. CASE Reselect
    <3>1. UNCHANGED <<doc, caret>>
      BY <2>1 DEF Reselect
    <3>2. sel' = sel \/ \E p : sel' = Selecting(p)
      BY <2>1 DEF Reselect
    <3> QED
      BY <3>1, <3>2, SelectingIsPlace DEF DocInv
  <2> QED
    BY <1>1, <1>3, <2>1 DEF Convert, Press, SaveClipboard, NumberClipboard,
       EmptyForCopy, NumberEmpty, SimulateCopy, ReadCopy, CopyTimesOut,
       NumberCopy, Decide, EnterCycle, Result, Compare, WriteResult,
       SimulatePaste, Bail, RestoreSaved, ConvertQuiet, app
<1>4. CASE Around
  <2>1. CASE HandlePaste
    <3>1. CASE ~IsText(clip)
      BY <1>1, <2>1, <3>1 DEF HandlePaste
    <3>2. CASE IsText(clip)
      <4> DEFINE spot == IF sel = NoPiece THEN New ELSE sel
      <4>1. /\ doc' = [doc EXCEPT ![spot] = clip]
            /\ sel' = NoPiece /\ caret' = spot
        BY <2>1, <3>2 DEF HandlePaste
      <4>2. spot \in Spots
        BY Places DEF DocInv
      <4> HIDE DEF spot
      <4> QED
        BY <3>2, <4>1, <4>2, Places DEF DocInv
    <3> QED
      BY <3>1, <3>2
  <2>2. CASE HandleLeft
    <3>1. UNCHANGED <<doc, caret>>
      BY <2>2 DEF HandleLeft
    <3>2. sel' = sel \/ sel' = Selecting(caret)
      BY <2>2 DEF HandleLeft
    <3> QED
      BY <3>1, <3>2, SelectingIsPlace DEF DocInv
  <2>3. ASSUME NEW p \in Pieces, SelectPiece(p) PROVE DocInv'
    BY <2>3, Places DEF SelectPiece, DocInv, Spots
  <2>4. ASSUME NEW p \in Pieces, ClickAway(p) PROVE DocInv'
    BY <2>4, Places DEF ClickAway, DocInv, Spots
  <2>5. CASE Collapse
    BY <2>5 DEF Collapse, DocInv
  <2> QED
    BY <1>1, <1>4, <2>1, <2>2, <2>3, <2>4, <2>5 DEF Around, HandleCopy,
       HandleWord, Expire, OtherCopies, UpdateConfig, Elsewhere, app
<1> QED
  BY <1>1, <1>2, <1>3, <1>4 DEF ClipboardNext, clipboardVars, app

\* At first every piece of the document has its own text.
LEMMA DocInit == ClipboardInit => DocInv
<1> SUFFICES ASSUME ClipboardInit PROVE DocInv
  OBVIOUS
<1>1. DOMAIN doc = Spots
  BY DEF ClipboardInit
<1>2. ASSUME NEW p \in Spots
      PROVE  IsText(doc[p]) /\ (p # New => doc[p] # NoText)
  BY <1>2, Contents DEF ClipboardInit, Spots
<1>3. sel \in Pieces \cup {NoPiece} /\ caret = sel
  BY DEF ClipboardInit
<1> QED
  BY <1>1, <1>2, <1>3, Places DEF DocInv, Spots

\* What is in the input after a key was sent, and after one was handled.
LEMMA InputGrows ==
  ASSUME input \in Seq(Events), NEW e \in Events, input' = Append(input, e), NEW x
  PROVE  InInput(x)' <=> InInput(x) \/ x = e
<1>1. Len(input') = Len(input) + 1
  OBVIOUS
<1>2. \A i \in 1 .. Len(input) : input'[i] = input[i]
  OBVIOUS
<1>3. input'[Len(input) + 1] = e
  OBVIOUS
<1>4. DOMAIN input = 1 .. Len(input) /\ DOMAIN input' = 1 .. (Len(input) + 1)
  BY <1>1
<1> QED
  BY <1>2, <1>3, <1>4 DEF InInput

\* What is left after the application handled the first of them.
LEMMA InputShrinks ==
  ASSUME input \in Seq(Events), input # << >>, input' = Tail(input), NEW x
  PROVE  /\ InInput(x)' => InInput(x)
         /\ Head(input) # x => (InInput(x) => InInput(x)')
         /\ InInput(Head(input))
<1>1. /\ DOMAIN input = 1 .. Len(input) /\ DOMAIN input' = 1 .. (Len(input) - 1)
      /\ Len(input) \in Nat \ {0}
  OBVIOUS
<1>2. \A i \in 1 .. (Len(input) - 1) : input'[i] = input[i + 1]
  OBVIOUS
<1>3. Head(input) = input[1]
  OBVIOUS
<1>4. InInput(x)' => InInput(x)
  BY <1>1, <1>2 DEF InInput
<1>5. ASSUME Head(input) # x, InInput(x) PROVE InInput(x)'
  <2>1. PICK i \in DOMAIN input : input[i] = x
    BY <1>5 DEF InInput
  <2>2. i - 1 \in 1 .. (Len(input) - 1) /\ (i - 1) + 1 = i
    BY <1>1, <1>3, <1>5, <2>1
  <2>3. input'[i - 1] = x
    BY <1>2, <2>1, <2>2
  <2> QED
    BY <1>1, <2>2, <2>3 DEF InInput
<1> QED
  BY <1>1, <1>3, <1>4, <1>5 DEF InInput

\* At first nothing is saved, nor to be given back.
LEMMA CopyInit == ClipboardInit => CopyInv
<1> SUFFICES ASSUME ClipboardInit PROVE CopyInv
  OBVIOUS
<1>1. /\ qpc = "idle" /\ ipc = "idle" /\ ~timer /\ ~hasSaved
      /\ seq # ourSeq /\ clip = owner
  BY DEF ClipboardInit
<1> QED
  BY <1>1 DEF CopyInv, InjectorKeeps, ConversionKeeps, Same

\* A sequence of one key.
LEMMA OneKey ==
  ASSUME NEW e \in Events
  PROVE  /\ Append(<< >>, e) = <<e>> /\ <<e>> # << >> /\ Head(<<e>>) = e
         /\ Tail(<<e>>) = << >> /\ \E i \in DOMAIN <<e>> : <<e>>[i] = e
OBVIOUS

\* At first nothing runs.
LEMMA AloneInit == ClipboardInit => AloneInv
BY DEF ClipboardInit, AloneInv, Alone

\* Press waits for the input to be empty and names a timer that is armed,
\* StartReplace a conversion that runs.
LEMMA AloneNext == IInv /\ AloneInv /\ [ClipboardNext]_clipboardVars => AloneInv'
<1> SUFFICES ASSUME IInv, AloneInv, [ClipboardNext]_clipboardVars,
                    ~Slipped({"busy", "gap", "overlap"})'
             PROVE  Alone'
  BY DEF AloneInv
<1> Alone
  BY SlipsGrow DEF AloneInv, Slipped
<1> USE DEF IInv, ShapeInv, Alone, InInput, Events, Slipped, hook, convert, app,
            judge, ConvertQuiet, EndRun, Elsewhere, Mishap, Slip, Put,
            NextAttempt, Quiescent, NoRun
<1>1. CASE StartReplace
  BY <1>1 DEF StartReplace
<1>2. CASE SaveOriginal
  BY <1>2 DEF SaveOriginal
<1>3. CASE WriteWord
  BY <1>3 DEF WriteWord
<1>4. CASE Stamp
  BY <1>4 DEF Stamp
<1>5. CASE SendPaste
  <2>1. CASE qpc = "idle"
    BY <1>5, <2>1 DEF SendPaste
  <2>2. CASE qpc # "idle"
    BY <1>5, <2>2 DEF SendPaste
  <2> QED
    BY <2>1, <2>2
<1>6. CASE Settle
  BY <1>6 DEF Settle
<1>7. CASE RestoreTimer
  BY <1>7 DEF RestoreTimer
<1>8. CASE RestoreOriginal
  BY <1>8 DEF RestoreOriginal
<1>9. CASE Press
  BY <1>9 DEF Press
<1>10. CASE SaveClipboard
  BY <1>10 DEF SaveClipboard
<1>11. CASE NumberClipboard
  BY <1>11 DEF NumberClipboard
<1>12. CASE EmptyForCopy
  <2>1. CASE Put(Empty, FALSE)
    BY <1>12, <2>1 DEF EmptyForCopy
  <2>2. CASE Mishap /\ Slip({"busy"})
    BY <2>2
  <2> QED
    BY <1>12, <2>1, <2>2 DEF EmptyForCopy
<1>13. CASE NumberEmpty
  BY <1>13 DEF NumberEmpty
<1>14. CASE SimulateCopy
  BY <1>14, OneKey DEF SimulateCopy
<1>15. CASE ReadCopy
  <2>1. input = << >>
    BY <1>15, Contents DEF ReadCopy
  <2> QED
    BY <1>15, <2>1 DEF ReadCopy
<1>16. CASE CopyTimesOut
  BY <1>16 DEF CopyTimesOut
<1>17. CASE NumberCopy
  BY <1>17 DEF NumberCopy
<1>18. CASE Decide
  BY <1>18, OneKey DEF Decide
<1>19. CASE EnterCycle
  BY <1>19, OneKey DEF EnterCycle
<1>20. CASE Result
  BY <1>20 DEF Result
<1>21. CASE Compare
  BY <1>21 DEF Compare
<1>22. CASE WriteResult
  BY <1>22 DEF WriteResult
<1>23. CASE SimulatePaste
  BY <1>23, OneKey DEF SimulatePaste
<1>24. CASE Reselect
  BY <1>24, OneKey DEF Reselect
<1>25. CASE Bail
  BY <1>25 DEF Bail
<1>26. CASE RestoreSaved
  BY <1>26 DEF RestoreSaved
<1>27. CASE HandleCopy
  <2>1. CASE qpc = "idle"
    BY <1>27, <2>1 DEF HandleCopy
  <2>2. CASE qpc # "idle"
    <3>1. UNCHANGED <<qpc, ipc, timer, q>> /\ Tail(input) = << >> /\ input' = Tail(input)
      BY <1>27, <2>2, OneKey DEF HandleCopy
    <3> QED
      BY <1>27, <2>2, <3>1, OneKey DEF HandleCopy
  <2> QED
    BY <2>1, <2>2
<1>28. CASE HandlePaste
  <2>1. CASE qpc = "idle"
    BY <1>28, <2>1 DEF HandlePaste
  <2>2. CASE qpc # "idle"
    <3>1. UNCHANGED <<qpc, ipc, timer, q>> /\ Tail(input) = << >> /\ input' = Tail(input)
      BY <1>28, <2>2, OneKey DEF HandlePaste
    <3> QED
      BY <1>28, <2>2, <3>1, OneKey DEF HandlePaste
  <2> QED
    BY <2>1, <2>2
<1>29. CASE HandleWord
  <2>1. CASE qpc = "idle"
    BY <1>29, <2>1 DEF HandleWord
  <2>2. CASE qpc # "idle"
    <3>1. UNCHANGED <<qpc, ipc, timer, q>> /\ Tail(input) = << >> /\ input' = Tail(input)
      BY <1>29, <2>2, OneKey DEF HandleWord
    <3> QED
      BY <1>29, <2>2, <3>1, OneKey DEF HandleWord
  <2> QED
    BY <2>1, <2>2
<1>30. CASE HandleLeft
  <2>1. CASE qpc = "idle"
    BY <1>30, <2>1 DEF HandleLeft
  <2>2. CASE qpc # "idle"
    <3>1. UNCHANGED <<qpc, ipc, timer, q>> /\ Tail(input) = << >> /\ input' = Tail(input)
      BY <1>30, <2>2, OneKey DEF HandleLeft
    <3> QED
      BY <1>30, <2>2, <3>1, OneKey DEF HandleLeft
  <2> QED
    BY <2>1, <2>2
<1>31. ASSUME NEW p \in Pieces, SelectPiece(p) PROVE Alone'
  BY <1>31 DEF SelectPiece
<1>32. ASSUME NEW p \in Pieces, ClickAway(p) PROVE Alone'
  BY <1>32 DEF ClickAway
<1>33. CASE Collapse
  BY <1>33 DEF Collapse
<1>34. CASE Expire
  BY <1>34 DEF Expire
<1>35. ASSUME NEW c \in {Plain("copied"), Picture}, OtherCopies(c) PROVE Alone'
  BY <1>35 DEF OtherCopies, InGap
<1>36. ASSUME NEW c \in Configs, UpdateConfig(c) PROVE Alone'
  BY <1>36 DEF UpdateConfig
<1> QED
  BY <1>1, <1>2, <1>3, <1>4, <1>5, <1>6, <1>7, <1>8, <1>9, <1>10, <1>11, <1>12, <1>13, <1>14,
       <1>15, <1>16, <1>17, <1>18, <1>19, <1>20, <1>21, <1>22, <1>23, <1>24, <1>25, <1>26,
       <1>27, <1>28, <1>29, <1>30, <1>31, <1>32, <1>33, <1>34, <1>35, <1>36 DEF ClipboardNext,
       Hook, Convert, Around, clipboardVars

\* The injector: it saves what the user copied before it writes, and gives it
\* back unless the number tells of another copy.
LEMMA HookKeepsCopy ==
  ASSUME IInv, DocInv, Alone, InjectorKeeps, ConversionKeeps, Safe, Safe', Hook
  PROVE  InjectorKeeps' /\ ConversionKeeps'
<1> USE DEF IInv, ShapeInv, Alone, InjectorKeeps, ConversionKeeps, Safe, Slipped, Same, Kept,
            Nothing, TextOf, IsText, hook, convert, app, judge, ConvertQuiet,
            EndRun, Elsewhere, Mishap, Slip, Put, NextAttempt, Quiescent,
            InGap, NoRun
<1>1. CASE StartReplace
  BY <1>1, Contents DEF StartReplace
<1>2. CASE SaveOriginal
  BY <1>2, Contents DEF SaveOriginal
<1>3. CASE WriteWord
  BY <1>3, Contents DEF WriteWord
<1>4. CASE Stamp
  BY <1>4, Contents DEF Stamp
<1>5. CASE SendPaste
  BY <1>5, Contents DEF SendPaste
<1>6. CASE Settle
  BY <1>6, Contents DEF Settle
<1>7. CASE RestoreTimer
  BY <1>7, Contents DEF RestoreTimer
<1>8. CASE RestoreOriginal
  <2>2. CASE Put(IF saved = NoText THEN Empty ELSE saved, FALSE) /\ seq = ourSeq
    <3>1. seq' # ourSeq' /\ UNCHANGED <<owner, qpc>>
      BY <1>8, <2>2 DEF RestoreOriginal
    <3>2. Same(clip', owner')
      BY <2>2, <3>1, Contents
    <3> QED
      BY <1>8, <3>1, <3>2 DEF RestoreOriginal
  <2>3. CASE seq # ourSeq /\ UNCHANGED <<clip, seq, theirs, slips, n>>
    BY <1>8, <2>3 DEF RestoreOriginal
  <2>4. CASE Mishap /\ Slip({"busy"})
    BY <2>4
  <2> QED
    BY <1>8, <2>2, <2>3, <2>4 DEF RestoreOriginal
<1> QED
  BY <1>1, <1>2, <1>3, <1>4, <1>5, <1>6, <1>7, <1>8 DEF Hook

\* The conversion, which works on the same clipboard.
LEMMA ConvertKeepsCopy ==
  ASSUME IInv, DocInv, Alone, InjectorKeeps, ConversionKeeps, Safe, Safe', Convert
  PROVE  InjectorKeeps' /\ ConversionKeeps'
<1> USE DEF IInv, ShapeInv, Alone, InjectorKeeps, ConversionKeeps, Safe, Slipped, Same, Kept,
            Nothing, TextOf, IsText, hook, convert, app, judge, ConvertQuiet,
            EndRun, Elsewhere, Mishap, Slip, Put, NextAttempt, Quiescent,
            InGap, NoRun
<1>1. CASE Press
  BY <1>1, Contents DEF Press
<1>2. CASE SaveClipboard
  BY <1>2, Contents DEF SaveClipboard
<1>3. CASE NumberClipboard
  BY <1>3, Contents DEF NumberClipboard
<1>4. CASE EmptyForCopy
  <2>1. CASE Put(Empty, FALSE) /\ qpc' = "emptied"
    BY <1>4, <2>1, Contents DEF EmptyForCopy
  <2>2. CASE Mishap /\ Slip({"busy"})
    BY <2>2
  <2> QED
    BY <1>4, <2>1, <2>2 DEF EmptyForCopy
<1>5. CASE NumberEmpty
  BY <1>5, Contents DEF NumberEmpty
<1>6. CASE SimulateCopy
  BY <1>6, Contents DEF SimulateCopy
<1>7. CASE ReadCopy
  <2>2. CASE clip # NoText /\ qpc' = "read"
    BY <1>7, <2>2 DEF ReadCopy
  <2>3. CASE Mishap /\ Slip({"busy"})
    BY <2>3
  <2>4. clip # NoText
    BY <1>7, Contents DEF ReadCopy
  <2> QED
    BY <1>7, <2>2, <2>3, <2>4 DEF ReadCopy
<1>8. CASE CopyTimesOut
  BY <1>8, Contents DEF CopyTimesOut
<1>9. CASE NumberCopy
  BY <1>9, Contents DEF NumberCopy
<1>10. CASE Decide
  BY <1>10, Contents DEF Decide
<1>11. CASE EnterCycle
  BY <1>11, Contents DEF EnterCycle
<1>12. CASE Result
  BY <1>12, Contents DEF Result
<1>13. CASE Compare
  BY <1>13, Contents DEF Compare
<1>14. CASE WriteResult
  <2>2. CASE Put(q.result, FALSE) /\ owner' = q.result
    <3>1. /\ Same(clip', owner') /\ seq' # ourSeq'
          /\ UNCHANGED <<ipc, timer, hasSaved>> /\ qpc' \in {"paste", "idle"}
      BY <1>14, <2>2 DEF WriteResult
    <3>2. ipc = "idle" /\ ~timer /\ ~hasSaved
      BY <1>14 DEF WriteResult
    <3> QED
      BY <1>14, <3>1, <3>2 DEF WriteResult
  <2>3. CASE Mishap /\ Slip({"busy", "unwritten"})
    BY <2>3
  <2> QED
    BY <1>14, <2>2, <2>3 DEF WriteResult
<1>15. CASE SimulatePaste
  BY <1>15, Contents DEF SimulatePaste
<1>16. CASE Reselect
  BY <1>16, Contents DEF Reselect
<1>17. CASE Bail
  <2>1. ipc = "idle" /\ ~timer /\ ~hasSaved /\ seq # ourSeq
    BY <1>17 DEF Bail
  <2>2. IF seq = q.ourSeq THEN Kept(q.saved, owner) ELSE Same(clip, owner)
    BY <1>17 DEF Bail
  <2>3. CASE q.saved # NoText /\ seq = q.ourSeq
    <3>1. qpc' = "restore" /\ UNCHANGED <<hook, q, clip, seq, owner>>
      BY <1>17, <2>3 DEF Bail
    <3>2. Kept(q.saved, owner)
      BY <2>2, <2>3, Contents
    <3> QED
      BY <2>1, <2>3, <3>1, <3>2
  <2>4. CASE ~(q.saved # NoText /\ seq = q.ourSeq)
    <3>1. qpc' = "idle" /\ UNCHANGED <<hook, clip, seq, owner>>
      BY <1>17, <2>4 DEF Bail
    <3>2. CASE Kept(q.saved, owner) /\ seq = q.ourSeq
      <4>1. clip \in {NoText, Empty}
        BY <1>17, <2>4, <3>2 DEF Bail
      <4>2. Same(clip, owner)
        BY <2>4, <3>2, <4>1
      <4> QED
        BY <2>1, <3>1, <4>2
    <3>3. CASE Same(clip, owner)
      BY <2>1, <3>1, <3>3
    <3> QED
      BY <2>2, <3>2, <3>3
  <2> QED
    BY <2>3, <2>4
<1>18. CASE RestoreSaved
  <2>2. CASE Put(q.saved, FALSE)
    <3>1. clip' = owner' /\ seq' # ourSeq' /\ UNCHANGED hook /\ qpc' = "idle"
      BY <1>18, <2>2 DEF RestoreSaved
    <3>2. ipc = "idle" /\ ~timer /\ ~hasSaved
      BY <1>18 DEF RestoreSaved
    <3> QED
      BY <3>1, <3>2
  <2>3. CASE Mishap /\ Slip({"busy"})
    BY <2>3
  <2> QED
    BY <1>18, <2>2, <2>3 DEF RestoreSaved
<1> QED
  BY <1>1, <1>2, <1>3, <1>4, <1>5, <1>6, <1>7, <1>8, <1>9, <1>10, <1>11, <1>12, <1>13, <1>14,
       <1>15, <1>16, <1>17, <1>18 DEF Convert

\* Copies of the application and of other programs.
LEMMA AroundKeepsCopy ==
  ASSUME IInv, DocInv, Alone, InjectorKeeps, ConversionKeeps, Safe, Safe', Around
  PROVE  InjectorKeeps' /\ ConversionKeeps'
<1> USE DEF IInv, ShapeInv, Alone, InjectorKeeps, ConversionKeeps, Safe, Slipped, Same, Kept,
            Nothing, TextOf, IsText, hook, convert, app, judge, ConvertQuiet,
            EndRun, Elsewhere, Mishap, Slip, Put, NextAttempt, Quiescent,
            InGap, NoRun
<1>1. CASE HandleCopy
  <2>1. qpc = "wait" /\ UNCHANGED <<hook, qpc, q, owner>>
    BY <1>1, InputShrinks DEF HandleCopy
  <2>2. ipc = "idle" /\ ~timer /\ ~hasSaved /\ seq # ourSeq
    BY <2>1
  <2>3. CASE sel = NoPiece
    BY <1>1, <2>1, <2>2, <2>3 DEF HandleCopy
  <2>4. CASE sel # NoPiece
    <3>1. clip' = doc[sel] /\ seq' = seq + 1
      BY <1>1, <2>4 DEF HandleCopy
    <3>2. IsText(clip') /\ clip' # NoText
      BY <2>4, <3>1 DEF DocInv
    <3>3. seq' # ourSeq'
      BY <2>1, <3>1
    <3> QED
      BY <2>1, <2>2, <3>2, <3>3
  <2> QED
    BY <2>3, <2>4
<1>2. CASE HandlePaste
  BY <1>2, Contents DEF HandlePaste
<1>3. CASE HandleWord
  BY <1>3, Contents DEF HandleWord
<1>4. CASE HandleLeft
  BY <1>4, Contents DEF HandleLeft
<1>5. ASSUME NEW p \in Pieces, SelectPiece(p) PROVE InjectorKeeps' /\ ConversionKeeps'
  BY <1>5, Contents DEF SelectPiece
<1>6. ASSUME NEW p \in Pieces, ClickAway(p) PROVE InjectorKeeps' /\ ConversionKeeps'
  BY <1>6, Contents DEF ClickAway
<1>7. CASE Collapse
  BY <1>7, Contents DEF Collapse
<1>8. CASE Expire
  BY <1>8, Contents DEF Expire
<1>9. ASSUME NEW c \in {Plain("copied"), Picture}, OtherCopies(c) PROVE InjectorKeeps' /\ ConversionKeeps'
  <2>2. /\ seq' # ourSeq' /\ seq' # q'.ourSeq /\ clip' = owner'
        /\ UNCHANGED <<hook, qpc, q>>
    BY <1>9 DEF OtherCopies
  <2>3. ~InGap
    BY <1>9 DEF OtherCopies
  <2> QED
    BY <2>2, <2>3
<1>10. ASSUME NEW c \in Configs, UpdateConfig(c) PROVE InjectorKeeps' /\ ConversionKeeps'
  BY <1>10, Contents DEF UpdateConfig
<1> QED
  BY <1>1, <1>2, <1>3, <1>4, <1>5, <1>6, <1>7, <1>8, <1>9, <1>10 DEF Around

\* The three together.
LEMMA CopyNext == IInv /\ DocInv /\ AloneInv /\ CopyInv /\ [ClipboardNext]_clipboardVars => CopyInv'
<1> SUFFICES ASSUME IInv, DocInv, AloneInv, CopyInv, [ClipboardNext]_clipboardVars, Safe'
             PROVE  InjectorKeeps' /\ ConversionKeeps'
  BY DEF CopyInv
<1>1. Safe
  BY SlipsGrow DEF Safe, Slipped
<1>2. Alone /\ InjectorKeeps /\ ConversionKeeps
  BY <1>1 DEF CopyInv, AloneInv, Safe, Slipped
<1>3. CASE UNCHANGED clipboardVars
  BY <1>2, <1>3 DEF clipboardVars, hook, convert, app, judge, InjectorKeeps,
     ConversionKeeps, InInput, Same, Kept
<1> QED
  BY <1>1, <1>2, <1>3, HookKeepsCopy, ConvertKeepsCopy, AroundKeepsCopy DEF ClipboardNext

\* What the user copied is on the clipboard again whenever the program has done
\* with it, whatever was typed, converted and copied before: the saves, the
\* stamps and the comparisons of ClipboardInjector::Replace and of
\* QuickConvert::Execute lose it only in the ways the property names.
THEOREM CopyAlwaysSurvives == ClipboardSpec => []CopySurvives
<1>1. ClipboardInit => IInv /\ DocInv /\ AloneInv /\ CopyInv
  BY IInvInit, DocInit, AloneInit, CopyInit
<1>2. IInv /\ DocInv /\ AloneInv /\ CopyInv /\ [ClipboardNext]_clipboardVars
        => (IInv /\ DocInv /\ AloneInv /\ CopyInv)'
  BY IInvNext, DocNext, AloneNext, CopyNext
<1>3. IInv /\ DocInv /\ AloneInv /\ CopyInv => CopySurvives
  <2> SUFFICES ASSUME IInv, CopyInv, Quiescent, ipc = "idle", ~timer, Safe
               PROVE  clip = owner \/ {clip, owner} = {NoText, Empty}
    BY DEF CopySurvives, Safe
  <2>1. seq # ourSeq
    BY DEF CopyInv, InjectorKeeps
  <2>2. Same(clip, owner)
    BY <2>1 DEF CopyInv, InjectorKeeps, Quiescent
  <2> QED
    BY <2>2 DEF Same, Nothing
<1> QED
  BY <1>1, <1>2, <1>3, PTL DEF ClipboardSpec



(***************************************************************************)
(* What a paste replaces                                                   *)
(***************************************************************************)

\* While nothing has slipped, no click went elsewhere and no window kept its
\* selection to itself: with nothing selected the caret is behind the last
\* paste; with something selected the conversion has it copied, or selected it
\* as its last paste.
Undisturbed == ~Slipped({"busy", "gap", "overlap", "caret", "untold"})

OwnPaste ==
  /\ caret = lastPaste \/ (sel # NoPiece /\ sel = caret)
  /\ qpc \in {"save", "number"} /\ q.anchor.hasControl /\ ~q.anchor.valid
       => sel = NoPiece
  /\ qpc = "wait" /\ input = << >> /\ sel # NoPiece => clip = doc[sel]
  /\ \/ qpc \in {"read", "decide", "cycle", "result", "compare", "write", "paste"}
     \/ input = <<"paste">> /\ qpc = "pasted"
     => IF q.recovery THEN sel \in {NoPiece, lastPaste}
        ELSE sel = NoPiece \/ (q.got /\ doc[sel] = q.text)
  /\ qpc = "read" => q.got
  /\ qpc \in {"save", "number", "empty", "emptied", "copy", "wait", "read"}
       => ~q.recovery

OwnInv == Undisturbed => OwnPaste

\* At first nothing was pasted and the caret is at the selection, if there is one.
LEMMA OwnInit == ClipboardInit => OwnInv
<1> SUFFICES ASSUME ClipboardInit PROVE OwnPaste
  BY DEF OwnInv
<1>1. qpc = "idle" /\ caret = sel /\ lastPaste = NoPiece
  BY DEF ClipboardInit
<1> QED
  BY <1>1 DEF OwnPaste

\* EmptyForCopy and the wait for a text make what is read the selection; Decide
\* goes to the last paste only when nothing was copied, and so nothing selected.
LEMMA OwnNext == IInv /\ DocInv /\ AloneInv /\ OwnInv /\ [ClipboardNext]_clipboardVars => OwnInv'
<1> SUFFICES ASSUME IInv, DocInv, AloneInv, OwnInv, [ClipboardNext]_clipboardVars, Undisturbed'
             PROVE  OwnPaste'
  BY DEF OwnInv
<1> Alone /\ OwnPaste
  BY SlipsGrow DEF AloneInv, OwnInv, Undisturbed, Slipped
<1> USE DEF IInv, ShapeInv, Alone, OwnPaste, Undisturbed, Slipped, InInput, Events,
            IsText, hook, convert, app, judge, ConvertQuiet, EndRun, Elsewhere,
            Mishap, Slip, Put, NextAttempt, Quiescent, NoRun
<1>1. CASE StartReplace
  BY <1>1 DEF StartReplace
<1>2. CASE SaveOriginal
  BY <1>2 DEF SaveOriginal
<1>3. CASE WriteWord
  BY <1>3 DEF WriteWord
<1>4. CASE Stamp
  BY <1>4 DEF Stamp
<1>5. CASE SendPaste
  BY <1>5 DEF SendPaste
<1>6. CASE Settle
  BY <1>6 DEF Settle
<1>7. CASE RestoreTimer
  BY <1>7 DEF RestoreTimer
<1>8. CASE RestoreOriginal
  BY <1>8 DEF RestoreOriginal
<1>9. CASE Press
  <2>1. PICK answered \in BOOLEAN :
          /\ q' = [NoRun EXCEPT !.anchor = SelectionAnchor(answered)]
          /\ answered /\ SelectionAnchor(answered).start # sel => "untold" \in slips'
    BY <1>9 DEF Press
  <2>2. /\ q'.anchor = SelectionAnchor(answered) /\ ~q'.recovery
        /\ qpc' = "save" /\ UNCHANGED <<sel, caret, lastPaste>>
    BY <1>9, <2>1 DEF Press
  <2>3. SelectionAnchor(answered).hasControl /\ ~SelectionAnchor(answered).valid
          => answered /\ SelectionAnchor(answered).start = NoPiece
    BY DEF SelectionAnchor, NoAnchor
  <2>4. "untold" \notin slips'
    OBVIOUS
  <2>5. q'.anchor.hasControl /\ ~q'.anchor.valid => sel' = NoPiece
    BY <2>1, <2>2, <2>3, <2>4
  <2> QED
    BY <2>2, <2>5
<1>10. CASE SaveClipboard
  BY <1>10 DEF SaveClipboard
<1>11. CASE NumberClipboard
  BY <1>11 DEF NumberClipboard
<1>12. CASE EmptyForCopy
  <2>1. CASE Put(Empty, FALSE)
    BY <1>12, <2>1 DEF EmptyForCopy
  <2>2. CASE Mishap /\ Slip({"busy"})
    BY <2>2
  <2> QED
    BY <1>12, <2>1, <2>2 DEF EmptyForCopy
<1>13. CASE NumberEmpty
  BY <1>13 DEF NumberEmpty
<1>14. CASE SimulateCopy
  BY <1>14, OneKey DEF SimulateCopy
<1>15. CASE ReadCopy
  <2>1. input = << >> /\ (sel # NoPiece => clip = doc[sel] /\ clip # NoText)
    BY <1>15, Contents DEF ReadCopy, DocInv
  <2>2. CASE qpc' = "read" /\ q' = [q EXCEPT !.text = clip, !.got = TRUE]
    <3>1. q'.got /\ q'.text = clip /\ UNCHANGED <<input, sel, caret, doc, lastPaste>>
      BY <1>15, <2>2 DEF ReadCopy
    <3>2. q'.recovery = q.recovery
      BY <2>2
    <3>3. sel # NoPiece => doc'[sel'] = q'.text
      BY <2>1, <3>1
    <3>4. ~q.recovery
      BY <1>15 DEF ReadCopy
    <3> QED
      BY <2>2, <3>1, <3>2, <3>3, <3>4
  <2>3. CASE Mishap /\ Slip({"busy"})
    BY <2>3
  <2>4. CASE clip = NoText /\ NextAttempt
    BY <1>15, <2>1, <2>4 DEF ReadCopy
  <2> QED
    BY <1>15, <2>2, <2>3, <2>4 DEF ReadCopy
<1>16. CASE CopyTimesOut
  <2>1. sel = NoPiece
    BY <1>16, OneKey DEF CopyTimesOut, DocInv
  <2> QED
    BY <1>16, <2>1 DEF CopyTimesOut
<1>17. CASE NumberCopy
  BY <1>17 DEF NumberCopy
<1>18. CASE Decide
  BY <1>18, OneKey DEF Decide
<1>19. CASE EnterCycle
  BY <1>19 DEF EnterCycle
<1>20. CASE Result
  BY <1>20 DEF Result
<1>21. CASE Compare
  BY <1>21 DEF Compare
<1>22. CASE WriteResult
  BY <1>22 DEF WriteResult
<1>23. CASE SimulatePaste
  BY <1>23 DEF SimulatePaste
<1>24. CASE Reselect
  <2>1. /\ qpc' = "idle" /\ UNCHANGED <<doc, caret, lastPaste>>
        /\ sel' = sel \/ (sel = NoPiece /\ \E p : sel' = Selecting(p))
    BY <1>24 DEF Reselect
  <2> QED
    BY <1>24, <2>1, SelectingIsPlace DEF Reselect
<1>25. CASE Bail
  BY <1>25 DEF Bail
<1>26. CASE RestoreSaved
  BY <1>26 DEF RestoreSaved
<1>27. CASE HandleCopy
  <2>1. qpc = "wait" /\ UNCHANGED <<qpc, q, doc, sel, caret, lastPaste>>
    BY <1>27, InputShrinks DEF HandleCopy
  <2>2. sel # NoPiece => clip' = doc[sel]
    BY <1>27 DEF HandleCopy
  <2> QED
    BY <2>1, <2>2
<1>28. CASE HandlePaste
  <2>1. qpc = "pasted" /\ input' = << >> /\ UNCHANGED <<qpc, q>>
    BY <1>28, OneKey, InputShrinks DEF HandlePaste
  <2>2. \/ UNCHANGED <<sel, caret, lastPaste>>
        \/ sel' = NoPiece /\ caret' = lastPaste'
    BY <1>28 DEF HandlePaste
  <2> QED
    BY <2>1, <2>2, OneKey
<1>29. CASE HandleWord
  <2>1. UNCHANGED <<qpc, q, doc, sel, caret, lastPaste, clip>> /\ qpc = "idle"
    BY <1>29, OneKey DEF HandleWord
  <2> QED
    BY <2>1
<1>30. CASE HandleLeft
  <2>1. UNCHANGED <<qpc, q, doc, caret, lastPaste, clip>>
    BY <1>30 DEF HandleLeft
  <2>2. qpc = "idle" \/ (qpc = "cycle" /\ q.recovery)
    BY <1>30, OneKey DEF HandleLeft
  <2>3. sel' = sel \/ (sel = NoPiece /\ sel' = Selecting(caret))
    BY <1>30 DEF HandleLeft
  <2> QED
    BY <2>1, <2>2, <2>3, SelectingIsPlace DEF DocInv
<1>31. ASSUME NEW p \in Pieces, SelectPiece(p) PROVE OwnPaste'
  BY <1>31, Places DEF SelectPiece, Spots
<1>32. ASSUME NEW p \in Pieces, ClickAway(p) PROVE OwnPaste'
  BY <1>32 DEF ClickAway
<1>33. CASE Collapse
  BY <1>33 DEF Collapse
<1>34. CASE Expire
  BY <1>34 DEF Expire
<1>35. ASSUME NEW c \in {Plain("copied"), Picture}, OtherCopies(c) PROVE OwnPaste'
  BY <1>35 DEF OtherCopies, InGap
<1>36. ASSUME NEW c \in Configs, UpdateConfig(c) PROVE OwnPaste'
  BY <1>36 DEF UpdateConfig
<1> QED
  BY <1>1, <1>2, <1>3, <1>4, <1>5, <1>6, <1>7, <1>8, <1>9, <1>10, <1>11, <1>12, <1>13, <1>14,
       <1>15, <1>16, <1>17, <1>18, <1>19, <1>20, <1>21, <1>22, <1>23, <1>24, <1>25, <1>26,
       <1>27, <1>28, <1>29, <1>30, <1>31, <1>32, <1>33, <1>34, <1>35, <1>36, ZenonT(60) DEF ClipboardNext,
       Hook, Convert, Around, clipboardVars

\* The paste of a conversion replaces the text it copied or, in a recovery, its
\* own last paste, and never another text the user has selected meanwhile: the
\* wait of QuickConvert::Execute for a text of the Ctrl+C it has just sent, and
\* IsStillInCycle, see to it -- where the window tells GetSelectionAnchor of the
\* selection it has, or nothing.
THEOREM PasteAlwaysReplacesItsOwn == ClipboardSpec => ReplacesItsOwn
<1> DEFINE Covers == OverItsOwn({"busy", "gap", "overlap", "caret", "untold"})
<1>1. ClipboardInit => IInv /\ DocInv /\ AloneInv /\ OwnInv
  BY IInvInit, DocInit, AloneInit, OwnInit
<1>2. IInv /\ DocInv /\ AloneInv /\ OwnInv /\ [ClipboardNext]_clipboardVars
        => (IInv /\ DocInv /\ AloneInv /\ OwnInv)'
  BY IInvNext, DocNext, AloneNext, OwnNext
<1>3. IInv /\ AloneInv /\ OwnInv => Covers
  <2> SUFFICES ASSUME IInv, AloneInv, OwnInv, Undisturbed, input # << >>,
                      Head(input) = "paste", sel # NoPiece
               PROVE  IF q.recovery THEN sel = lastPaste ELSE doc[sel] = q.text
    BY DEF OverItsOwn, Undisturbed
  <2>1. Alone /\ OwnPaste
    BY DEF AloneInv, OwnInv, Undisturbed, Slipped
  <2>2. input = <<"paste">> /\ qpc = "pasted"
    BY <2>1, OneKey DEF Alone, IInv, ShapeInv, Events
  <2> QED
    BY <2>1, <2>2 DEF OwnPaste
<1> HIDE DEF Covers
<1>4. ClipboardSpec => [][Covers]_clipboardVars
  BY <1>1, <1>2, <1>3, PTL DEF ClipboardSpec
<1> QED
  BY <1>4 DEF ReplacesItsOwn, Covers

=============================================================================

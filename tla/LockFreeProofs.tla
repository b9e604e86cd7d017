--------------------------- MODULE LockFreeProofs ---------------------------
(***************************************************************************)
(* What threads and processes share without a lock: two seqlocks in shared  *)
(* memory and the command words of the hook.                                *)
(*                                                                         *)
(* ConfigSync, for any code tables, applications, operations and however   *)
(* many of them: as long as no two writers overlap, the epoch of the       *)
(* shared state is even whenever nobody writes, so that no read fails for  *)
(* good; and the engine never claims the epoch of an unfinished write.     *)
(*                                                                         *)
(* ContextAnchor, with one process writing, whatever the fields and the    *)
(* contexts, however many writes there are and wherever they fall in a     *)
(* read: the anchor's seqlock gives the reader a snapshot, also when the   *)
(* writer is killed.                                                       *)
(*                                                                         *)
(* HookMailbox, for any number of producers, posts, starts and any word    *)
(* length: the producers are stopped before the hook thread is, as         *)
(* main.cpp does.                                                          *)
(***************************************************************************)
EXTENDS ConfigSync, ContextAnchor, HookMailbox, TLAPS

\* What a rebuild of the lists changes is seen throughout.
USE DEF RebuildSnapshotFromToml

\* At most one writer is inside an operation; inside its write the epoch is
\* the odd one it remembers, and otherwise even.
SerialInv ==
  ~overlapped =>
    /\ \A v, w \in Writers : at[v] /= "idle" /\ at[w] /= "idle" => v = w
    /\ \A w \in Writers : at[w] = "close" => /\ copy[w].seq = shm.epoch
                                             /\ shm.epoch % 2 = 1
    /\ (\A w \in Writers : at[w] /= "close") => shm.epoch % 2 = 0

\* What the worker read was stable, and each use saves one more version.
BoundInv == snap.epoch % 2 = 0 /\ toml.lists + left.uses <= MaxUses

Inv == TypeOK /\ SerialInv /\ BoundInv

LEMMA InvInit == Init => Inv
<1> SUFFICES ASSUME Init PROVE Inv
  OBVIOUS
<1> USE ConstantsOK DEF Init, Default, DefaultFields, DefaultState, NoCopy, NoTarget,
        Generations, GenerationSize
<1>1. StoreType
  BY DEF StoreType
<1>2. WriterType
  <2>1. copy \in [Writers -> [gen : Generations, flag : BOOLEAN, table : Tables, seq : Nat]]
    OBVIOUS
  <2>2. /\ settings \in [flag : BOOLEAN, table : Tables, dirty : BOOLEAN]
        /\ menu \in [flag : BOOLEAN, table : Tables]
    OBVIOUS
  <2> QED BY <2>1, <2>2 DEF WriterType
<1>3. EngineType
  <2>1. run \in [flag : BOOLEAN, current : Tables, global : Tables, lists : 0 .. MaxUses]
    OBVIOUS
  <2>2. seen \in [gen : Generations, flag : BOOLEAN, table : Tables]
    OBVIOUS
  <2>3. lastEpoch \in Nat /\ lastEpoch % 2 = 0
    OBVIOUS
  <2>4. signal \in BOOLEAN
    OBVIOUS
  <2> QED BY <2>1, <2>2, <2>3, <2>4 DEF EngineType
<1>4. WorkerType
  BY DEF WorkerType
<1>5. SerialInv
  BY DEF SerialInv
<1>6. BoundInv
  BY DEF BoundInv
<1> QED
  BY <1>1, <1>2, <1>3, <1>4, <1>5, <1>6 DEF Inv, TypeOK

\* What a writer's copy holds after the read.
LEMMA ChangedType ==
  ASSUME StoreType, WriterType, NEW w \in Writers
  PROVE  Changed(w) \in [gen : Generations, flag : BOOLEAN, table : Tables, seq : Nat]
<1>1. NewGen(w) \in Generations
  BY DEF NewGen, StoreType, Generations, GenerationSize
<1>2. Changed(w).flag \in BOOLEAN /\ Changed(w).table \in Tables
  BY DEF Changed, StoreType, WriterType
<1> QED
  BY <1>1, <1>2 DEF Changed

LEMMA AfterWriteType ==
  ASSUME WriterType, NEW w \in Writers, AfterWrite(w), UNCHANGED <<overlapped, picked>>
  PROVE  WriterType'
<1> USE DEF AfterWrite
<1>1. settings' \in [flag : BOOLEAN, table : Tables, dirty : BOOLEAN]
  BY DEF WriterType
<1>2. menu' \in [flag : BOOLEAN, table : Tables]
  BY ConstantsOK DEF WriterType, Default
<1>3. copy' \in [Writers -> [gen : Generations, flag : BOOLEAN, table : Tables, seq : Nat]]
  BY ConstantsOK DEF WriterType, NoCopy, Generations, GenerationSize
<1>4. /\ at' \in [Writers -> {"idle", "read", "open", "close", "store"}]
      /\ doing' \in [Writers -> Operations \cup {"none", "save"}]
      /\ refresh' \in BOOLEAN /\ reload' \in BOOLEAN
  BY DEF WriterType
<1> QED
  BY <1>1, <1>2, <1>3, <1>4 DEF WriterType

\* A step of a writer: the read-modify-write.
LEMMA WriterInv ==
  ASSUME Inv, NEW w \in Writers, WriterStep(w)
  PROVE  Inv'
<1> USE DEF Inv, TypeOK
<1>0. /\ UNCHANGED <<lastEpoch, seen, run, worker, snap, stored, latched, classifying>>
      /\ UNCHANGED <<target, active, signal, left, overlapped, picked, toml>>
  BY DEF WriterStep, Read, ReadFails, OpenWrite, CloseWrite, engineVars, workerVars,
         focusVars
<1>1. EngineType' /\ WorkerType' /\ BoundInv'
  BY <1>0 DEF EngineType, WorkerType, BoundInv
<1>2. CASE Read(w)
  <2>1. StoreType'
    BY <1>0, <1>2 DEF Read, StoreType
  <2>2. WriterType'
    BY <1>0, <1>2, ChangedType DEF Read, WriterType
  <2>3. SerialInv'
    BY <1>0, <1>2 DEF Read, SerialInv, WriterType
  <2> QED BY <1>1, <2>1, <2>2, <2>3
<1>3. CASE ReadFails(w)
  <2>1. StoreType'
    BY <1>0, <1>3 DEF ReadFails, StoreType
  <2>2. WriterType'
    BY <1>0, <1>3, AfterWriteType DEF ReadFails
  <2>3. SerialInv'
    BY <1>0, <1>3 DEF ReadFails, AfterWrite, SerialInv, Stable, WriterType
  <2> QED BY <1>1, <2>1, <2>2, <2>3
<1>4. CASE OpenWrite(w)
  <2>1. StoreType'
    BY <1>0, <1>4 DEF OpenWrite, StoreType
  <2>2. WriterType'
    <3>1. copy' \in [Writers -> [gen : Generations, flag : BOOLEAN, table : Tables, seq : Nat]]
      BY <1>4 DEF OpenWrite, WriterType, StoreType
    <3> QED BY <1>0, <1>4, <3>1 DEF OpenWrite, WriterType
  <2>3. SerialInv'
    <3> SUFFICES ASSUME ~overlapped PROVE SerialInv'
      BY <1>0 DEF SerialInv
    <3>1. /\ \A v \in Writers : at[v] /= "idle" => v = w
          /\ shm.epoch % 2 = 0
      BY <1>4 DEF OpenWrite, SerialInv, WriterType
    <3>2. shm'.epoch = shm.epoch + 1 /\ shm.epoch \in Nat /\ copy'[w].seq = shm.epoch + 1
      BY <1>4 DEF OpenWrite, StoreType, WriterType
    <3>3. at' = [at EXCEPT ![w] = "close"]
      BY <1>4 DEF OpenWrite
    <3> QED BY <3>1, <3>2, <3>3 DEF SerialInv, WriterType
  <2> QED BY <1>1, <2>1, <2>2, <2>3
<1>5. CASE CloseWrite(w)
  <2>1. StoreType'
    BY <1>0, <1>5 DEF CloseWrite, StoreType, WriterType
  <2>2. WriterType'
    BY <1>0, <1>5, AfterWriteType DEF CloseWrite
  <2>3. SerialInv'
    <3> SUFFICES ASSUME ~overlapped PROVE SerialInv'
      BY <1>0 DEF SerialInv
    <3>1. /\ \A v \in Writers : at[v] /= "idle" => v = w
          /\ copy[w].seq = shm.epoch /\ shm.epoch % 2 = 1
      BY <1>5 DEF CloseWrite, SerialInv
    <3>2. shm'.epoch = shm.epoch + 1 /\ shm.epoch \in Nat
      BY <1>5, <3>1 DEF CloseWrite, StoreType
    <3>3. /\ \A v \in Writers : v /= w => at'[v] = at[v]
          /\ at'[w] /= "close"
      BY <1>5 DEF CloseWrite, AfterWrite, WriterType
    <3> QED BY <3>1, <3>2, <3>3 DEF SerialInv
  <2> QED BY <1>1, <2>1, <2>2, <2>3
<1> QED
  BY <1>2, <1>3, <1>4, <1>5 DEF WriterStep

\* The steps that begin an operation; nobody writes at once.
LEMMA BeginSerial ==
  ASSUME SerialInv, WriterType, StoreType, NEW w \in Writers, at[w] = "idle",
         at' = [at EXCEPT ![w] = "read"], UNCHANGED <<shm, copy>>,
         overlapped' = (overlapped \/ \E v \in Writers : at[v] /= "idle")
  PROVE  SerialInv'
<1> SUFFICES ASSUME ~overlapped' PROVE SerialInv'
  BY DEF SerialInv
<1>1. ~overlapped /\ \A v \in Writers : at[v] = "idle"
  OBVIOUS
<1>2. shm.epoch % 2 = 0
  BY <1>1 DEF SerialInv
<1>3. \A v \in Writers : v /= w => at'[v] = "idle"
  BY <1>1 DEF WriterType
<1>4. at'[w] = "read"
  BY DEF WriterType
<1> QED
  BY <1>2, <1>3, <1>4 DEF SerialInv

LEMMA BeginInv ==
  ASSUME Inv, NEW w \in Writers, NEW operation \in Operations \cup {"save"},
         Begin(w, operation)
  PROVE  /\ EngineType' /\ WorkerType' /\ SerialInv'
         /\ at' \in [Writers -> {"idle", "read", "open", "close", "store"}]
         /\ doing' \in [Writers -> Operations \cup {"none", "save"}]
         /\ overlapped' \in BOOLEAN
         /\ UNCHANGED <<shm, snap, copy, reload>>
<1> USE DEF Inv, TypeOK, Begin
<1>1. UNCHANGED <<shm, copy, reload, lastEpoch, seen, run, worker, snap, stored,
                  latched, classifying, target, active, signal>>
  BY DEF engineVars, workerVars, focusVars
<1>2. SerialInv'
  BY <1>1, BeginSerial
<1>3. /\ at' \in [Writers -> {"idle", "read", "open", "close", "store"}]
      /\ doing' \in [Writers -> Operations \cup {"none", "save"}]
      /\ overlapped' \in BOOLEAN
  BY DEF WriterType
<1>4. EngineType' /\ WorkerType'
  BY <1>1 DEF EngineType, WorkerType
<1> QED
  BY <1>1, <1>2, <1>3, <1>4

\* A use counts; the file holds what it held or what is saved.
LEMMA UseInv ==
  ASSUME Inv, NEW w \in Writers, NEW operation, Use(w, operation),
         NEW content \in [flag : BOOLEAN, table : Tables, lists : Nat],
         content.lists <= toml.lists + 1, toml' \in {toml, content}
  PROVE  /\ EngineType' /\ WorkerType' /\ SerialInv' /\ BoundInv' /\ StoreType'
         /\ at' \in [Writers -> {"idle", "read", "open", "close", "store"}]
         /\ doing' \in [Writers -> Operations \cup {"none", "save"}]
         /\ overlapped' \in BOOLEAN
         /\ UNCHANGED <<copy, reload>>
<1> USE DEF Inv, TypeOK
<1>1. /\ operation \in Operations /\ Begin(w, operation)
      /\ left.uses > 0 /\ left' = [left EXCEPT !.uses = @ - 1]
  BY ConstantsOK DEF Use
<1>2. /\ EngineType' /\ WorkerType' /\ SerialInv'
      /\ at' \in [Writers -> {"idle", "read", "open", "close", "store"}]
      /\ doing' \in [Writers -> Operations \cup {"none", "save"}]
      /\ overlapped' \in BOOLEAN
      /\ UNCHANGED <<shm, snap, copy, reload>>
  BY <1>1, BeginInv
<1>3. left'.uses = left.uses - 1 /\ left' \in [uses : 0 .. MaxUses, focus : 0 .. MaxFocus]
  <2>1. left.uses \in 0 .. MaxUses /\ left.uses - 1 \in 0 .. MaxUses
    BY <1>1, ConstantsOK DEF StoreType
  <2> QED BY <1>1, <2>1 DEF StoreType
<1>4. toml'.lists <= toml.lists + 1 /\ toml'.lists \in Nat
  BY DEF StoreType
<1>5. BoundInv'
  <2>1. toml.lists + left.uses <= MaxUses /\ snap'.epoch % 2 = 0
    BY <1>2 DEF BoundInv
  <2>2. left.uses \in Nat /\ toml.lists \in Nat
    BY ConstantsOK DEF StoreType
  <2> QED BY <1>3, <1>4, <2>1, <2>2, ConstantsOK DEF BoundInv
<1>6. toml'.lists \in 0 .. MaxUses
  BY <1>3, <1>4, <1>5, ConstantsOK DEF BoundInv
<1>7. StoreType'
  BY <1>2, <1>3, <1>6 DEF StoreType
<1> QED
  BY <1>2, <1>5, <1>7

LEMMA UserInv ==
  ASSUME Inv, EditSettings \/ SaveSettings \/ SaveList \/ FlipInMenu
  PROVE  Inv'
<1> USE DEF Inv, TypeOK
<1>0. /\ toml.lists \in Nat /\ toml.flag \in BOOLEAN /\ toml.table \in Tables
      /\ toml \in [flag : BOOLEAN, table : Tables, lists : Nat]
  BY ConstantsOK DEF StoreType
<1>1. CASE EditSettings
  <2>1. Use("settings", "edit") /\ toml' \in {toml, toml} /\ UNCHANGED <<menu, refresh, picked>>
    BY <1>1 DEF EditSettings
  <2>2. /\ EngineType' /\ WorkerType' /\ SerialInv' /\ BoundInv' /\ StoreType'
        /\ at' \in [Writers -> {"idle", "read", "open", "close", "store"}]
        /\ doing' \in [Writers -> Operations \cup {"none", "save"}]
        /\ overlapped' \in BOOLEAN
        /\ UNCHANGED <<copy, reload>>
    BY <1>0, <2>1, UseInv DEF Writers
  <2>3. settings' \in [flag : BOOLEAN, table : Tables, dirty : BOOLEAN]
    BY <1>1 DEF EditSettings, WriterType
  <2> QED BY <2>1, <2>2, <2>3 DEF WriterType
<1>2. CASE SaveSettings
  <2>1. /\ Begin("settings", "save") /\ UNCHANGED <<menu, refresh, left, picked>>
        /\ toml' \in {toml, [toml EXCEPT !.flag = settings.flag, !.table = settings.table]}
    BY <1>2 DEF SaveSettings, Save
  <2>2. /\ EngineType' /\ WorkerType' /\ SerialInv'
        /\ at' \in [Writers -> {"idle", "read", "open", "close", "store"}]
        /\ doing' \in [Writers -> Operations \cup {"none", "save"}]
        /\ overlapped' \in BOOLEAN
        /\ UNCHANGED <<shm, snap, copy, reload>>
    BY <2>1, BeginInv DEF Writers
  <2>3. settings' \in [flag : BOOLEAN, table : Tables, dirty : BOOLEAN]
    BY <1>2 DEF SaveSettings, WriterType
  <2>4. toml' \in [flag : BOOLEAN, table : Tables, lists : 0 .. MaxUses] /\ toml'.lists = toml.lists
    BY <2>1 DEF StoreType, WriterType
  <2>5. StoreType' /\ BoundInv'
    BY <2>1, <2>2, <2>4 DEF StoreType, BoundInv
  <2> QED BY <2>1, <2>2, <2>3, <2>5 DEF WriterType
<1>3. CASE SaveList
  <2> DEFINE content == [toml EXCEPT !.lists = @ + 1]
  <2>1. Use("dialog", "list") /\ toml' \in {toml, content}
        /\ UNCHANGED <<settings, menu, refresh, picked>>
    BY <1>3 DEF SaveList, Save
  <2>2. content \in [flag : BOOLEAN, table : Tables, lists : Nat] /\ content.lists <= toml.lists + 1
    BY <1>0
  <2> HIDE DEF content
  <2>3. /\ EngineType' /\ WorkerType' /\ SerialInv' /\ BoundInv' /\ StoreType'
        /\ at' \in [Writers -> {"idle", "read", "open", "close", "store"}]
        /\ doing' \in [Writers -> Operations \cup {"none", "save"}]
        /\ overlapped' \in BOOLEAN
        /\ UNCHANGED <<copy, reload>>
    BY <2>1, <2>2, UseInv DEF Writers
  <2> QED BY <2>1, <2>3 DEF WriterType
<1>4. CASE FlipInMenu
  <2> DEFINE content == [toml EXCEPT !.flag = menu'.flag]
  <2>1. Use("tray", "menu") /\ toml' \in {toml, content}
        /\ UNCHANGED <<settings, refresh, picked>>
    BY <1>4 DEF FlipInMenu, Save
  <2>2. menu' \in [flag : BOOLEAN, table : Tables]
    BY <1>0, <1>4 DEF FlipInMenu
  <2>3. content \in [flag : BOOLEAN, table : Tables, lists : Nat] /\ content.lists <= toml.lists + 1
    BY <1>0, <2>2
  <2> HIDE DEF content
  <2>4. /\ EngineType' /\ WorkerType' /\ SerialInv' /\ BoundInv' /\ StoreType'
        /\ at' \in [Writers -> {"idle", "read", "open", "close", "store"}]
        /\ doing' \in [Writers -> Operations \cup {"none", "save"}]
        /\ overlapped' \in BOOLEAN
        /\ UNCHANGED <<copy, reload>>
    BY <2>1, <2>3, UseInv DEF Writers
  <2> QED BY <2>1, <2>2, <2>4 DEF WriterType
<1> QED
  BY <1>1, <1>2, <1>3, <1>4

\* The other steps of the main thread and the settings dialog.
LEMMA MainInv ==
  ASSUME Inv, StoreTable \/ RefreshSettings \/ HandleReload \/ \E t \in Tables : PickTable(t)
  PROVE  Inv'
<1> USE DEF Inv, TypeOK
<1>1. CASE StoreTable
  <2>1. /\ UNCHANGED <<shm, left, snap, overlapped, picked, copy>>
        /\ at["tray"] = "store" /\ at' = [at EXCEPT !["tray"] = "idle"]
        /\ toml' \in {toml, [toml EXCEPT !.table = menu.table]}
    BY <1>1 DEF StoreTable, Save, workerVars
  <2>2. toml' \in [flag : BOOLEAN, table : Tables, lists : 0 .. MaxUses] /\ toml'.lists = toml.lists
    BY <2>1 DEF StoreType, WriterType
  <2>3. StoreType' /\ BoundInv'
    BY <2>1, <2>2 DEF StoreType, BoundInv
  <2>4. WriterType'
    BY <1>1, ConstantsOK DEF StoreTable, WriterType, Default
  <2>5. SerialInv'
    BY <2>1 DEF SerialInv, WriterType
  <2>6. EngineType' /\ WorkerType'
    BY <1>1 DEF StoreTable, EngineType, WorkerType, engineVars, workerVars, focusVars
  <2> QED BY <2>3, <2>4, <2>5, <2>6
<1>2. CASE RefreshSettings
  <2>1. StoreType' /\ BoundInv' /\ SerialInv'
    BY <1>2 DEF RefreshSettings, StoreType, BoundInv, SerialInv, workerVars
  <2>2. WriterType'
    <3>1. settings' \in [flag : BOOLEAN, table : Tables, dirty : BOOLEAN]
      BY <1>2 DEF RefreshSettings, WriterType, StoreType
    <3> QED BY <1>2, <3>1 DEF RefreshSettings, WriterType
  <2>3. EngineType' /\ WorkerType'
    BY <1>2 DEF RefreshSettings, EngineType, WorkerType, engineVars, workerVars, focusVars
  <2> QED BY <2>1, <2>2, <2>3
<1>3. CASE HandleReload
  <2>1. StoreType' /\ BoundInv' /\ SerialInv'
    BY <1>3 DEF HandleReload, StoreType, BoundInv, SerialInv, workerVars
  <2>2. WriterType'
    BY <1>3 DEF HandleReload, WriterType
  <2>3. EngineType' /\ WorkerType'
    BY <1>3 DEF HandleReload, EngineType, WorkerType, engineVars, workerVars, focusVars
  <2> QED BY <2>1, <2>2, <2>3
<1>4. ASSUME NEW t \in Tables, PickTable(t) PROVE Inv'
  <2>1. SerialInv'
    BY <1>4, BeginSerial DEF PickTable, Writers
  <2>2. left' \in [uses : 0 .. MaxUses, focus : 0 .. MaxFocus] /\ left'.uses = left.uses - 1
    <3>1. left.uses \in 0 .. MaxUses /\ left.uses - 1 \in 0 .. MaxUses
      BY <1>4, ConstantsOK DEF PickTable, StoreType
    <3> QED BY <1>4, <3>1 DEF PickTable, StoreType
  <2>3. UNCHANGED <<shm, toml, snap, worker, stored, latched, classifying, target, active,
                    lastEpoch, seen, signal, copy, settings, refresh, reload>>
    BY <1>4 DEF PickTable, workerVars, focusVars
  <2>4. StoreType'
    BY <2>2, <2>3 DEF StoreType
  <2>5. BoundInv'
    <3>1. left.uses \in Nat /\ toml.lists \in Nat
      BY ConstantsOK DEF StoreType
    <3> QED BY <2>2, <2>3, <3>1, ConstantsOK DEF BoundInv
  <2>6. WriterType'
    <3>1. menu' \in [flag : BOOLEAN, table : Tables]
      BY <1>4 DEF PickTable, WriterType
    <3>2. /\ at' \in [Writers -> {"idle", "read", "open", "close", "store"}]
          /\ doing' \in [Writers -> Operations \cup {"none", "save"}]
          /\ overlapped' \in BOOLEAN /\ picked' \in BOOLEAN
      BY <1>4 DEF PickTable, WriterType, Operations
    <3> QED BY <2>3, <3>1, <3>2 DEF WriterType
  <2>7. EngineType' /\ WorkerType'
    BY <1>4, <2>3 DEF PickTable, EngineType, WorkerType
  <2> QED BY <2>1, <2>4, <2>5, <2>6, <2>7
<1> QED
  BY <1>1, <1>2, <1>3, <1>4

LEMMA TableOfType ==
  ASSUME NEW app, NEW global \in Tables PROVE TableOf(app, global) \in Tables
  BY ConstantsOK DEF TableOf

\* The hook thread.
LEMMA HookInv ==
  ASSUME Inv, KeyPressed \/ ApplyFocus \/ \E app \in Apps : FocusEvent(app)
  PROVE  Inv'
<1> USE DEF Inv, TypeOK
<1>1. CASE KeyPressed
  <2>1. StoreType' /\ WriterType' /\ BoundInv' /\ SerialInv'
    BY <1>1 DEF KeyPressed, StoreType, WriterType, BoundInv, SerialInv, writerVars, workerVars
  <2>2. EngineType' /\ WorkerType'
    BY <1>1 DEF KeyPressed, EngineType, WorkerType, engineVars, workerVars, focusVars
  <2> QED BY <2>1, <2>2
<1>2. CASE ApplyFocus
  <2>1. StoreType' /\ WriterType' /\ BoundInv' /\ SerialInv'
    BY <1>2 DEF ApplyFocus, StoreType, WriterType, BoundInv, SerialInv, writerVars, workerVars
  <2>2. target \in [app : Apps, table : Tables]
    BY <1>2 DEF ApplyFocus, WorkerType
  <2>3. EngineType' /\ WorkerType'
    BY <1>2, <2>2 DEF ApplyFocus, EngineType, WorkerType, workerVars
  <2> QED BY <2>1, <2>3
<1>3. ASSUME NEW app \in Apps, FocusEvent(app) PROVE Inv'
  <2>1. WriterType' /\ SerialInv'
    BY <1>3 DEF FocusEvent, WriterType, SerialInv, writerVars
  <2>2. left' \in [uses : 0 .. MaxUses, focus : 0 .. MaxFocus] /\ left'.uses = left.uses
    <3>1. left.focus \in 0 .. MaxFocus /\ left.focus - 1 \in 0 .. MaxFocus
      BY <1>3, ConstantsOK DEF FocusEvent, StoreType
    <3> QED BY <1>3, <3>1 DEF FocusEvent, StoreType
  <2>3. StoreType' /\ BoundInv'
    BY <1>3, <2>2 DEF FocusEvent, StoreType, BoundInv, workerVars
  <2>4. EngineType' /\ WorkerType'
    BY <1>3 DEF FocusEvent, EngineType, WorkerType, engineVars, workerVars
  <2> QED BY <2>1, <2>3, <2>4
<1> QED
  BY <1>1, <1>2, <1>3

\* The worker writes neither memory nor file.
LEMMA WorkerInv ==
  ASSUME Inv, WorkerStep
  PROVE  Inv'
<1> USE DEF Inv, TypeOK
<1>1. UNCHANGED <<shm, toml, at, doing, copy, menu, settings, refresh, reload, left,
                  overlapped, picked>>
  BY DEF WorkerStep, Wake, CheckEpoch, ReadState, Claim, LoadFile, PublishConfig,
     PublishLists, Diff, Classify, SyncRest, WorkerRest, writerVars
<1>2. StoreType' /\ WriterType' /\ SerialInv'
  BY <1>1 DEF StoreType, WriterType, SerialInv
<1>3. SUFFICES EngineType' /\ WorkerType' /\ snap'.epoch % 2 = 0
  BY <1>1, <1>2 DEF BoundInv
<1>4. snap.epoch % 2 = 0
  BY DEF BoundInv
<1>5. CASE Wake
  BY <1>4, <1>5 DEF Wake, EngineType, WorkerType, engineVars, focusVars
<1>6. CASE CheckEpoch
  BY <1>4, <1>6 DEF CheckEpoch, SyncRest, EngineType, WorkerType, engineVars, focusVars
<1>7. CASE ReadState
  BY <1>4, <1>7 DEF ReadState, SyncRest, Stable, EngineType, WorkerType, StoreType, engineVars,
     focusVars
<1>8. CASE Claim
  BY <1>4, <1>8 DEF Claim, SyncRest, EngineType, WorkerType, focusVars
<1>9. CASE LoadFile
  BY <1>4, <1>9 DEF LoadFile, SyncRest, EngineType, WorkerType, StoreType, engineVars, focusVars
<1>10. CASE PublishConfig
  <2>1. stored' \in [flag : BOOLEAN, table : Tables]
    BY <1>10, ConstantsOK DEF PublishConfig, Default
  <2>2. run' \in [flag : BOOLEAN, current : Tables, global : Tables, lists : 0 .. MaxUses]
    BY <1>10 DEF PublishConfig, EngineType, WorkerType, StoreType
  <2> QED BY <1>4, <1>10, <2>1, <2>2 DEF PublishConfig, SyncRest, EngineType, WorkerType, focusVars
<1>11. CASE PublishLists
  <2>1. run' \in [flag : BOOLEAN, current : Tables, global : Tables, lists : 0 .. MaxUses]
    BY <1>11, TableOfType DEF PublishLists, EngineType, StoreType
  <2> QED BY <1>4, <1>11, <2>1 DEF PublishLists, SyncRest, EngineType, WorkerType, focusVars
<1>12. CASE Diff
  <2>1. snap' \in [epoch : Nat, gen : Generations, flag : BOOLEAN, table : Tables]
        /\ snap'.epoch % 2 = 0
    BY <1>12, ConstantsOK DEF Diff, DefaultState, Generations, GenerationSize
  <2>2. run' \in [flag : BOOLEAN, current : Tables, global : Tables, lists : 0 .. MaxUses]
    BY <1>12 DEF Diff, EngineType, WorkerType, StoreType
  <2>3. seen' \in [gen : Generations, flag : BOOLEAN, table : Tables]
    BY <1>12 DEF Diff, EngineType, WorkerType
  <2> QED BY <1>12, <2>1, <2>2, <2>3 DEF Diff, SyncRest, EngineType, WorkerType, focusVars
<1>13. CASE Classify
  <2>1. target' \in [app : Apps, table : Tables] \cup {NoTarget}
    BY <1>13, TableOfType DEF Classify, EngineType, WorkerType
  <2> QED BY <1>4, <1>13, <2>1 DEF Classify, WorkerRest, EngineType, WorkerType, engineVars
<1> QED
  BY <1>5, <1>6, <1>7, <1>8, <1>9, <1>10, <1>11, <1>12, <1>13 DEF WorkerStep

LEMMA InvNext == Inv /\ [Next]_vars => Inv'
<1> SUFFICES ASSUME Inv, [Next]_vars PROVE Inv'
  OBVIOUS
<1>1. CASE UNCHANGED vars
  BY <1>1 DEF vars, writerVars, engineVars, workerVars, focusVars, Inv, TypeOK, StoreType,
     WriterType, EngineType, WorkerType, SerialInv, BoundInv
<1>2. CASE Next
  BY <1>2, WriterInv, UserInv, MainInv, HookInv, WorkerInv DEF Next
<1> QED
  BY <1>1, <1>2

\* Every variable keeps its type, and the epoch claimed is that of a finished
\* write (QuickSyncFromSharedState).
THEOREM ConfigTypeCorrect == Spec => []TypeOK
<1>1. Inv => TypeOK
  BY DEF Inv
<1> QED
  BY InvInit, InvNext, <1>1, PTL DEF Spec

\* As long as no two writers overlap the epoch is even when nobody writes, so
\* that Read can succeed (SharedStateManager::Write).
THEOREM EpochEvenBetweenWrites == Spec => []EpochEvenIfSerial
<1>1. Inv => EpochEvenIfSerial
  BY DEF Inv, SerialInv, EpochEvenIfSerial, EpochEvenAtRest, Stable
<1> QED
  BY InvInit, InvNext, <1>1, PTL DEF Spec

(***************************************************************************)
(* What the engine follows                                                 *)
(*                                                                         *)
(* Undisturbed writers bump the generation in every write, so that it      *)
(* counts the writes as the epoch does until it wraps.  The worker then    *)
(* finds the generation changed whenever it finds the epoch changed, and   *)
(* while the epoch is the one it claimed nothing has been written since.   *)
(***************************************************************************)
Writing == \E w \in Writers : at[w] = "close"
AtRest == \A w \in Writers : at[w] = "idle"

\* Writes to come: of the operation under way, with the save that an edit in
\* the settings dialog entails, and of the dialog's deferred save.
Weight == IF \E w \in Writers : doing[w] = "edit" THEN 2
          ELSE IF \E w \in Writers : doing[w] # "none" THEN 1 ELSE 0
Unsaved == IF settings.dirty THEN 1 ELSE 0

MemoryInv ==
  /\ shm.epoch = 2 * shm.gen + (IF Writing THEN 3 ELSE 2)
  /\ \A w \in Writers :
       /\ at[w] # "store" /\ doing[w] # "table"
       /\ at[w] = "idle" <=> doing[w] = "none"
       /\ at[w] \in {"open", "close"} => copy[w].gen = shm.gen + 1
  /\ shm.gen + Weight + Unsaved + 2 * left.uses <= 2 * MaxUses
  /\ shm.gen = 0 => shm.flag = FALSE /\ shm.table = Unicode
  /\ shm.gen = 0 /\ at["dialog"] = "idle" => toml.lists = 0

ClaimInv ==
  /\ lastEpoch <= shm.epoch
  /\ lastEpoch # 0 => lastEpoch = 2 * seen.gen + 2
  /\ lastEpoch = 0 =>
       /\ worker \in {"idle", "check", "read", "claim", "done"}
       /\ seen.gen = 0 /\ run.flag = FALSE /\ run.lists = 0 /\ run.global = Unicode
  /\ worker = "read" => lastEpoch < shm.epoch
  /\ worker = "claim" => /\ lastEpoch < snap.epoch /\ snap.epoch <= shm.epoch
                         /\ snap.epoch = 2 * snap.gen + 2
  /\ worker \in {"load", "publish", "lists", "diff"} => snap.epoch = lastEpoch
  /\ worker \in {"claim", "load", "publish", "lists", "diff"} /\ snap.epoch = shm.epoch =>
       snap.flag = shm.flag /\ snap.table = shm.table

\* What the engine has from where, as long as nothing was written since the
\* claim.
ResultInv ==
  shm.epoch = lastEpoch =>
    /\ worker \in {"idle", "check", "lists", "diff", "done"} => run.flag = shm.flag
    /\ worker \in {"idle", "check", "diff", "done"} /\ at["dialog"] = "idle" =>
         run.lists = toml.lists
    /\ worker = "publish" /\ AtRest => stored.table = toml.table
    /\ worker \in {"idle", "check", "lists", "diff", "done"} /\ AtRest =>
         run.global \in {toml.table, shm.table}

FollowInv == Undisturbed => MemoryInv /\ ClaimInv /\ ResultInv

LEMMA FollowInit == Init => FollowInv
<1> SUFFICES ASSUME Init PROVE FollowInv
  OBVIOUS
<1> USE ConstantsOK DEF Init, Default, DefaultFields, DefaultState, NoCopy, NoTarget
<1>1. MemoryInv
  <2>1. ~Writing /\ Weight = 0 /\ Unsaved = 0
    BY DEF Writing, Weight, Unsaved
  <2> QED
    BY <2>1 DEF MemoryInv, Writers
<1>2. ClaimInv /\ ResultInv
  BY DEF ClaimInv, ResultInv
<1> QED
  BY <1>1, <1>2 DEF FollowInv

\* A writer that is inside an operation is alone, and has a write to come.
LEMMA Alone ==
  ASSUME Inv, Undisturbed, MemoryInv, NEW w \in Writers, at[w] # "idle"
  PROVE  /\ \A v \in Writers \ {w} : at[v] = "idle" /\ doing[v] = "none"
         /\ doing[w] # "none"
         /\ Weight = IF doing[w] = "edit" THEN 2 ELSE 1
<1>1. \A v \in Writers \ {w} : at[v] = "idle"
  BY DEF Inv, SerialInv, Undisturbed
<1>2. /\ \A v \in Writers \ {w} : doing[v] = "none"
      /\ doing[w] # "none"
  BY <1>1 DEF MemoryInv
<1> QED
  BY <1>1, <1>2 DEF Weight

LEMMA NumberTypes ==
  ASSUME Inv
  PROVE  /\ shm.epoch \in Nat /\ shm.gen \in Nat /\ lastEpoch \in Nat /\ seen.gen \in Nat
         /\ snap.epoch \in Nat /\ snap.gen \in Nat /\ left.uses \in Nat /\ toml.lists \in Nat
         /\ MaxUses \in Nat
  BY ConstantsOK DEF Inv, TypeOK, StoreType, EngineType, WorkerType, Generations, GenerationSize

\* The worker's side of a step that writes neither file nor generation.
LEMMA EpochGrows ==
  ASSUME Inv, ClaimInv, shm'.epoch = shm.epoch + 1,
         UNCHANGED <<engineVars, workerVars>>
  PROVE  ClaimInv' /\ ResultInv'
<1>1. UNCHANGED <<lastEpoch, seen, run, worker, snap>>
  BY DEF engineVars, workerVars
<1>2. lastEpoch < shm'.epoch
  BY NumberTypes DEF ClaimInv
<1>3. worker \in {"claim", "load", "publish", "lists", "diff"} => snap.epoch < shm'.epoch
  BY NumberTypes DEF ClaimInv
<1>4. ClaimInv'
  BY <1>1, <1>2, <1>3, NumberTypes DEF ClaimInv
<1>5. ResultInv'
  BY <1>1, <1>2, NumberTypes DEF ResultInv
<1> QED
  BY <1>4, <1>5

LEMMA FollowWriter ==
  ASSUME 2 * MaxUses < GenerationSize, Inv, FollowInv, Undisturbed,
         NEW w \in Writers, WriterStep(w)
  PROVE  FollowInv'
<1> USE DEF FollowInv
<1>0. /\ MemoryInv /\ ClaimInv /\ ResultInv
      /\ UNCHANGED <<engineVars, workerVars, left, toml>>
      /\ at \in [Writers -> {"idle", "read", "open", "close", "store"}]
      /\ doing \in [Writers -> Operations \cup {"none", "save"}]
      /\ copy \in [Writers -> [gen : Generations, flag : BOOLEAN, table : Tables, seq : Nat]]
      /\ settings \in [flag : BOOLEAN, table : Tables, dirty : BOOLEAN]
      /\ shm \in [epoch : Nat, gen : Generations, flag : BOOLEAN, table : Tables]
  BY DEF WriterStep, Read, ReadFails, OpenWrite, CloseWrite, Inv, TypeOK, WriterType, StoreType
<1>1. /\ at[w] # "idle" /\ at[w] # "store"
      /\ \A v \in Writers \ {w} : at[v] = "idle" /\ doing[v] = "none"
      /\ doing[w] # "none" /\ doing[w] # "table"
      /\ Weight = IF doing[w] = "edit" THEN 2 ELSE 1
  <2>1. at[w] # "idle"
    BY DEF WriterStep, Read, ReadFails, OpenWrite, CloseWrite
  <2> QED
    BY <1>0, <2>1, Alone DEF MemoryInv
<1>2. Unsaved \in {0, 1} /\ shm.gen + 1 < GenerationSize
  BY <1>0, <1>1, NumberTypes DEF MemoryInv, Unsaved, GenerationSize
<1>3. CASE Read(w)
  <2>1. /\ at' = [at EXCEPT ![w] = "open"] /\ copy' = [copy EXCEPT ![w] = Changed(w)]
        /\ UNCHANGED <<doing, settings, shm>> /\ at[w] = "read"
    BY <1>3 DEF Read
  <2>2. copy'[w].gen = shm.gen + 1
    <3>1. copy'[w].gen = (shm.gen + 1) % 256
      BY <1>0, <1>1, <2>1 DEF Changed, NewGen, GenerationSize
    <3>2. shm.gen + 1 \in 0 .. 255
      BY <1>2, NumberTypes DEF GenerationSize
    <3>3. (shm.gen + 1) % 256 = shm.gen + 1
      BY <3>2
    <3> QED
      BY <3>1, <3>3
  <2>3. ~Writing /\ ~Writing' /\ Weight' = Weight /\ Unsaved' = Unsaved
    BY <1>0, <1>1, <2>1 DEF Writing, Weight, Unsaved
  <2>4. MemoryInv'
    BY <1>0, <1>1, <2>1, <2>2, <2>3 DEF MemoryInv, Writers
  <2>5. ClaimInv' /\ ResultInv'
    BY <1>0, <1>1, <2>1 DEF ClaimInv, ResultInv, AtRest, engineVars, workerVars, Writers
  <2> QED
    BY <2>4, <2>5
<1>4. CASE ReadFails(w)
  <2>1. \A v \in Writers : at[v] # "close"
    BY <1>1, <1>4 DEF ReadFails
  <2>2. Stable
    BY <2>1 DEF Inv, SerialInv, Undisturbed, Stable
  <2> QED
    BY <1>4, <2>2 DEF ReadFails
<1>5. CASE OpenWrite(w)
  <2>1. /\ at' = [at EXCEPT ![w] = "close"] /\ copy' = [copy EXCEPT ![w].seq = shm.epoch + 1]
        /\ shm' = [shm EXCEPT !.epoch = @ + 1]
        /\ UNCHANGED <<doing, settings>> /\ at[w] = "open"
    BY <1>5 DEF OpenWrite
  <2>2. /\ shm'.epoch = shm.epoch + 1 /\ shm'.gen = shm.gen
        /\ shm'.flag = shm.flag /\ shm'.table = shm.table
        /\ copy'[w].gen = copy[w].gen
    BY <1>0, <2>1
  <2>3. ~Writing /\ Writing' /\ Weight' = Weight /\ Unsaved' = Unsaved
    BY <1>0, <1>1, <2>1 DEF Writing, Weight, Unsaved
  <2>4. MemoryInv'
    BY <1>0, <1>1, <2>1, <2>2, <2>3, NumberTypes DEF MemoryInv, Writers
  <2>5. ClaimInv' /\ ResultInv'
    BY <1>0, <2>2, EpochGrows
  <2> QED
    BY <2>4, <2>5
<1>6. CASE CloseWrite(w)
  <2>1. /\ at' = [at EXCEPT ![w] = "idle"] /\ doing' = [doing EXCEPT ![w] = "none"]
        /\ shm' = [epoch |-> copy[w].seq + 1, gen |-> copy[w].gen,
                   flag |-> copy[w].flag, table |-> copy[w].table]
        /\ settings' = IF doing[w] = "edit" THEN [settings EXCEPT !.dirty = TRUE]
                       ELSE settings
        /\ at[w] = "close"
    BY <1>1, <1>6 DEF CloseWrite, AfterWrite
  <2>2. shm'.epoch = shm.epoch + 1 /\ shm'.gen = shm.gen + 1
    BY <1>0, <2>1 DEF Inv, SerialInv, Undisturbed, MemoryInv
  <2>3. /\ \A v \in Writers : at'[v] = "idle" /\ doing'[v] = "none"
        /\ Writing /\ ~Writing' /\ Weight' = 0
    BY <1>0, <1>1, <2>1 DEF Writing, Weight
  <2>4. Unsaved' \in {0, 1} /\ Unsaved' <= Unsaved + Weight - 1
    BY <1>0, <1>1, <2>1 DEF Unsaved
  <2>5. shm'.gen + Weight' + Unsaved' + 2 * left.uses <= 2 * MaxUses
    BY <1>0, <1>1, <1>2, <2>2, <2>3, <2>4, NumberTypes DEF MemoryInv
  <2>6. MemoryInv'
    BY <1>0, <2>2, <2>3, <2>5, NumberTypes DEF MemoryInv, Writers
  <2>7. ClaimInv' /\ ResultInv'
    BY <1>0, <2>2, EpochGrows
  <2> QED
    BY <2>6, <2>7
<1> QED
  BY <1>3, <1>4, <1>5, <1>6 DEF WriterStep

\* An operation that begins, with what it costs in uses and unsaved edits.
LEMMA FollowBegin ==
  ASSUME Inv, FollowInv, Undisturbed',
         NEW w \in Writers, NEW op \in {"edit", "save", "list", "menu"}, Begin(w, op),
         left'.uses \in Nat,
         (IF op = "edit" THEN 2 ELSE 1) + Unsaved' + 2 * left'.uses
           <= Unsaved + 2 * left.uses,
         w # "dialog" => toml'.lists = toml.lists
  PROVE  FollowInv'
<1> USE DEF FollowInv
<1>0. /\ MemoryInv /\ ClaimInv /\ ResultInv
      /\ UNCHANGED <<shm, copy, engineVars, workerVars>>
      /\ at \in [Writers -> {"idle", "read", "open", "close", "store"}]
      /\ doing \in [Writers -> Operations \cup {"none", "save"}]
  BY DEF Begin, Inv, TypeOK, WriterType
<1>1. /\ \A v \in Writers : at[v] = "idle" /\ doing[v] = "none"
      /\ at' = [at EXCEPT ![w] = "read"] /\ doing' = [doing EXCEPT ![w] = op]
  BY <1>0 DEF Begin, Undisturbed, MemoryInv
<1>2. /\ ~Writing /\ ~Writing' /\ Weight = 0 /\ Weight' = IF op = "edit" THEN 2 ELSE 1
  BY <1>0, <1>1 DEF Writing, Weight
<1>3. Unsaved \in {0, 1} /\ Unsaved' \in {0, 1}
  BY DEF Unsaved
<1>4. shm.gen + Weight' + Unsaved' + 2 * left'.uses <= 2 * MaxUses
  BY <1>0, <1>2, <1>3, NumberTypes DEF MemoryInv
<1>5. MemoryInv'
  BY <1>0, <1>1, <1>2, <1>4, NumberTypes DEF MemoryInv, Writers
<1>6. ClaimInv'
  BY <1>0 DEF ClaimInv, engineVars, workerVars
<1>7. at'[w] = "read" /\ ~AtRest'
  BY <1>0, <1>1 DEF AtRest
<1>8. ResultInv'
  BY <1>0, <1>1, <1>7 DEF ResultInv, engineVars, workerVars, Writers
<1> QED
  BY <1>5, <1>6, <1>8

\* A step that touches nothing the engine takes over.
LEMMA FollowFrame ==
  ASSUME FollowInv, Undisturbed' => Undisturbed,
         UNCHANGED <<shm, toml, at, doing, copy, lastEpoch, seen, worker, snap, stored>>,
         settings'.dirty = settings.dirty, left'.uses = left.uses,
         run'.flag = run.flag, run'.lists = run.lists, run'.global = run.global
  PROVE  FollowInv'
<1>1. MemoryInv => MemoryInv'
  BY DEF MemoryInv, Writing, Weight, Unsaved
<1>2. ClaimInv => ClaimInv'
  BY DEF ClaimInv
<1>3. ResultInv => ResultInv'
  BY DEF ResultInv, AtRest
<1> QED
  BY <1>1, <1>2, <1>3 DEF FollowInv

LEMMA FollowUser ==
  ASSUME Inv, FollowInv, EditSettings \/ SaveSettings \/ SaveList \/ FlipInMenu
  PROVE  FollowInv'
<1> SUFFICES ASSUME Undisturbed' PROVE FollowInv'
  BY DEF FollowInv
<1>0. /\ settings \in [flag : BOOLEAN, table : Tables, dirty : BOOLEAN]
      /\ toml \in [flag : BOOLEAN, table : Tables, lists : 0 .. MaxUses]
      /\ left \in [uses : 0 .. MaxUses, focus : 0 .. MaxFocus]
  BY DEF Inv, TypeOK, WriterType, StoreType
<1>1. ASSUME NEW w, NEW operation, Use(w, operation)
      PROVE  left'.uses \in Nat /\ left'.uses = left.uses - 1 /\ Begin(w, operation)
  <2>1. left.uses \in Nat /\ left.uses > 0 /\ left' = [left EXCEPT !.uses = @ - 1]
    BY <1>0, <1>1, NumberTypes DEF Use
  <2> QED
    BY <1>0, <1>1, <2>1 DEF Use
<1>2. CASE EditSettings
  <2>1. Use("settings", "edit") /\ toml' = toml /\ settings'.dirty = settings.dirty
    BY <1>0, <1>2 DEF EditSettings
  <2>2. Unsaved' = Unsaved /\ Unsaved \in {0, 1}
    BY <2>1 DEF Unsaved
  <2>3. 2 + Unsaved' + 2 * left'.uses <= Unsaved + 2 * left.uses
    BY <1>1, <2>1, <2>2, NumberTypes
  <2> QED
    BY <1>1, <2>1, <2>3, FollowBegin DEF Writers
<1>3. CASE SaveSettings
  <2>1. /\ Begin("settings", "save") /\ left' = left /\ toml'.lists = toml.lists
        /\ settings.dirty /\ ~settings'.dirty
    BY <1>0, <1>3 DEF SaveSettings, Save
  <2>2. Unsaved = 1 /\ Unsaved' = 0
    BY <2>1 DEF Unsaved
  <2>3. left'.uses \in Nat /\ 1 + Unsaved' + 2 * left'.uses <= Unsaved + 2 * left.uses
    BY <2>1, <2>2, NumberTypes
  <2> QED
    BY <2>1, <2>3, FollowBegin DEF Writers
<1>4. CASE SaveList
  <2>1. Use("dialog", "list") /\ settings' = settings
    BY <1>4 DEF SaveList
  <2>2. Unsaved' = Unsaved /\ Unsaved \in {0, 1}
    BY <2>1 DEF Unsaved
  <2>3. 1 + Unsaved' + 2 * left'.uses <= Unsaved + 2 * left.uses
    BY <1>1, <2>1, <2>2, NumberTypes
  <2> QED
    BY <1>1, <2>1, <2>3, FollowBegin DEF Writers
<1>5. CASE FlipInMenu
  <2>1. Use("tray", "menu") /\ settings' = settings /\ toml'.lists = toml.lists
    BY <1>0, <1>5 DEF FlipInMenu, Save
  <2>2. Unsaved' = Unsaved /\ Unsaved \in {0, 1}
    BY <2>1 DEF Unsaved
  <2>3. 1 + Unsaved' + 2 * left'.uses <= Unsaved + 2 * left.uses
    BY <1>1, <2>1, <2>2, NumberTypes
  <2> QED
    BY <1>1, <2>1, <2>3, FollowBegin DEF Writers
<1> QED
  BY <1>2, <1>3, <1>4, <1>5

LEMMA FollowOthers ==
  ASSUME Inv, FollowInv,
         \/ StoreTable \/ RefreshSettings \/ HandleReload \/ \E t \in Tables : PickTable(t)
         \/ KeyPressed \/ ApplyFocus \/ \E app \in Apps : FocusEvent(app)
  PROVE  FollowInv'
<1>0. /\ settings \in [flag : BOOLEAN, table : Tables, dirty : BOOLEAN]
      /\ run \in [flag : BOOLEAN, current : Tables, global : Tables, lists : 0 .. MaxUses]
      /\ left \in [uses : 0 .. MaxUses, focus : 0 .. MaxFocus]
  BY DEF Inv, TypeOK, WriterType, EngineType, StoreType
<1>1. CASE StoreTable
  <2>1. ~Undisturbed
    BY <1>1 DEF StoreTable, FollowInv, MemoryInv, Writers
  <2> QED
    BY <1>1, <2>1 DEF StoreTable, FollowInv, Undisturbed
<1>2. CASE RefreshSettings
  BY <1>0, <1>2, FollowFrame DEF RefreshSettings, engineVars, workerVars, Undisturbed
<1>3. CASE HandleReload
  BY <1>3, FollowFrame DEF HandleReload, engineVars, workerVars, Undisturbed
<1>4. CASE \E t \in Tables : PickTable(t)
  BY <1>4 DEF PickTable, FollowInv, Undisturbed
<1>5. CASE KeyPressed
  BY <1>5, FollowFrame DEF KeyPressed, writerVars, engineVars, workerVars, Undisturbed
<1>6. CASE ApplyFocus
  BY <1>0, <1>6, FollowFrame DEF ApplyFocus, writerVars, workerVars, Undisturbed
<1>7. CASE \E app \in Apps : FocusEvent(app)
  BY <1>0, <1>7, FollowFrame DEF FocusEvent, writerVars, engineVars, workerVars, Undisturbed
<1> QED
  BY <1>1, <1>2, <1>3, <1>4, <1>5, <1>6, <1>7

\* The worker: from one claim to the next.
LEMMA FollowWorker ==
  ASSUME Inv, FollowInv, WorkerStep
  PROVE  FollowInv'
<1> SUFFICES ASSUME Undisturbed' PROVE FollowInv'
  BY DEF FollowInv
<1>1. UNCHANGED <<shm, toml, at, doing, copy, menu, settings, refresh, reload, left,
                  overlapped, picked>>
  BY DEF WorkerStep, Wake, CheckEpoch, ReadState, Claim, LoadFile, PublishConfig,
     PublishLists, Diff, Classify, SyncRest, WorkerRest, writerVars
<1>2. MemoryInv /\ ClaimInv /\ ResultInv
  BY <1>1 DEF FollowInv, Undisturbed
<1>3. MemoryInv' /\ AtRest' = AtRest
  BY <1>1, <1>2 DEF MemoryInv, Writing, Weight, Unsaved, AtRest
<1>4. SUFFICES ClaimInv' /\ ResultInv'
  BY <1>3 DEF FollowInv
<1>5. /\ seen \in [gen : Generations, flag : BOOLEAN, table : Tables]
      /\ run \in [flag : BOOLEAN, current : Tables, global : Tables, lists : 0 .. MaxUses]
      /\ shm.epoch % 2 = 0 => ~Writing
      /\ lastEpoch % 2 = 0 /\ snap.epoch % 2 = 0
  <2>1. shm.epoch % 2 = 0 => ~Writing
    BY <1>2, NumberTypes DEF MemoryInv
  <2> QED
    BY <2>1 DEF Inv, TypeOK, EngineType, BoundInv
<1>6. CASE Wake
  BY <1>1, <1>2, <1>3, <1>6 DEF Wake, ClaimInv, ResultInv, engineVars
<1>7. CASE CheckEpoch
  <2>1. /\ worker = "check" /\ worker' \in {"done", "read"}
        /\ worker' = "read" => lastEpoch # shm.epoch
        /\ UNCHANGED <<lastEpoch, seen, run, snap, stored>>
    BY <1>5, <1>7 DEF CheckEpoch, Stable, engineVars
  <2> QED
    BY <1>1, <1>2, <1>3, <2>1, NumberTypes DEF ClaimInv, ResultInv
<1>8. CASE ReadState
  <2>1. /\ worker = "read" /\ UNCHANGED <<lastEpoch, seen, run, stored>>
        /\ \/ worker' = "claim" /\ snap' = shm /\ shm.epoch % 2 = 0
           \/ worker' = "done" /\ snap' = snap
    BY <1>8 DEF ReadState, Stable, engineVars
  <2>2. lastEpoch < shm.epoch
    BY <1>2, <2>1 DEF ClaimInv
  <2>3. shm.epoch % 2 = 0 => shm.epoch = 2 * shm.gen + 2
    BY <1>2, <1>5 DEF MemoryInv
  <2> QED
    BY <1>1, <1>2, <1>3, <2>1, <2>2, <2>3, NumberTypes DEF ClaimInv, ResultInv
<1>9. CASE Claim
  <2>1. /\ worker = "claim" /\ lastEpoch' = snap.epoch /\ seen'.gen = snap.gen
        /\ worker' = IF snap.gen /= seen.gen THEN "load" ELSE "diff"
        /\ UNCHANGED <<run, snap, stored>>
    BY <1>5, <1>9 DEF Claim
  <2>2. /\ lastEpoch < snap.epoch /\ snap.epoch <= shm.epoch
        /\ snap.epoch = 2 * snap.gen + 2 /\ snap.epoch # 0
    BY <1>2, <2>1, NumberTypes DEF ClaimInv
  <2>3. ClaimInv'
    BY <1>1, <1>2, <2>1, <2>2, NumberTypes DEF ClaimInv
  <2>4. ASSUME snap.gen = seen.gen, shm.epoch = snap.epoch
        PROVE  /\ run.flag = FALSE /\ run.lists = 0 /\ run.global = Unicode
               /\ shm.gen = 0
    <3>1. lastEpoch = 0
      BY <1>2, <2>2, <2>4, NumberTypes DEF ClaimInv
    <3>2. seen.gen = 0 /\ run.flag = FALSE /\ run.lists = 0 /\ run.global = Unicode
      BY <1>2, <3>1 DEF ClaimInv
    <3>3. shm.epoch = 2
      BY <2>2, <2>4, <3>2
    <3>4. shm.epoch = 2 * shm.gen + 2 \/ shm.epoch = 2 * shm.gen + 3
      BY <1>2 DEF MemoryInv
    <3>5. ASSUME NEW gen \in Nat, 2 = 2 * gen + 2 \/ 2 = 2 * gen + 3 PROVE gen = 0
      BY <3>5
    <3>6. shm.gen = 0
      <4>1. shm.gen \in Nat
        BY NumberTypes
      <4>2. 2 = 2 * shm.gen + 2 \/ 2 = 2 * shm.gen + 3
        BY <3>3, <3>4
      <4> QED
        BY <3>5, <4>1, <4>2
    <3> QED
      BY <3>2, <3>6
  <2>5. ResultInv'
    BY <1>1, <1>2, <1>3, <2>1, <2>4 DEF ResultInv, MemoryInv
  <2> QED
    BY <2>3, <2>5
<1>10. CASE LoadFile
  <2>1. /\ worker = "load" /\ worker' = "publish" /\ stored'.table = toml.table
        /\ UNCHANGED <<lastEpoch, seen, run, snap>>
    BY <1>10 DEF LoadFile, engineVars
  <2> QED
    BY <1>1, <1>2, <1>3, <2>1 DEF ClaimInv, ResultInv
<1>11. CASE PublishConfig
  <2>1. /\ worker = "publish" /\ worker' = "lists"
        /\ Stable => run'.flag = shm.flag
        /\ run'.global = stored.table /\ run'.lists = run.lists
        /\ UNCHANGED <<lastEpoch, seen, snap>>
    BY <1>5, <1>11 DEF PublishConfig
  <2>2. shm.epoch = lastEpoch => Stable
    BY <1>5 DEF Stable
  <2>3. ClaimInv'
    BY <1>1, <1>2, <2>1 DEF ClaimInv
  <2>4. ResultInv'
    BY <1>1, <1>2, <1>3, <2>1, <2>2 DEF ResultInv
  <2> QED
    BY <2>3, <2>4
<1>12. CASE PublishLists
  <2>1. /\ worker = "lists" /\ worker' = "diff"
        /\ run'.flag = run.flag /\ run'.global = run.global /\ run'.lists = toml.lists
        /\ UNCHANGED <<lastEpoch, seen, snap>>
    BY <1>5, <1>12 DEF PublishLists
  <2>2. ClaimInv'
    BY <1>1, <1>2, <2>1 DEF ClaimInv
  <2>3. ResultInv'
    BY <1>1, <1>2, <1>3, <2>1 DEF ResultInv
  <2> QED
    BY <2>2, <2>3
<1>13. CASE Diff
  <2>1. /\ worker = "diff" /\ worker' = "done" /\ lastEpoch' = lastEpoch
        /\ seen'.gen = seen.gen
        /\ run'.flag \in {run.flag, snap.flag}
        /\ run'.lists \in {run.lists, toml.lists}
        /\ run'.global \in {run.global, snap.table}
    <3>1. worker = "diff" /\ worker' = "done" /\ lastEpoch' = lastEpoch
      BY <1>13 DEF Diff, SyncRest
    <3>2. CASE UNCHANGED <<seen, run>>
      BY <3>1, <3>2
    <3>3. CASE ~UNCHANGED <<seen, run>>
      <4>1. seen' = [seen EXCEPT !.flag = snap.flag, !.table = snap.table]
        BY <1>13, <3>3 DEF Diff
      <4>2. PICK lists \in {run.lists, toml.lists} :
              run' = [flag |-> snap.flag, lists |-> lists, current |-> snap.table,
                      global |-> IF run.current /= snap.table
                                 THEN snap.table ELSE run.global]
        BY <1>13, <3>3 DEF Diff
      <4>3. seen'.gen = seen.gen
        BY <1>5, <4>1
      <4> QED
        BY <3>1, <4>2, <4>3
    <3> QED
      BY <3>2, <3>3
  <2>2. snap.epoch = lastEpoch /\ lastEpoch # 0
    BY <1>2, <2>1 DEF ClaimInv
  <2>3. shm.epoch = lastEpoch => snap.flag = shm.flag /\ snap.table = shm.table
    BY <1>2, <2>1, <2>2 DEF ClaimInv
  <2>4. ClaimInv'
    BY <1>1, <1>2, <2>1, <2>2 DEF ClaimInv
  <2>5. ResultInv'
    BY <1>1, <1>2, <1>3, <2>1, <2>3 DEF ResultInv
  <2> QED
    BY <2>4, <2>5
<1>14. CASE Classify
  <2>1. /\ worker = "done" /\ worker' \in {"idle", "check"}
        /\ UNCHANGED <<lastEpoch, seen, run, snap, stored>>
    BY <1>14 DEF Classify, engineVars
  <2> QED
    BY <1>1, <1>2, <1>3, <2>1 DEF ClaimInv, ResultInv
<1> QED
  BY <1>6, <1>7, <1>8, <1>9, <1>10, <1>11, <1>12, <1>13, <1>14 DEF WorkerStep

LEMMA FollowNext ==
  ASSUME 2 * MaxUses < GenerationSize
  PROVE  Inv /\ FollowInv /\ [Next]_vars => FollowInv'
<1> SUFFICES ASSUME Inv, FollowInv, [Next]_vars PROVE FollowInv'
  OBVIOUS
<1>1. CASE UNCHANGED vars
  BY <1>1, FollowFrame DEF vars, writerVars, engineVars, workerVars, Undisturbed
<1>2. ASSUME NEW w \in Writers, WriterStep(w) PROVE FollowInv'
  <2>1. Undisturbed' => Undisturbed
    BY <1>2 DEF WriterStep, Undisturbed
  <2> QED
    BY <1>2, <2>1, FollowWriter DEF FollowInv
<1> QED
  BY <1>1, <1>2, FollowUser, FollowOthers, FollowWorker DEF Next

LEMMA FollowImplies == Inv /\ FollowInv => EngineFollows
<1> SUFFICES ASSUME Inv, FollowInv, Undisturbed, CaughtUp
             PROVE  /\ run.flag = shm.flag
                    /\ at["dialog"] = "idle" => run.lists = toml.lists
                    /\ Saved => run.global = toml.table
  BY DEF EngineFollows, FlagsFollow, ListsFollow, TableFollows
<1>1. ResultInv /\ shm.epoch = lastEpoch /\ worker \in {"idle", "check", "done"}
  BY DEF FollowInv, CaughtUp
<1> QED
  BY <1>1 DEF ResultInv, Saved, AtRest

\* However the worker's reads of memory and file fall between the writes of the
\* settings dialog, the list dialogs and the menu: an engine with nothing left to
\* notice runs with the flags in memory, the lists in the file and the code table
\* of both (QuickSyncFromSharedState, ReloadFromToml).  The generation is one
\* byte, so this is for fewer writes than it takes to bring it round.
THEOREM EngineAlwaysFollows ==
  ASSUME 2 * MaxUses < GenerationSize
  PROVE  Spec => []EngineFollows
<1>1. Init => Inv /\ FollowInv
  BY InvInit, FollowInit
<1>2. (Inv /\ FollowInv) /\ [Next]_vars => (Inv /\ FollowInv)'
  BY InvNext, FollowNext
<1>3. Inv /\ FollowInv => EngineFollows
  BY FollowImplies
<1> QED
  BY <1>1, <1>2, <1>3, PTL DEF Spec

-----------------------------------------------------------------------------
(***************************************************************************)
(* The anchor.                                                             *)
(***************************************************************************)
CONSTANT Doc

\* The generation counts the writes; the fields stored so far, all of them when
\* no write is in progress, hold the payload of the last write.
ProviderInv ==
    /\ writerPc[Doc] = "idle" => generation = 2 * writes /\ writeTodo[Doc] = {}
    /\ writerPc[Doc] # "idle" => generation + 1 = 2 * writes
    /\ writing[Doc] = lastWritten[Doc]
    /\ \A f \in Fields : f \notin writeTodo[Doc] => anchor[f] = lastWritten[Doc]

\* A try that has seen an even generation has seen a whole anchor, and what it
\* has copied is that anchor's for as long as the generation stays.
ReaderInv ==
    /\ readerPc = "copy" =>
        /\ g1 <= generation
        /\ \A f, g \in Fields : opened[f] = opened[g]
        /\ generation = g1 =>
            /\ writerPc[Doc] = "idle" /\ anchor = opened
            /\ \A f \in Fields : f \notin readTodo => out[f] = opened[f]
    /\ readerPc # "idle" => result = "none" /\ tries < MaxTries
    /\ result = "read" => /\ out = opened
                          /\ \A f, g \in Fields : opened[f] = opened[g]

\* A provider without focus has cleared the anchor.
LastInv == ~isFocused[Doc] /\ writerPc[Doc] # "dead" => lastWritten[Doc] = Cleared

AnchorInv == AnchorTypeOK /\ ProviderInv /\ ReaderInv /\ LastInv

LEMMA AnchorInvInit == ASSUME Docs = {Doc} PROVE AnchorInit => AnchorInv
  BY DEF AnchorInit, AnchorInv, AnchorTypeOK, ProviderInv, ReaderInv, LastInv, Blank, Payloads, MaxTries

\* A write that begins makes the generation odd and newer than any try's.
LEMMA OpenAnchorWriteInv ==
    ASSUME Docs = {Doc}, AnchorInv, NEW x \in Payloads, writerPc[Doc] = "idle", OpenAnchorWrite(Doc, x),
           isFocused' \in [Docs -> BOOLEAN], ~isFocused'[Doc] => x = Cleared
    PROVE  AnchorInv'
<1> USE DEF AnchorInv, OpenAnchorWrite, readerVars
<1>1. AnchorTypeOK'
  BY DEF AnchorTypeOK
<1>2. ProviderInv'
  BY DEF AnchorTypeOK, ProviderInv
<1>3. ReaderInv'
  BY DEF AnchorTypeOK, ProviderInv, ReaderInv
<1>4. LastInv'
  BY DEF AnchorTypeOK, LastInv
<1> QED
  BY <1>1, <1>2, <1>3, <1>4

LEMMA AnchorInvNext == ASSUME Docs = {Doc} PROVE AnchorInv /\ [AnchorNext]_anchorVars => AnchorInv'
<1> SUFFICES ASSUME AnchorInv, [AnchorNext]_anchorVars PROVE AnchorInv'
  OBVIOUS
<1> USE DEF AnchorInv, memoryVars, providerVars, readerVars
<1>1. CASE FocusIn(Doc)
  BY <1>1 DEF FocusIn, AnchorTypeOK, ProviderInv, ReaderInv, LastInv
<1>2. CASE FocusOut(Doc)
  <2>1. isFocused' \in [Docs -> BOOLEAN] /\ ~isFocused'[Doc]
    BY <1>2 DEF FocusOut, AnchorTypeOK
  <2> QED
    BY <1>2, <2>1, OpenAnchorWriteInv DEF FocusOut, Payloads
<1>3. ASSUME NEW x \in Payloads, Edit(Doc, x) PROVE AnchorInv'
  <2>1. isFocused' \in [Docs -> BOOLEAN] /\ isFocused'[Doc]
    BY <1>3 DEF Edit, AnchorTypeOK
  <2> QED
    BY <1>3, <2>1, OpenAnchorWriteInv DEF Edit
<1>4. ASSUME NEW f \in Fields, StoreField(Doc, f) PROVE AnchorInv'
  <2> USE <1>4 DEF StoreField
  <2>1. AnchorTypeOK'
    BY DEF AnchorTypeOK
  <2>2. ProviderInv'
    BY DEF AnchorTypeOK, ProviderInv
  <2>3. ReaderInv'
    BY DEF AnchorTypeOK, ProviderInv, ReaderInv
  <2>4. LastInv'
    BY DEF LastInv
  <2> QED
    BY <2>1, <2>2, <2>3, <2>4
<1>5. CASE CloseAnchorWrite(Doc)
  <2> USE <1>5 DEF CloseAnchorWrite
  <2>1. AnchorTypeOK'
    BY DEF AnchorTypeOK
  <2>2. ProviderInv'
    BY DEF AnchorTypeOK, ProviderInv
  <2>3. ReaderInv'
    BY DEF AnchorTypeOK, ProviderInv, ReaderInv
  <2>4. LastInv'
    BY DEF AnchorTypeOK, LastInv
  <2> QED
    BY <2>1, <2>2, <2>3, <2>4
<1>6. CASE Killed(Doc)
  <2> USE <1>6 DEF Killed
  <2>1. AnchorTypeOK'
    BY DEF AnchorTypeOK
  <2>2. ProviderInv' /\ LastInv'
    BY DEF AnchorTypeOK, ProviderInv, LastInv
  <2>3. ReaderInv'
    BY DEF AnchorTypeOK, ProviderInv, ReaderInv
  <2> QED
    BY <2>1, <2>2, <2>3
<1>7. CASE ReadBegin
  BY <1>7 DEF ReadBegin, AnchorTypeOK, ProviderInv, ReaderInv, LastInv, MaxTries
<1>8. CASE LoadGeneration
  <2> USE <1>8 DEF LoadGeneration, Retry, StartCopy
  <2>1. AnchorTypeOK'
    BY DEF AnchorTypeOK, ReaderInv, MaxTries
  <2>2. ProviderInv' /\ LastInv'
    BY DEF ProviderInv, LastInv
  <2>3. CASE generation % 2 = 1
    <3>1. ReaderInv'
      BY <2>3 DEF AnchorTypeOK, ReaderInv, MaxTries
    <3> QED
      BY <2>1, <2>2, <3>1
  <2>4. CASE generation % 2 # 1
    <3>1. writerPc[Doc] = "idle"
      BY <2>4 DEF AnchorTypeOK, ProviderInv
    <3>2. ReaderInv'
      BY <2>4, <3>1 DEF AnchorTypeOK, ProviderInv, ReaderInv
    <3> QED
      BY <2>1, <2>2, <3>2
  <2> QED
    BY <2>3, <2>4
<1>9. ASSUME NEW f \in Fields, CopyField(f) PROVE AnchorInv'
  <2> USE <1>9 DEF CopyField
  <2>1. AnchorTypeOK'
    BY DEF AnchorTypeOK
  <2>2. ProviderInv' /\ LastInv'
    BY DEF ProviderInv, LastInv
  <2>3. ReaderInv'
    BY DEF AnchorTypeOK, ReaderInv
  <2> QED
    BY <2>1, <2>2, <2>3
<1>10. CASE CheckGeneration
  <2> USE <1>10 DEF CheckGeneration, Retry
  <2>1. AnchorTypeOK'
    BY DEF AnchorTypeOK, ReaderInv, MaxTries
  <2>2. ProviderInv' /\ LastInv'
    BY DEF ProviderInv, LastInv
  <2>3. CASE generation = g1
    <3>1. \A f \in Fields : out[f] = opened[f]
      BY <2>3 DEF ReaderInv
    <3>2. out = opened
      BY <3>1 DEF AnchorTypeOK
    <3>3. ReaderInv'
      BY <2>3, <3>2 DEF ReaderInv
    <3> QED
      BY <2>1, <2>2, <3>3
  <2>4. CASE generation # g1
    <3>1. ReaderInv'
      BY <2>4 DEF AnchorTypeOK, ReaderInv, MaxTries
    <3> QED
      BY <2>1, <2>2, <3>1
  <2> QED
    BY <2>3, <2>4
<1>11. CASE UNCHANGED anchorVars
  BY <1>11 DEF anchorVars, AnchorTypeOK, ProviderInv, ReaderInv, LastInv
<1> QED
  BY <1>1, <1>2, <1>3, <1>4, <1>5, <1>6, <1>7, <1>8, <1>9, <1>10, <1>11
     DEF AnchorNext, Reader, Provider

LEMMA AnchorInvariance == ASSUME Docs = {Doc} PROVE AnchorSpec => []AnchorInv
  BY AnchorInvInit, AnchorInvNext, PTL DEF AnchorSpec

\* With a single writer, a read of the anchor that succeeds returns what memory
\* held when the read began its last try.
THEOREM AnchorReadIsSnapshot == ASSUME Docs = {Doc} PROVE AnchorSpec => []ReadIsSnapshot
<1>1. AnchorInv => ReadIsSnapshot
  BY DEF AnchorInv, ReaderInv, ReadIsSnapshot
<1> QED
  BY <1>1, AnchorInvariance, PTL

\* A single process that has lost focus has left a cleared anchor behind.
THEOREM AnchorClearedWithoutFocus == ASSUME Docs = {Doc} PROVE AnchorSpec => []FocusOutClears
<1>1. AnchorInv => FocusOutClears
  BY DEF AnchorInv, AnchorTypeOK, ProviderInv, LastInv, FocusOutClears, Blank
<1> QED
  BY <1>1, AnchorInvariance, PTL

-----------------------------------------------------------------------------
(* The refinement: a write of the register is OpenAnchorWrite, its look the load of *)
(* an even generation; copying is a stutter.                                  *)

LEMMA OwnerIsDoc == ASSUME Docs = {Doc} PROVE Owner = Doc
  BY DEF Owner

LEMMA RegisterInit == ASSUME Docs = {Doc} PROVE AnchorInit => Register!Init
  BY OwnerIsDoc DEF AnchorInit, Blank, Whole, Register!Init, Register!NoAnswer

LEMMA OpenWriteIsWrite ==
    ASSUME Docs = {Doc}, AnchorInv, NEW x \in Payloads, OpenAnchorWrite(Doc, x)
    PROVE  [Register!Next]_(Register!vars)
<1>1. Whole(lastWritten'[Doc]) \in [Fields -> Payloads] /\ lastWritten'[Doc] = x
  BY DEF OpenAnchorWrite, AnchorInv, AnchorTypeOK, Whole
<1>2. Register!Write(Whole(lastWritten'[Doc]))
  BY OwnerIsDoc, <1>1 DEF OpenAnchorWrite, readerVars, Whole, Register!Write
<1> QED
  BY <1>1, <1>2 DEF Register!Next

LEMMA RegisterNext ==
    ASSUME Docs = {Doc}, AnchorInv, [AnchorNext]_anchorVars
    PROVE  [Register!Next]_(Register!vars)
<1> USE OwnerIsDoc DEF AnchorInv, memoryVars, providerVars, readerVars
<1>1. CASE FocusIn(Doc)
  BY <1>1 DEF FocusIn, Register!vars
<1>2. CASE FocusOut(Doc)
  BY <1>2, OpenWriteIsWrite DEF FocusOut, Payloads
<1>3. ASSUME NEW x \in Payloads, Edit(Doc, x) PROVE [Register!Next]_(Register!vars)
  BY <1>3, OpenWriteIsWrite DEF Edit
<1>4. ASSUME NEW f \in Fields, StoreField(Doc, f) PROVE [Register!Next]_(Register!vars)
  BY <1>4 DEF StoreField, Register!vars
<1>5. CASE CloseAnchorWrite(Doc)
  BY <1>5 DEF CloseAnchorWrite, Register!vars
<1>6. CASE Killed(Doc)
  BY <1>6 DEF Killed, Register!vars
<1>7. CASE ReadBegin
  <2>1. Register!Call
    BY <1>7 DEF ReadBegin, Register!Call, Register!NoAnswer
  <2> QED
    BY <2>1 DEF Register!Next
<1>8. CASE LoadGeneration
  <2> USE <1>8 DEF LoadGeneration, Retry, StartCopy
  <2>1. result = "none"
    BY DEF ReaderInv
  <2>2. CASE generation % 2 = 1 /\ tries + 1 < MaxTries
    BY <2>2, <2>1 DEF Register!vars
  <2>3. CASE generation % 2 = 1 /\ ~(tries + 1 < MaxTries)
    <3>1. Register!Fail
      BY <2>3 DEF Register!Fail
    <3> QED
      BY <3>1 DEF Register!Next
  <2>4. CASE generation % 2 # 1
    <3>1. writerPc[Doc] = "idle"
      BY <2>4 DEF AnchorTypeOK, ProviderInv
    <3>2. \A f \in Fields : anchor[f] = lastWritten[Doc]
      BY <3>1 DEF ProviderInv
    <3>3. anchor = Whole(lastWritten[Doc])
      BY <3>2 DEF AnchorTypeOK, Whole
    <3>4. Register!Look
      BY <2>4, <2>1, <3>3 DEF Register!Look
    <3> QED
      BY <3>4 DEF Register!Next
  <2> QED
    BY <2>2, <2>3, <2>4
<1>9. ASSUME NEW f \in Fields, CopyField(f) PROVE [Register!Next]_(Register!vars)
  <2>1. result = "none"
    BY <1>9 DEF CopyField, ReaderInv
  <2> QED
    BY <1>9, <2>1 DEF CopyField, Register!vars
<1>10. CASE CheckGeneration
  <2> USE <1>10 DEF CheckGeneration, Retry
  <2>1. result = "none"
    BY DEF ReaderInv
  <2>2. CASE generation = g1
    <3>1. \A f \in Fields : out[f] = opened[f]
      BY <2>2 DEF ReaderInv
    <3>2. out = opened
      BY <3>1 DEF AnchorTypeOK
    <3>3. Register!Return
      BY <2>2, <3>2 DEF Register!Return
    <3> QED
      BY <3>3 DEF Register!Next
  <2>3. CASE generation # g1 /\ tries + 1 < MaxTries
    <3>1. Register!Forget
      BY <2>1, <2>3 DEF Register!Forget
    <3> QED
      BY <3>1 DEF Register!Next
  <2>4. CASE generation # g1 /\ ~(tries + 1 < MaxTries)
    <3>1. Register!Fail
      BY <2>4 DEF Register!Fail
    <3> QED
      BY <3>1 DEF Register!Next
  <2> QED
    BY <2>2, <2>3, <2>4
<1>11. CASE UNCHANGED anchorVars
  BY <1>11 DEF anchorVars, Register!vars
<1> QED
  BY <1>1, <1>2, <1>3, <1>4, <1>5, <1>6, <1>7, <1>8, <1>9, <1>10, <1>11
     DEF AnchorNext, Reader, Provider

\* With a single writer the anchor's seqlock implements a register: a read that
\* succeeds returns the payload of one write, and successive reads never go
\* back, also when the writer is killed (ReadAnchor, WriteAnchor).
THEOREM AnchorIsRegister == ASSUME Docs = {Doc} PROVE AnchorSpec => IsRegister
<1>1. AnchorInit => Register!Init
  BY RegisterInit
<1>2. AnchorInv /\ [AnchorNext]_anchorVars => [Register!Next]_(Register!vars)
  BY RegisterNext
<1> QED
  BY <1>1, <1>2, AnchorInvariance, PTL DEF AnchorSpec, IsRegister, Register!Spec

-----------------------------------------------------------------------------
(* The command mailbox of the hook (HookMailbox)                             *)

\* How the lifecycle's phase, the hook thread and its queue go together.
LifeInv ==
    /\ life = "starting" <=> hookPc \in {"boot", "install"}
    /\ life = "up" => PumpAlive
    /\ life \in {"down", "reset"} => hookPc = "none"
    /\ quit => life = "joining" /\ PumpAlive
    /\ hookPc \notin {"none", "boot"} => wakeFn = starts
    /\ ~PumpAlive => wakes = 0

\* Who can be inside Post.
PostersInv ==
    /\ life # "up" => \A p \in Producers : pc[p] = "idle"
    /\ pc[Hook] # "idle" => hookPc = "pump"

\* The mailbox is pristine whenever no pump runs.
PristineInv ==
    /\ life \in {"down", "starting", "reset"} => bits = {}
    /\ life \in {"down", "starting"} => ~wakePosted

\* A set latch means a wake is on its way; a set bit means the latch is set,
\* or its poster or the running drain is between its two atomic operations.
LatchInv ==
    /\ life = "up" /\ wakePosted =>
           wakes > 0 \/ hookPc = "clear" \/ \E p \in Posters : pc[p] = "wake"
    /\ life = "up" /\ bits # {} =>
           wakePosted \/ hookPc = "take" \/ \E p \in Posters : pc[p] = "latch"

\* ConfigNotLost, from the moment HookEngine::Start created the engine; what an
\* apply takes up is never older than what is due.
ConfigInv ==
    /\ due <= config
    /\ life \in {"starting", "up"} /\ engineConfig < due /\ dropped < due =>
          \/ deferred
          \/ "config" \in bits
          \/ \E p \in Posters : cmd[p] = "config" /\ pc[p] = "setbit"

\* Snapshots are stored and applied in the order windows were classified.
FocusInv ==
    /\ \A p \in Posters : pc[p] = "publish" => p = Classifier /\ cls[p] = classified
    /\ applied <= classified /\ pendingFocus <= classified
    /\ pendingFocus # NoFocus => applied <= pendingFocus

MailboxInv == MailboxTypeOK /\ LifeInv /\ PostersInv /\ PristineInv /\ LatchInv /\ ConfigInv /\ FocusInv

\* Every initial state of the program satisfies the inductive invariant.
LEMMA InitInv == MailboxInit => MailboxInv
  <1> SUFFICES ASSUME MailboxInit PROVE MailboxInv
    OBVIOUS
  <1> USE HookAssumption, ClassifierAssumption DEF MailboxInit, Posters, Commands, NoFocus, PumpAlive
  <1>1. MailboxTypeOK BY DEF MailboxTypeOK
  <1>2. LifeInv BY DEF LifeInv
  <1>3. PostersInv BY DEF PostersInv
  <1>4. PristineInv BY DEF PristineInv
  <1>5. LatchInv BY DEF LatchInv
  <1>6. ConfigInv BY DEF ConfigInv
  <1>7. FocusInv BY DEF FocusInv
  <1> QED BY <1>1, <1>2, <1>3, <1>4, <1>5, <1>6, <1>7 DEF MailboxInv

\* Type correctness is preserved by every step of the mailbox.
LEMMA TypeStep == MailboxTypeOK /\ [MailboxNext]_channelVars => MailboxTypeOK'
  <1> SUFFICES ASSUME MailboxTypeOK, [MailboxNext]_channelVars PROVE MailboxTypeOK'
    OBVIOUS
  <1> USE DEF MailboxTypeOK, Posters, Commands, NoFocus, channelVars, mailboxVars, queueVars, postVars,
          hookVars, lifeVars
  <1>1. CASE HookStep
    <2> USE <1>1 DEF AtPump, AfterDrain
    <2>1. CASE PumpCommand
      <3>1. wakes' \in Nat BY <2>1 DEF PumpCommand
      <3> QED BY <2>1, <3>1 DEF PumpCommand
    <2>2. CASE ClearLatch BY <2>2 DEF ClearLatch
    <2>3. CASE TakeBits BY <2>3 DEF TakeBits
    <2>4. CASE DrainFocus BY <2>4 DEF DrainFocus
    <2>5. CASE DrainTick BY <2>5 DEF DrainTick
    <2>6. CASE DrainToggle BY <2>6 DEF DrainToggle
    <2>7. CASE DrainConfig BY <2>7 DEF DrainConfig
    <2>8. CASE ProcessKey
      <3>1. count' \in {count, 0} \/ count' \in 0..MaxCount BY <2>8 DEF ProcessKey
      <3>2. count' \in Nat BY <3>1, BoundAssumption
      <3> QED BY <2>8, <3>2 DEF ProcessKey
    <2>9. CASE Boot BY <2>9 DEF Boot
    <2>10. CASE InstallHooks BY <2>10 DEF InstallHooks
    <2>11. CASE PumpQuit BY <2>11 DEF PumpQuit
    <2> QED BY <2>1, <2>2, <2>3, <2>4, <2>5, <2>6, <2>7, <2>8, <2>9, <2>10, <2>11 DEF HookStep
  <1>2. CASE StopStep
    BY <1>2 DEF StopStep, ResetBits, ResetLatch
  <1>3. CASE Environment
    <2>1. CASE KeyEvent BY <2>1 DEF KeyEvent, AtPump
    <2>2. CASE MouseDown BY <2>2 DEF MouseDown, AtPump
    <2>3. CASE DrainThrows BY <2>3 DEF DrainThrows
    <2>4. CASE InstallFails BY <2>4 DEF InstallFails
    <2>5. CASE Start BY <2>5 DEF Start
    <2>6. CASE StopRequest BY <2>6 DEF StopRequest
    <2>7. ASSUME NEW p \in Posters, NEW c \in Commands, BeginPost(p, c) PROVE MailboxTypeOK'
      BY <2>7 DEF BeginPost
    <2>8. CASE ConfigThrows BY <2>8 DEF ConfigThrows
    <2>9. CASE \E p \in Producers : PublishSilently(p) BY <2>9 DEF PublishSilently
    <2> QED BY <1>3, <2>1, <2>2, <2>3, <2>4, <2>5, <2>6, <2>7, <2>8, <2>9 DEF Environment
  <1>4. ASSUME NEW p \in Posters, PostStep(p) PROVE MailboxTypeOK'
    <2>1. CASE PublishFocus(p) BY <2>1 DEF PublishFocus
    <2>2. CASE SetBit(p) BY <2>2, ZenonT(60) DEF SetBit
    <2>3. CASE ExchangeLatch(p) BY <2>3 DEF ExchangeLatch
    <2>4. CASE FireWake(p) BY <2>4 DEF FireWake
    <2> QED BY <1>4, <2>1, <2>2, <2>3, <2>4 DEF PostStep
  <1>5. CASE UNCHANGED channelVars
    BY <1>5
  <1> QED BY <1>1, <1>2, <1>3, <1>4, <1>5 DEF MailboxNext

\* Types: every reachable state of the mailbox and the drain is well typed.
THEOREM MailboxTypeCorrect == MailboxSpec => []MailboxTypeOK
  <1>1. MailboxInit => MailboxTypeOK
    BY InitInv DEF MailboxInv
  <1> QED BY <1>1, TypeStep, PTL DEF MailboxSpec

\* The lifecycle phases, the hook thread and its queue stay in step.
LEMMA LifeStep == MailboxInv /\ [MailboxNext]_channelVars => LifeInv'
  <1> SUFFICES ASSUME MailboxTypeOK, LifeInv, [MailboxNext]_channelVars PROVE LifeInv'
    BY DEF MailboxInv
  <1> USE DEF MailboxTypeOK, LifeInv, PumpAlive, channelVars, mailboxVars, queueVars, postVars,
          hookVars, lifeVars
  <1>1. CASE HookStep
    <2>1. CASE PumpCommand BY <2>1 DEF PumpCommand, AtPump
    <2>2. CASE ClearLatch \/ TakeBits BY <2>2 DEF ClearLatch, TakeBits, AfterDrain
    <2>3. CASE DrainFocus \/ DrainTick \/ DrainToggle
      BY <2>3 DEF DrainFocus, DrainTick, DrainToggle
    <2>4. CASE DrainConfig \/ ProcessKey BY <2>4 DEF DrainConfig, ProcessKey, AfterDrain
    <2>5. CASE Boot \/ InstallHooks BY <2>5 DEF Boot, InstallHooks
    <2>6. CASE PumpQuit BY <2>6 DEF PumpQuit, AtPump
    <2> QED BY <1>1, <2>1, <2>2, <2>3, <2>4, <2>5, <2>6 DEF HookStep
  <1>2. CASE StopStep BY <1>2 DEF StopStep, ResetBits, ResetLatch
  <1>3. CASE Environment
    <2>1. CASE KeyEvent \/ MouseDown BY <2>1 DEF KeyEvent, MouseDown, AtPump
    <2>2. CASE DrainThrows \/ ConfigThrows BY <2>2 DEF DrainThrows, ConfigThrows
    <2>3. CASE InstallFails \/ Start BY <2>3 DEF InstallFails, Start
    <2>4. CASE StopRequest BY <2>4 DEF StopRequest
    <2>5. CASE \E p \in Posters, c \in Commands : BeginPost(p, c) BY <2>5 DEF BeginPost
    <2>6. CASE \E p \in Producers : PublishSilently(p) BY <2>6 DEF PublishSilently
    <2> QED BY <1>3, <2>1, <2>2, <2>3, <2>4, <2>5, <2>6 DEF Environment
  <1>4. ASSUME NEW p \in Posters, PostStep(p) PROVE LifeInv'
    <2>1. CASE PublishFocus(p) \/ SetBit(p) \/ ExchangeLatch(p)
      BY <2>1 DEF PublishFocus, SetBit, ExchangeLatch
    <2>2. CASE FireWake(p) BY <2>2 DEF FireWake
    <2> QED BY <1>4, <2>1, <2>2 DEF PostStep
  <1>5. CASE UNCHANGED channelVars BY <1>5
  <1> QED BY <1>1, <1>2, <1>3, <1>4, <1>5 DEF MailboxNext

\* Only a running pump has producers inside Post, only a pump at rest the hook
\* thread.
LEMMA PostersStep == MailboxInv /\ [MailboxNext]_channelVars => PostersInv'
  <1> SUFFICES ASSUME MailboxTypeOK, LifeInv, PostersInv, [MailboxNext]_channelVars
               PROVE PostersInv'
    BY DEF MailboxInv
  <1> USE HookAssumption
      DEF MailboxTypeOK, LifeInv, PostersInv, PumpAlive, Posters, channelVars, mailboxVars, queueVars,
          postVars, hookVars, lifeVars
  <1>1. CASE HookStep
    <2>1. CASE PumpCommand BY <2>1 DEF PumpCommand, AtPump
    <2>2. CASE ClearLatch \/ TakeBits BY <2>2 DEF ClearLatch, TakeBits, AfterDrain
    <2>3. CASE DrainFocus \/ DrainTick \/ DrainToggle
      BY <2>3 DEF DrainFocus, DrainTick, DrainToggle
    <2>4. CASE DrainConfig \/ ProcessKey BY <2>4 DEF DrainConfig, ProcessKey, AfterDrain
    <2>5. CASE Boot \/ InstallHooks BY <2>5 DEF Boot, InstallHooks
    <2>6. CASE PumpQuit BY <2>6 DEF PumpQuit, AtPump
    <2> QED BY <1>1, <2>1, <2>2, <2>3, <2>4, <2>5, <2>6 DEF HookStep
  <1>2. CASE StopStep BY <1>2 DEF StopStep, ResetBits, ResetLatch
  <1>3. CASE Environment
    <2>1. CASE KeyEvent \/ MouseDown BY <2>1 DEF KeyEvent, MouseDown, AtPump
    <2>2. CASE DrainThrows \/ ConfigThrows BY <2>2 DEF DrainThrows, ConfigThrows
    <2>3. CASE InstallFails \/ Start BY <2>3 DEF InstallFails, Start
    <2>4. CASE StopRequest BY <2>4 DEF StopRequest
    <2>5. ASSUME NEW p \in Posters, NEW c \in Commands, BeginPost(p, c) PROVE PostersInv'
      BY <2>5 DEF BeginPost, MayPost
    <2>6. CASE \E p \in Producers : PublishSilently(p) BY <2>6 DEF PublishSilently
    <2> QED BY <1>3, <2>1, <2>2, <2>3, <2>4, <2>5, <2>6 DEF Environment
  <1>4. ASSUME NEW p \in Posters, PostStep(p) PROVE PostersInv'
    BY <1>4 DEF PostStep, PublishFocus, SetBit, ExchangeLatch, FireWake
  <1>5. CASE UNCHANGED channelVars BY <1>5
  <1> QED BY <1>1, <1>2, <1>3, <1>4, <1>5 DEF MailboxNext

\* No pump, no command: nobody posts while the mailbox is being reset.
LEMMA PristineStep == MailboxInv /\ [MailboxNext]_channelVars => PristineInv'
  <1> SUFFICES ASSUME MailboxTypeOK, LifeInv, PostersInv, PristineInv, [MailboxNext]_channelVars
               PROVE PristineInv'
    BY DEF MailboxInv
  <1> USE HookAssumption
      DEF MailboxTypeOK, LifeInv, PostersInv, PristineInv, PumpAlive, Posters, channelVars, mailboxVars,
          queueVars, postVars, hookVars, lifeVars
  <1>1. CASE HookStep
    <2>1. CASE PumpCommand BY <2>1 DEF PumpCommand, AtPump
    <2>2. CASE ClearLatch \/ TakeBits BY <2>2 DEF ClearLatch, TakeBits
    <2>3. CASE DrainFocus \/ DrainTick \/ DrainToggle
      BY <2>3 DEF DrainFocus, DrainTick, DrainToggle
    <2>4. CASE DrainConfig \/ ProcessKey BY <2>4 DEF DrainConfig, ProcessKey
    <2>5. CASE Boot \/ InstallHooks BY <2>5 DEF Boot, InstallHooks
    <2>6. CASE PumpQuit BY <2>6 DEF PumpQuit, AtPump
    <2> QED BY <1>1, <2>1, <2>2, <2>3, <2>4, <2>5, <2>6 DEF HookStep
  <1>2. CASE StopStep BY <1>2 DEF StopStep, ResetBits, ResetLatch
  <1>3. CASE Environment
    <2>1. CASE KeyEvent \/ MouseDown BY <2>1 DEF KeyEvent, MouseDown, AtPump
    <2>2. CASE DrainThrows \/ ConfigThrows BY <2>2 DEF DrainThrows, ConfigThrows
    <2>3. CASE InstallFails \/ Start BY <2>3 DEF InstallFails, Start
    <2>4. CASE StopRequest BY <2>4 DEF StopRequest
    <2>5. CASE \E p \in Posters, c \in Commands : BeginPost(p, c) BY <2>5 DEF BeginPost
    <2>6. CASE \E p \in Producers : PublishSilently(p) BY <2>6 DEF PublishSilently
    <2> QED BY <1>3, <2>1, <2>2, <2>3, <2>4, <2>5, <2>6 DEF Environment
  <1>4. ASSUME NEW p \in Posters, PostStep(p) PROVE PristineInv'
    BY <1>4 DEF PostStep, PublishFocus, SetBit, ExchangeLatch, FireWake
  <1>5. CASE UNCHANGED channelVars BY <1>5
  <1> QED BY <1>1, <1>2, <1>3, <1>4, <1>5 DEF MailboxNext

\* The heart of the argument: the order of the four atomic operations keeps
\* every set bit covered by the latch, and every set latch by a wake.
LEMMA LatchStep == MailboxInv /\ [MailboxNext]_channelVars => LatchInv'
  <1> SUFFICES ASSUME MailboxTypeOK, LifeInv, PostersInv, PristineInv, LatchInv,
                      [MailboxNext]_channelVars
               PROVE LatchInv'
    BY DEF MailboxInv
  <1> USE DEF LatchInv, channelVars, mailboxVars, queueVars, postVars, hookVars, lifeVars
  <1>1. CASE HookStep
    <2>1. CASE PumpCommand BY <2>1 DEF PumpCommand, AtPump, MailboxTypeOK
    <2>2. CASE ClearLatch BY <2>2 DEF ClearLatch
    <2>3. CASE TakeBits BY <2>3 DEF TakeBits, AfterDrain
    <2>4. CASE DrainFocus \/ DrainTick \/ DrainToggle
      BY <2>4 DEF DrainFocus, DrainTick, DrainToggle
    <2>5. CASE DrainConfig \/ ProcessKey BY <2>5 DEF DrainConfig, ProcessKey, AfterDrain
    <2>6. CASE Boot BY <2>6 DEF Boot, LifeInv
    <2>7. CASE InstallHooks BY <2>7 DEF InstallHooks, LifeInv, PristineInv
    <2>8. CASE PumpQuit BY <2>8 DEF PumpQuit, AtPump, LifeInv
    <2> QED BY <1>1, <2>1, <2>2, <2>3, <2>4, <2>5, <2>6, <2>7, <2>8 DEF HookStep
  <1>2. CASE StopStep BY <1>2 DEF StopStep, ResetBits, ResetLatch
  <1>3. CASE Environment
    <2>1. CASE KeyEvent \/ MouseDown BY <2>1 DEF KeyEvent, MouseDown, AtPump
    <2>2. CASE DrainThrows \/ ConfigThrows BY <2>2 DEF DrainThrows, ConfigThrows
    <2>3. CASE InstallFails \/ Start \/ StopRequest BY <2>3 DEF InstallFails, Start, StopRequest
    <2>4. ASSUME NEW p \in Posters, NEW c \in Commands, BeginPost(p, c) PROVE LatchInv'
      <3>1. \A q \in Posters : pc[q] \in {"wake", "latch"} => pc'[q] = pc[q]
        BY <2>4 DEF BeginPost, MailboxTypeOK
      <3> QED BY <2>4, <3>1 DEF BeginPost
    <2>5. CASE \E p \in Producers : PublishSilently(p) BY <2>5 DEF PublishSilently
    <2> QED BY <1>3, <2>1, <2>2, <2>3, <2>4, <2>5 DEF Environment
  <1>4. ASSUME NEW p \in Posters, PostStep(p) PROVE LatchInv'
    <2>1. \A q \in Posters \ {p} : pc'[q] = pc[q]
      BY <1>4 DEF PostStep, PublishFocus, SetBit, ExchangeLatch, FireWake, MailboxTypeOK
    <2>2. CASE PublishFocus(p)
      <3>1. \A q \in Posters : pc[q] \in {"wake", "latch"} => pc'[q] = pc[q]
        BY <2>1, <2>2 DEF PublishFocus
      <3> QED BY <2>2, <3>1 DEF PublishFocus
    <2>3. CASE SetBit(p)
      <3>1. pc'[p] = "latch" BY <2>3 DEF SetBit, MailboxTypeOK
      <3>2. \A q \in Posters : pc[q] = "wake" => pc'[q] = "wake"
        BY <2>1, <2>3 DEF SetBit
      <3> QED BY <2>3, <3>1, <3>2 DEF SetBit
    <2>4. CASE ExchangeLatch(p)
      <3>1. ~wakePosted => pc'[p] = "wake" BY <2>4 DEF ExchangeLatch, MailboxTypeOK
      <3>2. \A q \in Posters : pc[q] = "wake" => pc'[q] = "wake"
        BY <2>1, <2>4 DEF ExchangeLatch
      <3> QED BY <2>4, <3>1, <3>2 DEF ExchangeLatch
    <2>5. CASE FireWake(p)
      <3>1. life = "up" => wakes' > 0
        BY <2>5 DEF FireWake, LifeInv, PumpAlive, MailboxTypeOK
      <3>2. \A q \in Posters : pc[q] = "latch" => pc'[q] = "latch"
        BY <2>1, <2>5 DEF FireWake
      <3> QED BY <2>5, <3>1, <3>2 DEF FireWake
    <2> QED BY <1>4, <2>2, <2>3, <2>4, <2>5 DEF PostStep
  <1>5. CASE UNCHANGED channelVars BY <1>5
  <1> QED BY <1>1, <1>2, <1>3, <1>4, <1>5 DEF MailboxNext

\* A config newer than the engine's stays on its way to the engine.
LEMMA ConfigStep == MailboxInv /\ [MailboxNext]_channelVars => ConfigInv'
  <1> SUFFICES ASSUME MailboxTypeOK, LifeInv, PostersInv, ConfigInv, [MailboxNext]_channelVars
               PROVE ConfigInv'
    BY DEF MailboxInv
  <1> USE DEF ConfigInv, channelVars, mailboxVars, queueVars, postVars, hookVars, lifeVars
  <1>1. CASE HookStep
    <2>1. CASE PumpCommand \/ ClearLatch BY <2>1 DEF PumpCommand, ClearLatch
    <2>2. CASE TakeBits BY <2>2 DEF TakeBits
    <2>3. CASE DrainFocus \/ DrainTick \/ DrainToggle
      BY <2>3 DEF DrainFocus, DrainTick, DrainToggle, MailboxTypeOK
    <2>4. CASE DrainConfig \/ ProcessKey BY <2>4 DEF DrainConfig, ProcessKey, MailboxTypeOK
    <2>5. CASE Boot \/ InstallHooks BY <2>5 DEF Boot, InstallHooks, LifeInv
    <2>6. CASE PumpQuit BY <2>6 DEF PumpQuit
    <2> QED BY <1>1, <2>1, <2>2, <2>3, <2>4, <2>5, <2>6 DEF HookStep
  <1>2. CASE StopStep BY <1>2 DEF StopStep, ResetBits, ResetLatch
  <1>3. CASE Environment
    <2>1. CASE KeyEvent \/ MouseDown \/ DrainThrows \/ ConfigThrows
      BY <2>1 DEF KeyEvent, MouseDown, DrainThrows, ConfigThrows, MailboxTypeOK
    <2>2. CASE InstallFails \/ Start \/ StopRequest BY <2>2 DEF InstallFails, Start, StopRequest, MailboxTypeOK
    <2>3. ASSUME NEW p \in Posters, NEW c \in Commands, BeginPost(p, c) PROVE ConfigInv'
      <3>1. \A q \in Posters : pc[q] = "setbit" => pc'[q] = "setbit" /\ cmd'[q] = cmd[q]
        BY <2>3 DEF BeginPost, MailboxTypeOK
      <3>2. c = "config" => pc'[p] = "setbit" /\ cmd'[p] = "config"
        BY <2>3 DEF BeginPost, MailboxTypeOK
      <3> QED BY <2>3, <3>1, <3>2 DEF BeginPost, MailboxTypeOK
    <2>4. CASE \E p \in Producers : PublishSilently(p) BY <2>4 DEF PublishSilently, MailboxTypeOK
    <2> QED BY <1>3, <2>1, <2>2, <2>3, <2>4 DEF Environment
  <1>4. ASSUME NEW p \in Posters, PostStep(p) PROVE ConfigInv'
    <2>1. \A q \in Posters \ {p} : pc'[q] = pc[q]
      BY <1>4 DEF PostStep, PublishFocus, SetBit, ExchangeLatch, FireWake, MailboxTypeOK
    <2>2. CASE PublishFocus(p) \/ ExchangeLatch(p) \/ FireWake(p)
      <3>1. \A q \in Posters : pc[q] = "setbit" => pc'[q] = "setbit"
        BY <2>1, <2>2 DEF PublishFocus, ExchangeLatch, FireWake
      <3> QED BY <2>2, <3>1 DEF PublishFocus, ExchangeLatch, FireWake
    <2>3. CASE SetBit(p)
      BY <2>1, <2>3 DEF SetBit
    <2> QED BY <1>4, <2>2, <2>3 DEF PostStep
  <1>5. CASE UNCHANGED channelVars BY <1>5
  <1> QED BY <1>1, <1>2, <1>3, <1>4, <1>5 DEF MailboxNext

\* Snapshots stay numbered in the order of classification.
LEMMA FocusStep == MailboxInv /\ [MailboxNext]_channelVars => FocusInv'
  <1> SUFFICES ASSUME MailboxTypeOK, FocusInv, [MailboxNext]_channelVars PROVE FocusInv'
    BY DEF MailboxInv
  <1> USE DEF FocusInv, MailboxTypeOK, NoFocus, channelVars, mailboxVars, queueVars, postVars, hookVars,
          lifeVars
  <1>1. CASE HookStep
    <2>1. CASE PumpCommand \/ ClearLatch \/ TakeBits BY <2>1 DEF PumpCommand, ClearLatch, TakeBits
    <2>2. CASE DrainFocus BY <2>2 DEF DrainFocus
    <2>3. CASE DrainTick \/ DrainToggle \/ DrainConfig \/ ProcessKey
      BY <2>3 DEF DrainTick, DrainToggle, DrainConfig, ProcessKey
    <2>4. CASE Boot \/ InstallHooks \/ PumpQuit BY <2>4 DEF Boot, InstallHooks, PumpQuit
    <2> QED BY <1>1, <2>1, <2>2, <2>3, <2>4 DEF HookStep
  <1>2. CASE StopStep BY <1>2 DEF StopStep, ResetBits, ResetLatch
  <1>3. CASE Environment
    <2>1. CASE KeyEvent \/ MouseDown BY <2>1 DEF KeyEvent, MouseDown
    <2>2. CASE DrainThrows \/ ConfigThrows BY <2>2 DEF DrainThrows, ConfigThrows
    <2>3. CASE InstallFails \/ Start \/ StopRequest BY <2>3 DEF InstallFails, Start, StopRequest
    <2>4. ASSUME NEW p \in Posters, NEW c \in Commands, BeginPost(p, c) PROVE FocusInv'
      <3>1. \A q \in Posters : pc'[q] = "publish" =>
                \/ q = p /\ c = "focus"
                \/ q # p /\ pc[q] = "publish" /\ cls'[q] = cls[q]
        BY <2>4 DEF BeginPost
      <3>2. c = "focus" => p = Classifier /\ cls'[p] = classified' /\ classified' = classified + 1
        BY <2>4 DEF BeginPost, MayPostCommand
      <3>3. c # "focus" => classified' = classified
        BY <2>4 DEF BeginPost
      <3>4. applied' = applied /\ pendingFocus' = pendingFocus /\ classified' >= classified
        BY <2>4, <3>2, <3>3 DEF BeginPost
      <3> QED BY <3>1, <3>2, <3>3, <3>4
    <2>5. CASE \E p \in Producers : PublishSilently(p) BY <2>5 DEF PublishSilently
    <2> QED BY <1>3, <2>1, <2>2, <2>3, <2>4, <2>5 DEF Environment
  <1>4. ASSUME NEW p \in Posters, PostStep(p) PROVE FocusInv'
    BY <1>4 DEF PostStep, PublishFocus, SetBit, ExchangeLatch, FireWake
  <1>5. CASE UNCHANGED channelVars BY <1>5
  <1> QED BY <1>1, <1>2, <1>3, <1>4, <1>5 DEF MailboxNext

\* MailboxInv is inductive when the producers are stopped before the hook thread.
LEMMA InvStep == MailboxInv /\ [MailboxNext]_channelVars => MailboxInv'
  BY TypeStep, LifeStep, PostersStep, PristineStep, LatchStep, ConfigStep, FocusStep DEF MailboxInv

\* What the inductive invariant says of the properties.
LEMMA InvImplies == MailboxInv => NoStrandedCommand /\ LatchFreshAfterRestart /\ ConfigNotLost
  BY DEF MailboxInv, LatchInv, ConfigInv, NoStrandedCommand, LatchFreshAfterRestart, ConfigNotLost

\* No command is ever stranded in the mailbox: Post and DrainBits leave no
\* interleaving in which a bit is set and nothing will drain it.
THEOREM NoCommandStranded == MailboxSpec => []NoStrandedCommand
  <1>1. MailboxInv /\ [MailboxNext]_channelVars => MailboxInv' BY InvStep
  <1> QED BY <1>1, InitInv, InvImplies, PTL DEF MailboxSpec

\* ResetLatch makes a restart safe when everyone else has stopped posting.
THEOREM RestartLatchFresh == MailboxSpec => []LatchFreshAfterRestart
  <1>1. MailboxInv /\ [MailboxNext]_channelVars => MailboxInv' BY InvStep
  <1> QED BY <1>1, InitInv, InvImplies, PTL DEF MailboxSpec

\* No config published for an apply is lost between its publisher and the engine,
\* but by an exception in the apply itself.
THEOREM NoConfigLost == MailboxSpec => []ConfigNotLost
  <1>1. MailboxInv /\ [MailboxNext]_channelVars => MailboxInv' BY InvStep
  <1> QED BY <1>1, InitInv, InvImplies, PTL DEF MailboxSpec

\* Focus snapshots are applied in the order the windows were classified.
THEOREM FocusOrder == MailboxSpec => FocusNeverGoesBack
  <1>1. MailboxInv /\ [MailboxNext]_channelVars => MailboxInv' BY InvStep
  <1>2. MailboxInv /\ [MailboxNext]_channelVars => [applied' >= applied]_channelVars
    <2> SUFFICES ASSUME MailboxTypeOK, FocusInv, [MailboxNext]_channelVars PROVE applied' >= applied
      BY DEF MailboxInv
    <2> USE DEF FocusInv, MailboxTypeOK, NoFocus, channelVars, mailboxVars, queueVars, postVars, hookVars,
            lifeVars
    <2>1. CASE DrainFocus BY <2>1 DEF DrainFocus
    <2>2. CASE DrainThrows BY <2>2 DEF DrainThrows
    <2>3. CASE applied' = applied BY <2>3
    <2>4. [MailboxNext]_channelVars => DrainFocus \/ DrainThrows \/ applied' = applied
      BY DEF MailboxNext, HookStep, StopStep, Environment, PostStep, PumpCommand, ClearLatch, TakeBits,
             DrainTick, DrainToggle, DrainConfig, ProcessKey, Boot, InstallHooks, PumpQuit,
             ResetBits, ResetLatch, KeyEvent, MouseDown, ConfigThrows, InstallFails, Start,
             StopRequest, PublishSilently, BeginPost, PublishFocus, SetBit, ExchangeLatch, FireWake
    <2> QED BY <2>1, <2>2, <2>3, <2>4
  <1> QED BY <1>1, <1>2, InitInv, PTL DEF MailboxSpec, FocusNeverGoesBack

\* A snapshot is published before its bit is set, and none is left over from
\* before the first start.
ReachInv ==
    /\ \A p \in Posters : pc[p] = "publish" => cmd[p] = "focus"
    /\ starts = 0 => life = "down"
    /\ starts = 0 \/ (starts = 1 /\ life = "starting") => pendingFocus = NoFocus
    /\ FocusReachable

LEMMA ReachInit == MailboxInit => ReachInv
  BY HookAssumption, ClassifierAssumption DEF MailboxInit, ReachInv, FocusReachable, Posters, NoFocus

LEMMA ReachStep == MailboxInv /\ ReachInv /\ [MailboxNext]_channelVars => ReachInv'
  <1> SUFFICES ASSUME MailboxTypeOK, LifeInv, PostersInv, ReachInv, [MailboxNext]_channelVars PROVE ReachInv'
    BY DEF MailboxInv
  <1> USE DEF ReachInv, FocusReachable, channelVars, mailboxVars, queueVars, postVars, hookVars,
          lifeVars
  <1>1. CASE HookStep
    <2>1. CASE PumpCommand \/ ClearLatch BY <2>1 DEF PumpCommand, ClearLatch, AtPump
    <2>2. CASE TakeBits BY <2>2 DEF TakeBits, AfterDrain
    <2>3. CASE DrainFocus BY <2>3 DEF DrainFocus
    <2>4. CASE DrainTick \/ DrainToggle BY <2>4 DEF DrainTick, DrainToggle
    <2>5. CASE DrainConfig \/ ProcessKey BY <2>5 DEF DrainConfig, ProcessKey
    <2>6. CASE Boot \/ InstallHooks BY <2>6 DEF Boot, InstallHooks, LifeInv
    <2>7. CASE PumpQuit BY <2>7 DEF PumpQuit, AtPump
    <2> QED BY <1>1, <2>1, <2>2, <2>3, <2>4, <2>5, <2>6, <2>7 DEF HookStep
  <1>2. CASE StopStep BY <1>2 DEF StopStep, ResetBits, ResetLatch
  <1>3. CASE Environment
    <2>1. CASE KeyEvent \/ MouseDown BY <2>1 DEF KeyEvent, MouseDown, AtPump
    <2>2. CASE DrainThrows \/ ConfigThrows BY <2>2 DEF DrainThrows, ConfigThrows
    <2>3. CASE InstallFails \/ StopRequest BY <2>3 DEF InstallFails, StopRequest, LifeInv
    <2>4. CASE Start
      <3>1. starts' # 0 /\ (starts' = 1 => starts = 0)
        BY <2>4 DEF Start, MailboxTypeOK
      <3> QED BY <2>4, <3>1 DEF Start
    <2>5. ASSUME NEW p \in Posters, NEW c \in Commands, BeginPost(p, c) PROVE ReachInv'
      <3>1. \A q \in Posters : q # p => pc'[q] = pc[q] /\ cmd'[q] = cmd[q]
        BY <2>5 DEF BeginPost, MailboxTypeOK
      <3>2. pc[p] = "idle" /\ cmd'[p] = c /\ (pc'[p] = "publish" => c = "focus")
        BY <2>5 DEF BeginPost, MailboxTypeOK
      <3> QED BY <2>5, <3>1, <3>2 DEF BeginPost
    <2>6. CASE \E p \in Producers : PublishSilently(p) BY <2>6 DEF PublishSilently
    <2> QED BY <1>3, <2>1, <2>2, <2>3, <2>4, <2>5, <2>6 DEF Environment
  <1>4. ASSUME NEW p \in Posters, PostStep(p) PROVE ReachInv'
    <2>1. \A q \in Posters : q # p => pc'[q] = pc[q]
      BY <1>4 DEF PostStep, PublishFocus, SetBit, ExchangeLatch, FireWake, MailboxTypeOK
    <2>2. CASE PublishFocus(p)
      <3>1. cmd[p] = "focus" /\ pc'[p] = "setbit" /\ cmd' = cmd
        BY <2>2 DEF PublishFocus, MailboxTypeOK
      <3>2. ~(starts = 0 \/ (starts = 1 /\ life = "starting"))
        BY <2>2 DEF PublishFocus, LifeInv, PostersInv, Posters
      <3> QED BY <2>1, <2>2, <3>1, <3>2 DEF PublishFocus
    <2>3. CASE SetBit(p)
      BY <2>1, <2>3 DEF SetBit, MailboxTypeOK
    <2>4. CASE ExchangeLatch(p) \/ FireWake(p)
      <3>1. \A q \in Posters : pc'[q] = "publish" => pc[q] = "publish"
        BY <2>1, <2>4 DEF ExchangeLatch, FireWake, MailboxTypeOK
      <3>2. \A q \in Posters : pc[q] = "setbit" => pc'[q] = "setbit"
        BY <2>1, <2>4 DEF ExchangeLatch, FireWake, MailboxTypeOK
      <3> QED BY <2>4, <3>1, <3>2 DEF ExchangeLatch, FireWake
    <2> QED BY <1>4, <2>2, <2>3, <2>4 DEF PostStep
  <1>5. CASE UNCHANGED channelVars BY <1>5
  <1> QED BY <1>1, <1>2, <1>3, <1>4, <1>5 DEF MailboxNext

\* A focus snapshot that was published is never forgotten in the mailbox: a bit,
\* the running drain or the thread inside Post still leads to it.
THEOREM SnapshotReachable == MailboxSpec => []FocusReachable
  <1>1. MailboxInv /\ ReachInv /\ [MailboxNext]_channelVars => (MailboxInv /\ ReachInv)' BY InvStep, ReachStep
  <1>2. ReachInv => FocusReachable BY DEF ReachInv
  <1> QED BY <1>1, <1>2, InitInv, ReachInit, PTL DEF MailboxSpec

\* No step of a running hook creates engine_ again under a word in progress.
THEOREM NoSwapInsideWord == MailboxSpec => NoMidWordSwap
  <1>1. [MailboxNext]_channelVars => [engineConfig' # engineConfig /\ life = "up" => count' = 0]_channelVars
    <2> SUFFICES ASSUME MailboxNext, engineConfig' # engineConfig, life = "up" PROVE count' = 0
      OBVIOUS
    <2> USE DEF channelVars, mailboxVars, queueVars, postVars, hookVars, lifeVars
    <2>1. DrainFocus \/ DrainConfig \/ Start
      BY DEF MailboxNext, HookStep, StopStep, Environment, PostStep, PumpCommand, ClearLatch, TakeBits,
             DrainTick, DrainToggle, ProcessKey, Boot, InstallHooks, PumpQuit, ResetBits,
             ResetLatch, KeyEvent, MouseDown, DrainThrows, ConfigThrows, InstallFails, StopRequest,
             PublishSilently, BeginPost,
             PublishFocus, SetBit, ExchangeLatch, FireWake
    <2> QED BY <2>1 DEF DrainFocus, DrainConfig, Start
  <1> QED BY <1>1, PTL DEF MailboxSpec, NoMidWordSwap
=============================================================================

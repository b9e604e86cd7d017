--------------------------- MODULE ContextAnchor ---------------------------
(***************************************************************************)
(* HookContextAnchor, the document context that TSF DLLs publish in shared *)
(* memory and the hook reads for auto-capitalisation.                      *)
(*                                                                         *)
(* The anchor has a seqlock of its own: ReadAnchorSeqlock and              *)
(* WriteAnchorSeqlock, of which each access to generation and to a field   *)
(* is one step, fields in any order between the fences.  The writers are   *)
(* the ReadonlyContextProviders of the processes that get focus.           *)
(* generation wraps at 2^32, an even number of writes; a read that sleeps  *)
(* through 2^31 of them is not modelled.                                   *)
(***************************************************************************)
EXTENDS Naturals

CONSTANTS
    Docs,       \* processes whose TSF DLL publishes an anchor
    Mortal,     \* processes that may be killed while they write
    Fields,     \* the fields of the anchor
    Contexts,   \* what a document's context can be
    Cleared,    \* the all-zero anchor: isAvailable = 0
    MaxWrites   \* bound on the writes

ASSUME ClearedAssumption == Cleared \notin Contexts
ASSUME MortalAssumption == Mortal \subseteq Docs
ASSUME WritesAssumption == MaxWrites \in Nat

Payloads == Contexts \cup {Cleared}
MaxTries == 3

VARIABLES
    generation,    \* HookContextAnchor.generation
    anchor,        \* anchor[f]: the payload whose value of f is in memory
    isFocused,     \* isFocused[p]: isFocused_ of p's provider
    lastWritten,   \* lastWritten[p]: lastWritten_ of p's provider
    writing,       \* writing[p]: the payload p is writing
    writeTodo,     \* writeTodo[p]: the fields p has yet to store
    writerPc,      \* where p is inside WriteAnchorSeqlock
    writes,        \* writes begun
    readerPc,      \* where the hook thread is inside ReadAnchorSeqlock
    tries,         \* tries of the read that failed
    g1,            \* the generation the try began with
    out,           \* the copy of the running or last read
    readTodo,      \* the fields the try has yet to copy
    result,        \* what the last read returned
    opened         \* the anchor in memory when the try loaded g1

memoryVars == <<generation, anchor>>
providerVars == <<isFocused, lastWritten, writing, writeTodo, writerPc, writes>>
readerVars == <<readerPc, tries, g1, out, readTodo, result, opened>>
anchorVars == <<memoryVars, providerVars, readerVars>>

Blank == [f \in Fields |-> Cleared]

AnchorInit ==
    /\ generation = 0 /\ anchor = Blank
    /\ isFocused = [p \in Docs |-> FALSE]
    /\ lastWritten = [p \in Docs |-> Cleared] /\ writing = [p \in Docs |-> Cleared]
    /\ writeTodo = [p \in Docs |-> {}] /\ writerPc = [p \in Docs |-> "idle"]
    /\ writes = 0
    /\ readerPc = "idle" /\ tries = 0 /\ g1 = 0 /\ out = Blank /\ readTodo = {}
    /\ result = "none" /\ opened = Blank

-----------------------------------------------------------------------------
(***************************************************************************)
(* The providers.                                                          *)
(***************************************************************************)

\* WriteAnchorSeqlock up to the first fetch_add: the generation is odd now.
OpenAnchorWrite(p, x) ==
    /\ writes < MaxWrites
    /\ generation' = generation + 1
    /\ writing' = [writing EXCEPT ![p] = x]
    /\ lastWritten' = [lastWritten EXCEPT ![p] = x]
    /\ writeTodo' = [writeTodo EXCEPT ![p] = Fields]
    /\ writerPc' = [writerPc EXCEPT ![p] = "fields"]
    /\ writes' = writes + 1
    /\ UNCHANGED <<anchor, readerVars>>

\* OnSetFocus with a document: the last anchor stays until an edit.
FocusIn(p) ==
    /\ writerPc[p] = "idle"
    /\ isFocused' = [isFocused EXCEPT ![p] = TRUE]
    /\ UNCHANGED <<memoryVars, lastWritten, writing, writeTodo, writerPc, writes, readerVars>>

\* OnSetFocus without a document: the anchor is cleared, whatever it was.
FocusOut(p) ==
    /\ writerPc[p] = "idle"
    /\ isFocused' = [isFocused EXCEPT ![p] = FALSE]
    /\ OpenAnchorWrite(p, Cleared)

\* OnEndEdit: with focus, and when the payload is not the one written last.
\* The TSF_READONLY gate only makes some edits publish nothing.
Edit(p, x) ==
    /\ writerPc[p] = "idle"
    /\ isFocused[p] /\ x # lastWritten[p]
    /\ OpenAnchorWrite(p, x)
    /\ UNCHANGED isFocused

StoreField(p, f) ==
    /\ writerPc[p] = "fields" /\ f \in writeTodo[p]
    /\ anchor' = [anchor EXCEPT ![f] = writing[p]]
    /\ writeTodo' = [writeTodo EXCEPT ![p] = @ \ {f}]
    /\ UNCHANGED <<generation, isFocused, lastWritten, writing, writerPc, writes, readerVars>>

\* The second fetch_add: the generation is even again.
CloseAnchorWrite(p) ==
    /\ writerPc[p] = "fields" /\ writeTodo[p] = {}
    /\ generation' = generation + 1
    /\ writerPc' = [writerPc EXCEPT ![p] = "idle"]
    /\ UNCHANGED <<anchor, isFocused, lastWritten, writing, writeTodo, writes, readerVars>>

\* The process dies inside WriteAnchorSeqlock and never comes back.
Killed(p) ==
    /\ p \in Mortal /\ writerPc[p] = "fields"
    /\ writerPc' = [writerPc EXCEPT ![p] = "dead"]
    /\ isFocused' = [isFocused EXCEPT ![p] = FALSE]
    /\ UNCHANGED <<memoryVars, lastWritten, writing, writeTodo, writes, readerVars>>

Provider(p) ==
    \/ FocusIn(p) \/ FocusOut(p)
    \/ \E x \in Payloads : Edit(p, x)
    \/ \E f \in Fields : StoreField(p, f)
    \/ CloseAnchorWrite(p)
    \/ Killed(p)

-----------------------------------------------------------------------------
(***************************************************************************)
(* The hook thread: ReadAnchorSeqlock.                                     *)
(***************************************************************************)

ReadBegin ==
    /\ readerPc = "idle"
    /\ readerPc' = "load" /\ tries' = 0 /\ result' = "none"
    /\ UNCHANGED <<memoryVars, providerVars, g1, out, readTodo, opened>>

\* Faulty variant: the last try ends the read as if it had succeeded.
RetryGivesUp ==
    /\ tries' = tries + 1
    /\ IF tries + 1 < MaxTries
         THEN readerPc' = "load" /\ UNCHANGED result
         ELSE readerPc' = "idle" /\ result' = "read"

\* A try failed: another one, or the read returns false.
Retry ==
    /\ tries' = tries + 1
    /\ IF tries + 1 < MaxTries
         THEN readerPc' = "load" /\ UNCHANGED result
         ELSE readerPc' = "idle" /\ result' = "failed"

StartCopy == readerPc' = "copy" /\ readTodo' = Fields /\ UNCHANGED <<tries, result>>

\* g1: a write in progress ends the try.
LoadGeneration ==
    /\ readerPc = "load"
    /\ g1' = generation /\ opened' = anchor
    /\ IF generation % 2 = 1
         THEN Retry /\ UNCHANGED readTodo
         ELSE StartCopy
    /\ UNCHANGED <<memoryVars, providerVars, out>>

CopyField(f) ==
    /\ readerPc = "copy" /\ f \in readTodo
    /\ out' = [out EXCEPT ![f] = anchor[f]]
    /\ readTodo' = readTodo \ {f}
    /\ UNCHANGED <<memoryVars, providerVars, readerPc, tries, g1, result, opened>>

\* g2: a stable snapshot, or another try.
CheckGeneration ==
    /\ readerPc = "copy" /\ readTodo = {}
    /\ IF generation = g1
         THEN readerPc' = "idle" /\ result' = "read" /\ UNCHANGED tries
         ELSE Retry
    /\ UNCHANGED <<memoryVars, providerVars, g1, out, readTodo, opened>>

Reader ==
    ReadBegin \/ LoadGeneration \/ (\E f \in Fields : CopyField(f)) \/ CheckGeneration

AnchorNext == Reader \/ \E p \in Docs : Provider(p)

AnchorSpec == AnchorInit /\ [][AnchorNext]_anchorVars

-----------------------------------------------------------------------------
\* The type of every variable.
AnchorTypeOK ==
    /\ generation \in Nat /\ g1 \in Nat /\ writes \in Nat /\ tries \in 0..MaxTries
    /\ anchor \in [Fields -> Payloads] /\ out \in [Fields -> Payloads]
    /\ opened \in [Fields -> Payloads]
    /\ isFocused \in [Docs -> BOOLEAN]
    /\ lastWritten \in [Docs -> Payloads] /\ writing \in [Docs -> Payloads]
    /\ writeTodo \in [Docs -> SUBSET Fields] /\ readTodo \in SUBSET Fields
    /\ writerPc \in [Docs -> {"idle", "fields", "dead"}]
    /\ readerPc \in {"idle", "load", "copy"}
    /\ result \in {"none", "read", "failed"}

\* A read that returns true returns what was in memory at one instant of the
\* read, however many writes came and went meanwhile.
ReadIsSnapshot == result = "read" => out = opened

\* "Losing focus - invalidate anchor": while no document has focus and no write
\* is in progress, readers are told that the anchor is unavailable.
FocusOutClears ==
    (\A p \in Docs : ~isFocused[p] /\ writerPc[p] = "idle") => anchor = Blank

\* With one process writing, the seqlock is a register: the write takes effect
\* when it begins, because no read that succeeds has seen it unfinished.  Reads
\* return whole anchors, and never go back to one that an earlier read found
\* replaced (ReadAnchor, WriteAnchor).
Owner == CHOOSE p \in Docs : TRUE
Whole(x) == [f \in Fields |-> x]

Register == INSTANCE AnchorRegister WITH
    Values <- [Fields -> Payloads], Initial <- Blank, Nothing <- "nothing",
    register <- Whole(lastWritten[Owner]),
    phase <- IF readerPc = "idle" THEN "idle"
             ELSE IF readerPc = "load" THEN "called" ELSE "looked",
    looked <- IF readerPc = "copy" THEN opened ELSE "nothing",
    answer <- [result |-> result, value |-> IF result = "read" THEN out ELSE "nothing"]

IsRegister == Register!Spec
=============================================================================

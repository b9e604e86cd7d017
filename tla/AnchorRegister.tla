--------------------------- MODULE AnchorRegister ---------------------------
(***************************************************************************)
(* What ReadAnchor and WriteAnchor promise: the anchor is a register.  It  *)
(* changes at one instant, and a read that succeeds returns what it held   *)
(* at one instant of the read, so that a read never goes back behind an    *)
(* earlier one.  A read may look at the register more than once, and it    *)
(* may fail.                                                               *)
(***************************************************************************)
CONSTANTS
    Values,     \* what the register can hold
    Initial,    \* at first
    Nothing     \* no value

VARIABLES
    register,   \* the anchor
    phase,      \* a read is "idle", "called" or has "looked"
    looked,     \* what it saw
    answer      \* [result, value]: what the last read returned

vars == <<register, phase, looked, answer>>

NoAnswer == [result |-> "none", value |-> Nothing]

Init ==
    /\ register = Initial
    /\ phase = "idle" /\ looked = Nothing /\ answer = NoAnswer

Write(x) == register' = x /\ UNCHANGED <<phase, looked, answer>>

Call ==
    /\ phase = "idle"
    /\ phase' = "called" /\ answer' = NoAnswer
    /\ UNCHANGED <<register, looked>>

Look ==
    /\ phase = "called"
    /\ phase' = "looked" /\ looked' = register
    /\ UNCHANGED <<register, answer>>

Forget ==
    /\ phase = "looked"
    /\ phase' = "called" /\ looked' = Nothing
    /\ UNCHANGED <<register, answer>>

Return ==
    /\ phase = "looked"
    /\ phase' = "idle" /\ looked' = Nothing
    /\ answer' = [result |-> "read", value |-> looked]
    /\ UNCHANGED register

Fail ==
    /\ phase # "idle"
    /\ phase' = "idle" /\ looked' = Nothing
    /\ answer' = [result |-> "failed", value |-> Nothing]
    /\ UNCHANGED register

Next == (\E x \in Values : Write(x)) \/ Call \/ Look \/ Forget \/ Return \/ Fail

Spec == Init /\ [][Next]_vars
=============================================================================

--------------------------- MODULE MCHookMailbox ---------------------------
EXTENDS HookMailbox

(* Small instances of the mailbox: two producers, bounds in the .cfg files. *)
=============================================================================

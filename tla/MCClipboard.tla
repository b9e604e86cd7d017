---------------------------- MODULE MCClipboard ----------------------------
(***************************************************************************)
(* A bounded instance of Clipboard: two pieces of text, the sequential     *)
(* mode with two options, which it takes three presses to go through, and  *)
(* the conversion at once without a paste.                                 *)
(***************************************************************************)
EXTENDS Clipboard, TLC
Symmetry == Permutations(Pieces)
MCHolds == {Plain("kept"), Empty}
MCConfigs == {[sequential |-> TRUE, autoPaste |-> TRUE, options |-> <<"upper", "bare">>],
              [sequential |-> FALSE, autoPaste |-> FALSE, options |-> <<"lower">>]}
=============================================================================

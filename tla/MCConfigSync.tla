---------------------------- MODULE MCConfigSync ----------------------------
(* ConfigSync with one application that overrides the code table.          *)
EXTENDS ConfigSync

MCOverride == [a \in Apps |-> IF a = "tcvnApp" THEN "tcvn" ELSE NoTable]
=============================================================================

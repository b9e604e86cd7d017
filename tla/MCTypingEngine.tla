--------------------------- MODULE MCTypingEngine ---------------------------
(***************************************************************************)
(* Eight configurations of the engine, each with the keys that matter to it *)
(* and a bound on the length of a word.                                     *)
(***************************************************************************)
EXTENDS TypingEngine

Telex == [method |-> "Telex", spell |-> TRUE, restore |-> TRUE, bypass |-> FALSE,
          zwjf |-> FALSE, modern |-> FALSE, quick |-> FALSE, quickStart |-> FALSE,
          quickEnd |-> FALSE, exclusions |-> {}, keyMap |-> <<>>]
English == [Telex EXCEPT !.modern = TRUE]
Quick == [Telex EXCEPT !.quick = TRUE, !.quickStart = TRUE, !.zwjf = TRUE]
Free == [Telex EXCEPT !.method = "SimpleTelex", !.bypass = TRUE, !.quickEnd = TRUE]
Vni == [Telex EXCEPT !.method = "VNI", !.modern = TRUE]
\* A user who allows the abbreviation dt with a stroked d.
Combined == [Telex EXCEPT !.method = "Combined", !.spell = FALSE]
Excluding == [Telex EXCEPT !.exclusions = {<<<<"d", "Stroke", "None">>, Glyph("t")>>}]
Remapped ==
  [Telex EXCEPT !.method = "UserDefined",
     !.keyMap = [k \in {"w", "z", "q", "x", "s"} |->
        CASE k = "w" -> <<"HornOrInsertU">> [] k = "q" -> <<"HornOrInsertUNoStart">>
          [] k = "z" -> <<"UndoAllMarks">> [] k = "x" -> <<"InsertChar", "a", "Breve">>
          [] k = "s" -> <<"Tone", "Acute">>]]

MCConfigs == {Telex, English, Quick, Free, Vni, Combined, Excluding, Remapped}

MCKeysOf(c) ==
  CASE c = Telex -> {"a", "o", "u", "n", "c", "w", "s", "f"}
    [] c = English -> {"y", "e", "s", "r", "p", "w", "z", "["}
    [] c = Quick -> {"f", "c", "u", "n", "g", "s", "w"}
    [] c = Free -> {"h", "o", "a", "g", "w", "f", "k"}
    [] c = Vni -> {"a", "o", "u", "t", "1", "2", "6", "7", "8"}
    [] c = Combined -> {"e", "n", "l", "d", "5", "0", "9", "["}
    [] c = Excluding -> {"d", "t", "a", "s", "z"}
    [] c = Remapped -> {"w", "q", "z", "x", "s", "u", "a"}

MCMaxKeys(c) == CASE c = Telex -> 5 [] OTHER -> 4

MCTexts == {<<Glyph("h"), <<"o", "None", "Grave">>, Glyph("a")>>, <<Glyph("a"), Glyph("1")>>}
=============================================================================

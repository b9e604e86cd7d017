--------------------------- MODULE MCTextService ---------------------------
(***************************************************************************)
(* Three applications, two configurations, a document that ends in a word.  *)
(***************************************************************************)
EXTENDS TextService

\* The engine is the one of TypingEngine.
NoKeys(c) == {}
NoBound(c) == 0
Engine(c) == INSTANCE TypingEngine WITH
          config <- c, eng <- 0, word <- 0, out <- 0, Configs <- {}, KeysOf <- NoKeys,
          MaxKeys <- NoBound, Texts <- {}, MaxBack <- 0
MCPushChar(c, e, k) == Engine(c)!PushChar(e, k)
MCBackspace(c, e) == Engine(c)!Backspace(e)
MCSeedFrom(c, text) == Engine(c)!SeedFrom(text)
MCCommitText(c, e) == Engine(c)!CommitText(e)

Telex == [method |-> "Telex", spell |-> TRUE, restore |-> TRUE, bypass |-> FALSE,
          zwjf |-> FALSE, modern |-> FALSE, quick |-> FALSE, quickStart |-> FALSE,
          quickEnd |-> FALSE, exclusions |-> {}, keyMap |-> <<>>,
          keepChars |-> TRUE, escRestore |-> TRUE]
Custom == [Telex EXCEPT !.method = "UserDefined",
                        !.exclusions = {<<Glyph("o"), Glyph("o")>>},
                        !.keyMap = [k \in {"1"} |-> <<"Tone", "Acute">>]]
Vni == [Telex EXCEPT !.method = "VNI", !.keepChars = FALSE]

MCDefault == [Telex EXCEPT !.spell = FALSE, !.escRestore = FALSE, !.keepChars = FALSE]
MCConfigs == {Custom, Vni}
MCFresh == Engine(MCDefault)!Fresh
\* Contexts are told apart by being the same one or not.
CONSTANTS page, form
MCContexts == {page, form}
AnyContext == Permutations(MCContexts)
MCApps == {"plain", "chromium", "scintilla"}
MCDocument == <<Glyph("o")>>
MCKeys == {"o", "1", " ", "BS", "ESC", "CTRL"}
=============================================================================

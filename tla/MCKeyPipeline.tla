--------------------------- MODULE MCKeyPipeline ---------------------------
(* KeyPipeline with a little Telex: "i" and the tone "s", which puts an     *)
(* acute on an "i" before it and, typed again, takes it off.                *)
EXTENDS KeyPipeline

MCPush(shown, key) ==
  CASE key = "back" -> IF shown = <<>> THEN shown ELSE Front(shown)
    [] key = "s" /\ shown /= <<>> /\ Last(shown) = "i" ->
         Append(Front(shown), "acute")
    [] key = "s" /\ shown /= <<>> /\ Last(shown) = "acute" ->
         Front(shown) \o <<"i", "s">>
    [] OTHER -> Append(shown, key)

MCShow(keys) ==
  LET shown[n \in 0 .. Len(keys)] ==
        IF n = 0 THEN <<>> ELSE MCPush(shown[n - 1], keys[n])
  IN shown[Len(keys)]

\* A backspace takes one keystroke off, and all of them with the last letter.
MCRaw(keys) ==
  LET raw[n \in 0 .. Len(keys)] ==
        IF n = 0 \/ MCShow(SubSeq(keys, 1, n)) = <<>> THEN <<>>
        ELSE IF keys[n] = "back" THEN Front(raw[n - 1])
        ELSE Append(raw[n - 1], keys[n])
  IN raw[Len(keys)]

\* An accent in a longer word is not Vietnamese and is spelled out again.
MCCommitted(keys) ==
  IF Len(MCShow(keys)) = 1 THEN MCShow(keys)
  ELSE FoldLeft(LAMBDA t, ch : t \o IF ch = "acute" THEN <<"i", "s">> ELSE <<ch>>,
                <<>>, MCShow(keys))

MCQuick(keys) == MCShow(keys) = <<"i", "i">>

\* The hypothesis of the theorems about the screen, on short words.
ASSUME MCEmptyForgets ==
  \A g, keys \in SeqOf(Strokes, 4) :
    MCShow(g) = <<>> => /\ MCShow(g \o keys) = MCShow(keys)
                        /\ MCCommitted(g \o keys) = MCCommitted(keys)
=============================================================================

-------------------------- MODULE MCOutputDispatch --------------------------
(***************************************************************************)
(* Every kind of window with the method chosen for it, and those overrides *)
(* by the user that change the channel.                                    *)
(***************************************************************************)
EXTENDS OutputDispatch

Window(host, method, compat, keep) ==
  [host |-> host, method |-> method, compat |-> compat, keep |-> keep]

MCWindows ==
  {Window("plain", 0, FALSE, FALSE), Window("plain", 1, FALSE, FALSE),
   Window("plain", 3, FALSE, FALSE), Window("plain", 4, FALSE, FALSE),
   Window("browser", 0, FALSE, FALSE), Window("browser", 0, FALSE, TRUE),
   Window("browser", 2, FALSE, FALSE), Window("webview", 0, FALSE, FALSE),
   Window("electron", 0, FALSE, FALSE), Window("console", 0, FALSE, FALSE),
   Window("notepad", 0, TRUE, FALSE), Window("notepad", 0, FALSE, FALSE),
   Window("vb6", 0, TRUE, FALSE), Window("vb6", 0, FALSE, FALSE)}

\* The clipboard, chosen for windows with suggestions or a renderer.
ClipboardWindows ==
  {Window(host, 1, FALSE, FALSE) : host \in {"browser", "webview", "electron"}}
=============================================================================

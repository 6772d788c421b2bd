--------------------------- MODULE MCBrowserGate ---------------------------
(* Two processes with two fetching threads each, as the WebUI (run queue    *)
(* and evaluator) and a second process on the same lock directory.          *)
EXTENDS BrowserGate, TLC

CONSTANTS web, cli, w1, w2, c1, c2

TwoEach == w1 :> web @@ w2 :> web @@ c1 :> cli @@ c2 :> cli
=============================================================================

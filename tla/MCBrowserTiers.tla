--------------------------- MODULE MCBrowserTiers ---------------------------
(* Two threads (the run queue's worker and the evaluator's) behind a gate   *)
(* of one or two permits. Either each makes one fetch, of any two tiers, or *)
(* the first makes two and the second one, all of the browser tier, which   *)
(* is what it takes to overrun the ceiling. Without psutil, where nothing   *)
(* is killed, two of the pairs suffice.                                     *)
EXTENDS BrowserTiers, TLC

CONSTANTS a, b, f1, f2, f3

ThreeFetches == f1 :> a @@ f2 :> a @@ f3 :> b
OneFetch == f1 :> a

Mix(x, y, z) == f1 :> x @@ f2 :> y @@ f3 :> z
Pairs ==
    {Mix("browser", "unused", "browser"), Mix("camoufox", "unused", "camoufox"),
     Mix("uc", "unused", "uc"), Mix("browser", "unused", "camoufox"),
     Mix("browser", "unused", "uc"), Mix("camoufox", "unused", "uc")}

Mixed ==
    [tier : Pairs, capacity : {1}, psutil : {TRUE}]
      \cup [tier : Pairs \ {Mix("uc", "unused", "uc")},
            capacity : {2}, psutil : {TRUE}]
      \cup [tier : {Mix("browser", "unused", "camoufox"),
                    Mix("uc", "unused", "browser")},
            capacity : {2}, psutil : {FALSE}]
      \cup [tier : {Mix("browser", "browser", "browser")},
            capacity : {1}, psutil : {FALSE}]
OnlyBrowser == [tier : {f1 :> "browser"}, capacity : {1}, psutil : {TRUE}]
=============================================================================

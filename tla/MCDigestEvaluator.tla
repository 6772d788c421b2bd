------------------------- MODULE MCDigestEvaluator -------------------------
(* Instances of DigestEvaluator: one job under two evaluators, or two jobs  *)
(* of different periods that share a source under one.                      *)
EXTENDS DigestEvaluator, TLC

CONSTANTS j1, j2, s1, s2

TwoSources == j1 :> {s1, s2} @@ j2 :> {s1}
TwoPeriods == j1 :> 2 @@ j2 :> 3

\* The loop and the command line on one job; the loop alone on every job.
PairOrLone == {[procs |-> Proc, jobs |-> {j1}], [procs |-> Loop, jobs |-> Job]}

\* Every process on the first job.
Overlap == {[procs |-> Proc, jobs |-> {j1}]}

(* A schedule without pauses: the clock moves only while every process is   *)
(* waiting for something (the next tick, a scrape, a send), never between   *)
(* two statements that follow each other. What goes wrong under it does not *)
(* need a stalled machine.                                                  *)
Waiting(p) == ev[p].pc \in {"idle", "scrape", "await", "down", "off"}

PromptSpec ==
    Init /\ [][Next /\ (clock' # clock => \A p \in Proc : Waiting(p))]_vars
=============================================================================

---------------------------- MODULE BrowserTiers ----------------------------
(***************************************************************************)
(* The three browser tiers behind one gate: fetches of any mix of tiers,   *)
(* made by several threads, with the processes and late threads that       *)
(* earlier fetches have left behind.                                       *)
(***************************************************************************)
EXTENDS BrowserFetch, CamoufoxFetch, UcFetch

TypeOK ==
    /\ [tier |-> tier, capacity |-> capacity, psutil |-> psutil] \in Setups
    /\ permits \in 0 .. capacity
    /\ abandoned \in [{"browser", "camoufox"} -> 0 .. Cardinality(Fetch)]
    /\ main \in [Fetch -> {"idle", "gate", "watch", "kill", "grace", "count",
                           "join", "fetch", "stuck", "late", "done"}]
    /\ run \in [Fetch -> {"off", "start", "driver", "page", "gap", "read",
                          "end", "built", "finished", "lost", "sweep", "quit",
                          "fin", "over"}]
    /\ procs \subseteq Process
    /\ baseline \in [Fetch -> SUBSET Process]
    /\ frozen \in [Fetch -> SUBSET Process]
    /\ alarm \in [Fetch -> {"none", "read", "fetch", "teardown"}]
    /\ claimed \in [Fetch -> {"none", "main", "run"}]
    /\ holder \in [Fetch -> {"none", "result", "error"}]
    /\ counted \in [Fetch -> BOOLEAN]
    /\ outcome \in [Fetch -> {"none", "refused", "gate", "watchdog", "result",
                              "error"}]

TierStep(f) == BrowserTier(f) \/ CamoufoxTier(f) \/ UcTier(f)

SharedStep(f) ==
    \/ Refuse(f) \/ Pass(f) \/ GateFails(f)
    \/ Deadline(f) \/ Fire(f) \/ Await(f) \/ Return(f)

AllOver == \A f \in Fetch :
    (main[f] = "done" \/ tier[f] = "unused") /\ run[f] \in {"off", "over"}

Next ==
    \/ \E f \in Fetch : SharedStep(f) \/ TierStep(f)
    \/ AllOver /\ UNCHANGED vars

Spec == Init /\ [][Next]_vars

(* The calling thread runs and its clock reaches the deadlines; the fetch   *)
(* thread's own Python code runs. Nothing is assumed of the drivers and the *)
(* browsers: a launch, a navigation, a read or a quit may hang for ever.    *)
Fairness ==
    \A f \in Fetch :
        /\ WF_vars(Fire(f) \/ Await(f) \/ Return(f) \/ BrowserMain(f)
                   \/ CamoufoxMain(f) \/ UcMain(f))
        /\ WF_vars(Deadline(f))
        /\ WF_vars(BrowserRun(f) \/ CamoufoxRun(f) \/ UcRun(f))

FairSpec == Spec /\ Fairness

-----------------------------------------------------------------------------
(* Properties                                                               *)

\* A thread the ceiling should still count.
Abandoned(f) ==
    counted[f] /\ IF IsCamoufox(f) THEN StillRunning(f) ELSE Alive(f)

\* Each tier's ceiling counts exactly its abandoned threads that still work,
\* in whatever order a late thread finishes and its caller counts it: the
\* count neither sticks after the thread is gone nor drops below what is left.
CountExact ==
    \A t \in {"browser", "camoufox"} :
        abandoned[t] =
            Cardinality({f \in Fetch : tier[f] = t /\ Abandoned(f)})

\* The ceiling is tested before the gate is waited for, so it can be overrun,
\* but only by the fetches in flight, at most one per calling thread.
CeilingHolds ==
    \A t \in {"browser", "camoufox"} :
        Cardinality({f \in Fetch : tier[f] = t /\ (Abandoned(f) \/ InFetch(f))})
            <= (MaxAbandoned - 1) + Cardinality(Caller)

\* A caller that reads the holder finds an outcome there: no interleaving of
\* deadline, completion and cleanup leaves it empty (a KeyError).
HolderFilled ==
    \A f \in Fetch : main[f] = "done" => outcome[f] # "none"

\* A sweep by novelty, by frozen identity or by a thread that has outlived its
\* fetch never kills a process of another fetch that holds the gate.
KillsSpareOthers ==
    [][\A f \in Fetch :
         HoldsGate(f) /\ main'[f] = main[f] /\ run'[f] = run[f]
             => Own(f) \subseteq procs']_vars

\* Once the thread of a fetch that ran into its deadline has ended, its
\* browser is gone, also one that came up after every sweep of its caller.
LateBrowserGone ==
    \A f \in Fetch :
        psutil /\ outcome[f] = "watchdog" /\ ~Alive(f)
            => <<f, "browser">> \notin procs

\* A fetch that passed the gate ends, even if its browser is frozen.
FetchEnds == \A f \in Fetch : HoldsGate(f) ~> (main[f] = "done")

\* The gate is held while a browser of the fetch could be alive.
GateCoversBrowser ==
    \A f \in Fetch : <<f, "browser">> \in procs => InFetch(f)

=============================================================================

------------------------------- MODULE UcFetch ------------------------------
(***************************************************************************)
(* The undetected-chromedriver tier's own steps                            *)
(* (autolycos/adapters/uc.py). A fetch has two phases behind one gate:     *)
(* the launch, whose thread races the launch deadline for the claim, and   *)
(* the navigation, whose worker is judged by whether it is alive at the    *)
(* fetch deadline. Chrome carries the marker; its driver process is a      *)
(* sibling that carries none and is replaced in the middle of a            *)
(* navigation.                                                             *)
(***************************************************************************)
EXTENDS FetchCycle

IsUc(f) == tier[f] = "uc"

UcEnter(f) ==
    /\ IsUc(f)
    /\ psutil
    /\ Enter(f)
    /\ baseline' = [baseline EXCEPT ![f] = procs]
    /\ UNCHANGED <<machine, abandoned, procs, frozen, alarm, claimed, holder,
                   counted, outcome>>

\* The snapshot is not guarded: without psutil the fetch fails at the gate.
NoSnapshot(f) ==
    /\ IsUc(f)
    /\ ~psutil
    /\ main[f] = "gate"
    /\ permits > 0
    /\ Stop(f, "error")
    /\ UNCHANGED <<machine, permits, abandoned, run, procs, kills, alarm,
                   claimed, holder, counted>>

-----------------------------------------------------------------------------
(* The launch thread, _construct()                                          *)

\* Chrome and its driver come up in either order, again after a failed try.
Construct(f, kind) ==
    /\ IsUc(f)
    /\ run[f] = "start"
    /\ <<f, kind>> \notin procs
    /\ Spawn({<<f, kind>>})
    /\ UNCHANGED <<machine, permits, abandoned, main, run, alarm, claimed,
                   holder, counted, outcome>>

Constructed(f, o) ==
    /\ IsUc(f)
    /\ run[f] = "start"
    /\ run' = [run EXCEPT ![f] = "built"]
    /\ holder' = [holder EXCEPT ![f] = o]
    /\ UNCHANGED <<machine, permits, abandoned, main, procs, kills, alarm,
                   claimed, counted, outcome>>

DriverBuilt(f) == Cardinality(Own(f)) = 2 /\ Constructed(f, "result")
ConstructRaises(f) == Constructed(f, "error")

\* A loser with a driver quits it before it sweeps.
ClaimLaunch(f) ==
    /\ IsUc(f)
    /\ run[f] = "built"
    /\ ThreadClaim(f, "over", IF holder[f] = "result" THEN "lost" ELSE "sweep")
    /\ UNCHANGED <<machine, permits, abandoned, main, procs, kills, alarm,
                   counted, outcome>>

QuitLate(f) ==
    /\ IsUc(f)
    /\ run[f] = "lost"
    /\ run' = [run EXCEPT ![f] = "sweep"]
    /\ Kill(Own(f))
    /\ UNCHANGED <<machine, permits, abandoned, main, kills, alarm, claimed,
                   holder, counted, outcome>>

\* Faulty variant: the late loser only kills what was frozen at the deadline.
LateTargetsFrozen(f) == frozen[f]

\* Never by novelty: the gate may belong to another launch by now.
LateTargets(f) == Marked(f) \cup frozen[f]

\* _cleanup_after_losing_the_claim: after the deadline's own sweep, or after
\* waiting for it long enough.
SweepLate(f) ==
    /\ IsUc(f)
    /\ run[f] = "sweep"
    /\ run' = [run EXCEPT ![f] = "over"]
    /\ Kill(LateTargets(f))
    /\ UNCHANGED <<machine, permits, abandoned, main, kills, alarm, claimed,
                   holder, counted, outcome>>

-----------------------------------------------------------------------------
(* The launch deadline                                                      *)

KillLaunch(f) ==
    /\ IsUc(f)
    /\ main[f] = "kill"
    /\ Kill(Marked(f) \cup Novel(f))
    /\ IF SingleFlight
         THEN /\ main' = [main EXCEPT ![f] = "grace"]
              /\ UNCHANGED <<permits, outcome>>
         ELSE Leave(f, "watchdog")
    /\ UNCHANGED <<machine, abandoned, run, kills, alarm, claimed, holder,
                   counted>>

\* After the sweep delay: freeze what has come up since, and kill it.
SweepLaunch(f) ==
    /\ IsUc(f)
    /\ main[f] = "grace"
    /\ frozen' = [frozen EXCEPT ![f] = Marked(f) \cup Novel(f)]
    /\ Kill(Marked(f) \cup Novel(f))
    /\ Leave(f, "watchdog")
    /\ UNCHANGED <<machine, abandoned, run, baseline, alarm, claimed, holder,
                   counted>>

\* A launch that failed in time is raised as it is.
LaunchFailed(f) ==
    /\ IsUc(f)
    /\ main[f] = "join"
    /\ ~Alive(f)
    /\ holder[f] # "result"
    /\ Leave(f, holder[f])
    /\ UNCHANGED <<machine, abandoned, run, procs, kills, alarm, claimed,
                   holder, counted>>

\* The driver is at hand: its siblings are frozen and the worker starts.
StartWorker(f) ==
    /\ IsUc(f)
    /\ main[f] = "join"
    /\ ~Alive(f)
    /\ holder[f] = "result"
    /\ frozen' = [frozen EXCEPT ![f] = Marked(f) \cup Novel(f)]
    /\ main' = [main EXCEPT ![f] = "fetch"]
    /\ run' = [run EXCEPT ![f] = "page"]
    /\ holder' = [holder EXCEPT ![f] = "none"]
    /\ alarm' = [alarm EXCEPT ![f] = "none"]
    /\ UNCHANGED <<machine, permits, abandoned, procs, baseline, claimed,
                   counted, outcome>>

\* The worker cannot be started: the cleanup of a timeout, without a thread.
WorkerFails(f) ==
    /\ IsUc(f)
    /\ main[f] = "join"
    /\ ~Alive(f)
    /\ holder[f] = "result"
    /\ frozen' = [frozen EXCEPT ![f] = Marked(f) \cup Novel(f)]
    /\ Kill(Own(f) \cup Novel(f))
    /\ Leave(f, "error")
    /\ UNCHANGED <<machine, abandoned, run, baseline, alarm, claimed, holder,
                   counted>>

-----------------------------------------------------------------------------
(* The worker, _run(): navigate, read, quit                                 *)

Worker(f, from, to) ==
    /\ IsUc(f)
    /\ run[f] \in from
    /\ run' = [run EXCEPT ![f] = to]
    /\ UNCHANGED <<machine, permits, abandoned, main, alarm, claimed, counted,
                   outcome>>

\* uc_open_with_reconnect stops the driver service ...
Disconnect(f) ==
    /\ Worker(f, {"page"}, "gap")
    /\ Kill({<<f, "helper">>})
    /\ UNCHANGED <<kills, holder>>

\* ... and starts a new one.
Reconnect(f) ==
    /\ Worker(f, {"gap"}, "read")
    /\ Spawn({<<f, "helper">>})
    /\ UNCHANGED holder

PageRead(f) ==
    /\ Worker(f, {"read"}, "quit")
    /\ Cardinality(Own(f)) = 2
    /\ holder' = [holder EXCEPT ![f] = "result"]
    /\ UNCHANGED <<procs, kills>>

WorkerRaises(f) ==
    /\ Worker(f, {"page", "gap", "read"}, "quit")
    /\ holder' = [holder EXCEPT ![f] = "error"]
    /\ UNCHANGED <<procs, kills>>

Quit(f) ==
    /\ Worker(f, {"quit"}, "over")
    /\ Kill(Own(f))
    /\ UNCHANGED <<kills, holder>>

-----------------------------------------------------------------------------
(* The fetch deadline                                                       *)

\* Faulty variant: whether the page was read is asked after the cleanup.
TeardownOnlyLate(f) == TRUE

\* done.is_set(), read at the deadline.
TeardownOnly(f) == run[f] = "quit"

FetchFires(f) ==
    /\ IsUc(f)
    /\ main[f] = "fetch"
    /\ alarm[f] = "fetch"
    /\ Alive(f)
    /\ alarm' = [alarm EXCEPT ![f] = IF TeardownOnly(f) THEN "teardown" ELSE @]
    /\ main' = [main EXCEPT ![f] = "stuck"]
    /\ UNCHANGED <<machine, permits, abandoned, run, procs, kills, claimed,
                   holder, counted, outcome>>

Verdict(f) == IF alarm[f] = "teardown" THEN holder[f] ELSE "watchdog"

\* _kill_after_fetch_timeout: by marker, by frozen identity, by service pid.
KillFetch(f) ==
    /\ IsUc(f)
    /\ main[f] = "stuck"
    /\ Kill(Own(f) \cup frozen[f])
    /\ IF SingleFlight
         THEN /\ main' = [main EXCEPT ![f] = "late"]
              /\ UNCHANGED <<permits, outcome>>
         ELSE Leave(f, Verdict(f))
    /\ UNCHANGED <<machine, abandoned, run, kills, alarm, claimed, holder,
                   counted>>

\* _late_sweep: at the worker's end, or at the ceiling of the delay.
LateSweep(f) ==
    /\ IsUc(f)
    /\ main[f] = "late"
    /\ Kill(Marked(f) \cup Novel(f))
    /\ Leave(f, Verdict(f))
    /\ UNCHANGED <<machine, abandoned, run, kills, alarm, claimed, holder,
                   counted>>

\* The worker has ended, its driver quit: the outcome is the worker's.
FetchReturns(f) ==
    /\ IsUc(f)
    /\ main[f] = "fetch"
    /\ ~Alive(f)
    /\ Leave(f, holder[f])
    /\ UNCHANGED <<machine, abandoned, run, procs, kills, alarm, claimed,
                   holder, counted>>

-----------------------------------------------------------------------------
UcMain(f) ==
    \/ KillLaunch(f) \/ SweepLaunch(f) \/ LaunchFailed(f) \/ StartWorker(f)
    \/ WorkerFails(f) \/ FetchFires(f) \/ KillFetch(f) \/ LateSweep(f)
    \/ FetchReturns(f)

UcRun(f) == ClaimLaunch(f) \/ SweepLate(f)

UcTier(f) ==
    \/ UcEnter(f) \/ NoSnapshot(f) \/ UcMain(f) \/ UcRun(f) \/ QuitLate(f)
    \/ \E kind \in {"helper", "browser"} : Construct(f, kind)
    \/ DriverBuilt(f) \/ ConstructRaises(f)
    \/ Disconnect(f) \/ Reconnect(f) \/ PageRead(f) \/ WorkerRaises(f) \/ Quit(f)
=============================================================================

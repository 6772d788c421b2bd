---------------------------- MODULE CamoufoxFetch ---------------------------
(***************************************************************************)
(* The Camoufox tier's own steps (autolycos/adapters/camoufox.py). Unlike  *)
(* the browser tier, the ceiling rises at the deadline and falls when the  *)
(* thread has ended its work, before the thread claims the fetch; behind a *)
(* gate of one permit the kill also reaches a driver whose Firefox does    *)
(* not exist yet; a second pass after the grace takes what was spawned     *)
(* meanwhile, and the driver.                                              *)
(***************************************************************************)
EXTENDS FetchCycle

IsCamoufox(f) == tier[f] = "camoufox"

\* Not installed, another build than expected, or one below the floor.
NotReady(f) ==
    /\ IsCamoufox(f)
    /\ main[f] = "gate"
    /\ Stop(f, "gate")
    /\ UNCHANGED <<machine, permits, abandoned, run, procs, kills, alarm,
                   claimed, holder, counted>>

\* The snapshot is taken behind the gate, before the thread starts.
CamoufoxEnter(f) ==
    /\ IsCamoufox(f)
    /\ Enter(f)
    /\ baseline' = [baseline EXCEPT ![f] = IF SingleFlight THEN procs ELSE {}]
    /\ UNCHANGED <<machine, abandoned, procs, frozen, alarm, claimed, holder,
                   counted, outcome>>

-----------------------------------------------------------------------------
(* _drive(): the proxy, the driver, Firefox, one page                       *)

StartDriver(f) ==
    /\ IsCamoufox(f)
    /\ run[f] = "start"
    /\ run' = [run EXCEPT ![f] = "driver"]
    /\ Spawn({<<f, "helper">>})
    /\ UNCHANGED <<machine, permits, abandoned, main, alarm, claimed, holder,
                   counted, outcome>>

StartFirefox(f) ==
    /\ IsCamoufox(f)
    /\ run[f] = "driver"
    /\ <<f, "helper">> \in procs
    /\ run' = [run EXCEPT ![f] = "page"]
    /\ Spawn({<<f, "browser">>})
    /\ UNCHANGED <<machine, permits, abandoned, main, alarm, claimed, holder,
                   counted, outcome>>

\* Both blocks are left and Firefox and the driver are stopped.
EndDrive(f, o) ==
    /\ run' = [run EXCEPT ![f] = "end"]
    /\ Kill(Own(f))
    /\ holder' = [holder EXCEPT ![f] = o]
    /\ UNCHANGED <<machine, permits, abandoned, main, kills, alarm, claimed,
                   counted, outcome>>

\* _render: the settled document is the requested one and within the cap.
Rendered(f) ==
    /\ IsCamoufox(f)
    /\ run[f] = "page"
    /\ Marked(f) # {}
    /\ EndDrive(f, "result")

DriveRaises(f) ==
    /\ IsCamoufox(f)
    /\ run[f] \in {"start", "driver", "page"}
    /\ EndDrive(f, "error")

\* Faulty variant: the thread forgets to give back its place.
ReturnedNone(f) == 0

Returned(f) == IF counted[f] THEN 1 ELSE 0

\* Under the lock of the count, before the claim.
FinishDrive(f) ==
    /\ IsCamoufox(f)
    /\ run[f] = "end"
    /\ run' = [run EXCEPT ![f] = "finished"]
    /\ abandoned' = [abandoned EXCEPT !["camoufox"] = @ - Returned(f)]
    /\ UNCHANGED <<machine, permits, main, procs, kills, alarm, claimed,
                   holder, counted, outcome>>

ClaimDrive(f) ==
    /\ IsCamoufox(f)
    /\ run[f] = "finished"
    /\ ThreadClaim(f, "over", "lost")
    /\ UNCHANGED <<machine, permits, abandoned, main, procs, kills, alarm,
                   counted, outcome>>

\* The loser kills by marker alone: the gate may be another fetch's by now.
SweepDrive(f) ==
    /\ IsCamoufox(f)
    /\ run[f] = "lost"
    /\ run' = [run EXCEPT ![f] = "over"]
    /\ Kill(IF psutil THEN Marked(f) \cup Driver(f) ELSE {})
    /\ UNCHANGED <<machine, permits, abandoned, main, kills, alarm, claimed,
                   holder, counted, outcome>>

-----------------------------------------------------------------------------
(* The deadline                                                             *)

\* Faulty variant: the count rises even if the thread has just finished.
StillRunningAlways(f) == TRUE

StillRunning(f) == run[f] \notin {"finished", "lost", "over"}

CountAtDeadline(f) ==
    /\ IsCamoufox(f)
    /\ main[f] = "count"
    /\ counted' = [counted EXCEPT ![f] = StillRunning(f)]
    /\ abandoned' = [abandoned EXCEPT !["camoufox"] =
         @ + (IF StillRunning(f) THEN 1 ELSE 0)]
    /\ main' = [main EXCEPT ![f] = "kill"]
    /\ UNCHANGED <<machine, permits, run, procs, kills, alarm, claimed,
                   holder, outcome>>

\* _kill_after_deadline: the driver is frozen before its Firefox dies, unless
\* it is only known by novelty; then it is killed at once.
KillFirefox(f) ==
    /\ IsCamoufox(f)
    /\ main[f] = "kill"
    /\ psutil
    /\ frozen' = [frozen EXCEPT ![f] = Driver(f)]
    /\ Kill((Marked(f) \cup Novel(f)) \ Driver(f))
    /\ main' = [main EXCEPT ![f] = "grace"]
    /\ UNCHANGED <<machine, permits, abandoned, run, baseline, alarm, claimed,
                   holder, counted, outcome>>

\* After the thread's end or the grace: what it spawned since, and the driver.
SecondPass(f) ==
    /\ IsCamoufox(f)
    /\ main[f] = "grace"
    /\ Kill(Marked(f) \cup Driver(f) \cup Novel(f) \cup frozen[f])
    /\ Leave(f, "watchdog")
    /\ UNCHANGED <<machine, abandoned, run, kills, alarm, claimed, holder,
                   counted>>

GiveUpKilling(f) ==
    /\ IsCamoufox(f)
    /\ main[f] = "kill"
    /\ ~psutil
    /\ Leave(f, "watchdog")
    /\ UNCHANGED <<machine, abandoned, run, procs, kills, alarm, claimed,
                   holder, counted>>

-----------------------------------------------------------------------------
CamoufoxMain(f) ==
    CountAtDeadline(f) \/ KillFirefox(f) \/ SecondPass(f) \/ GiveUpKilling(f)

CamoufoxRun(f) == FinishDrive(f) \/ ClaimDrive(f) \/ SweepDrive(f)

CamoufoxTier(f) ==
    \/ NotReady(f) \/ CamoufoxEnter(f) \/ CamoufoxMain(f) \/ CamoufoxRun(f)
    \/ StartDriver(f) \/ StartFirefox(f) \/ Rendered(f) \/ DriveRaises(f)
=============================================================================

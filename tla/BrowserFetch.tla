---------------------------- MODULE BrowserFetch ----------------------------
(***************************************************************************)
(* The browser tier's own steps (autolycos/adapters/browser.py): the       *)
(* thread _run owns the life of Chromium from launch to close; a watchdog  *)
(* that wins the claim kills Chromium, gives the thread some grace and, if *)
(* it does not end, kills its driver and counts it as abandoned.           *)
(***************************************************************************)
EXTENDS FetchCycle

IsBrowser(f) == tier[f] = "browser"

BrowserEnter(f) ==
    /\ IsBrowser(f)
    /\ Enter(f)
    /\ UNCHANGED <<machine, abandoned, procs, kills, alarm, claimed, holder,
                   counted, outcome>>

-----------------------------------------------------------------------------
(* _run(): launch, navigate, read, close                                    *)

\* The proxy and the driver are up; Chromium is spawned.
Launch(f) ==
    /\ IsBrowser(f)
    /\ run[f] = "start"
    /\ run' = [run EXCEPT ![f] = "page"]
    /\ Spawn({<<f, "helper">>, <<f, "browser">>})
    /\ UNCHANGED <<machine, permits, abandoned, main, alarm, claimed, holder,
                   counted, outcome>>

\* The navigation answered: reading_document is set.
Navigate(f) ==
    /\ IsBrowser(f)
    /\ run[f] = "page"
    /\ Marked(f) # {}
    /\ run' = [run EXCEPT ![f] = "read"]
    /\ UNCHANGED <<machine, permits, abandoned, main, procs, kills, alarm,
                   claimed, holder, counted, outcome>>

\* The block is left, with a result or an exception, and Chromium is closed.
\* An exception may come from every step, also because Chromium was killed.
LeaveBlock(f, o) ==
    /\ run' = [run EXCEPT ![f] = "end"]
    /\ Kill(Own(f))
    /\ holder' = [holder EXCEPT ![f] = o]
    /\ UNCHANGED <<machine, permits, abandoned, main, kills, alarm, claimed,
                   counted, outcome>>

ReadDone(f) ==
    /\ IsBrowser(f)
    /\ run[f] = "read"
    /\ Marked(f) # {}
    /\ LeaveBlock(f, "result")

RunRaises(f) ==
    /\ IsBrowser(f)
    /\ run[f] \in {"start", "page", "read"}
    /\ LeaveBlock(f, "error")

RunClaim(f) ==
    /\ IsBrowser(f)
    /\ run[f] = "end"
    /\ ThreadClaim(f, "fin", "lost")
    /\ UNCHANGED <<machine, permits, abandoned, main, procs, kills, alarm,
                   counted, outcome>>

\* The backstop kill of the loser, which finds nothing left to kill.
Backstop(f) ==
    /\ IsBrowser(f)
    /\ run[f] = "lost"
    /\ run' = [run EXCEPT ![f] = "fin"]
    /\ Kill(IF psutil THEN Marked(f) \cup Driver(f) ELSE {})
    /\ UNCHANGED <<machine, permits, abandoned, main, kills, alarm, claimed,
                   holder, counted, outcome>>

\* Faulty variant: every thread gives one back, counted or not.
GivenBackAlways(f) == 1

GivenBack(f) == IF counted[f] THEN 1 ELSE 0

\* The finally block: finished, and the ceiling gets back what it counted.
RunFinish(f) ==
    /\ IsBrowser(f)
    /\ run[f] = "fin"
    /\ run' = [run EXCEPT ![f] = "over"]
    /\ abandoned' = [abandoned EXCEPT !["browser"] = @ - GivenBack(f)]
    /\ UNCHANGED <<machine, permits, main, procs, kills, alarm, claimed,
                   holder, counted, outcome>>

-----------------------------------------------------------------------------
(* The watchdog                                                             *)

\* The renderer crashed or the read budget is spent, while reading.
ReadAlarm(f) ==
    /\ IsBrowser(f)
    /\ main[f] = "watch"
    /\ run[f] = "read"
    /\ alarm[f] = "none"
    /\ alarm' = [alarm EXCEPT ![f] = "read"]
    /\ UNCHANGED <<machine, permits, abandoned, main, run, procs, kills,
                   claimed, holder, counted, outcome>>

\* run_thread.join(), then the holder's error is raised or its result returned.
Return(f) ==
    /\ tier[f] # "uc"
    /\ main[f] = "join"
    /\ ~Alive(f)
    /\ Leave(f, holder[f])
    /\ UNCHANGED <<machine, abandoned, run, procs, kills, alarm, claimed,
                   holder, counted>>

\* _release_stuck_fetch: the driver is only found as the parent of a Chromium
\* that exists at this moment.
KillChromium(f) ==
    /\ IsBrowser(f)
    /\ main[f] = "kill"
    /\ psutil
    /\ frozen' = [frozen EXCEPT ![f] = Driver(f)]
    /\ Kill(Marked(f))
    /\ main' = [main EXCEPT ![f] = "grace"]
    /\ UNCHANGED <<machine, permits, abandoned, run, baseline, alarm, claimed,
                   holder, counted, outcome>>

\* Without psutil nothing can be killed: the thread is counted straight away.
CannotKill(f) ==
    /\ IsBrowser(f)
    /\ main[f] = "kill"
    /\ ~psutil
    /\ main' = [main EXCEPT ![f] = "count"]
    /\ UNCHANGED <<machine, permits, abandoned, run, procs, kills, alarm,
                   claimed, holder, counted, outcome>>

\* The thread unwinds within its grace.
GraceSuffices(f) ==
    /\ IsBrowser(f)
    /\ main[f] = "grace"
    /\ ~Alive(f)
    /\ Leave(f, "watchdog")
    /\ UNCHANGED <<machine, abandoned, run, procs, kills, alarm, claimed,
                   holder, counted>>

\* It does not: its driver is killed, under a call that may never return.
GraceExpires(f) ==
    /\ IsBrowser(f)
    /\ main[f] = "grace"
    /\ Alive(f)
    /\ Kill(frozen[f])
    /\ main' = [main EXCEPT ![f] = "count"]
    /\ UNCHANGED <<machine, permits, abandoned, run, kills, alarm, claimed,
                   holder, counted, outcome>>

\* Faulty variant: the thread is counted even if it has finished meanwhile.
MustCountAlways(f) == TRUE

\* _count_abandoned: not a thread that has finished since is_alive().
MustCount(f) == Alive(f)

CountAbandoned(f) ==
    /\ IsBrowser(f)
    /\ main[f] = "count"
    /\ counted' = [counted EXCEPT ![f] = MustCount(f)]
    /\ abandoned' = [abandoned EXCEPT !["browser"] =
         @ + (IF MustCount(f) THEN 1 ELSE 0)]
    /\ Leave(f, "watchdog")
    /\ UNCHANGED <<machine, run, procs, kills, alarm, claimed, holder>>

-----------------------------------------------------------------------------
BrowserMain(f) ==
    \/ KillChromium(f) \/ CannotKill(f) \/ GraceSuffices(f)
    \/ GraceExpires(f) \/ CountAbandoned(f)

BrowserRun(f) == RunClaim(f) \/ Backstop(f) \/ RunFinish(f)

BrowserTier(f) ==
    \/ BrowserEnter(f) \/ BrowserMain(f) \/ ReadAlarm(f)
    \/ Launch(f) \/ Navigate(f) \/ ReadDone(f) \/ RunRaises(f) \/ BrowserRun(f)
=============================================================================

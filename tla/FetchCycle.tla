----------------------------- MODULE FetchCycle -----------------------------
(***************************************************************************)
(* What the fetches of the three browser tiers have in common              *)
(* (autolycos/adapters/browser.py, camoufox.py, uc.py): a calling thread   *)
(* takes the one browser gate of the process and watches a second thread   *)
(* that owns the browser. The two race for the claim of the fetch, and     *)
(* processes are killed by what identifies them: the launch marker on the  *)
(* browser's command line, an identity frozen earlier, or, behind a gate   *)
(* of one permit, being new since the fetch began.                         *)
(*                                                                         *)
(* BrowserFetch, CamoufoxFetch and UcFetch add the steps of each tier and  *)
(* BrowserTiers composes them. The gate is the semaphore of one process    *)
(* (BrowserGate models it in full). Deadlines are events that may happen   *)
(* at any time; a process number is never reused.                          *)
(***************************************************************************)
EXTENDS Naturals, FiniteSets

CONSTANTS
    Caller,         \* the threads that fetch
    Fetch,          \* the fetches they make
    CallerOf,       \* the thread that makes a fetch
    MaxAbandoned,   \* max_abandoned_fetches
    Setups          \* the possible tiers of the fetches ("unused": not made),
                    \* values of max_concurrent and answers of import psutil

Tier == {"browser", "camoufox", "uc"}

ASSUME FetchAssumption ==
    /\ IsFiniteSet(Fetch) /\ IsFiniteSet(Caller)
    /\ CallerOf \in [Fetch -> Caller]
    /\ MaxAbandoned \in Nat \ {0}
    /\ Setups \subseteq [tier : [Fetch -> Tier \cup {"unused"}],
                          capacity : Nat \ {0}, psutil : BOOLEAN]

VARIABLES
    psutil,     \* whether psutil can be imported in this process
    capacity,   \* max_concurrent of the gate
    tier,       \* the tier of each fetch
    permits,    \* free permits of the gate
    abandoned,  \* _abandoned_fetch_thread_count, one per module that has it
    main,       \* where the calling thread is in fetch()
    run,        \* where the fetch's own thread is
    procs,      \* the processes that are alive
    baseline,   \* pids_before: what was alive when the fetch began
    frozen,     \* processes identified earlier, to be killed later
    alarm,      \* the budget that is spent, or the renderer that crashed
    claimed,    \* who won _claim()
    holder,     \* the thread's outcome: its local, then what the caller reads
    counted,    \* whether the ceiling counts the thread
    outcome     \* how fetch() ended

machine == <<psutil, capacity, tier>>
kills == <<baseline, frozen>>
vars == <<machine, permits, abandoned, main, run, procs, kills, alarm, claimed,
          holder, counted, outcome>>

\* A driver process and the browser it drives; the browser carries the marker.
Process == Fetch \X {"helper", "browser"}

Init ==
    /\ \E s \in Setups :
         psutil = s.psutil /\ capacity = s.capacity /\ tier = s.tier
    /\ permits = capacity
    /\ abandoned = [t \in {"browser", "camoufox"} |-> 0]
    /\ main = [f \in Fetch |-> "idle"]
    /\ run = [f \in Fetch |-> "off"]
    /\ procs = {}
    /\ baseline = [f \in Fetch |-> {}]
    /\ frozen = [f \in Fetch |-> {}]
    /\ alarm = [f \in Fetch |-> "none"]
    /\ claimed = [f \in Fetch |-> "none"]
    /\ holder = [f \in Fetch |-> "none"]
    /\ counted = [f \in Fetch |-> FALSE]
    /\ outcome = [f \in Fetch |-> "none"]

Alive(f) == run[f] # "over"
InFetch(f) == main[f] \notin {"idle", "done"}

\* Passing the ceiling is the first step; the gate is held from Enter on.
HoldsGate(f) == main[f] \notin {"idle", "gate", "done"}

\* A thread makes one fetch at a time.
Free(c) == \A f \in Fetch : CallerOf[f] = c => ~InFetch(f)

-----------------------------------------------------------------------------
(* The ceiling and the gate (a target that validate_target refuses never    *)
(* gets this far)                                                           *)

\* Faulty variant: the ceiling is one too high.
AtCeilingLate(t) == t # "uc" /\ abandoned[t] > MaxAbandoned

\* uc has no ceiling.
AtCeiling(t) == t # "uc" /\ abandoned[t] >= MaxAbandoned

Stop(f, o) ==
    /\ main' = [main EXCEPT ![f] = "done"]
    /\ outcome' = [outcome EXCEPT ![f] = o]

Refuse(f) ==
    /\ main[f] = "idle"
    /\ tier[f] # "unused" /\ Free(CallerOf[f])
    /\ AtCeiling(tier[f])
    /\ Stop(f, "refused")
    /\ UNCHANGED <<machine, permits, abandoned, run, procs, kills, alarm,
                   claimed, holder, counted>>

Pass(f) ==
    /\ main[f] = "idle"
    /\ tier[f] # "unused" /\ Free(CallerOf[f])
    /\ ~AtCeiling(tier[f])
    /\ main' = [main EXCEPT ![f] = "gate"]
    /\ UNCHANGED <<machine, permits, abandoned, run, procs, kills, alarm,
                   claimed, holder, counted, outcome>>

\* acquire() times out or fails, or the browser's package is not installed.
GateFails(f) ==
    /\ main[f] = "gate"
    /\ Stop(f, "gate")
    /\ UNCHANGED <<machine, permits, abandoned, run, procs, kills, alarm,
                   claimed, holder, counted>>

Enter(f) ==
    /\ main[f] = "gate"
    /\ permits > 0
    /\ permits' = permits - 1
    /\ main' = [main EXCEPT ![f] = "watch"]
    /\ run' = [run EXCEPT ![f] = "start"]

\* fetch() ends: the `with` block releases the gate.
Leave(f, o) == Stop(f, o) /\ permits' = permits + 1

-----------------------------------------------------------------------------
(* The claim                                                                *)

Deadline(f) ==
    /\ main[f] \in {"watch", "fetch"}
    /\ alarm[f] \in {"none", "read"}
    /\ alarm' = [alarm EXCEPT ![f] = "fetch"]
    /\ UNCHANGED <<machine, permits, abandoned, main, run, procs, kills,
                   claimed, holder, counted, outcome>>

\* `run_thread.is_alive() and ... and _claim()`: the caller wins the claim.
Fire(f) ==
    /\ main[f] = "watch"
    /\ alarm[f] # "none"
    /\ Alive(f)
    /\ claimed[f] = "none"
    /\ claimed' = [claimed EXCEPT ![f] = "main"]
    /\ main' = [main EXCEPT ![f] =
         IF tier[f] = "camoufox" THEN "count" ELSE "kill"]
    /\ UNCHANGED <<machine, permits, abandoned, run, procs, kills, alarm,
                   holder, counted, outcome>>

\* Faulty variant: the deadline joins the thread whatever it is doing.
StopWatchingAtDeadline(f) == ~Alive(f) \/ alarm[f] = "fetch"

\* The wait ends because the thread did, or at a deadline it has forestalled.
StopWatching(f) == ~Alive(f) \/ (alarm[f] = "fetch" /\ claimed[f] = "run")

Await(f) ==
    /\ main[f] = "watch"
    /\ StopWatching(f)
    /\ main' = [main EXCEPT ![f] = "join"]
    /\ UNCHANGED <<machine, permits, abandoned, run, procs, kills, alarm,
                   claimed, holder, counted, outcome>>

\* Faulty variant: a late outcome is dropped by the clock, not by the claim.
ThreadClaimsInTime(f) == claimed[f] = "none" /\ alarm[f] # "fetch"

ThreadClaims(f) == claimed[f] = "none"

\* _claim() by the thread: the winner's outcome stays in the holder, the
\* loser's is dropped.
ThreadClaim(f, won, lost) ==
    IF ThreadClaims(f)
      THEN /\ claimed' = [claimed EXCEPT ![f] = "run"]
           /\ run' = [run EXCEPT ![f] = won]
           /\ UNCHANGED holder
      ELSE /\ run' = [run EXCEPT ![f] = lost]
           /\ holder' = [holder EXCEPT ![f] = "none"]
           /\ UNCHANGED claimed

-----------------------------------------------------------------------------
(* Processes                                                                *)

\* A new process is in no earlier snapshot and in no frozen set.
Spawn(ps) ==
    /\ procs' = procs \cup ps
    /\ baseline' = [g \in Fetch |-> baseline[g] \ ps]
    /\ frozen' = [g \in Fetch |-> frozen[g] \ ps]

Own(f) == {<<f, "helper">>, <<f, "browser">>} \cap procs
Marked(f) == {<<f, "browser">>} \cap procs

\* A patchright or playwright driver carries no marker: it is found as the
\* parent of a marked browser. uc's driver is a sibling and is not found.
Driver(f) ==
    IF Marked(f) # {} /\ tier[f] # "uc" THEN {<<f, "helper">>} \cap procs ELSE {}

\* What a sweep by novelty takes for its own launch: camoufox looks for the
\* words playwright and camoufox in a command line (Chromium is installed
\* under ms-playwright), uc for processes named like its driver.
Resembles(t) ==
    IF t = "uc" THEN {<<"uc", "helper">>}
    ELSE {<<"camoufox", "helper">>} \cup {<<u, "browser">> : u \in Tier}

\* Faulty variant: a process that is new is taken for the launch's own
\* whatever the gate admits.
SingleFlightAlways == TRUE

SingleFlight == capacity = 1

Novel(f) ==
    IF SingleFlight
      THEN {p \in procs \ baseline[f] : <<tier[p[1]], p[2]>> \in Resembles(tier[f])}
      ELSE {}

Kill(ps) == procs' = procs \ ps
=============================================================================

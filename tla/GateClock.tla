----------------------------- MODULE GateClock -----------------------------
(***************************************************************************)
(* How long a stuck fetch keeps the browser gate. Each tier waits for a    *)
(* sequence of things, each with a bound of its own, before it leaves the  *)
(* gate (autolycos/adapters/browser.py, camoufox.py, uc.py); what the      *)
(* settings are checked against when the process starts is a sum of some   *)
(* of these bounds (autolycos/tiers.py). FetchCycle and its tiers model    *)
(* what happens during the waits; here they only take time.                *)
(***************************************************************************)
EXTENDS Settings, Sequences

VARIABLES
    stuck,      \* which fetch it is: its tier, and where uc got stuck
    waits,      \* the bounds of the waits that are left
    held        \* how long the gate has been held

Stuck == {"browser", "camoufox", "uc_launch", "uc_fetch"}

\* The fetch thread, the Chromium wait, the grace, the driver wait.
BrowserWaits == <<settings.fetch, KillWait, KillWait, KillWait>>

\* The fetch thread, Firefox, the late sweep's grace, the second pass.
CamoufoxWaits == <<settings.fetch, KillWait, LateSweep, KillWait>>

\* A launch that does not return: the kill, the sweep's delay, the sweep.
UcLaunchWaits == <<settings.launch, KillWait, settings.sweep, KillWait>>

\* A launch in time and a page that never comes: marker, siblings and
\* service are killed one after the other, then the late sweep.
UcFetchWaits ==
    <<settings.launch, settings.fetch, KillWait, KillWait, KillWait,
      settings.sweep, KillWait>>

Waits(s) ==
    CASE s = "browser" -> BrowserWaits
      [] s = "camoufox" -> CamoufoxWaits
      [] s = "uc_launch" -> UcLaunchWaits
      [] s = "uc_fetch" -> UcFetchWaits

\* A wait ends when what it waits for is there, or at its bound.
WaitEnds ==
    /\ waits # <<>>
    /\ \E d \in 0 .. Head(waits) : held' = held + d
    /\ waits' = Tail(waits)
    /\ UNCHANGED stuck
=============================================================================

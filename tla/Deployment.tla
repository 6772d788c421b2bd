----------------------------- MODULE Deployment -----------------------------
(***************************************************************************)
(* Three calls that rest on the same registry and the same settings, each  *)
(* from its start to its end: a run over an owner's sources (ScrapeRun), a *)
(* digest being mailed (SmtpSend) and a stuck fetch holding the browser    *)
(* gate (GateClock). The registry is edited by others until it is read.    *)
(***************************************************************************)
EXTENDS ScrapeRun, SmtpSend, GateClock

CONSTANT EnvironmentsOf     \* the environments each call is tried in

Part == {"run", "send", "gate"}

ASSUME DeploymentAssumption ==
    \A p \in Part : EnvironmentsOf[p] \subseteq [Name -> Int]

VARIABLE part   \* the call of this behaviour

runVars == <<todo, fetching, grounds, verdict, records, stored>>
gateVars == <<stuck, waits, held>>
vars == <<rows, at, seen, runVars, smtp, gateVars, settings, part>>

\* A registry as its foreign keys keep it: for a run any, for a digest the
\* products alone, for the gate none.
InitRegistry ==
    /\ sites \in IF part = "run" THEN SUBSET Site ELSE {{}}
    /\ products = Product
    /\ sources \in IF part = "run" THEN SUBSET Source ELSE {{}}
    /\ \A r \in sources : ParentsExist(r)
    /\ edits = 0
    /\ seen = NothingSeen

Init ==
    /\ part \in Part
    /\ settings \in {GetSettings(env) : env \in EnvironmentsOf[part]}
    /\ InitRegistry
    /\ at = CASE part = "run" -> "sites"
              [] part = "send" -> "lookup"
              [] part = "gate" -> "held"
    /\ todo = {} /\ cache = {}
    /\ pinned = FALSE /\ hops = 0 /\ tries = 0 /\ page = "none"
    /\ verdict = "none" /\ grounds = {}
    /\ records = [r \in Source |-> "none"]
    /\ stored = [r \in Source |-> "none"]
    /\ clock = 0 /\ due = 0 /\ left = 0 /\ op = 0 /\ delivered = 0
    /\ stuck \in IF part = "gate" THEN Stuck ELSE {"browser"}
    /\ waits = IF part = "gate" THEN Waits(stuck) ELSE <<>>
    /\ held = 0

\* Nothing reads config.db again once the registry is loaded.
OthersEdit ==
    /\ at \in {"lookup", "sites", "products", "sources"}
    /\ EditRegistry
    /\ UNCHANGED <<runVars, smtp, gateVars, settings, part>>

ReadRegistry ==
    /\ Load
    /\ UNCHANGED <<runVars, smtp, gateVars, settings, part>>

Run ==
    /\ part = "run"
    /\ RunStep
    /\ UNCHANGED <<smtp, gateVars, settings, part>>

Send ==
    /\ part = "send"
    /\ SendStep
    /\ UNCHANGED <<runVars, gateVars, settings, part>>

Hold ==
    /\ part = "gate"
    /\ WaitEnds
    /\ UNCHANGED <<rows, at, seen, runVars, smtp, settings, part>>

Ended ==
    \/ at \in {"done", "aborted", "sent", "skipped", "raised"}
    \/ at = "held" /\ waits = <<>>

Rest == Ended /\ UNCHANGED vars

Next == OthersEdit \/ ReadRegistry \/ Run \/ Send \/ Hold \/ Rest

\* The call is a thread that is scheduled; nobody has to edit anything.
Spec == Init /\ [][Next]_vars /\ WF_vars(ReadRegistry \/ Run \/ Send \/ Hold)

-----------------------------------------------------------------------------
(* Properties                                                               *)

\* A source is only ever reported available or unavailable when the page that
\* was read supports it: a good price of the listing itself, and for an
\* unavailability an explicit word about that listing, never about another
\* product, a stale node or a page that was a challenge.
VerdictGrounded == at = "store" => verdict \in grounds \cup {"indeterminate"}

\* What a finished run leaves: a record for every source it loaded whose
\* tier this image has, in the table as it is reported unless it stands for
\* a failure; nothing in the table for the sources of other tiers.
Reported ==
    \A r \in Source :
        LET usable == r \in seen.sources /\ TierAvailable(TierOf[SiteOf[r]])
        IN  /\ usable => records[r] # "none"
            /\ ~usable => stored[r] = "none" /\ records[r] \in {"none", "indeterminate"}
            /\ r \notin seen.sources => records[r] = "none"
            /\ records[r] # stored[r] => records[r] = "indeterminate" /\ stored[r] = "none"

\* A run whose registry was read consistently comes to an end with every
\* source accounted for, whatever its fetcher, its parser and the store do.
RunComplete ==
    (part = "run" /\ at = "loaded" /\ \A r \in seen.sources : ~Dangling(r))
        ~> (at = "done" /\ Reported)

\* "a failing source [...] must never abort the run": run_now() returns a
\* result, whatever is wrong with one of the sources it loads.
RunNeverAborted == (part = "run" /\ at = "sites") ~> at = "done"

\* A digest is handed to the relay at most once however the attempts of
\* send() fail, once when it says so, and never when it was skipped.
DeliveryExact ==
    /\ delivered <= 1
    /\ at = "sent" => delivered = 1
    /\ at = "skipped" => delivered = 0

\* When loading and rendering kept to the margin, send() begins no attempt
\* anew that has less than the budget of an attempt left before the reaper
\* may take the run for dead, however long its attempts took and however late
\* it woke up from its backoff.
RetryStartsInTime ==
    (/\ at = "attempt" /\ op = 1 /\ left < settings.attempts
     /\ due - settings.deadline <= settings.timeout)
        => clock + Budget <= settings.reaper

\* Where the process did not warn about the Camoufox budget at start, a stuck
\* Camoufox fetch, its cleanup included, is out of the gate before those who
\* wait for it give up.
CamoufoxLeavesInTime ==
    stuck = "camoufox" /\ ~GateWarns("camoufox") => held < settings.acquire

\* What the process says at start about the tier that is stuck.
Warned ==
    CASE stuck = "browser" -> GateWarns("browser")
      [] stuck = "camoufox" -> GateWarns("camoufox")
      [] stuck \in {"uc_launch", "uc_fetch"} -> GateWarns("uc") \/ LaunchWarns

\* The contract of GateWarning, for every tier: without a warning at start, no
\* stuck fetch can hold the gate as long as other callers wait for it.
SilenceMeansInTime == ~Warned => held < settings.acquire
=============================================================================

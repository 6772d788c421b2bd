------------------------------ MODULE Settings ------------------------------
(***************************************************************************)
(* The timeouts of a deployment (kerdoos/config.py, digest/factory.py and  *)
(* autolycos/tiers.py): what the environment says, what it falls back to,  *)
(* how far it is clamped, and what the process warns about when it starts. *)
(*                                                                         *)
(* One unit of time is the tenth of a second at which the clamps stop. -1  *)
(* stands for a variable that is not set or does not hold a number.        *)
(***************************************************************************)
EXTENDS Integers, FiniteSetsExt

CONSTANTS
    Default,        \* the default of each variable
    KillWait,       \* KILL_WAIT_SECONDS of the three tiers
    LateSweep       \* LATE_SWEEP_SECONDS of the Camoufox tier

Name == {"acquire", "launch", "fetch", "sweep",
         "smtp_timeout", "reaper", "retry_attempts", "retry_backoff"}

ASSUME SettingsAssumption ==
    /\ Default \in [Name -> Nat]
    /\ KillWait \in Nat /\ LateSweep \in Nat

VARIABLE settings   \* what get_settings() and build_sender() made of it

Tenth == 1
MaxRetryAttempts == 5       \* MAX_SMTP_RETRY_ATTEMPTS
MinRetryBackoff == 10       \* MIN_SMTP_RETRY_BACKOFF_SECONDS
MaxOps == 8                 \* _MAX_OPS_PER_ATTEMPT

\* The smtp timeout is only read here; it is judged by SafeSmtpTimeout.
Valid(name, v) ==
    CASE name = "retry_attempts" -> v \in 0 .. MaxRetryAttempts
      [] name = "retry_backoff" -> v >= MinRetryBackoff
      [] name = "smtp_timeout" -> v # -1
      [] OTHER -> v > 0

EnvNumber(env, name) == IF Valid(name, env[name]) THEN env[name] ELSE Default[name]

\* A timed-out uc launch and its sweep should not outlast the wait for the gate.
SafeSweepDelay(sweep, launch, acquire) ==
    IF launch + sweep < acquire THEN sweep
    ELSE Max({Tenth, (acquire - launch) \div 2})

\* Strictly between zero and the reaper's window.
SafeSmtpTimeout(timeout, reaper) ==
    IF 0 < timeout /\ timeout < reaper THEN timeout
    ELSE Max({Tenth, reaper \div 2})

\* Faulty variant: no margin for what send() does before its deadline starts.
SendDeadlineNoMargin(timeout, reaper) == Max({Tenth, reaper})

\* The margin of one timeout is for loading and rendering.
SendDeadline(timeout, reaper) == Max({Tenth, reaper - timeout})

GetSettings(env) ==
    LET value(name) == EnvNumber(env, name)
        timeout == SafeSmtpTimeout(value("smtp_timeout"), value("reaper"))
    IN  [acquire |-> value("acquire"),
         launch |-> value("launch"),
         fetch |-> value("fetch"),
         sweep |-> SafeSweepDelay(value("sweep"), value("launch"), value("acquire")),
         timeout |-> timeout,
         reaper |-> value("reaper"),
         attempts |-> value("retry_attempts"),
         backoff |-> value("retry_backoff"),
         deadline |-> SendDeadline(timeout, value("reaper"))]

-----------------------------------------------------------------------------
(* The checks of the tiers' budgets, which warn and never refuse            *)

\* What the check believes a stuck fetch needs past its deadline.
Cleanup(tier) ==
    CASE tier = "browser" -> 0
      [] tier = "camoufox" -> 2 * KillWait + LateSweep
      [] tier = "uc" -> 3 * KillWait + settings.sweep

\* Faulty variant: the cleanup is not counted.
GateWarnsNoCleanup(tier) == settings.fetch >= settings.acquire

GateWarns(tier) == settings.fetch + Cleanup(tier) >= settings.acquire

\* _warn_if_uc_launch_timeout_at_or_above_acquire_timeout
LaunchWarns == settings.launch >= settings.acquire
=============================================================================

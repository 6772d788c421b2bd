-------------------------- MODULE DigestEvaluator --------------------------
(***************************************************************************)
(* The scheduled digest: evaluate_tick and run_evaluator_loop              *)
(* (kerdoos/core/evaluator.py) on the job_runs and scrapes tables          *)
(* (kerdoos/persistence/sqlite_store.py).                                  *)
(*                                                                         *)
(* A process evaluates one tick at a time: it reaps stranded job_runs      *)
(* rows, scrapes the sources that are not fresh (Plan A) and then, job by  *)
(* job, claims the job's current window by inserting its row and hands the *)
(* digest to a send thread, whose result it awaits under a deadline        *)
(* (Plan B). Several processes may do so on the same databases: the WebUI  *)
(* loop and invocations of `kerdoos digest`. A process may die anywhere.   *)
(*                                                                         *)
(* Every SQL statement is its own transaction, so an action of the model   *)
(* holds at most one statement that another process could observe half     *)
(* way. Processes interleave between actions; a process that is awaiting a *)
(* scrape or a send lets the clock run.                                    *)
(***************************************************************************)
EXTENDS Naturals, FiniteSets

CONSTANTS
    Proc,           \* the processes that evaluate ticks
    Loop,           \* those that are the WebUI's run_evaluator_loop; the
                    \* others are successive `kerdoos digest` invocations
    Job,            \* the digest jobs
    Deployments,    \* which processes and jobs an installation has
    Source,         \* the sources they watch
    SourcesOf,      \* job.source_ids
    Period,         \* distance of two occurrences of job.schedule_cron
    Unavailable,    \* sources whose site needs a fetcher tier not installed
    Timeout,        \* reaper_timeout_seconds, also the deadline of a send
    MaxOrphans,     \* _max_live_orphans of the loop's send executor
    MaxClock,       \* bound on the clock
    MaxFaults,      \* bound on crashes, shutdowns and store errors
    None

ASSUME SetsAssumption ==
    /\ Loop \subseteq Proc
    /\ IsFiniteSet(Job)
    /\ None \notin Job \cup Source
    /\ SourcesOf \in [Job -> SUBSET Source]
    /\ Unavailable \subseteq Source
ASSUME DeploymentsAssumption ==
    Deployments \subseteq [procs : SUBSET Proc, jobs : SUBSET Job]
ASSUME NumbersAssumption ==
    /\ Period \in [Job -> Nat \ {0}]
    /\ Timeout \in Nat
    /\ MaxOrphans \in Nat \ {0}
    /\ MaxClock \in Nat
    /\ MaxFaults \in Nat

Time == 0 .. MaxClock
Window == Time
Key == Job \X Window

Never == MaxClock + 1           \* no scrape recorded yet

VARIABLES
    clock,      \* datetime.now(timezone.utc)
    jobRow,     \* the job in digest_jobs: absent, enabled or disabled
    rowStatus,  \* job_runs.status by primary key, "none" without a row
    firedAt,    \* job_runs.fired_at
    lastScrape, \* ts of the newest row of scrapes for the source
    ev,         \* the local state of each process's evaluate_tick
    thread,     \* the send threads of each process
    sends,      \* how often sender.send was entered for the firing
    faults      \* faults so far

vars == <<clock, jobRow, rowStatus, firedAt, lastScrape, ev, thread, sends,
          faults>>

Active == {"queued", "running"}
Terminal == {"sent", "skipped_no_email", "error"}
Outcome == {"sent", "noemail", "raised"}

(* pc is where the process is: sleeping between ticks or not started        *)
(* ("idle"), at a step of the tick, shutting down while its pool threads    *)
(* are being joined ("down"), or no part of this deployment ("off").        *)
EvState ==
    [pc : {"idle", "reap", "planA", "scrape", "planB", "claim", "dispatch",
           "await", "down", "off"},
     now : Time,                \* tick_now
     jobs : SUBSET Job,         \* what is left of the jobs of this tick
     srcs : SUBSET Source,      \* what is left of required_period
     job : Job \cup {None},     \* the job Plan B is at
     src : Source \cup {None},  \* the source Plan A is scraping
     since : Time]              \* when the send was submitted

TypeOK ==
    /\ clock \in Time
    /\ jobRow \in [Job -> {"absent", "enabled", "disabled"}]
    /\ rowStatus \in [Key -> {"none"} \cup Active \cup Terminal]
    /\ firedAt \in [Key -> Time]
    /\ lastScrape \in [Source -> Time \cup {Never}]
    /\ ev \in [Proc -> EvState]
    /\ thread \in [Proc ->
         [Key -> {"none", "submitted", "running", "orphan"} \cup Outcome]]
    /\ sends \in [Key -> Nat]
    /\ faults \in 0 .. MaxFaults

Idle == [pc |-> "idle", now |-> 0, jobs |-> {}, srcs |-> {}, job |-> None,
         src |-> None, since |-> 0]

NoThreads == [k \in Key |-> "none"]

Init ==
    /\ clock = 0
    /\ \E d \in Deployments :
         /\ jobRow = [j \in Job |-> IF j \in d.jobs THEN "enabled" ELSE "absent"]
         /\ ev = [p \in Proc |->
                    IF p \in d.procs THEN Idle ELSE [Idle EXCEPT !.pc = "off"]]
    /\ rowStatus = [k \in Key |-> "none"]
    /\ firedAt = [k \in Key |-> 0]
    /\ lastScrape = [s \in Source |-> Never]
    /\ thread = [p \in Proc |-> NoThreads]
    /\ sends = [k \in Key |-> 0]
    /\ faults = 0

\* What list_all_enabled_jobs() returns.
enabled == {j \in Job : jobRow[j] = "enabled"}

\* The tick of process p goes on at step st.
Goto(p, st) == ev' = [ev EXCEPT ![p] = [@ EXCEPT !.pc = st]]

SetThread(p, k, st) == thread' = [thread EXCEPT ![p] = [@ EXCEPT ![k] = st]]

Fault == faults < MaxFaults /\ faults' = faults + 1

-----------------------------------------------------------------------------
(* The schedule (kerdoos/core/scheduler.py)                                 *)

\* The latest occurrence of the job's cron grid that is not after t.
compute_window_start(j, t) == t - (t % Period[j])

\* The firing process p is working on in Plan B.
Firing(p) == <<ev[p].job, compute_window_start(ev[p].job, ev[p].now)>>

-----------------------------------------------------------------------------
(* The statements on job_runs                                               *)

\* Faulty variant: a row that ended in error does not keep its window.
RowFreeAfterError(k) == rowStatus[k] \in {"none", "error"}

\* INSERT ... ON CONFLICT(job_id, window_start) DO NOTHING inserts.
RowFree(k) == rowStatus[k] = "none"

\* Faulty variant: a row that is queued is not seen as active.
has_active_job_run_running(j) ==
    \E w \in Window : rowStatus[<<j, w>>] = "running"

has_active_job_run(j) == \E w \in Window : rowStatus[<<j, w>>] \in Active

\* Faulty variant: the sweep takes any row that is old enough.
StaleAnyStatus(k, now) == rowStatus[k] # "none" /\ firedAt[k] + Timeout < now

\* Faulty variant: the sweep forgets rows that never left 'queued'.
StaleRunningOnly(k, now) ==
    rowStatus[k] = "running" /\ firedAt[k] + Timeout < now

Stale(k, now) == rowStatus[k] \in Active /\ firedAt[k] + Timeout < now

\* Faulty variant: the stranded row is deleted.
ReapedStatusGone == "none"

ReapedStatus == "error"

reap_stale_job_run(js, now) ==
    rowStatus' = [k \in Key |->
        IF k[1] \in js /\ Stale(k, now) THEN ReapedStatus ELSE rowStatus[k]]

update_job_run(k, st) == rowStatus' = [rowStatus EXCEPT ![k] = st]

-----------------------------------------------------------------------------
(* The start of a tick: list the enabled jobs, then sweep their stranded    *)
(* rows. A listing that fails, or lists nothing, ends the tick there.       *)

StartTick(p) ==
    /\ ev[p].pc = "idle"
    /\ enabled # {}
    /\ ev' = [ev EXCEPT ![p] =
         [pc |-> "reap", now |-> clock, jobs |-> enabled,
          srcs |-> UNION {SourcesOf[j] : j \in enabled}, job |-> None,
          src |-> None, since |-> 0]]
    /\ UNCHANGED <<clock, jobRow, rowStatus, firedAt, lastScrape, thread,
                   sends, faults>>

\* "if not jobs: return summary".
EmptyTick(p) ==
    /\ ev[p].pc = "idle"
    /\ enabled = {}
    /\ UNCHANGED vars

\* The statement for each job is isolated: an error skips that job only.
Reap(p) ==
    /\ ev[p].pc = "reap"
    /\ \/ reap_stale_job_run(ev[p].jobs, ev[p].now) /\ UNCHANGED faults
       \/ \E j \in ev[p].jobs :
             Fault /\ reap_stale_job_run(ev[p].jobs \ {j}, ev[p].now)
    /\ Goto(p, "planA")
    /\ UNCHANGED <<clock, jobRow, firedAt, lastScrape, thread, sends>>

-----------------------------------------------------------------------------
(* Plan A: scrape what is not fresh                                         *)

\* The newest record is younger than the period of every job of this tick that
\* watches the source (its shortest period).
Fresh(p, s) ==
    /\ lastScrape[s] # Never
    /\ \A j \in ev[p].jobs :
         s \in SourcesOf[j] => ev[p].now < lastScrape[s] + Period[j]

\* Faulty variant: the freshness check is left out.
NeedsScrapeAlways(p, s) == s \notin Unavailable

NeedsScrape(p, s) == ~Fresh(p, s) /\ s \notin Unavailable

SkipSource(p) ==
    /\ ev[p].pc = "planA"
    /\ \E s \in ev[p].srcs :
         /\ ~NeedsScrape(p, s)
         /\ ev' = [ev EXCEPT ![p] = [@ EXCEPT !.srcs = ev[p].srcs \ {s}]]
    /\ UNCHANGED <<clock, jobRow, rowStatus, firedAt, lastScrape, thread,
                   sends, faults>>

BeginScrape(p) ==
    /\ ev[p].pc = "planA"
    /\ \E s \in ev[p].srcs :
         /\ NeedsScrape(p, s)
         /\ ev' = [ev EXCEPT ![p] =
              [@ EXCEPT !.pc = "scrape", !.src = s, !.srcs = ev[p].srcs \ {s}]]
    /\ UNCHANGED <<clock, jobRow, rowStatus, firedAt, lastScrape, thread,
                   sends, faults>>

\* scrape_and_record writes a record, whatever the verdict, stamped with the
\* START of the tick; an exception (the store) leaves none.
EndScrape(p) ==
    /\ ev[p].pc = "scrape"
    /\ \/ lastScrape' = [lastScrape EXCEPT ![ev[p].src] =
              IF @ # Never /\ @ > ev[p].now THEN @ ELSE ev[p].now]
          /\ UNCHANGED faults
       \/ Fault /\ UNCHANGED lastScrape
    /\ ev' = [ev EXCEPT ![p] = [@ EXCEPT !.pc = "planA", !.src = None]]
    /\ UNCHANGED <<clock, jobRow, rowStatus, firedAt, thread, sends>>

BeginPlanB(p) ==
    /\ ev[p].pc = "planA"
    /\ ev[p].srcs = {}
    /\ Goto(p, "planB")
    /\ UNCHANGED <<clock, jobRow, rowStatus, firedAt, lastScrape, thread,
                   sends, faults>>

-----------------------------------------------------------------------------
(* Plan B: one job after the other                                          *)

\* Control goes to the next job of the tick.
NextJob(p) ==
    ev' = [ev EXCEPT ![p] =
        [@ EXCEPT !.pc = "planB", !.job = None, !.since = 0]]

\* has_active_job_run: a firing in progress coalesces this one into it.
SkipActive(p) ==
    /\ ev[p].pc = "planB"
    /\ \E j \in ev[p].jobs :
         /\ has_active_job_run(j)
         /\ ev' = [ev EXCEPT ![p] = [@ EXCEPT !.jobs = ev[p].jobs \ {j}]]
    /\ UNCHANGED <<clock, jobRow, rowStatus, firedAt, lastScrape, thread,
                   sends, faults>>

PickJob(p) ==
    /\ ev[p].pc = "planB"
    /\ \E j \in ev[p].jobs :
         /\ ~has_active_job_run(j)
         /\ ev' = [ev EXCEPT ![p] =
              [@ EXCEPT !.pc = "claim", !.job = j, !.jobs = ev[p].jobs \ {j}]]
    /\ UNCHANGED <<clock, jobRow, rowStatus, firedAt, lastScrape, thread,
                   sends, faults>>

HasRecords(j) == \E s \in SourcesOf[j] : lastScrape[s] # Never

\* The retired pools whose future is not done.
Orphans(p) == {k \in Key : thread[p][k] = "orphan"}

\* Faulty variant: one orphan too many.
can_submit_late(p) == p \in Loop => Cardinality(Orphans(p)) <= MaxOrphans

\* The CLI's executor starts a daemon thread per send and never refuses.
can_submit(p) == p \in Loop => Cardinality(Orphans(p)) < MaxOrphans

\* Nothing to report, or no thread to be had: no row is written, so the window
\* stays open for a later tick. A conflict: the window is somebody's already.
SkipJob(p) ==
    /\ ev[p].pc = "claim"
    /\ \/ ~HasRecords(ev[p].job)
       \/ ~can_submit(p)
       \/ ~RowFree(Firing(p))
    /\ NextJob(p)
    /\ UNCHANGED <<clock, jobRow, rowStatus, firedAt, lastScrape, thread,
                   sends, faults>>

\* record_job_run: the row is inserted, fired_at being the start of the tick.
Claim(p) ==
    /\ ev[p].pc = "claim"
    /\ HasRecords(ev[p].job)
    /\ can_submit(p)
    /\ RowFree(Firing(p))
    /\ update_job_run(Firing(p), "queued")
    /\ firedAt' = [firedAt EXCEPT ![Firing(p)] = ev[p].now]
    /\ Goto(p, "dispatch")
    /\ UNCHANGED <<clock, jobRow, lastScrape, thread, sends, faults>>

\* The row becomes 'running' and the send is submitted. The semaphore is free:
\* the ticks of a process do not overlap and a timed-out send has left it.
Dispatch(p) ==
    /\ ev[p].pc = "dispatch"
    /\ update_job_run(Firing(p), "running")
    /\ SetThread(p, Firing(p), "submitted")
    /\ ev' = [ev EXCEPT ![p] = [@ EXCEPT !.pc = "await", !.since = clock]]
    /\ UNCHANGED <<clock, jobRow, firedAt, lastScrape, sends, faults>>

\* submit() raises (no thread could be started): the row ends in error.
DispatchRaises(p) ==
    /\ ev[p].pc = "dispatch"
    /\ Fault
    /\ update_job_run(Firing(p), "error")
    /\ NextJob(p)
    /\ UNCHANGED <<clock, jobRow, firedAt, lastScrape, thread, sends>>

\* A store call raises before the send is submitted: the job is abandoned for
\* this tick, with whatever row it has.
StoreRaises(p) ==
    /\ ev[p].pc \in {"claim", "dispatch"}
    /\ Fault
    /\ NextJob(p)
    /\ UNCHANGED <<clock, jobRow, rowStatus, firedAt, lastScrape, thread,
                   sends>>

-----------------------------------------------------------------------------
(* The send threads                                                         *)

ThreadStarts(p, k) ==
    /\ thread[p][k] = "submitted"
    /\ SetThread(p, k, "running")
    /\ sends' = [sends EXCEPT ![k] = @ + 1]
    /\ UNCHANGED <<clock, jobRow, rowStatus, firedAt, lastScrape, ev, faults>>

\* sender.send returns True or False, or raises.
ThreadEnds(p, k) ==
    /\ thread[p][k] = "running"
    /\ \E o \in Outcome : SetThread(p, k, o)
    /\ UNCHANGED <<clock, jobRow, rowStatus, firedAt, lastScrape, ev, sends,
                   faults>>

\* Nobody looks at the result of an orphan any more.
OrphanEnds(p, k) ==
    /\ thread[p][k] = "orphan"
    /\ SetThread(p, k, "none")
    /\ UNCHANGED <<clock, jobRow, rowStatus, firedAt, lastScrape, ev, sends,
                   faults>>

-----------------------------------------------------------------------------
(* The end of the await                                                     *)

\* The status the outcome is written as; the write may fail, which leaves the
\* row 'running'.
Record(k, st) ==
    \/ update_job_run(k, st) /\ UNCHANGED faults
    \/ Fault /\ UNCHANGED rowStatus

\* Faulty variant: the sender's own result is stored as the status.
StatusForOutcome(o) == o

StatusFor(o) ==
    CASE o = "sent" -> "sent"
      [] o = "noemail" -> "skipped_no_email"
      [] o = "raised" -> "error"

Settle(p) ==
    /\ ev[p].pc = "await"
    /\ thread[p][Firing(p)] \in Outcome
    /\ Record(Firing(p), StatusFor(thread[p][Firing(p)]))
    /\ SetThread(p, Firing(p), "none")
    /\ NextJob(p)
    /\ UNCHANGED <<clock, jobRow, firedAt, lastScrape, sends>>

\* wait_for gives up. A send that has not begun is cancelled; one that runs is
\* retired with its pool. The last instant stands for every later one.
DeadlinePassed(p) == clock >= ev[p].since + Timeout \/ clock = MaxClock

SendTimesOut(p) ==
    /\ ev[p].pc = "await"
    /\ DeadlinePassed(p)
    /\ Record(Firing(p), "error")
    /\ SetThread(p, Firing(p),
         IF thread[p][Firing(p)] = "running" THEN "orphan" ELSE "none")
    /\ NextJob(p)
    /\ UNCHANGED <<clock, jobRow, firedAt, lastScrape, sends>>

\* A `kerdoos digest` process exits and its daemon threads die with it.
EndTick(p) ==
    /\ ev[p].pc = "planB"
    /\ ev[p].jobs = {}
    /\ ev' = [ev EXCEPT ![p] = Idle]
    /\ thread' = IF p \in Loop THEN thread
                 ELSE [thread EXCEPT ![p] = NoThreads]
    /\ UNCHANGED <<clock, jobRow, rowStatus, firedAt, lastScrape, sends,
                   faults>>

-----------------------------------------------------------------------------
(* Process death, shutdown and restart; jobs switched on and off; time      *)

Crash(p) ==
    /\ Fault
    /\ ev[p].pc \notin {"down", "off"}
    /\ ev' = [ev EXCEPT ![p] = Idle]
    /\ thread' = [thread EXCEPT ![p] = NoThreads]
    /\ UNCHANGED <<clock, jobRow, rowStatus, firedAt, lastScrape, sends>>

\* The lifespan cancels the loop's task: CancelledError is not an Exception, so
\* no row is written. A send that runs is finished, its result is dropped.
Shutdown(p) ==
    /\ p \in Loop
    /\ Fault
    /\ ev[p].pc \notin {"down", "off"}
    /\ ev' = [ev EXCEPT ![p] = [Idle EXCEPT !.pc = "down"]]
    /\ thread' = [thread EXCEPT ![p] = [k \in Key |->
         IF thread[p][k] \in {"running", "orphan"} THEN "orphan" ELSE "none"]]
    /\ UNCHANGED <<clock, jobRow, rowStatus, firedAt, lastScrape, sends>>

Boot(p) ==
    /\ ev[p].pc = "down"
    /\ Orphans(p) = {}
    /\ ev' = [ev EXCEPT ![p] = Idle]
    /\ UNCHANGED <<clock, jobRow, rowStatus, firedAt, lastScrape, thread,
                   sends, faults>>

\* AppService.update_job switches a job on or off.
SwitchJob(j) ==
    /\ Fault
    /\ jobRow[j] # "absent"
    /\ jobRow' = [jobRow EXCEPT ![j] =
                     IF @ = "enabled" THEN "disabled" ELSE "enabled"]
    /\ UNCHANGED <<clock, rowStatus, firedAt, lastScrape, ev, thread, sends>>

Tick ==
    /\ clock < MaxClock
    /\ clock' = clock + 1
    /\ UNCHANGED <<jobRow, rowStatus, firedAt, lastScrape, ev, thread, sends,
                   faults>>

-----------------------------------------------------------------------------
\* The steps of evaluate_tick.
TickStep(p) ==
    \/ StartTick(p) \/ EmptyTick(p) \/ Reap(p)
    \/ SkipSource(p) \/ BeginScrape(p) \/ EndScrape(p) \/ BeginPlanB(p)
    \/ SkipActive(p) \/ PickJob(p) \/ SkipJob(p) \/ Claim(p) \/ Dispatch(p)
    \/ DispatchRaises(p) \/ StoreRaises(p)
    \/ Settle(p) \/ SendTimesOut(p) \/ EndTick(p)

ThreadStep(p) ==
    \E k \in Key : ThreadStarts(p, k) \/ ThreadEnds(p, k) \/ OrphanEnds(p, k)

Next ==
    \/ \E p \in Proc :
         \/ TickStep(p)
         \/ ThreadStep(p)
         \/ Crash(p)
         \/ Shutdown(p)
         \/ Boot(p)
    \/ \E j \in Job : SwitchJob(j)
    \/ Tick

Spec == Init /\ [][Next]_vars

(* The loop keeps ticking, a tick proceeds (scrapes and sends are bounded   *)
(* by their deadlines), the clock runs, and a service that went down comes  *)
(* back (restart: unless-stopped) once its threads are gone. A send thread  *)
(* is NOT assumed to end, except those joined at exit.                      *)
Fairness ==
    /\ \A p \in Loop : WF_vars(TickStep(p)) /\ WF_vars(Boot(p))
    /\ \A p \in Loop : \A k \in Key :
         WF_vars(ev[p].pc = "down" /\ OrphanEnds(p, k))
    /\ WF_vars(Tick)

FairSpec == Spec /\ Fairness

-----------------------------------------------------------------------------
(* Properties that hold with any number of evaluators                       *)

\* At most once: whatever crashes, times out, is reaped or overlaps, the sender
\* is entered at most once for a scheduled firing of a job.
AtMostOnceSend == \A k \in Key : sends[k] <= 1

\* The live-orphan ceiling bounds the send threads a long-lived loop can pile
\* up, the send in flight included, however the relay hangs.
OrphansBounded ==
    \A p \in Loop :
        Cardinality({k \in Key : thread[p][k] # "none"}) <= MaxOrphans

\* Process p owns the claim of firing k.
Holds(p, k) == ev[p].pc \in {"dispatch", "await"} /\ Firing(p) = k

\* A send of firing k whose result process p still awaits.
LiveSend(p, k) == thread[p][k] \in {"submitted", "running"} \cup Outcome

\* Claim discipline: a claimed firing has one owner, only its owner has a live
\* send for it, and the send count is what row, owner and thread say it is.
\* (The reaper may end the row under its owner, so the row alone does not.)
ClaimDiscipline ==
    /\ \A p \in Proc, k \in Key :
         /\ Holds(p, k) => rowStatus[k] \notin {"none", "sent"}
         /\ LiveSend(p, k) => Holds(p, k) /\ ev[p].pc = "await"
         /\ Holds(p, k) /\ ev[p].pc = "dispatch" => sends[k] = 0
         /\ thread[p][k] = "submitted" => sends[k] = 0
         /\ thread[p][k] \in {"running"} \cup Outcome => sends[k] = 1
    /\ \A p, q \in Proc, k \in Key : Holds(p, k) /\ Holds(q, k) => p = q
    /\ \A k \in Key :
         /\ sends[k] \in {0, 1}
         /\ rowStatus[k] = "none" => sends[k] = 0
         /\ rowStatus[k] = "sent" => sends[k] = 1

Phase == [k \in Key |->
    IF rowStatus[k] = "sent" THEN "confirmed"
    ELSE IF sends[k] > 0 THEN "dispatched"
    ELSE IF rowStatus[k] # "none" THEN "claimed"
    ELSE "open"]

Ledger == INSTANCE DigestLedger WITH phase <- Phase, Key <- Key

\* The evaluator implements the ledger: no firing is ever re-opened, sent
\* without a claim, or un-confirmed.
LedgerImplemented == Ledger!LedgerSpec

-----------------------------------------------------------------------------
(* Properties of an evaluator that is alone                                 *)

\* The deployment has one process at most.
Alone ==
    \A p, q \in Proc : ev[p].pc # "off" /\ ev[q].pc # "off" => p = q

\* A job has at most one firing in progress.
JobSingleton ==
    \A j \in Job : \A v, w \in Window :
        rowStatus[<<j, v>>] \in Active /\ rowStatus[<<j, w>>] \in Active
            => v = w

\* The per-job singleton, where has_active_job_run and the insert of the row
\* cannot be separated by another process: a job never has two firings in
\* progress, although a crash or a failed write can strand one for several
\* windows.
LoneJobSingleton == Alone => JobSingleton

\* A row that has ended is not written again.
EndedKept ==
    \A k \in Key : rowStatus[k] \in Terminal => rowStatus'[k] = rowStatus[k]

\* A row that reached a terminal status keeps it: the reaper never takes a row
\* whose send is in progress, so no late result overwrites what it wrote. The
\* code says so of any number of evaluators; see the run overlap_reaper.
TerminalStatusStable == [][EndedKept]_vars

\* The same for an evaluator that is alone.
LoneTerminalStable == [][Alone => EndedKept]_vars

\* Two scrapes of a source by the evaluator are at least the period of one of
\* the jobs that watch it apart.
ScrapeDedup ==
    [][Alone => \A s \in Source :
         lastScrape[s] # Never /\ lastScrape'[s] # lastScrape[s] =>
            \E j \in Job : s \in SourcesOf[j]
                           /\ lastScrape'[s] >= lastScrape[s] + Period[j]]_vars

\* A stranded row is released: an active row does not block its job for good,
\* unless the job is switched off. (A row fired within Timeout of the last
\* instant of the model's clock cannot grow old enough.)
StrandedRowReleased ==
    \A k \in {k \in Key : k[2] % Period[k[1]] = 0} :
        (rowStatus[k] \in Active /\ firedAt[k] + Timeout < MaxClock)
            ~> (rowStatus[k] \notin Active \/ k[1] \notin enabled)

=============================================================================

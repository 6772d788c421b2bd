----------------------- MODULE DigestEvaluatorProofs -----------------------
(***************************************************************************)
(* Exactly-once bookkeeping of the digest evaluator, for any number of     *)
(* concurrent evaluator processes, jobs, windows, crashes and timeouts:    *)
(* the sender is entered at most once per firing, a loop's send threads    *)
(* stay within their ceiling, and the evaluator implements DigestLedger.   *)
(* For an evaluator that is alone: one firing per job in progress, ended   *)
(* rows stay ended, and no source is scraped twice within a period.        *)
(***************************************************************************)
EXTENDS DigestEvaluator, FiniteSetTheorems, TLAPS

Pc == {"idle", "reap", "planA", "scrape", "planB", "claim", "dispatch",
       "await", "down", "off"}

\* The job local is set exactly in the steps of Plan B that use it.
JobLocalSet ==
    \A p \in Proc :
        ev[p].pc \in {"claim", "dispatch", "await"} => ev[p].job \in Job

-----------------------------------------------------------------------------
(* Type correctness                                                         *)

\* The window of a tick's start is an instant of the model's clock.
LEMMA WindowInTime ==
    ASSUME NEW j \in Job, NEW t \in Time
    PROVE  compute_window_start(j, t) \in Window
  <1>1. t \in Nat /\ Period[j] \in Nat \ {0}
    BY NumbersAssumption DEF Time
  <1>2. t % Period[j] \in 0 .. t
    BY <1>1
  <1> QED
    BY <1>1, <1>2, NumbersAssumption DEF compute_window_start, Window, Time

\* The firing a process works on in Plan B is a primary key of job_runs.
LEMMA FiringInKey ==
    ASSUME TypeOK, JobLocalSet, NEW p \in Proc,
           ev[p].pc \in {"claim", "dispatch", "await"}
    PROVE  Firing(p) \in Key
  <1>1. ev[p].job \in Job /\ ev[p].now \in Time
    BY DEF TypeOK, EvState, JobLocalSet
  <1> QED
    BY <1>1, WindowInTime DEF Firing, Key

\* A step of process p rewrites its own local state only.
LEMMA LocalWrite ==
    ASSUME ev \in [Proc -> EvState], NEW p \in Proc, NEW r \in EvState,
           ev' = [ev EXCEPT ![p] = r]
    PROVE  /\ ev' \in [Proc -> EvState]
           /\ ev'[p] = r
           /\ \A q \in Proc : q # p => ev'[q] = ev[q]
  OBVIOUS

\* The fields of a process's local state have their types.
LEMMA LocalFields ==
    ASSUME NEW e \in EvState
    PROVE  /\ e.pc \in Pc
           /\ e.now \in Time
           /\ e.jobs \in SUBSET Job
           /\ e.srcs \in SUBSET Source
           /\ e.job \in Job \cup {None}
           /\ e.src \in Source \cup {None}
           /\ e.since \in Time
           /\ e = [pc |-> e.pc, now |-> e.now, jobs |-> e.jobs,
                   srcs |-> e.srcs, job |-> e.job, src |-> e.src,
                   since |-> e.since]
  BY DEF EvState, Pc

\* Going to another step of the tick changes nothing but pc.
LEMMA GotoFields ==
    ASSUME NEW e \in EvState, NEW st \in Pc
    PROVE  LET r == [e EXCEPT !.pc = st]
           IN  r \in EvState /\ r.pc = st /\ r.job = e.job /\ r.now = e.now
  BY DEF EvState, Pc

\* The epoch is an instant of the clock.
LEMMA ZeroInTime == 0 \in Time
  BY NumbersAssumption DEF Time

\* Plan B leaves a job with no job local set.
LEMMA NextJobFields ==
    ASSUME NEW e \in EvState
    PROVE  LET r == [e EXCEPT !.pc = "planB", !.job = None, !.since = 0]
           IN  r \in EvState /\ r.pc = "planB"
  BY ZeroInTime DEF EvState

\* Plan B drops a job from its list, or takes it up.
LEMMA PlanBFields ==
    ASSUME NEW e \in EvState, NEW j \in e.jobs
    PROVE  /\ LET r == [e EXCEPT !.jobs = e.jobs \ {j}]
              IN  r \in EvState /\ r.pc = e.pc
           /\ LET r == [e EXCEPT !.pc = "claim", !.job = j, !.jobs = e.jobs \ {j}]
              IN  r \in EvState /\ r.pc = "claim" /\ r.job = j /\ j \in Job
  BY DEF EvState

\* Submitting a send keeps the firing the process is working on.
LEMMA DispatchFields ==
    ASSUME NEW e \in EvState, NEW t \in Time
    PROVE  LET r == [e EXCEPT !.pc = "await", !.since = t]
           IN  r \in EvState /\ r.pc = "await" /\ r.job = e.job /\ r.now = e.now
  BY DEF EvState

\* A process between ticks, and one shutting down, are local states.
LEMMA IdleFields ==
    /\ Idle \in EvState /\ Idle.pc = "idle"
    /\ [Idle EXCEPT !.pc = "down"] \in EvState
    /\ [Idle EXCEPT !.pc = "down"].pc = "down"
    /\ [Idle EXCEPT !.pc = "off"] \in EvState
    /\ [Idle EXCEPT !.pc = "off"].pc = "off"
  BY ZeroInTime DEF Idle, EvState

\* Every process starts between ticks, or is no part of the deployment.
LEMMA InitIdle ==
    ASSUME Init
    PROVE  ev \in [Proc -> EvState] /\ \A p \in Proc : ev[p].pc \in {"idle", "off"}
  <1>1. PICK d \in Deployments :
          ev = [p \in Proc |->
                  IF p \in d.procs THEN Idle ELSE [Idle EXCEPT !.pc = "off"]]
    BY DEF Init
  <1> QED
    BY <1>1, IdleFields

\* Plan A drops a source from its list, takes it up, and comes back.
LEMMA ScrapeFields ==
    ASSUME NEW e \in EvState, NEW s \in e.srcs
    PROVE  /\ LET r == [e EXCEPT !.srcs = e.srcs \ {s}]
              IN  r \in EvState /\ r.pc = e.pc
           /\ LET r == [e EXCEPT !.pc = "scrape", !.src = s, !.srcs = e.srcs \ {s}]
              IN  r \in EvState /\ r.pc = "scrape"
           /\ LET r == [e EXCEPT !.pc = "planA", !.src = None]
              IN  r \in EvState /\ r.pc = "planA"
  BY DEF EvState

-----------------------------------------------------------------------------
(* Where a step leaves the local state of its process. Moves(p, S) says     *)
(* that only process p moved, to a step in S.                               *)

Moves(p, S) ==
    /\ ev' \in [Proc -> EvState]
    /\ ev'[p].pc \in S
    /\ \A q \in Proc : q # p => ev'[q] = ev[q]

\* Steps before and after the ones that hold a claimed firing.
Outside == Pc \ {"claim", "dispatch", "await", "off"}

\* The start and the end of a tick, of a process, leave p holding nothing.
LEMMA TickMoves ==
    ASSUME TypeOK, NEW p \in Proc,
           StartTick(p) \/ Boot(p) \/ EndTick(p) \/ Crash(p) \/ Shutdown(p)
    PROVE  Moves(p, Outside)
  <1> USE DEF Moves, Outside, Pc
  <1>1. ev \in [Proc -> EvState]
    BY DEF TypeOK
  <1>2. CASE StartTick(p)
    <2> DEFINE r == [pc |-> "reap", now |-> clock, jobs |-> enabled,
                     srcs |-> UNION {SourcesOf[j] : j \in enabled},
                     job |-> None, src |-> None, since |-> 0]
    <2>1. UNION {SourcesOf[j] : j \in enabled} \in SUBSET Source
      BY SetsAssumption DEF enabled
    <2>2. r \in EvState /\ r.pc = "reap"
      BY <2>1, ZeroInTime DEF EvState, TypeOK, enabled
    <2>3. ev' = [ev EXCEPT ![p] = r]
      BY <1>2 DEF StartTick
    <2> HIDE DEF r
    <2> QED
      BY <1>1, <2>2, <2>3, LocalWrite
  <1>3. CASE Boot(p) \/ EndTick(p) \/ Crash(p)
    <2>1. ev' = [ev EXCEPT ![p] = Idle]
      BY <1>3 DEF Boot, EndTick, Crash
    <2> QED
      BY <1>1, <2>1, IdleFields, LocalWrite
  <1>4. CASE Shutdown(p)
    <2>1. ev' = [ev EXCEPT ![p] = [Idle EXCEPT !.pc = "down"]]
      BY <1>4 DEF Shutdown
    <2> QED
      BY <1>1, <2>1, IdleFields, LocalWrite
  <1> QED
    BY <1>2, <1>3, <1>4

\* The sweep and Plan A stay among the steps that hold nothing.
LEMMA PlanAMoves ==
    ASSUME TypeOK, NEW p \in Proc,
           \/ Reap(p) \/ SkipSource(p) \/ BeginScrape(p) \/ EndScrape(p)
           \/ BeginPlanB(p)
    PROVE  Moves(p, Outside) /\ ev[p].pc \in Outside
  <1> USE DEF Moves, Outside, Pc
  <1>1. ev \in [Proc -> EvState] /\ ev[p] \in EvState
    BY DEF TypeOK
  <1>2. CASE Reap(p)
    <2>1. ev' = [ev EXCEPT ![p] = [ev[p] EXCEPT !.pc = "planA"]]
      BY <1>2 DEF Reap, Goto
    <2> QED
      BY <1>1, <1>2, <2>1, GotoFields, LocalWrite DEF Reap
  <1>3. CASE SkipSource(p)
    <2>1. PICK s \in ev[p].srcs :
            ev' = [ev EXCEPT ![p] = [ev[p] EXCEPT !.srcs = ev[p].srcs \ {s}]]
      BY <1>3 DEF SkipSource
    <2>2. ev[p].pc = "planA"
      BY <1>3 DEF SkipSource
    <2> QED
      BY <1>1, <2>1, <2>2, ScrapeFields, LocalWrite
  <1>4. CASE BeginScrape(p)
    <2>1. PICK s \in ev[p].srcs :
            ev' = [ev EXCEPT ![p] =
              [ev[p] EXCEPT !.pc = "scrape", !.src = s, !.srcs = ev[p].srcs \ {s}]]
      BY <1>4 DEF BeginScrape
    <2>2. ev[p].pc = "planA"
      BY <1>4 DEF BeginScrape
    <2> DEFINE r == [ev[p] EXCEPT !.pc = "scrape", !.src = s,
                                  !.srcs = ev[p].srcs \ {s}]
    <2>3. r \in EvState /\ r.pc = "scrape"
      BY <1>1, ScrapeFields
    <2>4. ev' = [ev EXCEPT ![p] = r]
      BY <2>1
    <2> HIDE DEF r
    <2> QED
      BY <1>1, <2>2, <2>3, <2>4, LocalWrite
  <1>5. CASE EndScrape(p)
    <2>1. ev' = [ev EXCEPT ![p] =
                   [ev[p] EXCEPT !.pc = "planA", !.src = None]]
      BY <1>5 DEF EndScrape
    <2>2. LET r == [ev[p] EXCEPT !.pc = "planA", !.src = None]
          IN  r \in EvState /\ r.pc = "planA"
      BY <1>1 DEF EvState
    <2>3. ev[p].pc = "scrape"
      BY <1>5 DEF EndScrape
    <2> QED
      BY <1>1, <2>1, <2>2, <2>3, LocalWrite
  <1>6. CASE BeginPlanB(p)
    <2>1. ev' = [ev EXCEPT ![p] = [ev[p] EXCEPT !.pc = "planB"]]
      BY <1>6 DEF BeginPlanB, Goto
    <2> QED
      BY <1>1, <1>6, <2>1, GotoFields, LocalWrite DEF BeginPlanB
  <1> QED
    BY <1>2, <1>3, <1>4, <1>5, <1>6

\* Going to the next job leaves p holding nothing.
LEMMA NextJobMoves ==
    ASSUME TypeOK, NEW p \in Proc, NextJob(p) PROVE Moves(p, Outside)
  <1>1. ev \in [Proc -> EvState] /\ ev[p] \in EvState
    BY DEF TypeOK
  <1>2. ev' = [ev EXCEPT ![p] =
                 [ev[p] EXCEPT !.pc = "planB", !.job = None, !.since = 0]]
    BY DEF NextJob
  <1> QED
    BY <1>1, <1>2, NextJobFields, LocalWrite DEF Moves, Outside, Pc

\* Choosing a job leaves p at most about to claim, with its job set.
LEMMA PlanBMoves ==
    ASSUME TypeOK, NEW p \in Proc, SkipActive(p) \/ PickJob(p)
    PROVE  /\ Moves(p, Outside \cup {"claim"})
           /\ ev'[p].pc = "claim" => ev'[p].job \in Job
           /\ ev[p].pc = "planB"
  <1> USE DEF Moves, Outside, Pc
  <1>1. ev \in [Proc -> EvState] /\ ev[p] \in EvState
    BY DEF TypeOK
  <1>2. CASE SkipActive(p)
    <2>1. PICK j \in ev[p].jobs :
            ev' = [ev EXCEPT ![p] = [ev[p] EXCEPT !.jobs = ev[p].jobs \ {j}]]
      BY <1>2 DEF SkipActive
    <2>2. ev[p].pc = "planB"
      BY <1>2 DEF SkipActive
    <2> DEFINE r == [ev[p] EXCEPT !.jobs = ev[p].jobs \ {j}]
    <2>3. r \in EvState /\ r.pc = "planB"
      BY <1>1, <2>2, PlanBFields
    <2>4. ev' = [ev EXCEPT ![p] = r]
      BY <2>1
    <2> HIDE DEF r
    <2> QED
      BY <1>1, <2>2, <2>3, <2>4, LocalWrite
  <1>3. CASE PickJob(p)
    <2>1. PICK j \in ev[p].jobs :
            ev' = [ev EXCEPT ![p] = [ev[p] EXCEPT !.pc = "claim", !.job = j,
                                      !.jobs = ev[p].jobs \ {j}]]
      BY <1>3 DEF PickJob
    <2>2. ev[p].pc = "planB"
      BY <1>3 DEF PickJob
    <2> DEFINE r == [ev[p] EXCEPT !.pc = "claim", !.job = j,
                                  !.jobs = ev[p].jobs \ {j}]
    <2>3. r \in EvState /\ r.pc = "claim" /\ r.job \in Job
      BY <1>1, PlanBFields
    <2>4. ev' = [ev EXCEPT ![p] = r]
      BY <2>1
    <2> HIDE DEF r
    <2> QED
      BY <1>1, <2>2, <2>3, <2>4, LocalWrite
  <1> QED
    BY <1>2, <1>3

\* The claim keeps the job and the start of the tick, hence the firing.
LEMMA ClaimMoves ==
    ASSUME TypeOK, NEW p \in Proc, Claim(p)
    PROVE  /\ Moves(p, {"dispatch"})
           /\ ev'[p].job = ev[p].job /\ ev'[p].now = ev[p].now
  <1>1. ev \in [Proc -> EvState] /\ ev[p] \in EvState
    BY DEF TypeOK
  <1>2. ev' = [ev EXCEPT ![p] = [ev[p] EXCEPT !.pc = "dispatch"]]
    BY DEF Claim, Goto
  <1> QED
    BY <1>1, <1>2, GotoFields, LocalWrite DEF Moves, Pc

\* The dispatch keeps the job and the start of the tick, hence the firing.
LEMMA DispatchMoves ==
    ASSUME TypeOK, NEW p \in Proc, Dispatch(p)
    PROVE  /\ Moves(p, {"await"})
           /\ ev'[p].job = ev[p].job /\ ev'[p].now = ev[p].now
  <1>1. ev \in [Proc -> EvState] /\ ev[p] \in EvState /\ clock \in Time
    BY DEF TypeOK
  <1>2. ev' = [ev EXCEPT ![p] = [ev[p] EXCEPT !.pc = "await", !.since = clock]]
    BY DEF Dispatch
  <1> QED
    BY <1>1, <1>2, DispatchFields, LocalWrite DEF Moves

\* Every step moves one process, or none.
LEMMA LocalTypes ==
    ASSUME TypeOK, JobLocalSet, [Next]_vars
    PROVE  ev' \in [Proc -> EvState] /\ JobLocalSet'
  <1>1. ASSUME NEW p \in Proc, Moves(p, Outside)
        PROVE  ev' \in [Proc -> EvState] /\ JobLocalSet'
    BY <1>1 DEF Moves, Outside, JobLocalSet
  <1>2. ASSUME ev' = ev PROVE ev' \in [Proc -> EvState] /\ JobLocalSet'
    BY <1>2 DEF TypeOK, JobLocalSet
  <1>3. ASSUME NEW p \in Proc,
               \/ StartTick(p) \/ Boot(p) \/ EndTick(p) \/ Crash(p)
               \/ Shutdown(p)
        PROVE  ev' \in [Proc -> EvState] /\ JobLocalSet'
    BY <1>1, <1>3, TickMoves
  <1>4. ASSUME NEW p \in Proc,
               \/ Reap(p) \/ SkipSource(p) \/ BeginScrape(p) \/ EndScrape(p)
               \/ BeginPlanB(p)
        PROVE  ev' \in [Proc -> EvState] /\ JobLocalSet'
    BY <1>1, <1>4, PlanAMoves
  <1>5. ASSUME NEW p \in Proc,
               \/ SkipJob(p) \/ DispatchRaises(p) \/ StoreRaises(p)
               \/ Settle(p) \/ SendTimesOut(p)
        PROVE  ev' \in [Proc -> EvState] /\ JobLocalSet'
    <2>1. NextJob(p)
      BY <1>5 DEF SkipJob, DispatchRaises, StoreRaises, Settle, SendTimesOut
    <2> QED
      BY <1>1, <2>1, NextJobMoves
  <1>6. ASSUME NEW p \in Proc, SkipActive(p) \/ PickJob(p)
        PROVE  ev' \in [Proc -> EvState] /\ JobLocalSet'
    BY <1>6, PlanBMoves DEF Moves, Outside, JobLocalSet
  <1>7. ASSUME NEW p \in Proc, Claim(p)
        PROVE  ev' \in [Proc -> EvState] /\ JobLocalSet'
    BY <1>7, ClaimMoves DEF Claim, Moves, JobLocalSet
  <1>8. ASSUME NEW p \in Proc, Dispatch(p)
        PROVE  ev' \in [Proc -> EvState] /\ JobLocalSet'
    BY <1>8, DispatchMoves DEF Dispatch, Moves, JobLocalSet
  <1>9. ASSUME NEW p \in Proc, EmptyTick(p) \/ ThreadStep(p)
        PROVE  ev' \in [Proc -> EvState] /\ JobLocalSet'
    BY <1>2, <1>9
    DEF EmptyTick, ThreadStep, ThreadStarts, ThreadEnds, OrphanEnds, vars
  <1>10. ASSUME (\E j \in Job : SwitchJob(j)) \/ Tick \/ UNCHANGED vars
         PROVE  ev' \in [Proc -> EvState] /\ JobLocalSet'
    BY <1>2, <1>10 DEF SwitchJob, Tick, vars
  <1> QED
    BY <1>3, <1>4, <1>5, <1>6, <1>7, <1>8, <1>9, <1>10 DEF Next, TickStep

-----------------------------------------------------------------------------
(* The shared state                                                         *)

RowState == {"none"} \cup Active \cup Terminal
ThreadState == {"none", "submitted", "running", "orphan"} \cup Outcome

\* An UPDATE of one row touches that row only.
LEMMA RowWrite ==
    ASSUME rowStatus \in [Key -> RowState], NEW k \in Key, NEW st \in RowState,
           update_job_run(k, st)
    PROVE  /\ rowStatus' \in [Key -> RowState]
           /\ rowStatus'[k] = st
           /\ \A l \in Key : l # k => rowStatus'[l] = rowStatus[l]
  BY DEF update_job_run

\* A change of one send thread touches that thread only.
LEMMA ThreadWrite ==
    ASSUME thread \in [Proc -> [Key -> ThreadState]], NEW p \in Proc,
           NEW k \in Key, NEW st \in ThreadState, SetThread(p, k, st)
    PROVE  /\ thread' \in [Proc -> [Key -> ThreadState]]
           /\ thread'[p][k] = st
           /\ \A q \in Proc, l \in Key :
                <<q, l>> # <<p, k>> => thread'[q][l] = thread[q][l]
  BY DEF SetThread

\* The row reads 'sent' for a send that returned True and for no other.
LEMMA OutcomeStatus ==
    ASSUME NEW o \in Outcome
    PROVE  /\ StatusFor(o) \in {"sent", "skipped_no_email", "error"}
           /\ StatusFor(o) = "sent" <=> o = "sent"
  BY DEF StatusFor, Outcome

\* The sweep turns active rows into errors and does nothing else.
LEMMA ReapWrite ==
    ASSUME rowStatus \in [Key -> RowState], NEW js, NEW t,
           reap_stale_job_run(js, t)
    PROVE  /\ rowStatus' \in [Key -> RowState]
           /\ \A k \in Key :
                \/ rowStatus'[k] = rowStatus[k]
                \/ rowStatus[k] \in Active /\ rowStatus'[k] = "error"
  BY DEF reap_stale_job_run, Stale, ReapedStatus, RowState, Terminal

\* Every step keeps the types of rows, threads and send counts.
LEMMA SharedTypes ==
    ASSUME TypeOK, JobLocalSet, [Next]_vars
    PROVE  /\ rowStatus' \in [Key -> RowState]
           /\ thread' \in [Proc -> [Key -> ThreadState]]
           /\ sends' \in [Key -> Nat]
  <1>1. /\ rowStatus \in [Key -> RowState]
        /\ thread \in [Proc -> [Key -> ThreadState]]
        /\ sends \in [Key -> Nat]
    BY DEF TypeOK, RowState, ThreadState
  <1> DEFINE Goal == /\ rowStatus' \in [Key -> RowState]
                     /\ thread' \in [Proc -> [Key -> ThreadState]]
                     /\ sends' \in [Key -> Nat]
  <1>2. ASSUME UNCHANGED <<rowStatus, thread, sends>> PROVE Goal
    BY <1>1, <1>2
  <1>3. ASSUME NEW p \in Proc,
               \/ StartTick(p) \/ EmptyTick(p) \/ SkipSource(p)
               \/ BeginScrape(p) \/ EndScrape(p) \/ BeginPlanB(p)
               \/ SkipActive(p) \/ PickJob(p) \/ SkipJob(p) \/ StoreRaises(p)
               \/ Boot(p)
        PROVE  Goal
    <2>1. UNCHANGED <<rowStatus, thread, sends>>
      BY <1>3 DEF StartTick, EmptyTick, SkipSource, BeginScrape, EndScrape,
                  BeginPlanB, SkipActive, PickJob, SkipJob, StoreRaises, Boot,
                  vars
    <2> QED
      BY <1>2, <2>1
  <1>4. ASSUME NEW p \in Proc, Reap(p) PROVE Goal
    BY <1>1, <1>4, ReapWrite DEF Reap
  <1>5. ASSUME NEW p \in Proc, Claim(p) \/ DispatchRaises(p) PROVE Goal
    <2>1. Firing(p) \in Key
      BY <1>5, FiringInKey DEF Claim, DispatchRaises
    <2>2. PICK st \in {"queued", "error"} : update_job_run(Firing(p), st)
      BY <1>5 DEF Claim, DispatchRaises
    <2>3. rowStatus' \in [Key -> RowState]
      BY <1>1, <2>1, <2>2, RowWrite DEF RowState, Active, Terminal
    <2> QED
      BY <1>1, <1>5, <2>3 DEF Claim, DispatchRaises
  <1>6. ASSUME NEW p \in Proc, Dispatch(p) PROVE Goal
    <2>1. Firing(p) \in Key
      BY <1>6, FiringInKey DEF Dispatch
    <2>2. rowStatus' \in [Key -> RowState]
      BY <1>1, <1>6, <2>1, RowWrite DEF Dispatch, RowState, Active
    <2>3. thread' \in [Proc -> [Key -> ThreadState]]
      BY <1>1, <1>6, <2>1, ThreadWrite DEF Dispatch, ThreadState
    <2> QED
      BY <1>1, <1>6, <2>2, <2>3 DEF Dispatch
  <1>7. ASSUME NEW p \in Proc, Settle(p) \/ SendTimesOut(p) PROVE Goal
    <2>1. Firing(p) \in Key
      BY <1>7, FiringInKey DEF Settle, SendTimesOut
    <2>2. PICK st \in {"sent", "skipped_no_email", "error"} :
            Record(Firing(p), st)
      <3>1. CASE Settle(p)
        <4>1. StatusFor(thread[p][Firing(p)])
                \in {"sent", "skipped_no_email", "error"}
          BY <3>1, OutcomeStatus DEF Settle
        <4> QED
          BY <3>1, <4>1 DEF Settle
      <3>2. CASE SendTimesOut(p)
        BY <3>2 DEF SendTimesOut
      <3> QED
        BY <1>7, <3>1, <3>2
    <2>3. rowStatus' \in [Key -> RowState]
      <3>1. CASE update_job_run(Firing(p), st)
        BY <1>1, <2>1, <3>1, RowWrite DEF RowState, Terminal
      <3>2. CASE UNCHANGED rowStatus
        BY <1>1, <3>2
      <3> QED
        BY <2>2, <3>1, <3>2 DEF Record
    <2>4. PICK ts \in {"none", "orphan"} : SetThread(p, Firing(p), ts)
      BY <1>7, Zenon DEF Settle, SendTimesOut
    <2>5. thread' \in [Proc -> [Key -> ThreadState]]
      BY <1>1, <2>1, <2>4, ThreadWrite DEF ThreadState
    <2> QED
      BY <1>1, <1>7, <2>3, <2>5 DEF Settle, SendTimesOut
  <1>8. ASSUME NEW p \in Proc, EndTick(p) \/ Crash(p) \/ Shutdown(p)
        PROVE  Goal
    <2>1. NoThreads \in [Key -> ThreadState]
      BY DEF NoThreads, ThreadState
    <2>2. CASE EndTick(p) \/ Crash(p)
      BY <1>1, <2>1, <2>2 DEF EndTick, Crash
    <2>3. CASE Shutdown(p)
      BY <1>1, <2>3 DEF Shutdown, ThreadState
    <2> QED
      BY <1>8, <2>2, <2>3
  <1>9. ASSUME NEW p \in Proc, ThreadStep(p) PROVE Goal
    <2>1. PICK k \in Key :
            ThreadStarts(p, k) \/ ThreadEnds(p, k) \/ OrphanEnds(p, k)
      BY <1>9 DEF ThreadStep
    <2>2. PICK st \in ThreadState : SetThread(p, k, st)
      BY <2>1 DEF ThreadStarts, ThreadEnds, OrphanEnds, ThreadState
    <2>3. thread' \in [Proc -> [Key -> ThreadState]]
      BY <1>1, <2>2, ThreadWrite
    <2>4. rowStatus' = rowStatus
      BY <2>1 DEF ThreadStarts, ThreadEnds, OrphanEnds
    <2>5. sends' \in [Key -> Nat]
      <3>1. CASE ThreadStarts(p, k)
        BY <1>1, <3>1 DEF ThreadStarts
      <3>2. CASE ThreadEnds(p, k) \/ OrphanEnds(p, k)
        BY <1>1, <3>2 DEF ThreadEnds, OrphanEnds
      <3> QED
        BY <2>1, <3>1, <3>2
    <2> QED
      BY <1>1, <2>3, <2>4, <2>5
  <1>10. ASSUME (\E j \in Job : SwitchJob(j)) \/ Tick \/ UNCHANGED vars
         PROVE  Goal
    <2>1. UNCHANGED <<rowStatus, thread, sends>>
      BY <1>10 DEF SwitchJob, Tick, vars
    <2> QED
      BY <1>2, <2>1
  <1> HIDE DEF Goal
  <1>11. Goal
    BY <1>3, <1>4, <1>5, <1>6, <1>7, <1>8, <1>9, <1>10 DEF Next, TickStep
  <1> QED
    BY <1>11 DEF Goal

\* The faults stay within their bound.
LEMMA FaultType ==
    ASSUME TypeOK, Fault \/ UNCHANGED faults PROVE faults' \in 0 .. MaxFaults
  BY NumbersAssumption DEF TypeOK, Fault

\* Every step keeps the types of the clock, the job list and the stamps.
LEMMA StampTypes ==
    ASSUME TypeOK, JobLocalSet, [Next]_vars
    PROVE  /\ clock' \in Time
           /\ jobRow' \in [Job -> {"absent", "enabled", "disabled"}]
           /\ firedAt' \in [Key -> Time]
           /\ lastScrape' \in [Source -> Time \cup {Never}]
           /\ faults' \in 0 .. MaxFaults
  <1>1. /\ clock \in Time
        /\ jobRow \in [Job -> {"absent", "enabled", "disabled"}]
        /\ firedAt \in [Key -> Time]
        /\ lastScrape \in [Source -> Time \cup {Never}]
        /\ \A p \in Proc : ev[p].now \in Time
    BY DEF TypeOK, EvState
  <1> DEFINE Goal == /\ clock' \in Time
                     /\ jobRow' \in [Job -> {"absent", "enabled", "disabled"}]
                     /\ firedAt' \in [Key -> Time]
                     /\ lastScrape' \in [Source -> Time \cup {Never}]
                     /\ faults' \in 0 .. MaxFaults
  <1>2. ASSUME UNCHANGED <<clock, jobRow, firedAt, lastScrape>>,
               Fault \/ UNCHANGED faults
        PROVE  Goal
    BY <1>1, <1>2, FaultType
  <1>3. ASSUME NEW p \in Proc,
               \/ StartTick(p) \/ EmptyTick(p) \/ SkipSource(p)
               \/ BeginScrape(p) \/ BeginPlanB(p) \/ SkipActive(p)
               \/ PickJob(p) \/ SkipJob(p) \/ Dispatch(p) \/ Boot(p)
               \/ EndTick(p)
        PROVE  Goal
    <2>1. UNCHANGED <<clock, jobRow, firedAt, lastScrape, faults>>
      BY <1>3 DEF StartTick, EmptyTick, SkipSource, BeginScrape, BeginPlanB,
                  SkipActive, PickJob, SkipJob, Dispatch, Boot, EndTick, vars
    <2> QED
      BY <1>2, <2>1
  <1>4. ASSUME NEW p \in Proc,
               \/ Reap(p) \/ DispatchRaises(p) \/ StoreRaises(p) \/ Settle(p)
               \/ SendTimesOut(p) \/ Crash(p) \/ Shutdown(p)
        PROVE  Goal
    <2>1. UNCHANGED <<clock, jobRow, firedAt, lastScrape>>
      BY <1>4 DEF Reap, DispatchRaises, StoreRaises, Settle, SendTimesOut,
                  Crash, Shutdown
    <2>2. Fault \/ UNCHANGED faults
      BY <1>4 DEF Reap, DispatchRaises, StoreRaises, Settle, SendTimesOut,
                  Record, Crash, Shutdown
    <2> QED
      BY <1>2, <2>1, <2>2
  <1>5. ASSUME NEW p \in Proc, EndScrape(p) PROVE Goal
    <2>1. UNCHANGED <<clock, jobRow, firedAt>> /\ (Fault \/ UNCHANGED faults)
      BY <1>5 DEF EndScrape
    <2>2. lastScrape' \in [Source -> Time \cup {Never}]
      <3>1. CASE UNCHANGED lastScrape
        BY <1>1, <3>1
      <3>2. CASE lastScrape' = [lastScrape EXCEPT ![ev[p].src] =
                   IF @ # Never /\ @ > ev[p].now THEN @ ELSE ev[p].now]
        BY <1>1, <3>2
      <3> QED
        BY <1>5, <3>1, <3>2 DEF EndScrape
    <2> QED
      BY <1>1, <2>1, <2>2, FaultType
  <1>6. ASSUME NEW p \in Proc, Claim(p) PROVE Goal
    <2>1. UNCHANGED <<clock, jobRow, lastScrape, faults>>
      BY <1>6 DEF Claim
    <2>2. firedAt' \in [Key -> Time]
      BY <1>1, <1>6 DEF Claim
    <2> QED
      BY <1>1, <2>1, <2>2, FaultType
  <1>7. ASSUME NEW p \in Proc, ThreadStep(p) PROVE Goal
    <2>1. UNCHANGED <<clock, jobRow, firedAt, lastScrape, faults>>
      BY <1>7 DEF ThreadStep, ThreadStarts, ThreadEnds, OrphanEnds
    <2> QED
      BY <1>2, <2>1
  <1>8. ASSUME NEW j \in Job, SwitchJob(j) PROVE Goal
    <2>1. UNCHANGED <<clock, firedAt, lastScrape>> /\ Fault
      BY <1>8 DEF SwitchJob
    <2>2. jobRow' \in [Job -> {"absent", "enabled", "disabled"}]
      BY <1>1, <1>8 DEF SwitchJob
    <2> QED
      BY <1>1, <2>1, <2>2, FaultType
  <1>9. ASSUME Tick PROVE Goal
    <2>1. clock' \in Time
      BY <1>1, <1>9, NumbersAssumption DEF Tick, Time
    <2> QED
      BY <1>1, <1>9, <2>1, FaultType DEF Tick
  <1>10. ASSUME UNCHANGED vars PROVE Goal
    BY <1>2, <1>10 DEF vars
  <1> HIDE DEF Goal
  <1>11. Goal
    BY <1>3, <1>4, <1>5, <1>6, <1>7, <1>8, <1>9, <1>10 DEF Next, TickStep
  <1> QED
    BY <1>11 DEF Goal

\* The initial state is well typed.
LEMMA InitTypes ==
    ASSUME Init PROVE TypeOK /\ JobLocalSet
  <1>1. ev \in [Proc -> EvState] /\ \A p \in Proc : ev[p].pc \in {"idle", "off"}
    BY InitIdle
  <1>2. rowStatus \in [Key -> {"none"} \cup Active \cup Terminal]
    BY DEF Init
  <1>3. /\ thread \in [Proc ->
             [Key -> {"none", "submitted", "running", "orphan"} \cup Outcome]]
        /\ sends \in [Key -> Nat]
    BY DEF Init, NoThreads
  <1>4. /\ clock \in Time /\ jobRow \in [Job -> {"absent", "enabled", "disabled"}]
        /\ firedAt \in [Key -> Time]
        /\ lastScrape \in [Source -> Time \cup {Never}]
        /\ faults \in 0 .. MaxFaults
    BY ZeroInTime, NumbersAssumption DEF Init
  <1> QED
    BY <1>1, <1>2, <1>3, <1>4 DEF TypeOK, JobLocalSet

\* Every step keeps the types.
LEMMA NextTypes ==
    ASSUME TypeOK, JobLocalSet, [Next]_vars PROVE TypeOK' /\ JobLocalSet'
  <1>1. ev' \in [Proc -> EvState] /\ JobLocalSet'
    BY LocalTypes
  <1>2. /\ rowStatus' \in [Key -> {"none"} \cup Active \cup Terminal]
        /\ thread' \in [Proc ->
             [Key -> {"none", "submitted", "running", "orphan"} \cup Outcome]]
        /\ sends' \in [Key -> Nat]
    BY SharedTypes DEF RowState, ThreadState
  <1>3. /\ clock' \in Time /\ jobRow' \in [Job -> {"absent", "enabled", "disabled"}]
        /\ firedAt' \in [Key -> Time]
        /\ lastScrape' \in [Source -> Time \cup {Never}]
        /\ faults' \in 0 .. MaxFaults
    BY StampTypes
  <1>4. Time' = Time /\ EvState' = EvState
    BY DEF Time, EvState
  <1> QED
    BY <1>1, <1>2, <1>3, <1>4 DEF TypeOK

\* Every variable keeps its type, and Plan B never works on a firing without a
\* job, in every behaviour of the evaluator.
THEOREM TypeCorrect == Spec => [](TypeOK /\ JobLocalSet)
  <1>1. Init => TypeOK /\ JobLocalSet
    BY InitTypes
  <1>2. TypeOK /\ JobLocalSet /\ [Next]_vars => (TypeOK /\ JobLocalSet)'
    BY NextTypes
  <1> QED
    BY <1>1, <1>2, PTL DEF Spec

-----------------------------------------------------------------------------
(* The claim discipline is inductive                                        *)

\* A process whose local state did not change holds what it held.
LEMMA OthersHold ==
    ASSUME NEW p \in Proc, NEW q \in Proc, NEW k \in Key,
           ev'[q] = ev[q]
    PROVE  Holds(q, k)' <=> Holds(q, k)
  BY DEF Holds, Firing

\* A step that leaves process p without a claim and without a live send. It may
\* end the row p held, as "sent" if it was sent.
LEMMA LeavePreserves ==
    ASSUME TypeOK, ClaimDiscipline, NEW p \in Proc,
           Moves(p, Outside \cup {"claim"}),
           sends' = sends,
           \A k \in Key :
             /\ rowStatus'[k] = "none" <=> rowStatus[k] = "none"
             /\ rowStatus'[k] = "sent" =>
                  rowStatus[k] = "sent" \/ (sends[k] = 1 /\ Holds(p, k)),
           \A q \in Proc, k \in Key : q # p => thread'[q][k] = thread[q][k],
           \A k \in Key : ~LiveSend(p, k)'
    PROVE  ClaimDiscipline'
  <1>1. \A k \in Key : ~Holds(p, k)'
    BY DEF Holds, Moves, Outside, Pc
  <1>2. \A q \in Proc, k \in Key : q # p => (Holds(q, k)' <=> Holds(q, k))
    BY OthersHold DEF Moves
  <1>3. ASSUME NEW q \in Proc, NEW k \in Key
        PROVE  /\ Holds(q, k)' => rowStatus'[k] \notin {"none", "sent"}
               /\ LiveSend(q, k)' => Holds(q, k)' /\ ev'[q].pc = "await"
               /\ Holds(q, k)' /\ ev'[q].pc = "dispatch" => sends'[k] = 0
               /\ thread'[q][k] = "submitted" => sends'[k] = 0
               /\ thread'[q][k] \in {"running"} \cup Outcome => sends'[k] = 1
    <2>1. CASE q = p
      BY <1>1, <2>1 DEF LiveSend
    <2>2. CASE q # p
      BY <1>2, <2>2 DEF ClaimDiscipline, LiveSend, Moves
    <2> QED
      BY <2>1, <2>2
  <1>4. \A q, r \in Proc, k \in Key : Holds(q, k)' /\ Holds(r, k)' => q = r
    BY <1>1, <1>2 DEF ClaimDiscipline
  <1>5. \A k \in Key : /\ sends'[k] \in {0, 1}
                       /\ rowStatus'[k] = "none" => sends'[k] = 0
                       /\ rowStatus'[k] = "sent" => sends'[k] = 1
    BY DEF ClaimDiscipline
  <1> QED
    BY <1>3, <1>4, <1>5 DEF ClaimDiscipline

\* A process outside Plan B's last steps has no live send.
LEMMA NothingLive ==
    ASSUME TypeOK, ClaimDiscipline, NEW p \in Proc,
           ev[p].pc \notin {"dispatch", "await"}
    PROVE  \A k \in Key : ~LiveSend(p, k)
  BY DEF ClaimDiscipline, Holds

\* A step on p's local state alone, outside the steps that hold a claim.
LEMMA LocalStepPreserves ==
    ASSUME TypeOK, ClaimDiscipline, NEW p \in Proc,
           Moves(p, Outside \cup {"claim"}),
           ev[p].pc \notin {"dispatch", "await"},
           UNCHANGED <<rowStatus, thread, sends>>
    PROVE  ClaimDiscipline'
  <1>1. \A k \in Key : ~LiveSend(p, k)'
    BY NothingLive DEF LiveSend
  <1> QED
    BY <1>1, LeavePreserves

\* The sweep ends active rows but neither frees nor confirms one, even when
\* the row's owner is still sending.
LEMMA ReapPreserves ==
    ASSUME TypeOK, ClaimDiscipline, NEW p \in Proc, Reap(p)
    PROVE  ClaimDiscipline'
  <1>1. Moves(p, Outside \cup {"claim"})
    BY PlanAMoves DEF Moves
  <1>2. \A k \in Key :
          /\ rowStatus'[k] = "none" <=> rowStatus[k] = "none"
          /\ rowStatus'[k] = "sent" => rowStatus[k] = "sent"
    <2>1. rowStatus \in [Key -> RowState]
      BY DEF TypeOK, RowState
    <2>2. \A k \in Key :
                \/ rowStatus'[k] = rowStatus[k]
                \/ rowStatus[k] \in Active /\ rowStatus'[k] = "error"
      BY <2>1, ReapWrite DEF Reap
    <2> QED
      BY <2>2 DEF Active
  <1>3. \A k \in Key : ~LiveSend(p, k)'
    BY NothingLive DEF LiveSend, Reap
  <1> QED
    BY <1>1, <1>2, <1>3, LeavePreserves DEF Reap

\* The end of a tick, a crash and a shutdown leave no live send behind.
LEMMA EndPreserves ==
    ASSUME TypeOK, ClaimDiscipline, NEW p \in Proc,
           EndTick(p) \/ Crash(p) \/ Shutdown(p)
    PROVE  ClaimDiscipline'
  <1>1. Moves(p, Outside \cup {"claim"})
    BY TickMoves DEF Moves
  <1>2. thread \in [Proc -> [Key -> ThreadState]]
    BY DEF TypeOK, ThreadState
  <1>3. \A k \in Key : ~LiveSend(p, k)'
    <2>1. CASE Crash(p)
      BY <1>2, <2>1 DEF Crash, NoThreads, LiveSend, Outcome
    <2>2. CASE Shutdown(p)
      BY <1>2, <2>2 DEF Shutdown, LiveSend, Outcome
    <2>3. CASE EndTick(p) /\ p \notin Loop
      BY <1>2, <2>3 DEF EndTick, NoThreads, LiveSend, Outcome
    <2>4. CASE EndTick(p) /\ p \in Loop
      BY <2>4, NothingLive DEF EndTick, LiveSend
    <2> QED
      BY <2>1, <2>2, <2>3, <2>4
  <1>4. \A q \in Proc, k \in Key : q # p => thread'[q][k] = thread[q][k]
    BY <1>2 DEF EndTick, Crash, Shutdown
  <1>5. UNCHANGED <<rowStatus, sends>>
    BY DEF EndTick, Crash, Shutdown
  <1> QED
    BY <1>1, <1>3, <1>4, <1>5, LeavePreserves

\* The end of the await, by a result or by the deadline: the row is confirmed
\* only if the send ran, and the thread is not live any more.
LEMMA SettlePreserves ==
    ASSUME TypeOK, JobLocalSet, ClaimDiscipline, NEW p \in Proc,
           Settle(p) \/ SendTimesOut(p)
    PROVE  ClaimDiscipline'
  <1> DEFINE f == Firing(p)
  <1>1. f \in Key /\ Holds(p, f)
    BY FiringInKey DEF Settle, SendTimesOut, Holds
  <1>2. Moves(p, Outside \cup {"claim"})
    BY NextJobMoves DEF Settle, SendTimesOut, Moves
  <1>3. /\ rowStatus \in [Key -> RowState]
        /\ thread \in [Proc -> [Key -> ThreadState]]
    BY DEF TypeOK, RowState, ThreadState
  <1>4. PICK ts \in {"none", "orphan"} : SetThread(p, f, ts)
    BY Zenon DEF Settle, SendTimesOut
  <1>5. /\ thread'[p][f] = ts
        /\ \A q \in Proc, l \in Key :
             <<q, l>> # <<p, f>> => thread'[q][l] = thread[q][l]
    BY <1>1, <1>3, <1>4, ThreadWrite DEF ThreadState
  <1>6. \A k \in Key : ~LiveSend(p, k)'
    <2>1. ASSUME NEW k \in Key, k # f PROVE ~LiveSend(p, k)
      BY <2>1 DEF ClaimDiscipline, Holds
    <2> QED
      BY <1>1, <1>5, <2>1 DEF LiveSend, Outcome
  <1>7. PICK st \in {"sent", "skipped_no_email", "error"} :
          /\ Record(f, st)
          /\ st = "sent" => thread[p][f] = "sent"
    <2>1. CASE Settle(p)
      <3>1. thread[p][f] \in Outcome /\ Record(f, StatusFor(thread[p][f]))
        BY <2>1 DEF Settle
      <3> QED
        BY <3>1, OutcomeStatus
    <2>2. CASE SendTimesOut(p)
      BY <2>2 DEF SendTimesOut
    <2> QED
      BY <2>1, <2>2
  <1>8. ASSUME NEW k \in Key
        PROVE  /\ rowStatus'[k] = "none" <=> rowStatus[k] = "none"
               /\ rowStatus'[k] = "sent" =>
                    rowStatus[k] = "sent" \/ (sends[k] = 1 /\ Holds(p, k))
    <2>1. CASE UNCHANGED rowStatus
      BY <2>1
    <2>2. CASE update_job_run(f, st)
      <3>1. /\ rowStatus'[f] = st
            /\ \A l \in Key : l # f => rowStatus'[l] = rowStatus[l]
        BY <1>1, <1>3, <2>2, RowWrite DEF RowState, Terminal
      <3>2. rowStatus[f] # "none"
        BY <1>1 DEF ClaimDiscipline
      <3>3. st = "sent" => sends[f] = 1
        BY <1>1, <1>7 DEF ClaimDiscipline, Outcome
      <3> QED
        BY <1>1, <3>1, <3>2, <3>3
    <2> QED
      BY <1>7, <2>1, <2>2 DEF Record
  <1>9. sends' = sends
    BY DEF Settle, SendTimesOut
  <1> QED
    BY <1>1, <1>2, <1>5, <1>6, <1>8, <1>9, LeavePreserves

\* submit() or the store raised before a send was submitted.
LEMMA RaisePreserves ==
    ASSUME TypeOK, JobLocalSet, ClaimDiscipline, NEW p \in Proc,
           DispatchRaises(p) \/ StoreRaises(p)
    PROVE  ClaimDiscipline'
  <1>1. Moves(p, Outside \cup {"claim"})
    BY NextJobMoves DEF DispatchRaises, StoreRaises, Moves
  <1>2. \A k \in Key : ~LiveSend(p, k)'
    <2>1. \A k \in Key : ~LiveSend(p, k)
      BY DEF DispatchRaises, StoreRaises, ClaimDiscipline
    <2> QED
      BY <2>1 DEF DispatchRaises, StoreRaises, LiveSend
  <1>3. ASSUME NEW k \in Key
        PROVE  /\ rowStatus'[k] = "none" <=> rowStatus[k] = "none"
               /\ rowStatus'[k] = "sent" => rowStatus[k] = "sent"
    <2>1. CASE StoreRaises(p)
      BY <2>1 DEF StoreRaises
    <2>2. CASE DispatchRaises(p)
      <3>1. Firing(p) \in Key /\ rowStatus[Firing(p)] # "none"
        BY <2>2, FiringInKey DEF DispatchRaises, ClaimDiscipline, Holds
      <3>2. rowStatus \in [Key -> RowState]
        BY DEF TypeOK, RowState
      <3>3. /\ rowStatus'[Firing(p)] = "error"
            /\ \A l \in Key : l # Firing(p) => rowStatus'[l] = rowStatus[l]
        BY <2>2, <3>1, <3>2, RowWrite DEF DispatchRaises, RowState, Terminal
      <3> QED
        BY <3>1, <3>3
    <2> QED
      BY <2>1, <2>2
  <1>4. UNCHANGED <<thread, sends>>
    BY DEF DispatchRaises, StoreRaises
  <1> QED
    BY <1>1, <1>2, <1>3, <1>4, LeavePreserves

\* The insert of the row makes p the only owner of a firing nobody has sent.
LEMMA ClaimPreserves ==
    ASSUME TypeOK, JobLocalSet, ClaimDiscipline, NEW p \in Proc, Claim(p)
    PROVE  ClaimDiscipline'
  <1> DEFINE f == Firing(p)
  <1>1. f \in Key /\ rowStatus[f] = "none" /\ ev[p].pc = "claim"
    BY FiringInKey DEF Claim, RowFree
  <1>2. /\ rowStatus'[f] = "queued"
        /\ \A l \in Key : l # f => rowStatus'[l] = rowStatus[l]
    <2>1. rowStatus \in [Key -> RowState]
      BY DEF TypeOK, RowState
    <2> QED
      BY <1>1, <2>1, RowWrite DEF Claim, RowState, Active
  <1>3. UNCHANGED <<thread, sends>>
    BY DEF Claim
  <1>4. \A k \in Key : Holds(p, k)' <=> k = f
    BY <1>1, ClaimMoves DEF Holds, Firing, Moves
  <1>5. \A q \in Proc, k \in Key : q # p => (Holds(q, k)' <=> Holds(q, k))
    BY ClaimMoves, OthersHold DEF Moves
  <1>6. \A q \in Proc : ~Holds(q, f)
    BY <1>1 DEF ClaimDiscipline
  <1>7. \A k \in Key : ~LiveSend(p, k)
    BY <1>1, NothingLive
  <1>8. ev'[p].pc = "dispatch" /\ \A q \in Proc : q # p => ev'[q] = ev[q]
    BY ClaimMoves DEF Moves
  <1>9. ASSUME NEW q \in Proc, NEW k \in Key
        PROVE  /\ Holds(q, k)' => rowStatus'[k] \notin {"none", "sent"}
               /\ LiveSend(q, k)' => Holds(q, k)' /\ ev'[q].pc = "await"
               /\ Holds(q, k)' /\ ev'[q].pc = "dispatch" => sends'[k] = 0
               /\ thread'[q][k] = "submitted" => sends'[k] = 0
               /\ thread'[q][k] \in {"running"} \cup Outcome => sends'[k] = 1
    <2>1. CASE q = p
      BY <1>1, <1>2, <1>3, <1>4, <1>7, <2>1 DEF LiveSend, ClaimDiscipline
    <2>2. CASE q # p
      BY <1>2, <1>3, <1>5, <1>6, <1>8, <2>2 DEF LiveSend, ClaimDiscipline
    <2> QED
      BY <2>1, <2>2
  <1>10. \A q, r \in Proc, k \in Key : Holds(q, k)' /\ Holds(r, k)' => q = r
    BY <1>4, <1>5, <1>6 DEF ClaimDiscipline
  <1>11. \A k \in Key : /\ sends'[k] \in {0, 1}
                        /\ rowStatus'[k] = "none" => sends'[k] = 0
                        /\ rowStatus'[k] = "sent" => sends'[k] = 1
    BY <1>1, <1>2, <1>3 DEF ClaimDiscipline
  <1> QED
    BY <1>9, <1>10, <1>11 DEF ClaimDiscipline

\* The owner submits the send: nothing was sent yet, and only it has a thread.
LEMMA DispatchPreserves ==
    ASSUME TypeOK, JobLocalSet, ClaimDiscipline, NEW p \in Proc, Dispatch(p)
    PROVE  ClaimDiscipline'
  <1> DEFINE f == Firing(p)
  <1>1. f \in Key /\ ev[p].pc = "dispatch" /\ Holds(p, f)
    BY FiringInKey DEF Dispatch, Holds
  <1>2. /\ rowStatus'[f] = "running"
        /\ \A l \in Key : l # f => rowStatus'[l] = rowStatus[l]
    <2>1. rowStatus \in [Key -> RowState]
      BY DEF TypeOK, RowState
    <2> QED
      BY <1>1, <2>1, RowWrite DEF Dispatch, RowState, Active
  <1>3. /\ thread'[p][f] = "submitted"
        /\ \A q \in Proc, l \in Key :
             <<q, l>> # <<p, f>> => thread'[q][l] = thread[q][l]
    <2>1. thread \in [Proc -> [Key -> ThreadState]]
      BY DEF TypeOK, ThreadState
    <2> QED
      BY <1>1, <2>1, ThreadWrite DEF Dispatch, ThreadState
  <1>4. sends' = sends /\ sends[f] = 0
    BY <1>1 DEF Dispatch, ClaimDiscipline
  <1>5. \A q \in Proc, k \in Key : Holds(q, k)' <=> Holds(q, k)
    BY <1>1, DispatchMoves, OthersHold DEF Holds, Firing, Moves
  <1>6. \A k \in Key : ~LiveSend(p, k)
    BY <1>1 DEF ClaimDiscipline
  <1>7. ev'[p].pc = "await" /\ \A q \in Proc : q # p => ev'[q] = ev[q]
    BY DispatchMoves DEF Moves
  <1>8. ASSUME NEW q \in Proc, NEW k \in Key
        PROVE  /\ Holds(q, k)' => rowStatus'[k] \notin {"none", "sent"}
               /\ LiveSend(q, k)' => Holds(q, k)' /\ ev'[q].pc = "await"
               /\ Holds(q, k)' /\ ev'[q].pc = "dispatch" => sends'[k] = 0
               /\ thread'[q][k] = "submitted" => sends'[k] = 0
               /\ thread'[q][k] \in {"running"} \cup Outcome => sends'[k] = 1
    <2>1. CASE q = p
      BY <1>1, <1>2, <1>3, <1>4, <1>5, <1>6, <1>7, <2>1
      DEF LiveSend, ClaimDiscipline, Outcome
    <2>2. CASE q # p
      BY <1>2, <1>3, <1>4, <1>5, <1>7, <2>2 DEF LiveSend, ClaimDiscipline
    <2> QED
      BY <2>1, <2>2
  <1>9. \A q, r \in Proc, k \in Key : Holds(q, k)' /\ Holds(r, k)' => q = r
    BY <1>5 DEF ClaimDiscipline
  <1>10. \A k \in Key : /\ sends'[k] \in {0, 1}
                        /\ rowStatus'[k] = "none" => sends'[k] = 0
                        /\ rowStatus'[k] = "sent" => sends'[k] = 1
    BY <1>1, <1>2, <1>4 DEF ClaimDiscipline
  <1> QED
    BY <1>8, <1>9, <1>10 DEF ClaimDiscipline

\* The send thread enters the sender, or ends.
LEMMA ThreadPreserves ==
    ASSUME TypeOK, JobLocalSet, ClaimDiscipline, NEW p \in Proc, NEW f \in Key,
           ThreadStarts(p, f) \/ ThreadEnds(p, f) \/ OrphanEnds(p, f)
    PROVE  ClaimDiscipline'
  <1>1. thread \in [Proc -> [Key -> ThreadState]] /\ sends \in [Key -> Nat]
    BY DEF TypeOK, ThreadState
  <1>2. UNCHANGED <<ev, rowStatus>>
    BY DEF ThreadStarts, ThreadEnds, OrphanEnds
  <1>3. \A q \in Proc, k \in Key : Holds(q, k)' <=> Holds(q, k)
    BY <1>2, OthersHold
  <1>4. PICK st \in ThreadState :
          /\ thread'[p][f] = st
          /\ \A q \in Proc, l \in Key :
               <<q, l>> # <<p, f>> => thread'[q][l] = thread[q][l]
          /\ ThreadStarts(p, f) => st = "running"
          /\ ThreadEnds(p, f) => st \in Outcome
          /\ OrphanEnds(p, f) => st = "none"
    <2>1. CASE ThreadStarts(p, f)
      BY <1>1, <2>1, ThreadWrite DEF ThreadStarts, ThreadEnds, OrphanEnds,
                                     ThreadState
    <2>2. CASE ThreadEnds(p, f)
      BY <1>1, <2>2, ThreadWrite DEF ThreadStarts, ThreadEnds, OrphanEnds,
                                     ThreadState
    <2>3. CASE OrphanEnds(p, f)
      BY <1>1, <2>3, ThreadWrite DEF ThreadStarts, ThreadEnds, OrphanEnds,
                                     ThreadState
    <2> QED
      BY <2>1, <2>2, <2>3
  <1>5. CASE ThreadStarts(p, f)
    <2>1. /\ thread[p][f] = "submitted" /\ st = "running"
          /\ sends[f] = 0 /\ sends'[f] = 1
          /\ \A k \in Key : k # f => sends'[k] = sends[k]
      BY <1>1, <1>4, <1>5 DEF ThreadStarts, ClaimDiscipline
    <2>2. Holds(p, f) /\ ev[p].pc = "await"
      BY <2>1 DEF ClaimDiscipline, LiveSend
    <2>3. \A q \in Proc : q # p => ~Holds(q, f) /\ ~LiveSend(q, f)
      BY <2>2 DEF ClaimDiscipline
    <2>4. rowStatus[f] \notin {"none", "sent"}
      BY <2>2 DEF ClaimDiscipline
    <2>5. ASSUME NEW q \in Proc, NEW k \in Key
          PROVE  /\ Holds(q, k)' => rowStatus'[k] \notin {"none", "sent"}
                 /\ LiveSend(q, k)' => Holds(q, k)' /\ ev'[q].pc = "await"
                 /\ Holds(q, k)' /\ ev'[q].pc = "dispatch" => sends'[k] = 0
                 /\ thread'[q][k] = "submitted" => sends'[k] = 0
                 /\ thread'[q][k] \in {"running"} \cup Outcome => sends'[k] = 1
      <3>1. CASE k = f
        BY <1>2, <1>3, <1>4, <2>1, <2>2, <2>3, <2>4, <3>1
        DEF LiveSend, Outcome
      <3>2. CASE k # f
        BY <1>2, <1>3, <1>4, <2>1, <3>2 DEF LiveSend, ClaimDiscipline
      <3> QED
        BY <3>1, <3>2
    <2>6. \A k \in Key : /\ sends'[k] \in {0, 1}
                         /\ rowStatus'[k] = "none" => sends'[k] = 0
                         /\ rowStatus'[k] = "sent" => sends'[k] = 1
      BY <1>2, <2>1, <2>4 DEF ClaimDiscipline
    <2>7. \A q, r \in Proc, k \in Key : Holds(q, k)' /\ Holds(r, k)' => q = r
      BY <1>3 DEF ClaimDiscipline
    <2> QED
      BY <2>5, <2>6, <2>7 DEF ClaimDiscipline
  <1>6. CASE ThreadEnds(p, f) \/ OrphanEnds(p, f)
    <2>1. sends' = sends
      BY <1>6 DEF ThreadEnds, OrphanEnds
    <2>2. \/ st = "none"
          \/ st \in Outcome /\ thread[p][f] = "running"
      BY <1>4, <1>6 DEF ThreadEnds
    <2>3. ASSUME NEW q \in Proc, NEW k \in Key
          PROVE  /\ Holds(q, k)' => rowStatus'[k] \notin {"none", "sent"}
                 /\ LiveSend(q, k)' => Holds(q, k)' /\ ev'[q].pc = "await"
                 /\ Holds(q, k)' /\ ev'[q].pc = "dispatch" => sends'[k] = 0
                 /\ thread'[q][k] = "submitted" => sends'[k] = 0
                 /\ thread'[q][k] \in {"running"} \cup Outcome => sends'[k] = 1
      <3>1. CASE <<q, k>> = <<p, f>>
        BY <1>2, <1>3, <1>4, <2>1, <2>2, <3>1
        DEF LiveSend, Outcome, ClaimDiscipline
      <3>2. CASE <<q, k>> # <<p, f>>
        BY <1>2, <1>3, <1>4, <2>1, <3>2 DEF LiveSend, ClaimDiscipline
      <3> QED
        BY <3>1, <3>2
    <2>4. \A k \in Key : /\ sends'[k] \in {0, 1}
                         /\ rowStatus'[k] = "none" => sends'[k] = 0
                         /\ rowStatus'[k] = "sent" => sends'[k] = 1
      BY <1>2, <2>1 DEF ClaimDiscipline
    <2>5. \A q, r \in Proc, k \in Key : Holds(q, k)' /\ Holds(r, k)' => q = r
      BY <1>3 DEF ClaimDiscipline
    <2> QED
      BY <2>3, <2>4, <2>5 DEF ClaimDiscipline
  <1> QED
    BY <1>5, <1>6

\* A step that leaves rows, processes, threads and counts alone.
LEMMA StillPreserves ==
    ASSUME ClaimDiscipline, UNCHANGED <<rowStatus, ev, thread, sends>>
    PROVE  ClaimDiscipline'
  BY DEF ClaimDiscipline, Holds, Firing, LiveSend

\* Every step keeps the claim discipline.
LEMMA NextPreserves ==
    ASSUME TypeOK, JobLocalSet, ClaimDiscipline, [Next]_vars
    PROVE  ClaimDiscipline'
  <1>1. ASSUME NEW p \in Proc, StartTick(p) \/ Boot(p)
        PROVE  ClaimDiscipline'
    <2>1. Moves(p, Outside \cup {"claim"})
      BY <1>1, TickMoves DEF Moves
    <2> QED
      BY <1>1, <2>1, LocalStepPreserves DEF StartTick, Boot
  <1>2. ASSUME NEW p \in Proc,
               \/ SkipSource(p) \/ BeginScrape(p) \/ EndScrape(p)
               \/ BeginPlanB(p)
        PROVE  ClaimDiscipline'
    <2>1. Moves(p, Outside \cup {"claim"}) /\ ev[p].pc \in Outside
      BY <1>2, PlanAMoves DEF Moves
    <2>2. UNCHANGED <<rowStatus, thread, sends>>
      BY <1>2 DEF SkipSource, BeginScrape, EndScrape, BeginPlanB
    <2> QED
      BY <2>1, <2>2, LocalStepPreserves DEF Outside
  <1>3. ASSUME NEW p \in Proc, SkipActive(p) \/ PickJob(p)
        PROVE  ClaimDiscipline'
    <2>1. UNCHANGED <<rowStatus, thread, sends>>
      BY <1>3 DEF SkipActive, PickJob
    <2> QED
      BY <1>3, <2>1, PlanBMoves, LocalStepPreserves
  <1>4. ASSUME NEW p \in Proc, SkipJob(p) PROVE ClaimDiscipline'
    <2>1. Moves(p, Outside \cup {"claim"})
      BY <1>4, NextJobMoves DEF SkipJob, Moves
    <2> QED
      BY <1>4, <2>1, LocalStepPreserves DEF SkipJob
  <1>5. ASSUME NEW p \in Proc, EmptyTick(p) PROVE ClaimDiscipline'
    BY <1>5, StillPreserves DEF EmptyTick, vars
  <1>6. ASSUME NEW p \in Proc, ThreadStep(p) PROVE ClaimDiscipline'
    BY <1>6, ThreadPreserves DEF ThreadStep
  <1>7. ASSUME (\E j \in Job : SwitchJob(j)) \/ Tick \/ UNCHANGED vars
        PROVE  ClaimDiscipline'
    <2>1. UNCHANGED <<rowStatus, ev, thread, sends>>
      BY <1>7 DEF SwitchJob, Tick, vars
    <2> QED
      BY <2>1, StillPreserves
  <1> QED
    BY <1>1, <1>2, <1>3, <1>4, <1>5, <1>6, <1>7, ReapPreserves, EndPreserves,
       SettlePreserves, RaisePreserves, ClaimPreserves, DispatchPreserves
    DEF Next, TickStep

\* The claim discipline holds before the first tick.
LEMMA InitDiscipline ==
    ASSUME Init PROVE ClaimDiscipline
  <1>1. \A p \in Proc : ev[p].pc \in {"idle", "off"}
    BY InitIdle
  <1>2. \A p \in Proc, k \in Key : thread[p][k] = "none"
    BY DEF Init, NoThreads
  <1>3. \A k \in Key : sends[k] = 0 /\ rowStatus[k] = "none"
    BY DEF Init
  <1> QED
    BY <1>1, <1>2, <1>3 DEF ClaimDiscipline, Holds, LiveSend, Outcome

\* The claim discipline holds whatever number of evaluators run, crash, are
\* shut down or time out: one owner per claimed firing, and only the owner has
\* a send whose result counts.
THEOREM DisciplineHolds == Spec => []ClaimDiscipline
  <1>1. Init => TypeOK /\ JobLocalSet /\ ClaimDiscipline
    BY InitTypes, InitDiscipline
  <1>2. /\ TypeOK /\ JobLocalSet /\ ClaimDiscipline
        /\ [Next]_vars
        => (TypeOK /\ JobLocalSet /\ ClaimDiscipline)'
    BY NextTypes, NextPreserves
  <1> QED
    BY <1>1, <1>2, PTL DEF Spec

\* The digest of a (job, window) pair is handed to the sender at most once: the
\* insert-or-ignore of the row alone secures it, without any lock between the
\* WebUI's loop and `kerdoos digest`.
THEOREM AtMostOnce == Spec => []AtMostOnceSend
  <1>1. TypeOK /\ ClaimDiscipline => AtMostOnceSend
    BY DEF ClaimDiscipline, AtMostOnceSend
  <1> QED
    BY <1>1, DisciplineHolds, TypeCorrect, PTL

-----------------------------------------------------------------------------
(* The evaluator implements the ledger                                      *)

\* A row may change among the active and the failed statuses without the
\* ledger noticing.
LEMMA PhaseSame ==
    ASSUME sends' = sends,
           \A k \in Key :
             /\ rowStatus'[k] = "none" <=> rowStatus[k] = "none"
             /\ rowStatus'[k] = "sent" <=> rowStatus[k] = "sent"
    PROVE  Phase' = Phase
  BY DEF Phase

\* A step that moves the phase of one firing.
LEMMA PhaseAdvance ==
    ASSUME NEW f \in Key, NEW from, NEW to,
           Phase[f] = from, Phase'[f] = to,
           \A k \in Key : k # f =>
             /\ rowStatus'[k] = rowStatus[k]
             /\ sends'[k] = sends[k]
    PROVE  Ledger!Advance(f, from, to)
  <1>1. Phase' = [Phase EXCEPT ![f] = to]
    BY DEF Phase
  <1> QED
    BY <1>1 DEF Ledger!Advance

\* The row of a held firing exists and is not confirmed.
LEMMA HeldRow ==
    ASSUME TypeOK, JobLocalSet, ClaimDiscipline, NEW p \in Proc,
           ev[p].pc \in {"dispatch", "await"}
    PROVE  Firing(p) \in Key /\ rowStatus[Firing(p)] \notin {"none", "sent"}
  BY FiringInKey DEF ClaimDiscipline, Holds

\* The insert of the row is the ledger's claim.
LEMMA ClaimAdvances ==
    ASSUME TypeOK, JobLocalSet, ClaimDiscipline, NEW p \in Proc, Claim(p)
    PROVE  \E k \in Key : Ledger!Advance(k, "open", "claimed")
  <1> DEFINE f == Firing(p)
  <1>1. f \in Key /\ rowStatus[f] = "none" /\ sends[f] = 0 /\ sends' = sends
    BY FiringInKey DEF Claim, RowFree, ClaimDiscipline
  <1>2. /\ rowStatus'[f] = "queued"
        /\ \A l \in Key : l # f => rowStatus'[l] = rowStatus[l]
    <2>1. rowStatus \in [Key -> RowState]
      BY DEF TypeOK, RowState
    <2> QED
      BY <1>1, <2>1, RowWrite DEF Claim, RowState, Active
  <1> HIDE DEF f
  <1>3. Phase[f] = "open" /\ Phase'[f] = "claimed"
    BY <1>1, <1>2 DEF Phase
  <1> QED
    BY <1>1, <1>2, <1>3, PhaseAdvance

\* Entering the sender is the ledger's dispatch.
LEMMA StartAdvances ==
    ASSUME TypeOK, ClaimDiscipline, NEW p \in Proc, NEW f \in Key,
           ThreadStarts(p, f)
    PROVE  Ledger!Advance(f, "claimed", "dispatched")
  <1>1. /\ sends[f] = 0 /\ sends'[f] = 1
        /\ \A k \in Key : k # f => sends'[k] = sends[k]
        /\ rowStatus' = rowStatus
    BY DEF ThreadStarts, ClaimDiscipline, TypeOK
  <1>2. rowStatus[f] \notin {"none", "sent"}
    BY DEF ThreadStarts, ClaimDiscipline, LiveSend
  <1>3. Phase[f] = "claimed" /\ Phase'[f] = "dispatched"
    BY <1>1, <1>2 DEF Phase
  <1> QED
    BY <1>1, <1>3, PhaseAdvance

\* Only a send that returned True confirms the firing.
LEMMA SettleAdvances ==
    ASSUME TypeOK, JobLocalSet, ClaimDiscipline, NEW p \in Proc,
           Settle(p) \/ SendTimesOut(p)
    PROVE  \/ Phase' = Phase
           \/ \E k \in Key : Ledger!Advance(k, "dispatched", "confirmed")
  <1> DEFINE f == Firing(p)
  <1>1. f \in Key /\ rowStatus[f] \notin {"none", "sent"} /\ sends' = sends
    BY HeldRow DEF Settle, SendTimesOut
  <1>2. PICK st \in {"sent", "skipped_no_email", "error"} :
          /\ Record(f, st)
          /\ st = "sent" => thread[p][f] = "sent"
    <2>1. CASE Settle(p)
      <3>1. thread[p][f] \in Outcome /\ Record(f, StatusFor(thread[p][f]))
        BY <2>1 DEF Settle
      <3> QED
        BY <3>1, OutcomeStatus
    <2>2. CASE SendTimesOut(p)
      BY <2>2 DEF SendTimesOut
    <2> QED
      BY <2>1, <2>2
  <1>3. CASE UNCHANGED rowStatus
    BY <1>1, <1>3, PhaseSame
  <1>4. CASE update_job_run(f, st)
    <2>1. /\ rowStatus'[f] = st
          /\ \A l \in Key : l # f => rowStatus'[l] = rowStatus[l]
      <3>1. rowStatus \in [Key -> RowState]
        BY DEF TypeOK, RowState
      <3> QED
        BY <1>1, <1>4, <3>1, RowWrite DEF RowState, Terminal
    <2>2. CASE st # "sent"
      BY <1>1, <2>1, <2>2, PhaseSame
    <2>3. CASE st = "sent"
      <3>1. sends[f] = 1
        BY <1>1, <1>2, <2>3 DEF ClaimDiscipline, Outcome
      <3> HIDE DEF f
      <3>2. Phase[f] = "dispatched" /\ Phase'[f] = "confirmed"
        BY <1>1, <2>1, <2>3, <3>1 DEF Phase
      <3> QED
        BY <1>1, <2>1, <3>2, PhaseAdvance
    <2> QED
      BY <2>2, <2>3
  <1> QED
    BY <1>2, <1>3, <1>4 DEF Record

\* The sweep and the submission are invisible to the ledger.
LEMMA PhaseStutters ==
    ASSUME TypeOK, JobLocalSet, ClaimDiscipline, NEW p \in Proc,
           Reap(p) \/ Dispatch(p) \/ DispatchRaises(p)
    PROVE  Phase' = Phase
  <1>1. rowStatus \in [Key -> RowState] /\ sends' = sends
    BY DEF TypeOK, RowState, Reap, Dispatch, DispatchRaises
  <1>2. CASE Reap(p)
    <2>1. \A k \in Key :
                \/ rowStatus'[k] = rowStatus[k]
                \/ rowStatus[k] \in Active /\ rowStatus'[k] = "error"
      BY <1>1, <1>2, ReapWrite DEF Reap
    <2> QED
      BY <1>1, <2>1, PhaseSame DEF Active
  <1>3. CASE Dispatch(p) \/ DispatchRaises(p)
    <2>1. /\ Firing(p) \in Key
          /\ rowStatus[Firing(p)] \notin {"none", "sent"}
      BY <1>3, HeldRow DEF Dispatch, DispatchRaises
    <2>2. PICK st \in {"running", "error"} : update_job_run(Firing(p), st)
      BY <1>3 DEF Dispatch, DispatchRaises
    <2>3. /\ rowStatus'[Firing(p)] = st
          /\ \A l \in Key : l # Firing(p) => rowStatus'[l] = rowStatus[l]
      BY <1>1, <2>1, <2>2, RowWrite DEF RowState, Active, Terminal
    <2> QED
      BY <1>1, <2>1, <2>3, PhaseSame
  <1> QED
    BY <1>2, <1>3

\* Every step of the evaluator is a step of the ledger, or invisible to it.
LEMMA LedgerStep ==
    ASSUME TypeOK, JobLocalSet, ClaimDiscipline, [Next]_vars
    PROVE  [Ledger!LedgerNext]_Phase
  <1>1. ASSUME UNCHANGED <<rowStatus, sends>> PROVE Phase' = Phase
    BY <1>1, PhaseSame
  <1>2. ASSUME NEW p \in Proc,
               \/ StartTick(p) \/ EmptyTick(p) \/ SkipSource(p)
               \/ BeginScrape(p) \/ EndScrape(p) \/ BeginPlanB(p)
               \/ SkipActive(p) \/ PickJob(p) \/ SkipJob(p) \/ StoreRaises(p)
               \/ EndTick(p) \/ Crash(p) \/ Shutdown(p) \/ Boot(p)
        PROVE  Phase' = Phase
    <2>1. UNCHANGED <<rowStatus, sends>>
      BY <1>2 DEF StartTick, EmptyTick, SkipSource, BeginScrape, EndScrape,
                  BeginPlanB, SkipActive, PickJob, SkipJob, StoreRaises,
                  EndTick, Crash, Shutdown, Boot, vars
    <2> QED
      BY <1>1, <2>1
  <1>3. ASSUME NEW p \in Proc, ThreadStep(p)
        PROVE  [Ledger!LedgerNext]_Phase
    <2>1. PICK k \in Key :
            ThreadStarts(p, k) \/ ThreadEnds(p, k) \/ OrphanEnds(p, k)
      BY <1>3 DEF ThreadStep
    <2>2. CASE ThreadStarts(p, k)
      BY <2>2, StartAdvances DEF Ledger!LedgerNext
    <2>3. CASE ThreadEnds(p, k) \/ OrphanEnds(p, k)
      BY <1>1, <2>3 DEF ThreadEnds, OrphanEnds
    <2> QED
      BY <2>1, <2>2, <2>3
  <1>4. ASSUME (\E j \in Job : SwitchJob(j)) \/ Tick \/ UNCHANGED vars
        PROVE  Phase' = Phase
    <2>1. UNCHANGED <<rowStatus, sends>>
      BY <1>4 DEF SwitchJob, Tick, vars
    <2> QED
      BY <1>1, <2>1
  <1>5. ASSUME NEW p \in Proc, Claim(p) \/ Settle(p) \/ SendTimesOut(p)
        PROVE  [Ledger!LedgerNext]_Phase
    BY <1>5, ClaimAdvances, SettleAdvances DEF Ledger!LedgerNext
  <1> QED
    BY <1>2, <1>3, <1>4, <1>5, PhaseStutters DEF Next, TickStep

\* The evaluator implements the ledger, for any number of processes, jobs and
\* windows: no step of any of them, no crash and no reaped row re-opens a
\* firing, sends it unclaimed, or takes back its confirmation.
THEOREM LedgerRefined == Spec => LedgerImplemented
  <1>1. Init => Ledger!LedgerInit
    BY DEF Init, Ledger!LedgerInit, Phase
  <1>2. TypeOK /\ JobLocalSet /\ ClaimDiscipline /\ [Next]_vars
          => [Ledger!LedgerNext]_Phase
    BY LedgerStep
  <1> QED
    BY <1>1, <1>2, TypeCorrect, DisciplineHolds, PTL
    DEF Spec, LedgerImplemented, Ledger!LedgerSpec

-----------------------------------------------------------------------------
(* The send threads of a loop stay within its ceiling                       *)

\* The firings for which process p has a thread, awaited or orphaned.
Working(p) == {k \in Key : thread[p][k] # "none"}

\* The ceiling, and the room for one more thread that can_submit has secured
\* for a firing that is claimed and not yet submitted.
OrphanRoom ==
    \A p \in Loop :
        /\ Cardinality(Working(p)) <= MaxOrphans
        /\ ev[p].pc = "dispatch" => Cardinality(Working(p)) < MaxOrphans

\* The threads of a process are finitely many.
LEMMA WorkingFinite ==
    ASSUME NEW S \in SUBSET Key
    PROVE  IsFiniteSet(S) /\ Cardinality(S) \in Nat
  <1>1. IsFiniteSet(Window)
    BY NumbersAssumption, FS_Interval DEF Window, Time
  <1>2. IsFiniteSet(Key)
    BY <1>1, SetsAssumption, FS_Product DEF Key
  <1> QED
    BY <1>2, FS_Subset, FS_CardinalityType

\* A step that starts no thread and claims nothing leaves the room there was.
LEMMA RoomKept ==
    ASSUME OrphanRoom, NEW p \in Proc,
           \A q \in Proc : q # p => ev'[q] = ev[q],
           ev'[p].pc = "dispatch" => ev[p].pc = "dispatch",
           \A q \in Proc, k \in Key : thread'[q][k] # "none" => thread[q][k] # "none"
    PROVE  OrphanRoom'
  <1> SUFFICES ASSUME NEW q \in Loop
               PROVE  /\ Cardinality(Working(q)') <= MaxOrphans
                      /\ ev'[q].pc = "dispatch" => Cardinality(Working(q)') < MaxOrphans
    BY DEF OrphanRoom
  <1>1. q \in Proc
    BY SetsAssumption
  <1>2. Working(q)' \subseteq Working(q)
    BY <1>1 DEF Working
  <1>3. /\ IsFiniteSet(Working(q)) /\ Cardinality(Working(q)) \in Nat
        /\ Cardinality(Working(q)') \in Nat
    BY WorkingFinite DEF Working
  <1>4. Cardinality(Working(q)') <= Cardinality(Working(q))
    BY <1>2, <1>3, FS_Subset
  <1>5. ev'[q].pc = "dispatch" => ev[q].pc = "dispatch"
    BY <1>1
  <1> QED
    BY <1>3, <1>4, <1>5, NumbersAssumption DEF OrphanRoom

\* The threads of a process change one by one, or all at its end.
LEMMA ThreadsShrink ==
    ASSUME TypeOK, JobLocalSet, NEW p \in Proc,
           \/ Settle(p) \/ SendTimesOut(p) \/ EndTick(p) \/ Crash(p) \/ Shutdown(p)
           \/ ThreadStep(p)
    PROVE  \A q \in Proc, k \in Key : thread'[q][k] # "none" => thread[q][k] # "none"
  <1>1. thread \in [Proc -> [Key -> ThreadState]]
    BY DEF TypeOK, ThreadState
  <1>2. CASE Settle(p) \/ SendTimesOut(p)
    <2>1. Firing(p) \in Key
      BY <1>2, FiringInKey DEF Settle, SendTimesOut
    <2>2. PICK ts \in {"none", "orphan"} :
            /\ SetThread(p, Firing(p), ts)
            /\ ts = "orphan" => thread[p][Firing(p)] = "running"
      BY <1>2, Zenon DEF Settle, SendTimesOut
    <2>3. /\ thread'[p][Firing(p)] = ts
          /\ \A q \in Proc, l \in Key :
               <<q, l>> # <<p, Firing(p)>> => thread'[q][l] = thread[q][l]
      BY <1>1, <2>1, <2>2, ThreadWrite DEF ThreadState
    <2> QED
      BY <2>2, <2>3
  <1>3. CASE EndTick(p) \/ Crash(p) \/ Shutdown(p)
    BY <1>1, <1>3 DEF EndTick, Crash, Shutdown, NoThreads
  <1>4. CASE ThreadStep(p)
    <2>1. PICK k \in Key :
            ThreadStarts(p, k) \/ ThreadEnds(p, k) \/ OrphanEnds(p, k)
      BY <1>4 DEF ThreadStep
    <2>2. PICK st \in ThreadState : SetThread(p, k, st)
      BY <2>1 DEF ThreadStarts, ThreadEnds, OrphanEnds, ThreadState
    <2>3. thread[p][k] # "none"
      BY <2>1 DEF ThreadStarts, ThreadEnds, OrphanEnds
    <2>4. \A q \in Proc, l \in Key : <<q, l>> # <<p, k>> => thread'[q][l] = thread[q][l]
      BY <1>1, <2>2, ThreadWrite
    <2> QED
      BY <2>3, <2>4
  <1> QED
    BY <1>2, <1>3, <1>4

\* The claim is made with room for its thread: nothing but orphans works for a
\* process that awaits no send.
LEMMA ClaimRoom ==
    ASSUME TypeOK, ClaimDiscipline, OrphanRoom, NEW p \in Proc, Claim(p)
    PROVE  OrphanRoom'
  <1> SUFFICES ASSUME NEW q \in Loop
               PROVE  /\ Cardinality(Working(q)') <= MaxOrphans
                      /\ ev'[q].pc = "dispatch" => Cardinality(Working(q)') < MaxOrphans
    BY DEF OrphanRoom
  <1>1. q \in Proc /\ thread' = thread /\ Working(q)' = Working(q)
    BY SetsAssumption DEF Claim, Working
  <1>2. CASE q # p
    BY <1>1, <1>2, ClaimMoves DEF Moves, OrphanRoom
  <1>3. CASE q = p
    <2>1. \A k \in Key : ~LiveSend(p, k)
      BY NothingLive DEF Claim
    <2>2. Working(p) = Orphans(p)
      BY <2>1 DEF Working, Orphans, LiveSend, TypeOK
    <2>3. Cardinality(Working(p)) < MaxOrphans
      BY <1>3, <2>2 DEF Claim, can_submit
    <2> QED
      BY <1>1, <1>3, <2>3 DEF OrphanRoom
  <1> QED
    BY <1>2, <1>3

\* The dispatch takes the room that was left.
LEMMA DispatchRoom ==
    ASSUME TypeOK, JobLocalSet, OrphanRoom, NEW p \in Proc, Dispatch(p)
    PROVE  OrphanRoom'
  <1> SUFFICES ASSUME NEW q \in Loop
               PROVE  /\ Cardinality(Working(q)') <= MaxOrphans
                      /\ ev'[q].pc = "dispatch" => Cardinality(Working(q)') < MaxOrphans
    BY DEF OrphanRoom
  <1>1. q \in Proc /\ Firing(p) \in Key /\ thread \in [Proc -> [Key -> ThreadState]]
    BY SetsAssumption, FiringInKey DEF Dispatch, TypeOK, ThreadState
  <1>2. \A r \in Proc, l \in Key :
          <<r, l>> # <<p, Firing(p)>> => thread'[r][l] = thread[r][l]
    BY <1>1, ThreadWrite DEF Dispatch, ThreadState
  <1>3. CASE q # p
    <2>1. Working(q)' = Working(q)
      BY <1>1, <1>2, <1>3 DEF Working
    <2> QED
      BY <1>1, <1>3, <2>1, DispatchMoves DEF Moves, OrphanRoom
  <1>4. CASE q = p
    <2>1. Working(p)' \subseteq Working(p) \cup {Firing(p)}
      BY <1>2 DEF Working
    <2>2. /\ IsFiniteSet(Working(p)) /\ Cardinality(Working(p)) \in Nat
          /\ Cardinality(Working(p)') \in Nat
      BY WorkingFinite DEF Working
    <2>3. /\ IsFiniteSet(Working(p) \cup {Firing(p)})
          /\ Cardinality(Working(p) \cup {Firing(p)}) <= Cardinality(Working(p)) + 1
          /\ Cardinality(Working(p) \cup {Firing(p)}) \in Nat
      BY <2>2, FS_AddElement, FS_CardinalityType
    <2>4. Cardinality(Working(p)') <= Cardinality(Working(p) \cup {Firing(p)})
      BY <2>1, <2>3, FS_Subset
    <2>5. Cardinality(Working(p)) < MaxOrphans
      BY <1>4 DEF Dispatch, OrphanRoom
    <2>6. ev'[p].pc = "await"
      BY DispatchMoves DEF Moves
    <2> QED
      BY <1>4, <2>2, <2>3, <2>4, <2>5, <2>6, NumbersAssumption
  <1> QED
    BY <1>3, <1>4

\* Every step leaves the room there was, but for the claim and its dispatch.
LEMMA NextRoom ==
    ASSUME TypeOK, JobLocalSet, ClaimDiscipline, OrphanRoom, [Next]_vars
    PROVE  OrphanRoom'
  <1>1. ASSUME NEW p \in Proc,
               \/ StartTick(p) \/ Boot(p) \/ EndTick(p) \/ Crash(p) \/ Shutdown(p)
               \/ Reap(p) \/ SkipSource(p) \/ BeginScrape(p) \/ EndScrape(p)
               \/ BeginPlanB(p) \/ SkipActive(p) \/ PickJob(p) \/ SkipJob(p)
               \/ DispatchRaises(p) \/ StoreRaises(p) \/ Settle(p) \/ SendTimesOut(p)
        PROVE  OrphanRoom'
    <2>1. Moves(p, Outside) \/ Moves(p, Outside \cup {"claim"})
      <3>1. CASE \/ SkipJob(p) \/ DispatchRaises(p) \/ StoreRaises(p) \/ Settle(p)
                 \/ SendTimesOut(p)
        BY <3>1, NextJobMoves DEF SkipJob, DispatchRaises, StoreRaises, Settle, SendTimesOut
      <3> QED
        BY <1>1, <3>1, TickMoves, PlanAMoves, PlanBMoves
    <2>2. ev'[p].pc # "dispatch" /\ \A q \in Proc : q # p => ev'[q] = ev[q]
      BY <2>1 DEF Moves, Outside, Pc
    <2>3. \A q \in Proc, k \in Key : thread'[q][k] # "none" => thread[q][k] # "none"
      <3>1. CASE Settle(p) \/ SendTimesOut(p) \/ EndTick(p) \/ Crash(p) \/ Shutdown(p)
        BY <3>1, ThreadsShrink
      <3>2. CASE thread' = thread
        BY <3>2
      <3> QED
        BY <1>1, <3>1, <3>2 DEF StartTick, Boot, Reap, SkipSource, BeginScrape, EndScrape,
             BeginPlanB, SkipActive, PickJob, SkipJob, DispatchRaises, StoreRaises
    <2> QED
      BY <2>2, <2>3, RoomKept
  <1>2. ASSUME NEW p \in Proc, ThreadStep(p) PROVE OrphanRoom'
    <2>1. ev' = ev
      BY <1>2 DEF ThreadStep, ThreadStarts, ThreadEnds, OrphanEnds
    <2> QED
      BY <1>2, <2>1, ThreadsShrink, RoomKept
  <1>3. ASSUME UNCHANGED <<ev, thread>> PROVE OrphanRoom'
    BY <1>3 DEF OrphanRoom, Working
  <1>4. ASSUME \/ \E p \in Proc : EmptyTick(p)
               \/ \E j \in Job : SwitchJob(j)
               \/ Tick \/ UNCHANGED vars
        PROVE  OrphanRoom'
    BY <1>3, <1>4 DEF EmptyTick, SwitchJob, Tick, vars
  <1> QED
    BY <1>1, <1>2, <1>4, ClaimRoom, DispatchRoom DEF Next, TickStep

\* However the relay hangs, crashes and restarts fall, the WebUI's loop never
\* has more send threads than its ceiling, the one in flight included.
THEOREM OrphansBoundedHolds == Spec => []OrphansBounded
  <1>1. Init => OrphanRoom
    <2> SUFFICES ASSUME Init, NEW p \in Loop
                 PROVE  /\ Cardinality(Working(p)) <= MaxOrphans
                        /\ ev[p].pc = "dispatch" => Cardinality(Working(p)) < MaxOrphans
      BY DEF OrphanRoom
    <2>1. Working(p) = {}
      BY SetsAssumption DEF Init, NoThreads, Working
    <2> QED
      BY <2>1, FS_EmptySet, NumbersAssumption
  <1>2. TypeOK /\ JobLocalSet /\ ClaimDiscipline /\ OrphanRoom /\ [Next]_vars => OrphanRoom'
    BY NextRoom
  <1>3. OrphanRoom => OrphansBounded
    BY DEF OrphanRoom, OrphansBounded, Working
  <1> QED
    BY <1>1, <1>2, <1>3, TypeCorrect, DisciplineHolds, PTL DEF Spec

-----------------------------------------------------------------------------
(* One evaluator alone                                                      *)

\* The job of a claim in progress has no other active row, the row of a claim
\* is active until its owner ends it, and a scrape in progress was needed.
AloneAt(p) ==
    /\ ev[p].pc = "claim" =>
         \A w \in Window : rowStatus[<<ev[p].job, w>>] \notin Active
    /\ ev[p].pc \in {"dispatch", "await"} =>
         /\ rowStatus[Firing(p)] \in Active
         /\ \A w \in Window :
              rowStatus[<<ev[p].job, w>>] \in Active => <<ev[p].job, w>> = Firing(p)
    /\ ev[p].pc = "scrape" => ev[p].src \in Source /\ NeedsScrape(p, ev[p].src)

\* The steps that neither claim nor scrape.
Apart == Pc \ {"claim", "dispatch", "await", "scrape", "off"}

\* A source is not scraped again within the shortest period that wants it.
ScrapesApart ==
    \A s \in Source :
        lastScrape[s] # Never /\ lastScrape'[s] # lastScrape[s] =>
            \E j \in Job : s \in SourcesOf[j] /\ lastScrape'[s] >= lastScrape[s] + Period[j]

\* What every step of a lone evaluator establishes.
AloneGoal == JobSingleton' /\ (\A p \in Proc : AloneAt(p)') /\ EndedKept /\ ScrapesApart

\* A process that takes a step is part of the deployment, and stays so; the
\* others do not move.
Acts(p) == ev[p].pc # "off" /\ Moves(p, Pc \ {"off"})

\* The steps a process takes.
ProcStep(p) ==
    \/ StartTick(p) \/ Boot(p) \/ EndTick(p) \/ Crash(p) \/ Shutdown(p)
    \/ Reap(p) \/ SkipSource(p) \/ BeginScrape(p) \/ EndScrape(p) \/ BeginPlanB(p)
    \/ SkipActive(p) \/ PickJob(p) \/ SkipJob(p) \/ Claim(p) \/ Dispatch(p)
    \/ DispatchRaises(p) \/ StoreRaises(p) \/ Settle(p) \/ SendTimesOut(p)

\* Every step of a process is one of a deployed process.
LEMMA StepActs ==
    ASSUME TypeOK, NEW p \in Proc, ProcStep(p)
    PROVE  Acts(p)
  <1>1. Outside \subseteq Pc \ {"off"} /\ {"claim", "dispatch", "await"} \subseteq Pc \ {"off"}
    BY DEF Outside, Pc
  <1>2. CASE StartTick(p) \/ Boot(p) \/ EndTick(p) \/ Crash(p) \/ Shutdown(p)
    <2>1. ev[p].pc # "off"
      BY <1>2 DEF StartTick, Boot, EndTick, Crash, Shutdown
    <2> QED
      BY <1>1, <1>2, <2>1, TickMoves DEF Acts, Moves
  <1>3. CASE Reap(p) \/ SkipSource(p) \/ BeginScrape(p) \/ EndScrape(p) \/ BeginPlanB(p)
    BY <1>1, <1>3, PlanAMoves DEF Acts, Moves
  <1>4. CASE SkipActive(p) \/ PickJob(p)
    BY <1>1, <1>4, PlanBMoves DEF Acts, Moves
  <1>5. CASE SkipJob(p) \/ DispatchRaises(p) \/ StoreRaises(p) \/ Settle(p) \/ SendTimesOut(p)
    <2>1. NextJob(p) /\ ev[p].pc # "off"
      BY <1>5 DEF SkipJob, DispatchRaises, StoreRaises, Settle, SendTimesOut
    <2> QED
      BY <1>1, <2>1, NextJobMoves DEF Acts, Moves
  <1>6. CASE Claim(p)
    BY <1>1, <1>6, ClaimMoves DEF Acts, Moves, Claim
  <1>7. CASE Dispatch(p)
    BY <1>1, <1>7, DispatchMoves DEF Acts, Moves, Dispatch
  <1> QED
    BY <1>2, <1>3, <1>4, <1>5, <1>6, <1>7 DEF ProcStep

\* A deployment keeps its processes.
LEMMA AloneKept ==
    ASSUME TypeOK, [Next]_vars, Alone' PROVE Alone
  <1>1. CASE \E p \in Proc : ProcStep(p)
    BY <1>1, StepActs DEF Acts, Moves, Alone
  <1>2. CASE ev' = ev
    BY <1>2 DEF Alone
  <1>3. ASSUME NEW p \in Proc, EmptyTick(p) \/ ThreadStep(p) PROVE ev' = ev
    BY <1>3 DEF EmptyTick, ThreadStep, ThreadStarts, ThreadEnds, OrphanEnds, vars
  <1>4. ASSUME (\E j \in Job : SwitchJob(j)) \/ Tick \/ UNCHANGED vars PROVE ev' = ev
    BY <1>4 DEF SwitchJob, Tick, vars
  <1> QED
    BY <1>1, <1>2, <1>3, <1>4 DEF Next, TickStep, ProcStep

\* A lone evaluator's step disturbs nothing it would have to say of others.
LEMMA OthersOff ==
    ASSUME Alone, NEW p \in Proc, Acts(p), NEW q \in Proc, q # p
    PROVE  AloneAt(q)'
  <1>1. ev[q].pc = "off" /\ ev'[q] = ev[q]
    BY DEF Alone, Acts, Moves
  <1> QED
    BY <1>1 DEF AloneAt

\* The steps that leave p neither claiming nor scraping.
LEMMA ApartMoves ==
    ASSUME TypeOK, NEW p \in Proc,
           \/ StartTick(p) \/ Boot(p) \/ EndTick(p) \/ Crash(p) \/ Shutdown(p)
           \/ Reap(p) \/ SkipSource(p) \/ EndScrape(p) \/ BeginPlanB(p)
           \/ SkipActive(p) \/ NextJob(p)
    PROVE  ev'[p].pc \in Apart
  <1>1. ev \in [Proc -> EvState] /\ ev[p] \in EvState
    BY DEF TypeOK
  <1> USE DEF Apart, Pc
  <1>2. CASE StartTick(p)
    BY <1>1, <1>2 DEF StartTick
  <1>3. CASE Boot(p) \/ EndTick(p) \/ Crash(p)
    <2>1. ev'[p] = Idle
      BY <1>1, <1>3 DEF Boot, EndTick, Crash
    <2> QED
      BY <2>1, IdleFields
  <1>4. CASE Shutdown(p)
    <2>1. ev'[p] = [Idle EXCEPT !.pc = "down"]
      BY <1>1, <1>4 DEF Shutdown
    <2> QED
      BY <2>1, IdleFields
  <1>5. CASE Reap(p) \/ BeginPlanB(p)
    <2>1. PICK st \in {"planA", "planB"} : ev'[p] = [ev[p] EXCEPT !.pc = st]
      BY <1>1, <1>5 DEF Reap, BeginPlanB, Goto
    <2> QED
      BY <1>1, <2>1, GotoFields
  <1>6. CASE NextJob(p)
    <2>1. ev'[p] = [ev[p] EXCEPT !.pc = "planB", !.job = None, !.since = 0]
      BY <1>1, <1>6 DEF NextJob
    <2> QED
      BY <1>1, <2>1, NextJobFields
  <1>7. CASE EndScrape(p)
    <2>1. ev'[p] = [ev[p] EXCEPT !.pc = "planA", !.src = None]
      BY <1>1, <1>7 DEF EndScrape
    <2> QED
      BY <1>1, <2>1 DEF EvState
  <1>8. CASE SkipSource(p) \/ SkipActive(p)
    BY <1>1, <1>8 DEF SkipSource, SkipActive, EvState
  <1> QED
    BY <1>2, <1>3, <1>4, <1>5, <1>6, <1>7, <1>8

\* A step that leaves the evaluator neither claiming nor scraping may end
\* active rows.
LEMMA ApartStep ==
    ASSUME Alone, JobSingleton, NEW p \in Proc, Acts(p), ev'[p].pc \in Apart,
           \A k \in Key : \/ rowStatus'[k] = rowStatus[k]
                          \/ rowStatus[k] \in Active /\ rowStatus'[k] \in Terminal,
           ScrapesApart
    PROVE  AloneGoal
  <1> USE DEF Active, Terminal
  <1>1. \A k \in Key : rowStatus'[k] \in Active => rowStatus[k] \in Active
    OBVIOUS
  <1>2. JobSingleton'
    BY <1>1 DEF JobSingleton, Key
  <1>3. ASSUME NEW q \in Proc PROVE AloneAt(q)'
    <2>1. CASE q = p
      BY <2>1 DEF AloneAt, Apart
    <2> QED
      BY <2>1, OthersOff
  <1>4. EndedKept
    BY DEF EndedKept
  <1> QED
    BY <1>2, <1>3, <1>4 DEF AloneGoal

\* A step that leaves the newest scrapes alone.
LEMMA NoScrape == ASSUME lastScrape' = lastScrape PROVE ScrapesApart
  BY DEF ScrapesApart

\* The steps between the ones that write.
LEMMA QuietAlone ==
    ASSUME TypeOK, Alone, JobSingleton, NEW p \in Proc,
           \/ StartTick(p) \/ Boot(p) \/ EndTick(p) \/ Crash(p) \/ Shutdown(p)
           \/ SkipSource(p) \/ BeginPlanB(p) \/ SkipActive(p) \/ SkipJob(p)
           \/ StoreRaises(p)
    PROVE  AloneGoal
  <1>1. ev'[p].pc \in Apart
    BY ApartMoves DEF SkipJob, StoreRaises
  <1>2. rowStatus' = rowStatus /\ lastScrape' = lastScrape
    BY DEF StartTick, Boot, EndTick, Crash, Shutdown, SkipSource, BeginPlanB, SkipActive,
           SkipJob, StoreRaises
  <1> QED
    BY <1>1, <1>2, NoScrape, StepActs, ApartStep DEF ProcStep

\* The sweep ends active rows.
LEMMA ReapAlone ==
    ASSUME TypeOK, Alone, JobSingleton, NEW p \in Proc, Reap(p)
    PROVE  AloneGoal
  <1>1. rowStatus \in [Key -> RowState]
    BY DEF TypeOK, RowState
  <1>2. \A k \in Key : \/ rowStatus'[k] = rowStatus[k]
                       \/ rowStatus[k] \in Active /\ rowStatus'[k] = "error"
    BY <1>1, ReapWrite DEF Reap
  <1>3. ev'[p].pc \in Apart /\ ScrapesApart
    BY ApartMoves, NoScrape DEF Reap
  <1> QED
    BY <1>2, <1>3, StepActs, ApartStep DEF Terminal, ProcStep

\* The owner of a claim ends its row, or leaves it stranded.
LEMMA EndAlone ==
    ASSUME TypeOK, JobLocalSet, Alone, JobSingleton, NEW p \in Proc, AloneAt(p),
           DispatchRaises(p) \/ Settle(p) \/ SendTimesOut(p)
    PROVE  AloneGoal
  <1>1. rowStatus \in [Key -> RowState] /\ Firing(p) \in Key
    BY FiringInKey DEF TypeOK, RowState, DispatchRaises, Settle, SendTimesOut
  <1>2. PICK st \in Terminal : update_job_run(Firing(p), st) \/ rowStatus' = rowStatus
    <2>1. CASE Settle(p)
      BY <2>1, OutcomeStatus DEF Settle, Record, Terminal
    <2>2. CASE DispatchRaises(p) \/ SendTimesOut(p)
      BY <2>2 DEF DispatchRaises, SendTimesOut, Record, Terminal
    <2> QED
      BY <2>1, <2>2
  <1>3. rowStatus[Firing(p)] \in Active
    BY DEF AloneAt, DispatchRaises, Settle, SendTimesOut
  <1>4. \A k \in Key : \/ rowStatus'[k] = rowStatus[k]
                       \/ rowStatus[k] \in Active /\ rowStatus'[k] \in Terminal
    BY <1>1, <1>2, <1>3, RowWrite DEF RowState
  <1>5. ev'[p].pc \in Apart /\ ScrapesApart
    BY ApartMoves, NoScrape DEF DispatchRaises, Settle, SendTimesOut
  <1> QED
    BY <1>4, <1>5, StepActs, ApartStep DEF ProcStep

\* A scrape starts only for a source that is not fresh.
LEMMA BeginScrapeAlone ==
    ASSUME TypeOK, Alone, JobSingleton, NEW p \in Proc, BeginScrape(p)
    PROVE  AloneGoal
  <1>1. ev \in [Proc -> EvState] /\ ev[p] \in EvState
    BY DEF TypeOK
  <1>2. rowStatus' = rowStatus /\ lastScrape' = lastScrape
    BY DEF BeginScrape
  <1>3. PICK s \in ev[p].srcs :
          /\ NeedsScrape(p, s)
          /\ ev' = [ev EXCEPT ![p] =
               [@ EXCEPT !.pc = "scrape", !.src = s, !.srcs = ev[p].srcs \ {s}]]
    BY DEF BeginScrape
  <1>4. /\ ev'[p].pc = "scrape" /\ ev'[p].src = s /\ s \in Source
        /\ ev'[p].jobs = ev[p].jobs /\ ev'[p].now = ev[p].now
    BY <1>1, <1>3 DEF EvState
  <1>5. ASSUME NEW q \in Proc PROVE AloneAt(q)'
    <2>1. CASE q = p
      BY <1>2, <1>3, <1>4, <2>1 DEF AloneAt, NeedsScrape, Fresh
    <2> QED
      BY <2>1, StepActs, OthersOff DEF ProcStep
  <1> QED
    BY <1>2, <1>5, NoScrape DEF AloneGoal, JobSingleton, EndedKept

\* The record of a scrape is stamped with the start of the tick, which is a
\* period of one of the source's jobs after the record it replaces.
LEMMA EndScrapeAlone ==
    ASSUME TypeOK, Alone, JobSingleton, NEW p \in Proc, AloneAt(p), EndScrape(p)
    PROVE  AloneGoal
  <1> DEFINE src == ev[p].src
             now == ev[p].now
  <1>1. /\ ev[p] \in EvState /\ now \in Time /\ ev[p].jobs \subseteq Job
        /\ lastScrape \in [Source -> Time \cup {Never}]
    BY DEF TypeOK, EvState
  <1>2. src \in Source /\ NeedsScrape(p, src)
    BY DEF AloneAt, EndScrape
  <1>3. lastScrape[src] # Never =>
          \E j \in Job : src \in SourcesOf[j] /\ ~(now < lastScrape[src] + Period[j])
    BY <1>1, <1>2 DEF NeedsScrape, Fresh
  <1>4. ScrapesApart
    <2>1. CASE lastScrape' = lastScrape
      BY <2>1, NoScrape
    <2>2. CASE lastScrape' = [lastScrape EXCEPT ![src] =
                 IF @ # Never /\ @ > now THEN @ ELSE now]
      <3> SUFFICES ASSUME NEW s \in Source, lastScrape[s] # Never,
                          lastScrape'[s] # lastScrape[s]
                   PROVE  \E j \in Job : /\ s \in SourcesOf[j]
                                         /\ lastScrape'[s] >= lastScrape[s] + Period[j]
        BY DEF ScrapesApart
      <3>1. s = src /\ lastScrape'[s] = now
        BY <1>1, <1>2, <2>2
      <3>2. PICK j \in Job : src \in SourcesOf[j] /\ ~(now < lastScrape[src] + Period[j])
        BY <1>3, <3>1
      <3>3. now \in Nat /\ lastScrape[src] \in Nat /\ Period[j] \in Nat
        BY <1>1, <1>2, NumbersAssumption DEF Time, Never
      <3>4. now >= lastScrape[src] + Period[j]
        BY <3>2, <3>3
      <3> QED
        BY <3>1, <3>2, <3>4
    <2> QED
      BY <2>1, <2>2 DEF EndScrape
  <1>5. ev'[p].pc \in Apart /\ rowStatus' = rowStatus
    BY ApartMoves DEF EndScrape
  <1> QED
    BY <1>4, <1>5, StepActs, ApartStep DEF ProcStep

\* A job is taken up only if it has no active row.
LEMMA PickAlone ==
    ASSUME TypeOK, Alone, JobSingleton, NEW p \in Proc, PickJob(p)
    PROVE  AloneGoal
  <1>1. ev \in [Proc -> EvState] /\ ev[p] \in EvState
    BY DEF TypeOK
  <1>2. rowStatus' = rowStatus /\ lastScrape' = lastScrape
    BY DEF PickJob
  <1>3. PICK j \in ev[p].jobs :
          /\ ~has_active_job_run(j)
          /\ ev' = [ev EXCEPT ![p] =
               [@ EXCEPT !.pc = "claim", !.job = j, !.jobs = ev[p].jobs \ {j}]]
    BY DEF PickJob
  <1>4. ev'[p].pc = "claim" /\ ev'[p].job = j
    BY <1>1, <1>3 DEF EvState
  <1>5. ASSUME NEW q \in Proc PROVE AloneAt(q)'
    <2>1. CASE q = p
      BY <1>2, <1>3, <1>4, <2>1 DEF AloneAt, has_active_job_run
    <2> QED
      BY <2>1, StepActs, OthersOff DEF ProcStep
  <1> QED
    BY <1>2, <1>5, NoScrape DEF AloneGoal, JobSingleton, EndedKept

\* The claim's row becomes the job's one active row, and the dispatch rewrites
\* that row.
LEMMA ClaimAlone ==
    ASSUME TypeOK, JobLocalSet, Alone, JobSingleton, NEW p \in Proc, AloneAt(p),
           Claim(p) \/ Dispatch(p)
    PROVE  AloneGoal
  <1>1. rowStatus \in [Key -> RowState] /\ Firing(p) \in Key
    BY FiringInKey DEF TypeOK, RowState, Claim, Dispatch
  <1>2. PICK st \in Active : update_job_run(Firing(p), st)
    BY DEF Claim, Dispatch, Active
  <1>3. /\ rowStatus'[Firing(p)] = st
        /\ \A l \in Key : l # Firing(p) => rowStatus'[l] = rowStatus[l]
    BY <1>1, <1>2, RowWrite DEF RowState
  <1>4. rowStatus[Firing(p)] \notin Terminal
    BY DEF AloneAt, Claim, Dispatch, RowFree, Active, Terminal
  <1>5. \A w \in Window :
          rowStatus[<<ev[p].job, w>>] \in Active => <<ev[p].job, w>> = Firing(p)
    BY DEF AloneAt, Claim, Dispatch
  <1>6. /\ ev'[p].pc \in {"dispatch", "await"}
        /\ ev'[p].job = ev[p].job /\ ev'[p].now = ev[p].now
    BY ClaimMoves, DispatchMoves DEF Moves
  <1>7. ev[p].job \in Job /\ Firing(p)' = Firing(p)
    <2>1. ev[p].job \in Job
      BY DEF JobLocalSet, Claim, Dispatch
    <2> QED
      BY <1>6, <2>1 DEF Firing, compute_window_start
  <1>8. \A w \in Window :
          rowStatus'[<<ev[p].job, w>>] \in Active => <<ev[p].job, w>> = Firing(p)
    BY <1>3, <1>5, <1>7 DEF Key
  <1>9. ASSUME NEW q \in Proc PROVE AloneAt(q)'
    <2>1. CASE q = p
      BY <1>3, <1>6, <1>7, <1>8, <2>1 DEF AloneAt
    <2> QED
      BY <2>1, StepActs, OthersOff DEF ProcStep
  <1>10. JobSingleton'
    <2> SUFFICES ASSUME NEW j \in Job, NEW v \in Window, NEW w \in Window,
                        rowStatus'[<<j, v>>] \in Active, rowStatus'[<<j, w>>] \in Active
                 PROVE  v = w
      BY DEF JobSingleton
    <2>1. CASE j = ev[p].job
      <3>1. <<j, v>> = Firing(p) /\ <<j, w>> = Firing(p)
        BY <1>8, <2>1
      <3> QED
        BY <3>1
    <2>2. CASE j # ev[p].job
      <3>1. <<j, v>> # Firing(p) /\ <<j, w>> # Firing(p)
        BY <2>2 DEF Firing
      <3> QED
        BY <1>3, <3>1 DEF JobSingleton, Key
    <2> QED
      BY <2>1, <2>2
  <1>11. EndedKept
    BY <1>3, <1>4 DEF EndedKept
  <1>12. ScrapesApart
    BY NoScrape DEF Claim, Dispatch
  <1> QED
    BY <1>9, <1>10, <1>11, <1>12 DEF AloneGoal

\* A step that touches neither the rows, nor the scrapes, nor the ticks.
LEMMA StillAlone ==
    ASSUME JobSingleton, \A p \in Proc : AloneAt(p), UNCHANGED <<ev, rowStatus, lastScrape>>
    PROVE  AloneGoal
  BY NoScrape DEF AloneGoal, JobSingleton, AloneAt, Firing, NeedsScrape, Fresh, EndedKept

\* Every step of a lone evaluator.
LEMMA NextAlone ==
    ASSUME TypeOK, JobLocalSet, Alone, JobSingleton, \A p \in Proc : AloneAt(p), [Next]_vars
    PROVE  AloneGoal
  <1>1. ASSUME NEW p \in Proc, ThreadStep(p) \/ EmptyTick(p) PROVE AloneGoal
    BY <1>1, StillAlone DEF ThreadStep, ThreadStarts, ThreadEnds, OrphanEnds, EmptyTick, vars
  <1>2. ASSUME (\E j \in Job : SwitchJob(j)) \/ Tick \/ UNCHANGED vars PROVE AloneGoal
    BY <1>2, StillAlone DEF SwitchJob, Tick, vars
  <1> QED
    BY <1>1, <1>2, QuietAlone, ReapAlone, EndAlone, BeginScrapeAlone, EndScrapeAlone,
       PickAlone, ClaimAlone DEF Next, TickStep

\* What holds of every state of a lone evaluator.
LoneInv == Alone => JobSingleton /\ \A p \in Proc : AloneAt(p)

\* It is inductive over the types, as no process joins a deployment.
LEMMA LoneInvariant == Spec => []LoneInv
  <1>1. Init => LoneInv
    <2> SUFFICES ASSUME Init PROVE JobSingleton /\ \A p \in Proc : AloneAt(p)
      BY DEF LoneInv
    <2>1. \A p \in Proc : ev[p].pc \in {"idle", "off"}
      BY InitIdle
    <2>2. \A k \in Key : rowStatus[k] = "none"
      BY DEF Init
    <2> QED
      BY <2>1, <2>2 DEF JobSingleton, AloneAt, Active, Key
  <1>2. TypeOK /\ JobLocalSet /\ LoneInv /\ [Next]_vars => LoneInv'
    BY NextAlone, AloneKept DEF AloneGoal, LoneInv
  <1> QED
    BY <1>1, <1>2, TypeCorrect, PTL DEF Spec

\* A lone evaluator never has two firings of a job in progress: has_active_job_run
\* and the insert of the row are one step for it, whatever it left stranded.
THEOREM LoneJobSingletonHolds == Spec => []LoneJobSingleton
  <1>1. LoneInv => LoneJobSingleton
    BY DEF LoneInv, LoneJobSingleton
  <1> QED
    BY <1>1, LoneInvariant, PTL

\* With a lone evaluator a row that has ended is never written again: the sweep
\* does not reach the row of a send in progress.
THEOREM LoneTerminalStableHolds == Spec => LoneTerminalStable
  <1>1. TypeOK /\ JobLocalSet /\ LoneInv /\ [Next]_vars => [Alone => EndedKept]_vars
    BY NextAlone DEF AloneGoal, LoneInv
  <1> QED
    BY <1>1, LoneInvariant, TypeCorrect, PTL DEF Spec, LoneTerminalStable

\* A lone evaluator scrapes a source again only once the period of one of its
\* jobs has passed since the start of the tick that scraped it.
THEOREM ScrapeDedupHolds == Spec => ScrapeDedup
  <1>1. TypeOK /\ JobLocalSet /\ LoneInv /\ [Next]_vars => [Alone => ScrapesApart]_vars
    BY NextAlone DEF AloneGoal, LoneInv
  <1> QED
    BY <1>1, LoneInvariant, TypeCorrect, PTL DEF Spec, ScrapeDedup, ScrapesApart

=============================================================================

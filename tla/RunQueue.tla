------------------------------ MODULE RunQueue ------------------------------
(***************************************************************************)
(* The background run_now queue of the WebUI (kerdoos/core/run_queue.py).  *)
(*                                                                         *)
(* POST /run calls enqueue() and returns at once; ONE consumer coroutine,  *)
(* run_forever(), pops an owner, runs AppService.run_now for it on a       *)
(* worker thread and records the outcome; run_supervised() restarts a      *)
(* consumer that crashed, until a budget of consecutive crashes is spent,  *)
(* after which the queue is dead.                                          *)
(*                                                                         *)
(* Everything runs on one event loop, so what lies between two awaits that *)
(* really suspend is one action: enqueue (the lock is never held across a  *)
(* suspension and put() on an unbounded queue does not wait), the pop with *)
(* the RUNNING mark, the completion of run_now with its finally block, the *)
(* supervisor's handling of a crash.                                       *)
(***************************************************************************)
EXTENDS Naturals, Sequences, FiniteSets

CONSTANTS
    Owner,          \* the tenants that may press "run"
    MaxRestarts,    \* max_consumer_restarts
    Cooldown,       \* cooldown_seconds, in clock ticks; 0 disables it
    Threshold,      \* backlog_warn_threshold; 0 disables it
    NoOwner         \* "no run in progress"

ASSUME OwnerAssumption == IsFiniteSet(Owner) /\ NoOwner \notin Owner
ASSUME BudgetAssumption ==
    MaxRestarts \in Nat /\ Cooldown \in Nat /\ Threshold \in Nat

RunState == {"queued", "running", "done", "error"}

VARIABLES
    queue,      \* _queue: the owners whose item sits in the asyncio.Queue
    pending,    \* _queued_or_running
    status,     \* _status, "none" for an owner it has no entry for
    sinceDone,  \* time.monotonic() - _done_monotonic[o], saturating at Cooldown
    warned,     \* _backlog_warned
    dead,       \* _dead
    restarts,   \* _restarts
    consumer,   \* where the consumer task is suspended
    current,    \* the owner_id local of run_forever while run_now runs
    stop        \* stop_event

vars == <<queue, pending, status, sinceDone, warned, dead, restarts,
          consumer, current, stop>>

TypeOK ==
    /\ queue \in Seq(Owner)
    /\ pending \in SUBSET Owner
    /\ status \in [Owner -> RunState \cup {"none"}]
    /\ sinceDone \in [Owner -> 0 .. Cooldown]
    /\ warned \in BOOLEAN
    /\ dead \in BOOLEAN
    /\ restarts \in 0 .. MaxRestarts + 1
    /\ consumer \in {"poll", "work", "backoff", "gone"}
    /\ current \in Owner \cup {NoOwner}
    /\ stop \in BOOLEAN

Init ==
    /\ queue = << >>
    /\ pending = {}
    /\ status = [o \in Owner |-> "none"]
    /\ sinceDone = [o \in Owner |-> Cooldown]
    /\ warned = FALSE
    /\ dead = FALSE
    /\ restarts = 0
    /\ consumer = "poll"
    /\ current = NoOwner
    /\ stop = FALSE

-----------------------------------------------------------------------------
(* The debounced backlog warning, re-evaluated after every change of        *)
(* _queued_or_running while the lock is held.                               *)

BacklogReached(set) == Threshold > 0 /\ Cardinality(set) >= Threshold

\* Faulty variant: the latch is set but never re-armed.
BacklogWarningSticky(set) == warned \/ BacklogReached(set)

CheckBacklogWarning(set) ==
    IF Threshold = 0 THEN warned
    ELSE IF BacklogReached(set) /\ ~warned THEN TRUE
    ELSE IF ~BacklogReached(set) /\ warned THEN FALSE
    ELSE warned

\* Faulty variant: the window is measured only against a run still in flight.
CoolingDownWhileRunning(o) ==
    Cooldown > 0 /\ status[o] = "running" /\ Cooldown - sinceDone[o] > 0

\* cooldown_remaining_seconds(o) is not None
CoolingDown(o) ==
    Cooldown > 0 /\ status[o] = "done" /\ Cooldown - sinceDone[o] > 0

-----------------------------------------------------------------------------
(* enqueue(owner_id)                                                        *)

EnqueueDead(o) ==
    /\ dead
    /\ status' = [status EXCEPT ![o] = "error"]
    /\ UNCHANGED <<queue, pending, sinceDone, warned, dead, restarts,
                   consumer, current, stop>>

\* The call returns False and leaves everything as it is.
EnqueueRefused(o) ==
    /\ ~dead
    /\ CoolingDown(o) \/ o \in pending
    /\ UNCHANGED vars

EnqueueAccepted(o) ==
    /\ ~dead
    /\ ~CoolingDown(o)
    /\ o \notin pending
    /\ pending' = pending \cup {o}
    /\ status' = [status EXCEPT ![o] = "queued"]
    /\ warned' = CheckBacklogWarning(pending')
    /\ queue' = Append(queue, o)
    /\ UNCHANGED <<sinceDone, dead, restarts, consumer, current, stop>>

-----------------------------------------------------------------------------
(* run_forever(stop_event): the consumer                                    *)

\* `while not stop_event.is_set()`, evaluated where control reaches it.
LoopHead == IF stop THEN "gone" ELSE "poll"

\* The 0.5 s poll expires; with the event set, the loop ends.
PollTimeout ==
    /\ consumer = "poll"
    /\ stop
    /\ consumer' = LoopHead
    /\ UNCHANGED <<queue, pending, status, sinceDone, warned, dead, restarts,
                   current, stop>>

Take ==
    /\ consumer = "poll"
    /\ queue # << >>
    /\ queue' = Tail(queue)
    /\ current' = Head(queue)
    /\ status' = [status EXCEPT ![Head(queue)] = "running"]
    /\ consumer' = "work"
    /\ UNCHANGED <<pending, sinceDone, warned, dead, restarts, stop>>

\* The finally block: the owner may be queued again.
ReleaseOwner ==
    /\ pending' = pending \ {current}
    /\ warned' = CheckBacklogWarning(pending')
    /\ current' = NoOwner

RunNowSucceeds ==
    /\ consumer = "work"
    /\ status' = [status EXCEPT ![current] = "done"]
    /\ sinceDone' = [sinceDone EXCEPT ![current] = 0]
    /\ restarts' = 0
    /\ ReleaseOwner
    /\ consumer' = LoopHead
    /\ UNCHANGED <<queue, dead, stop>>

RunNowRaises ==
    /\ consumer = "work"
    /\ status' = [status EXCEPT ![current] = "error"]
    /\ ReleaseOwner
    /\ consumer' = LoopHead
    /\ UNCHANGED <<queue, sinceDone, dead, restarts, stop>>

-----------------------------------------------------------------------------
(* run_supervised(stop_event)                                               *)

\* Faulty variant: every in-flight owner is released at every crash, also the
\* queued ones, whose item is still in the queue.
LostAtCrashAll(dying) == {o \in Owner : status[o] \in {"running", "queued"}}

\* Faulty variant: a queue that gives up leaves its queued owners queued.
LostAtCrashRunning(dying) == {o \in Owner : status[o] = "running"}

\* The owners a crash turns to ERROR: the one whose item was popped, and, when
\* no consumer will come back, the ones still waiting.
LostAtCrash(dying) ==
    {o \in Owner : status[o] = "running" \/ (dying /\ status[o] = "queued")}

\* Faulty variant: the crash budget has no end.
BudgetSpentNever == FALSE

BudgetSpent == restarts + 1 > MaxRestarts

\* An exception leaves run_forever, at the poll or after the pop (then its
\* finally block has released the owner first), and the supervisor handles it.
ConsumerCrash ==
    /\ consumer \in {"poll", "work"}
    /\ restarts' = restarts + 1
    /\ LET lost == LostAtCrash(BudgetSpent) IN
         /\ status' = [o \in Owner |-> IF o \in lost THEN "error" ELSE status[o]]
         /\ pending' = pending \ (lost \cup {current})
    /\ warned' = CheckBacklogWarning(pending')
    /\ current' = NoOwner
    /\ dead' = (~stop /\ BudgetSpent)
    /\ consumer' = IF stop \/ BudgetSpent THEN "gone" ELSE "backoff"
    /\ UNCHANGED <<queue, sinceDone, stop>>

\* The backoff sleep ends and run_forever is called again.
Restart ==
    /\ consumer = "backoff"
    /\ consumer' = LoopHead
    /\ UNCHANGED <<queue, pending, status, sinceDone, warned, dead, restarts,
                   current, stop>>

-----------------------------------------------------------------------------
(* Shutdown (the lifespan's finally block): the event is set, then the task *)
(* is cancelled. A cancellation during run_now runs the finally block but   *)
(* records no outcome.                                                      *)

SetStop ==
    /\ ~stop
    /\ stop' = TRUE
    /\ UNCHANGED <<queue, pending, status, sinceDone, warned, dead, restarts,
                   consumer, current>>

Cancel ==
    /\ stop
    /\ consumer # "gone"
    /\ consumer' = "gone"
    /\ IF consumer = "work"
         THEN ReleaseOwner
         ELSE UNCHANGED <<pending, warned, current>>
    /\ UNCHANGED <<queue, status, sinceDone, dead, restarts, stop>>

-----------------------------------------------------------------------------
\* time.monotonic() advances.
Tick ==
    /\ \E o \in Owner : sinceDone[o] < Cooldown
    /\ sinceDone' = [o \in Owner |->
            IF sinceDone[o] < Cooldown THEN sinceDone[o] + 1 ELSE Cooldown]
    /\ UNCHANGED <<queue, pending, status, warned, dead, restarts, consumer,
                   current, stop>>

Enqueue(o) == EnqueueDead(o) \/ EnqueueRefused(o) \/ EnqueueAccepted(o)

Next ==
    \/ \E o \in Owner : Enqueue(o)
    \/ PollTimeout
    \/ Take
    \/ RunNowSucceeds
    \/ RunNowRaises
    \/ ConsumerCrash
    \/ Restart
    \/ SetStop
    \/ Cancel
    \/ Tick

Spec == Init /\ [][Next]_vars

(* The event loop runs a coroutine that is ready: a non-empty queue wakes   *)
(* the consumer, the backoff sleep ends. run_now returns or raises: its     *)
(* fetches are bounded by the tiers' deadlines. Nothing forces a user, a    *)
(* crash, the clock or a shutdown.                                          *)
Fairness ==
    /\ WF_vars(Take)
    /\ WF_vars(RunNowSucceeds \/ RunNowRaises)
    /\ WF_vars(Restart)

FairSpec == Spec /\ Fairness

-----------------------------------------------------------------------------
(* Properties                                                               *)

Queued == {queue[i] : i \in DOMAIN queue}

\* Coalescing: however enqueues, crashes and restarts interleave, an owner has
\* at most one item in the queue, and none while its run is in progress, so one
\* press of the button never leads to two runs back to back.
Coalesced ==
    consumer # "gone" =>
        /\ \A i, j \in DOMAIN queue : queue[i] = queue[j] => i = j
        /\ consumer = "work" => current \notin Queued

\* While the consumer lives, _queued_or_running, the displayed status and the
\* physical position of the owner's item agree: nobody is refused as "already
\* queued" by an entry whose item is gone, and nobody's item is in the queue
\* without the entry that coalesces the next press.
InFlightExact ==
    consumer # "gone" =>
        /\ pending = Queued \cup (IF consumer = "work" THEN {current} ELSE {})
        /\ \A o \in Owner : (o \in Queued) <=> (status[o] = "queued")
        /\ \A o \in Owner :
             (status[o] = "running") <=> (consumer = "work" /\ current = o)

\* A dead queue shows nobody a run that will never finish, and holds nobody
\* back: no owner is left queued or running when the restart budget is spent.
DeadLeavesNobodyWaiting ==
    dead => /\ \A o \in Owner : status[o] \notin {"queued", "running"}
            /\ pending = {}

\* The debounce latch follows the depth exactly, across enqueues, completions,
\* crashes and cancellation: one warning per episode, re-armed when it ends.
BacklogLatchExact == warned <=> BacklogReached(pending)

\* An accepted enqueue never comes sooner than Cooldown after the owner's last
\* successful run, whatever failed, crashed or was refused in between.
CooldownRespected ==
    [][\A o \in Owner :
         o \notin pending /\ o \in pending' => sinceDone[o] >= Cooldown]_vars

\* A queued run ends: it succeeds, fails, or is failed by the dying queue,
\* unless the application is shut down.
QueuedRunEnds ==
    \A o \in Owner :
        (status[o] = "queued") ~> (status[o] \in {"done", "error"} \/ stop)

=============================================================================

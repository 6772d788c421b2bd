--------------------------- MODULE RunQueueProofs ---------------------------
(***************************************************************************)
(* The safety properties of RunQueue for every set of owners, restart      *)
(* budget, cooldown and backlog threshold.                                 *)
(***************************************************************************)
EXTENDS RunQueue, FiniteSetTheorems, TLAPS

-----------------------------------------------------------------------------
(* The inductive invariant: the properties, plus what ties the program      *)
(* counter of the consumer to the other variables.                          *)

\* current is meaningful exactly while run_now runs; only a consumer that is
\* gone can have spent its budget or left a dead queue.
ConsumerShape ==
    /\ consumer = "work" <=> current \in Owner
    /\ dead => consumer = "gone"
    /\ consumer # "gone" => restarts <= MaxRestarts

\* An owner inside the cooldown window still shows "done": nothing but the
\* refusal of a dead queue overwrites it before the window ends.
CooldownMarked ==
    ~dead => \A o \in Owner : sinceDone[o] < Cooldown => status[o] = "done"

IInv ==
    /\ TypeOK
    /\ ConsumerShape
    /\ Coalesced
    /\ InFlightExact
    /\ DeadLeavesNobodyWaiting
    /\ BacklogLatchExact
    /\ CooldownMarked

-----------------------------------------------------------------------------
(* Facts about the operators                                                *)

\* put(): the new item is the last one, the others keep their places.
LEMMA AppendFacts ==
    ASSUME NEW q \in Seq(Owner), NEW o \in Owner
    PROVE  /\ Append(q, o) \in Seq(Owner)
           /\ DOMAIN Append(q, o) = 1 .. Len(q) + 1
           /\ DOMAIN q = 1 .. Len(q)
           /\ Len(q) \in Nat
           /\ \A i \in 1 .. Len(q) : Append(q, o)[i] = q[i]
           /\ Append(q, o)[Len(q) + 1] = o
  OBVIOUS

\* get(): the first item leaves, the others move up.
LEMMA TailFacts ==
    ASSUME NEW q \in Seq(Owner), q # << >>
    PROVE  /\ Tail(q) \in Seq(Owner)
           /\ Head(q) = q[1]
           /\ Head(q) \in Owner
           /\ Len(q) \in Nat \ {0}
           /\ DOMAIN q = 1 .. Len(q)
           /\ DOMAIN Tail(q) = 1 .. Len(q) - 1
           /\ \A i \in 1 .. Len(q) - 1 : Tail(q)[i] = q[i + 1]
  OBVIOUS

\* The debounce computes the latch from the new depth alone, whatever path of
\* _check_backlog_warning_locked it takes.
LEMMA LatchFollowsDepth ==
    ASSUME NEW S, BacklogLatchExact, warned \in BOOLEAN
    PROVE  /\ CheckBacklogWarning(S) \in BOOLEAN
           /\ CheckBacklogWarning(S) <=> BacklogReached(S)
  <1>1. Threshold = 0 => ~BacklogReached(S) /\ ~BacklogReached(pending)
    BY BudgetAssumption DEF BacklogReached
  <1>2. warned <=> BacklogReached(pending)
    BY DEF BacklogLatchExact
  <1>3. warned = TRUE \/ warned = FALSE
    OBVIOUS
  <1>4. CASE warned = TRUE
    BY <1>1, <1>2, <1>4, Zenon DEF CheckBacklogWarning
  <1>5. CASE warned = FALSE
    BY <1>1, <1>2, <1>5, Zenon DEF CheckBacklogWarning
  <1> QED
    BY <1>3, <1>4, <1>5

-----------------------------------------------------------------------------
\* The empty queue of a fresh process satisfies the invariant.
LEMMA InitEstablishes == Init => IInv
  <1> SUFFICES ASSUME Init PROVE IInv
    OBVIOUS
  <1>1. TypeOK
    <2>1. queue \in Seq(Owner)
      BY DEF Init
    <2>2. status \in [Owner -> RunState \cup {"none"}]
      BY DEF Init
    <2>3. /\ sinceDone \in [Owner -> 0 .. Cooldown]
          /\ restarts \in 0 .. MaxRestarts + 1
      BY BudgetAssumption DEF Init
    <2> QED
      BY <2>1, <2>2, <2>3 DEF Init, TypeOK
  <1>2. ConsumerShape /\ Coalesced /\ DeadLeavesNobodyWaiting /\ CooldownMarked
    BY OwnerAssumption, BudgetAssumption
    DEF Init, ConsumerShape, Coalesced, DeadLeavesNobodyWaiting, CooldownMarked
  <1>3. InFlightExact
    <2>1. Queued = {}
      BY DEF Init, Queued
    <2> QED
      BY <2>1, OwnerAssumption DEF Init, InFlightExact
  <1>4. BacklogLatchExact
    BY BudgetAssumption, FS_EmptySet
    DEF Init, BacklogLatchExact, BacklogReached
  <1> QED
    BY <1>1, <1>2, <1>3, <1>4 DEF IInv
-----------------------------------------------------------------------------
(* One lemma per action                                                     *)

\* A refused request (the consumer is dead) changes nothing the invariant
\* speaks of.
LEMMA EnqueueDeadPreserves ==
    ASSUME IInv, NEW o \in Owner, EnqueueDead(o) PROVE IInv'
  <1> USE DEF EnqueueDead
  <1>1. TypeOK'
    BY DEF IInv, TypeOK, RunState
  <1>2. consumer = "gone"
    BY DEF IInv, ConsumerShape
  <1>3. ConsumerShape' /\ Coalesced' /\ InFlightExact' /\ CooldownMarked'
    BY <1>2 DEF IInv, ConsumerShape, Coalesced, InFlightExact, CooldownMarked
  <1>4. DeadLeavesNobodyWaiting'
    BY DEF IInv, TypeOK, DeadLeavesNobodyWaiting
  <1>5. BacklogLatchExact'
    BY DEF IInv, BacklogLatchExact, BacklogReached
  <1> QED
    BY <1>1, <1>3, <1>4, <1>5 DEF IInv

\* An accepted request adds its owner to the queue and to the in-flight set in
\* one critical section.
LEMMA EnqueueAcceptedPreserves ==
    ASSUME IInv, NEW o \in Owner, EnqueueAccepted(o) PROVE IInv'
  <1> USE DEF EnqueueAccepted
  <1>1. /\ queue \in Seq(Owner)
        /\ queue' = Append(queue, o)
        /\ status \in [Owner -> RunState \cup {"none"}]
        /\ status' = [status EXCEPT ![o] = "queued"]
    BY DEF IInv, TypeOK
  <1>2. TypeOK'
    <2>1. queue' \in Seq(Owner)
      BY <1>1, AppendFacts
    <2>2. warned' \in BOOLEAN
      BY LatchFollowsDepth DEF IInv, TypeOK
    <2> QED
      BY <2>1, <2>2 DEF IInv, TypeOK, RunState
  <1>3. Queued' = Queued \cup {o}
    BY <1>1, AppendFacts DEF Queued
  <1>4. consumer # "gone" => o \notin Queued
    BY DEF IInv, InFlightExact
  <1>5. ConsumerShape'
    BY DEF IInv, ConsumerShape
  <1>6. Coalesced'
    <2> SUFFICES ASSUME consumer # "gone" PROVE Coalesced'
      BY DEF Coalesced
    <2>1. consumer = "work" => current # o
      BY DEF IInv, InFlightExact
    <2>2. \A i \in DOMAIN queue : queue[i] # o
      BY <1>4 DEF Queued
    <2>3. \A i, j \in DOMAIN queue : queue[i] = queue[j] => i = j
      BY DEF IInv, Coalesced
    <2>4. ASSUME NEW i \in DOMAIN queue', NEW j \in DOMAIN queue',
                 queue'[i] = queue'[j]
          PROVE  i = j
      BY <1>1, <2>2, <2>3, <2>4, AppendFacts
    <2> QED
      BY <1>3, <2>1, <2>4 DEF IInv, Coalesced
  <1>7. InFlightExact'
    <2> SUFFICES ASSUME consumer # "gone" PROVE InFlightExact'
      BY DEF InFlightExact
    <2>1. /\ pending = Queued \cup (IF consumer = "work" THEN {current} ELSE {})
          /\ \A q \in Owner : (q \in Queued) <=> (status[q] = "queued")
          /\ \A q \in Owner :
               (status[q] = "running") <=> (consumer = "work" /\ current = q)
      BY DEF IInv, InFlightExact
    <2>2. consumer = "work" => current # o
      BY <2>1
    <2>3. \A q \in Owner : (q \in Queued') <=> (status'[q] = "queued")
      BY <1>1, <1>3, <2>1
    <2>4. \A q \in Owner :
            (status'[q] = "running") <=> (consumer = "work" /\ current = q)
      BY <1>1, <2>1, <2>2
    <2> QED
      BY <1>3, <2>1, <2>3, <2>4 DEF InFlightExact
  <1>8. DeadLeavesNobodyWaiting'
    BY DEF DeadLeavesNobodyWaiting
  <1>9. BacklogLatchExact'
    <2>1. warned' <=> BacklogReached(pending')
      BY LatchFollowsDepth DEF IInv, TypeOK
    <2> QED
      BY <2>1 DEF BacklogLatchExact, BacklogReached
  <1>10. CooldownMarked'
    <2>1. sinceDone[o] \in 0 .. Cooldown
      BY DEF IInv, TypeOK
    <2>2. ~(sinceDone[o] < Cooldown)
      <3> SUFFICES ASSUME sinceDone[o] < Cooldown PROVE FALSE
        OBVIOUS
      <3>1. status[o] = "done"
        BY DEF IInv, CooldownMarked
      <3>2. Cooldown > 0 /\ Cooldown - sinceDone[o] > 0
        BY <2>1, BudgetAssumption
      <3> QED
        BY <3>1, <3>2 DEF CoolingDown
    <2> QED
      BY <1>1, <2>2 DEF IInv, CooldownMarked
  <1> QED
    BY <1>2, <1>5, <1>6, <1>7, <1>8, <1>9, <1>10 DEF IInv

\* The steps that move only the consumer's program counter or the stop event.
LEMMA ControlPreserves ==
    ASSUME IInv, PollTimeout \/ Restart \/ SetStop PROVE IInv'
  <1> USE DEF PollTimeout, Restart, SetStop, LoopHead
  <1>1. TypeOK'
    BY DEF IInv, TypeOK
  <1>2. consumer = "gone" => consumer' = "gone"
    OBVIOUS
  <1>3. consumer' = "work" <=> consumer = "work"
    OBVIOUS
  <1>4. ConsumerShape'
    BY <1>2, <1>3 DEF IInv, ConsumerShape
  <1>5. Queued' = Queued
    BY DEF Queued
  <1>6. Coalesced' /\ InFlightExact'
    BY <1>2, <1>3, <1>5 DEF IInv, Coalesced, InFlightExact
  <1>7. DeadLeavesNobodyWaiting' /\ CooldownMarked'
    BY DEF IInv, DeadLeavesNobodyWaiting, CooldownMarked
  <1>8. BacklogLatchExact'
    BY DEF IInv, BacklogLatchExact, BacklogReached
  <1> QED
    BY <1>1, <1>4, <1>6, <1>7, <1>8 DEF IInv

\* The consumer takes the head of the queue and leaves it in flight.
LEMMA TakePreserves ==
    ASSUME IInv, Take PROVE IInv'
  <1> USE DEF Take
  <1> DEFINE h == Head(queue)
  <1>1. /\ queue \in Seq(Owner)
        /\ queue' = Tail(queue)
        /\ status \in [Owner -> RunState \cup {"none"}]
        /\ status' = [status EXCEPT ![h] = "running"]
        /\ consumer = "poll"
        /\ consumer' = "work"
        /\ current' = h
    BY DEF IInv, TypeOK
  <1>2. /\ queue' \in Seq(Owner)
        /\ h \in Owner
        /\ h = queue[1]
        /\ Len(queue) \in Nat \ {0}
        /\ DOMAIN queue = 1 .. Len(queue)
        /\ DOMAIN queue' = 1 .. Len(queue) - 1
        /\ \A i \in 1 .. Len(queue) - 1 : queue'[i] = queue[i + 1]
    BY <1>1, TailFacts
  <1> HIDE DEF h
  <1>3. TypeOK'
    BY <1>1, <1>2 DEF IInv, TypeOK, RunState
  <1>4. \A i, j \in DOMAIN queue : queue[i] = queue[j] => i = j
    BY <1>1 DEF IInv, Coalesced
  <1>5. Queued = Queued' \cup {h}
    <2>1. h \in Queued
      BY <1>2 DEF Queued
    <2>2. ASSUME NEW x \in Queued', TRUE PROVE x \in Queued
      <3>1. PICK i \in DOMAIN queue' : x = queue'[i]
        BY DEF Queued
      <3> QED
        BY <1>2, <3>1 DEF Queued
    <2>3. ASSUME NEW x \in Queued, x # h PROVE x \in Queued'
      <3>1. PICK i \in DOMAIN queue : x = queue[i]
        BY DEF Queued
      <3>2. i - 1 \in DOMAIN queue' /\ queue'[i - 1] = x
        BY <1>2, <2>3, <3>1
      <3> QED
        BY <3>2 DEF Queued
    <2> QED
      BY <2>1, <2>2, <2>3
  <1>6. h \notin Queued'
    <2> SUFFICES ASSUME NEW i \in DOMAIN queue', queue'[i] = h PROVE FALSE
      BY DEF Queued
    <2> QED
      BY <1>2, <1>4
  <1>7. ConsumerShape'
    BY <1>1, <1>2 DEF IInv, ConsumerShape
  <1>8. Coalesced'
    <2>1. \A i, j \in DOMAIN queue' : queue'[i] = queue'[j] => i = j
      BY <1>2, <1>4
    <2> QED
      BY <1>1, <1>6, <2>1 DEF Coalesced
  <1>9. InFlightExact'
    <2>1. /\ pending = Queued
          /\ \A q \in Owner : (q \in Queued) <=> (status[q] = "queued")
          /\ \A q \in Owner : status[q] # "running"
      BY <1>1 DEF IInv, InFlightExact
    <2>2. \A q \in Owner : (q \in Queued') <=> (status'[q] = "queued")
      BY <1>1, <1>2, <1>5, <1>6, <2>1
    <2>3. \A q \in Owner : (status'[q] = "running") <=> (current' = q)
      BY <1>1, <1>2, <2>1
    <2>4. pending' = Queued' \cup {current'}
      BY <1>1, <1>5, <2>1
    <2> QED
      BY <1>1, <2>2, <2>3, <2>4 DEF InFlightExact
  <1>10. ~dead
    BY <1>1 DEF IInv, ConsumerShape
  <1>11. DeadLeavesNobodyWaiting'
    BY <1>10 DEF DeadLeavesNobodyWaiting
  <1>12. BacklogLatchExact'
    BY DEF IInv, BacklogLatchExact, BacklogReached
  <1>13. CooldownMarked'
    <2>1. h \in Queued /\ status[h] = "queued"
      BY <1>1, <1>2, <1>5 DEF IInv, InFlightExact
    <2> QED
      BY <1>1, <1>10, <2>1 DEF IInv, CooldownMarked
  <1> QED
    BY <1>3, <1>7, <1>8, <1>9, <1>11, <1>12, <1>13 DEF IInv

\* run_now returned or raised: the finally block has released the owner.
LEMMA RunEndsPreserves ==
    ASSUME IInv, RunNowSucceeds \/ RunNowRaises PROVE IInv'
  <1> USE DEF RunNowSucceeds, RunNowRaises, ReleaseOwner
  <1>1. PICK st \in {"done", "error"} :
          status' = [status EXCEPT ![current] = st]
    OBVIOUS
  <1>2. /\ consumer = "work"
        /\ current \in Owner
        /\ current' = NoOwner
        /\ consumer' \in {"poll", "gone"}
        /\ pending' = pending \ {current}
        /\ queue' = queue
        /\ ~dead
        /\ dead' = dead
        /\ restarts' \in {0, restarts}
        /\ restarts \in Nat
        /\ restarts <= MaxRestarts
        /\ status \in [Owner -> RunState \cup {"none"}]
    BY DEF LoopHead, IInv, ConsumerShape, TypeOK
  <1>3. TypeOK'
    <2>1. warned' \in BOOLEAN
      BY LatchFollowsDepth DEF IInv, TypeOK
    <2>2. status' \in [Owner -> RunState \cup {"none"}]
      BY <1>1, <1>2 DEF RunState
    <2>3. sinceDone' \in [Owner -> 0 .. Cooldown]
      BY BudgetAssumption DEF IInv, TypeOK
    <2>4. restarts' \in 0 .. MaxRestarts + 1
      BY <1>2, BudgetAssumption
    <2> QED
      BY <1>2, <2>1, <2>2, <2>3, <2>4 DEF IInv, TypeOK
  <1>4. ConsumerShape'
    BY <1>2, OwnerAssumption, BudgetAssumption DEF ConsumerShape
  <1>5. Queued' = Queued
    BY <1>2 DEF Queued
  <1>6. Coalesced'
    BY <1>2 DEF IInv, Coalesced
  <1>7. InFlightExact'
    <2>1. /\ pending = Queued \cup {current}
          /\ \A q \in Owner : (q \in Queued) <=> (status[q] = "queued")
          /\ \A q \in Owner : (status[q] = "running") <=> (current = q)
          /\ current \notin Queued
      BY <1>2 DEF IInv, InFlightExact, Coalesced
    <2>2. pending' = Queued'
      BY <1>2, <1>5, <2>1
    <2>3. \A q \in Owner : (q \in Queued') <=> (status'[q] = "queued")
      BY <1>1, <1>2, <1>5, <2>1
    <2>4. \A q \in Owner : status'[q] # "running"
      BY <1>1, <1>2, <2>1
    <2> QED
      BY <1>2, <2>2, <2>3, <2>4 DEF InFlightExact
  <1>8. DeadLeavesNobodyWaiting'
    BY <1>2 DEF DeadLeavesNobodyWaiting
  <1>9. BacklogLatchExact'
    <2>1. warned' <=> BacklogReached(pending')
      BY LatchFollowsDepth DEF IInv, TypeOK
    <2> QED
      BY <2>1 DEF BacklogLatchExact, BacklogReached
  <1>10. CooldownMarked'
    <2>1. status[current] = "running"
      BY <1>2 DEF IInv, InFlightExact
    <2>2. \A q \in Owner : sinceDone[q] < Cooldown => status[q] = "done"
      BY <1>2 DEF IInv, CooldownMarked
    <2>3. CASE RunNowSucceeds
      BY <1>2, <2>2, <2>3 DEF CooldownMarked, IInv, TypeOK
    <2>4. CASE RunNowRaises
      BY <1>2, <2>1, <2>2, <2>4 DEF CooldownMarked
    <2> QED
      BY <2>3, <2>4
  <1> QED
    BY <1>3, <1>4, <1>6, <1>7, <1>8, <1>9, <1>10 DEF IInv

\* The supervisor's handling of a crash: exactly the owners that no item stands
\* for any more are released.
LEMMA CrashPreserves ==
    ASSUME IInv, ConsumerCrash PROVE IInv'
  <1> USE DEF ConsumerCrash
  <1> DEFINE lost == LostAtCrash(BudgetSpent)
  <1>1. /\ consumer \in {"poll", "work"}
        /\ consumer' \in {"gone", "backoff"}
        /\ queue' = queue
        /\ current' = NoOwner
        /\ status \in [Owner -> RunState \cup {"none"}]
        /\ status' = [o \in Owner |-> IF o \in lost THEN "error" ELSE status[o]]
        /\ pending' = pending \ (lost \cup {current})
        /\ restarts' = restarts + 1
        /\ restarts \in Nat
        /\ restarts <= MaxRestarts
        /\ ~dead
        /\ dead' => BudgetSpent /\ consumer' = "gone"
        /\ consumer' # "gone" => ~BudgetSpent
    BY DEF IInv, TypeOK, ConsumerShape
  <1>2. /\ consumer = "work" <=> current \in Owner
        /\ current \in Owner \cup {NoOwner}
    BY DEF IInv, TypeOK, ConsumerShape
  <1>3. /\ pending = Queued \cup (IF consumer = "work" THEN {current} ELSE {})
        /\ \A q \in Owner : (q \in Queued) <=> (status[q] = "queued")
        /\ \A q \in Owner :
             (status[q] = "running") <=> (consumer = "work" /\ current = q)
        /\ consumer = "work" => current \notin Queued
    BY <1>1 DEF IInv, InFlightExact, Coalesced
  <1>4. /\ BudgetSpent => \A q \in Owner :
             (q \in lost) <=> (status[q] \in {"queued", "running"})
        /\ ~BudgetSpent => \A q \in Owner :
             (q \in lost) <=> (status[q] = "running")
    BY DEF LostAtCrash
  <1> HIDE DEF lost
  <1>5. TypeOK'
    <2>1. warned' \in BOOLEAN
      BY LatchFollowsDepth DEF IInv, TypeOK
    <2>2. status' \in [Owner -> RunState \cup {"none"}]
      BY <1>1 DEF RunState
    <2>3. restarts' \in 0 .. MaxRestarts + 1
      BY <1>1, BudgetAssumption
    <2>4. dead' \in BOOLEAN
      OBVIOUS
    <2> QED
      BY <1>1, <2>1, <2>2, <2>3, <2>4 DEF IInv, TypeOK
  <1>6. ConsumerShape'
    BY <1>1, OwnerAssumption, BudgetAssumption DEF ConsumerShape, BudgetSpent
  <1>7. Queued' = Queued
    BY <1>1 DEF Queued
  <1>8. Queued \subseteq Owner
    BY DEF IInv, TypeOK, Queued
  <1>9. Coalesced'
    BY <1>1 DEF IInv, Coalesced
  <1>10. InFlightExact'
    <2> SUFFICES ASSUME consumer' # "gone" PROVE InFlightExact'
      BY DEF InFlightExact
    <2>1. \A q \in Owner : (q \in lost) <=> (consumer = "work" /\ current = q)
      BY <1>1, <1>3, <1>4
    <2>2. pending' = Queued'
      BY <1>1, <1>2, <1>3, <1>7, <1>8, <2>1, OwnerAssumption
    <2>3. \A q \in Owner : (q \in Queued') <=> (status'[q] = "queued")
      BY <1>1, <1>3, <1>7, <2>1
    <2>4. \A q \in Owner : status'[q] # "running"
      BY <1>1, <1>3, <2>1
    <2> QED
      BY <1>1, <2>2, <2>3, <2>4 DEF InFlightExact
  <1>11. DeadLeavesNobodyWaiting'
    <2> SUFFICES ASSUME dead' PROVE DeadLeavesNobodyWaiting'
      BY DEF DeadLeavesNobodyWaiting
    <2>1. \A q \in Owner : (q \in lost) <=> (status[q] \in {"queued", "running"})
      BY <1>1, <1>4
    <2>2. \A q \in Owner : status'[q] \notin {"queued", "running"}
      BY <1>1, <2>1
    <2>3. pending' = {}
      BY <1>1, <1>3, <1>8, <2>1
    <2> QED
      BY <2>2, <2>3 DEF DeadLeavesNobodyWaiting
  <1>12. BacklogLatchExact'
    <2>1. warned' <=> BacklogReached(pending')
      BY LatchFollowsDepth DEF IInv, TypeOK
    <2> QED
      BY <2>1 DEF BacklogLatchExact, BacklogReached
  <1>13. CooldownMarked'
    <2>1. \A q \in Owner : q \in lost => status[q] # "done"
      BY <1>4
    <2> QED
      BY <1>1, <2>1 DEF IInv, CooldownMarked
  <1> QED
    BY <1>5, <1>6, <1>9, <1>10, <1>11, <1>12, <1>13 DEF IInv

\* A shutdown in the middle of a run keeps the invariant.
LEMMA CancelPreserves ==
    ASSUME IInv, Cancel PROVE IInv'
  <1> USE DEF Cancel, ReleaseOwner
  <1>1. /\ consumer' = "gone"
        /\ consumer # "gone"
        /\ ~dead
        /\ dead' = dead
        /\ current' = NoOwner
        /\ pending' \in SUBSET Owner
    BY DEF IInv, TypeOK, ConsumerShape
  <1>2. /\ warned' \in BOOLEAN
        /\ warned' <=> BacklogReached(pending')
    <2>1. CASE consumer = "work"
      BY <2>1, LatchFollowsDepth DEF IInv, TypeOK
    <2>2. CASE consumer # "work"
      BY <2>2 DEF IInv, TypeOK, BacklogLatchExact, BacklogReached
    <2> QED
      BY <2>1, <2>2
  <1>3. TypeOK'
    BY <1>1, <1>2 DEF IInv, TypeOK
  <1>4. ConsumerShape' /\ Coalesced' /\ InFlightExact'
    BY <1>1, OwnerAssumption DEF ConsumerShape, Coalesced, InFlightExact
  <1>5. DeadLeavesNobodyWaiting'
    BY <1>1 DEF DeadLeavesNobodyWaiting
  <1>6. BacklogLatchExact'
    BY <1>2 DEF BacklogLatchExact, BacklogReached
  <1>7. CooldownMarked'
    BY DEF IInv, CooldownMarked
  <1> QED
    BY <1>3, <1>4, <1>5, <1>6, <1>7 DEF IInv

\* Time alone keeps the invariant: a cooldown only runs out.
LEMMA TickPreserves ==
    ASSUME IInv, Tick PROVE IInv'
  <1> USE DEF Tick
  <1>1. sinceDone' \in [Owner -> 0 .. Cooldown]
    BY BudgetAssumption DEF IInv, TypeOK
  <1>2. TypeOK'
    BY <1>1 DEF IInv, TypeOK
  <1>3. Queued' = Queued
    BY DEF Queued
  <1>4. ConsumerShape' /\ Coalesced' /\ InFlightExact'
    BY <1>3 DEF IInv, ConsumerShape, Coalesced, InFlightExact
  <1>5. DeadLeavesNobodyWaiting'
    BY DEF IInv, DeadLeavesNobodyWaiting
  <1>6. BacklogLatchExact'
    BY DEF IInv, BacklogLatchExact, BacklogReached
  <1>7. CooldownMarked'
    <2>1. \A q \in Owner : sinceDone'[q] < Cooldown => sinceDone[q] < Cooldown
      BY BudgetAssumption DEF IInv, TypeOK
    <2> QED
      BY <2>1 DEF IInv, CooldownMarked
  <1> QED
    BY <1>2, <1>4, <1>5, <1>6, <1>7 DEF IInv

\* A step that changes no variable keeps the invariant.
LEMMA StutterPreserves ==
    ASSUME IInv, UNCHANGED vars PROVE IInv'
  BY DEF vars, IInv, TypeOK, ConsumerShape, Coalesced, InFlightExact, Queued,
         DeadLeavesNobodyWaiting, BacklogLatchExact, BacklogReached,
         CooldownMarked

\* Every step of the queue keeps the invariant.
LEMMA NextPreserves == IInv /\ [Next]_vars => IInv'
  <1> SUFFICES ASSUME IInv, [Next]_vars PROVE IInv'
    OBVIOUS
  <1>1. ASSUME NEW o \in Owner, Enqueue(o) PROVE IInv'
    BY <1>1, EnqueueDeadPreserves, EnqueueAcceptedPreserves, StutterPreserves
    DEF Enqueue, EnqueueRefused
  <1>2. CASE PollTimeout \/ Restart \/ SetStop
    BY <1>2, ControlPreserves
  <1>3. CASE Take
    BY <1>3, TakePreserves
  <1>4. CASE RunNowSucceeds \/ RunNowRaises
    BY <1>4, RunEndsPreserves
  <1>5. CASE ConsumerCrash
    BY <1>5, CrashPreserves
  <1>6. CASE Cancel
    BY <1>6, CancelPreserves
  <1>7. CASE Tick
    BY <1>7, TickPreserves
  <1>8. CASE UNCHANGED vars
    BY <1>8, StutterPreserves
  <1> QED
    BY <1>1, <1>2, <1>3, <1>4, <1>5, <1>6, <1>7, <1>8 DEF Next

-----------------------------------------------------------------------------
(* The theorems                                                             *)

\* The inductive invariant holds in every reachable state.
LEMMA Invariance == Spec => []IInv
  BY InitEstablishes, NextPreserves, PTL DEF Spec

\* Type correctness of the queue's state.
THEOREM TypeCorrect == Spec => []TypeOK
  <1>1. IInv => TypeOK
    BY DEF IInv
  <1> QED
    BY <1>1, Invariance, PTL

\* Coalescing for any number of owners and any pattern of crashes: an owner
\* never has two items, nor one beside its run in progress.
THEOREM CoalescingHolds == Spec => []Coalesced
  <1>1. IInv => Coalesced
    BY DEF IInv
  <1> QED
    BY <1>1, Invariance, PTL

\* While the consumer lives, _queued_or_running, _status and the items agree.
THEOREM InFlightExactHolds == Spec => []InFlightExact
  <1>1. IInv => InFlightExact
    BY DEF IInv
  <1> QED
    BY <1>1, Invariance, PTL

\* run_supervised leaves nobody queued or running when it gives up.
THEOREM DeadQueueIsEmpty == Spec => []DeadLeavesNobodyWaiting
  <1>1. IInv => DeadLeavesNobodyWaiting
    BY DEF IInv
  <1> QED
    BY <1>1, Invariance, PTL

\* The backlog latch equals "the depth is at the threshold" at every step.
THEOREM BacklogLatchHolds == Spec => []BacklogLatchExact
  <1>1. IInv => BacklogLatchExact
    BY DEF IInv
  <1> QED
    BY <1>1, Invariance, PTL

\* enqueue accepts nobody within the cooldown of a successful run.
THEOREM CooldownHolds == Spec => CooldownRespected
  <1> DEFINE Respected ==
        \A o \in Owner :
          o \notin pending /\ o \in pending' => sinceDone[o] >= Cooldown
  <1>1. IInv /\ [Next]_vars => [Respected]_vars
    <2> SUFFICES ASSUME IInv, Next,
                        NEW o \in Owner, o \notin pending, o \in pending'
                 PROVE  sinceDone[o] >= Cooldown
      OBVIOUS
    <2>1. EnqueueAccepted(o)
      <3>1. PICK q \in Owner : EnqueueAccepted(q)
        BY DEF Next, Enqueue, EnqueueDead, EnqueueRefused, PollTimeout, Take,
               RunNowSucceeds, RunNowRaises, ReleaseOwner, ConsumerCrash,
               Restart, SetStop, Cancel, Tick, vars
      <3>2. q = o
        BY <3>1 DEF EnqueueAccepted
      <3> QED
        BY <3>1, <3>2
    <2>2. sinceDone[o] \in 0 .. Cooldown
      BY DEF IInv, TypeOK
    <2>3. ~(sinceDone[o] < Cooldown)
      <3> SUFFICES ASSUME sinceDone[o] < Cooldown PROVE FALSE
        OBVIOUS
      <3>1. status[o] = "done"
        BY <2>1 DEF EnqueueAccepted, IInv, CooldownMarked
      <3>2. Cooldown > 0 /\ Cooldown - sinceDone[o] > 0
        BY <2>2, BudgetAssumption
      <3> QED
        BY <2>1, <3>1, <3>2 DEF EnqueueAccepted, CoolingDown
    <2> QED
      BY <2>2, <2>3, BudgetAssumption
  <1> QED
    BY <1>1, Invariance, PTL DEF Spec, CooldownRespected
=============================================================================

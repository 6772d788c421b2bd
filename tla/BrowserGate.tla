---------------------------- MODULE BrowserGate ----------------------------
(***************************************************************************)
(* The gate that bounds how many browsers run at once                      *)
(* (autolycos/browser_gate.py). Within a process a BoundedSemaphore hands  *)
(* out permits; between processes a caller that has a permit also locks    *)
(* one of N slot files (flock on a descriptor of its own, polled). The     *)
(* kernel drops the locks of a process that dies.                          *)
(***************************************************************************)
EXTENDS Naturals, FiniteSets

CONSTANTS
    Proc,           \* the processes that share the lock directory
    Caller,         \* the threads that fetch
    ProcOf,         \* the process a thread belongs to
    MaxConcurrent,  \* max_concurrent, also the number of slot files
    Nobody

ASSUME GateAssumption ==
    /\ ProcOf \in [Caller -> Proc]
    /\ IsFiniteSet(Caller)
    /\ MaxConcurrent \in Nat \ {0}
    /\ Nobody \notin Caller

Slot == 1 .. MaxConcurrent
NoSlot == 0

VARIABLES
    permits,    \* the value of each process's _semaphore
    lock,       \* who holds the flock of each slot file
    at,         \* where each caller is
    slot        \* the slot a caller tries next, or holds

vars == <<permits, lock, at, slot>>

TypeOK ==
    /\ permits \in [Proc -> 0 .. MaxConcurrent]
    /\ lock \in [Slot -> Caller \cup {Nobody}]
    /\ at \in [Caller -> {"idle", "permit", "scan", "poll", "held", "leaving"}]
    /\ slot \in [Caller -> Slot \cup {NoSlot}]

Init ==
    /\ permits = [p \in Proc |-> MaxConcurrent]
    /\ lock = [s \in Slot |-> Nobody]
    /\ at = [c \in Caller |-> "idle"]
    /\ slot = [c \in Caller |-> NoSlot]

-----------------------------------------------------------------------------
(* acquire()                                                                *)

Go(c, st, s) ==
    /\ at' = [at EXCEPT ![c] = st]
    /\ slot' = [slot EXCEPT ![c] = s]

\* Faulty variant: the permit is released by the slot scan and by acquire().
GiveBackPermitTwice(c) == permits' = [permits EXCEPT ![ProcOf[c]] = @ + 2]

\* Faulty variant: the exception path of acquire() keeps the permit.
GiveBackPermitNever(c) == permits' = permits

GiveBackPermit(c) == permits' = [permits EXCEPT ![ProcOf[c]] = @ + 1]

Acquire(c) ==
    /\ at[c] = "idle"
    /\ Go(c, "permit", NoSlot)
    /\ UNCHANGED <<permits, lock>>

TakePermit(c) ==
    /\ at[c] = "permit"
    /\ permits[ProcOf[c]] > 0
    /\ permits' = [permits EXCEPT ![ProcOf[c]] = @ - 1]
    /\ Go(c, "scan", 1)
    /\ UNCHANGED lock

\* semaphore.acquire(timeout) returns False: FetchError, nothing to undo.
PermitTimeout(c) ==
    /\ at[c] = "permit"
    /\ Go(c, "idle", NoSlot)
    /\ UNCHANGED <<permits, lock>>

\* Faulty variant: locks of the process (fcntl) in place of flock, so that a
\* slot held by a thread of one's own process can be locked again.
SlotFreeOwnProcess(c, s) ==
    lock[s] \in {Nobody} \cup {d \in Caller : ProcOf[d] = ProcOf[c]}

\* flock(LOCK_EX | LOCK_NB) on a fresh descriptor succeeds.
SlotFree(c, s) == lock[s] = Nobody

LockSlot(c) ==
    /\ at[c] = "scan"
    /\ SlotFree(c, slot[c])
    /\ lock' = [lock EXCEPT ![slot[c]] = c]
    /\ Go(c, "held", slot[c])
    /\ UNCHANGED permits

\* EWOULDBLOCK: on to the next slot file, or to the end of the scan.
SkipSlot(c) ==
    /\ at[c] = "scan"
    /\ ~SlotFree(c, slot[c])
    /\ IF slot[c] < MaxConcurrent THEN Go(c, "scan", slot[c] + 1)
                                  ELSE Go(c, "poll", NoSlot)
    /\ UNCHANGED <<permits, lock>>

\* The sleep of the poll interval ends before the deadline.
Rescan(c) ==
    /\ at[c] = "poll"
    /\ Go(c, "scan", 1)
    /\ UNCHANGED <<permits, lock>>

\* The deadline passes after a scan, or open/flock fails with another errno:
\* the except clause of acquire() releases the permit and raises.
SlotFails(c) ==
    /\ at[c] \in {"scan", "poll"}
    /\ GiveBackPermit(c)
    /\ Go(c, "idle", NoSlot)
    /\ UNCHANGED lock

-----------------------------------------------------------------------------
(* _release(fd): unlock and close, then release the semaphore               *)

Unlock(c) ==
    /\ at[c] = "held"
    /\ lock' = [lock EXCEPT ![slot[c]] = Nobody]
    /\ Go(c, "leaving", NoSlot)
    /\ UNCHANGED permits

ReleasePermit(c) ==
    /\ at[c] = "leaving"
    /\ permits' = [permits EXCEPT ![ProcOf[c]] = @ + 1]
    /\ Go(c, "idle", NoSlot)
    /\ UNCHANGED lock

\* The process dies and is started again: a new gate, and no lock of its own.
Die(p) ==
    /\ permits' = [permits EXCEPT ![p] = MaxConcurrent]
    /\ lock' = [s \in Slot |->
         IF lock[s] # Nobody /\ ProcOf[lock[s]] = p THEN Nobody ELSE lock[s]]
    /\ at' = [c \in Caller |-> IF ProcOf[c] = p THEN "idle" ELSE at[c]]
    /\ slot' = [c \in Caller |-> IF ProcOf[c] = p THEN NoSlot ELSE slot[c]]

-----------------------------------------------------------------------------
CallerStep(c) ==
    \/ Acquire(c) \/ TakePermit(c) \/ PermitTimeout(c)
    \/ LockSlot(c) \/ SkipSlot(c) \/ Rescan(c) \/ SlotFails(c)
    \/ Unlock(c) \/ ReleasePermit(c)

Next ==
    \/ \E c \in Caller : CallerStep(c)
    \/ \E p \in Proc : Die(p)

Spec == Init /\ [][Next]_vars

(* A caller that is running its scan goes on with it, one that has a permit *)
(* to take takes it, and a hold is released (fetches are bounded by their   *)
(* own deadline). No deadline of acquire() is assumed to pass: it may be    *)
(* None.                                                                    *)
Fairness ==
    \A c \in Caller :
        /\ WF_vars(TakePermit(c))
        /\ WF_vars(LockSlot(c) \/ SkipSlot(c))
        /\ WF_vars(Rescan(c))
        /\ WF_vars(Unlock(c) \/ ReleasePermit(c))

FairSpec == Spec /\ Fairness

-----------------------------------------------------------------------------
(* Properties                                                               *)

Inside(c) == at[c] \in {"scan", "poll", "held", "leaving"}

\* The bound across processes: never more browsers than max_concurrent, however
\* scans, timeouts, releases and process deaths interleave.
HoldersBounded == Cardinality({c \in Caller : at[c] = "held"}) <= MaxConcurrent

\* No permit is ever lost or handed out twice: a failed acquisition gives back
\* what it took, so one bad slot does not block the process for ever.
PermitsExact ==
    \A p \in Proc :
        permits[p] + Cardinality({c \in Caller : ProcOf[c] = p /\ Inside(c)})
            = MaxConcurrent

\* A lock is held by the caller that will release it, and by nobody else: no
\* slot stays locked after its holder gave up, left or died.
LocksExact ==
    \A s \in Slot, c \in Caller :
        lock[s] = c <=> (at[c] = "held" /\ slot[c] = s)

\* Somebody gets through: once errors, timeouts and deaths cease, callers of
\* several processes that scan and poll for each other's slots do not all go
\* round for ever.
Untroubled ==
    \E c \in Caller :
        \/ Acquire(c) \/ TakePermit(c) \/ LockSlot(c) \/ SkipSlot(c)
        \/ Rescan(c) \/ Unlock(c) \/ ReleasePermit(c)

GateProgress ==
    <>[][Untroubled]_vars =>
        ((\E c \in Caller : at[c] = "permit")
            ~> (\/ \E c \in Caller : at[c] = "held"
                \/ \A c \in Caller : at[c] = "idle"))

=============================================================================

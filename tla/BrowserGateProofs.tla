------------------------- MODULE BrowserGateProofs -------------------------
(***************************************************************************)
(* The browser gate for any number of processes, threads and slots: no     *)
(* permit is lost, a lock belongs to the caller that will release it, and  *)
(* never more than max_concurrent callers are past the gate.               *)
(***************************************************************************)
EXTENDS BrowserGate, FiniteSetTheorems, TLAPS

\* The callers of a process that its semaphore has let in.
InsideOf(p) == {c \in Caller : ProcOf[c] = p /\ Inside(c)}

\* A caller that tries or holds a slot file knows which one.
SlotKnown == \A c \in Caller : at[c] \in {"scan", "held"} => slot[c] \in Slot

IInv == TypeOK /\ PermitsExact /\ LocksExact /\ SlotKnown

-----------------------------------------------------------------------------
(* Counting the callers inside                                              *)

\* The callers inside are finitely many.
LEMMA InsideFinite ==
    ASSUME NEW p
    PROVE  IsFiniteSet(InsideOf(p)) /\ Cardinality(InsideOf(p)) \in Nat
  <1>1. InsideOf(p) \in SUBSET Caller
    BY DEF InsideOf
  <1>2. IsFiniteSet(InsideOf(p))
    BY <1>1, FS_Subset, GateAssumption
  <1> QED
    BY <1>2, FS_CardinalityType

\* Only one caller moves.
Moves(c, st) == at' = [at EXCEPT ![c] = st]

\* A move that is inside before and after leaves the callers inside alone.
LEMMA StaysInside ==
    ASSUME TypeOK, NEW c \in Caller, NEW st, Moves(c, st),
           Inside(c) <=> st \in {"scan", "poll", "held", "leaving"}
    PROVE  \A p \in Proc : InsideOf(p)' = InsideOf(p)
  BY DEF TypeOK, Moves, InsideOf, Inside

\* A caller that comes in is one more in its process.
LEMMA ComesIn ==
    ASSUME TypeOK, NEW c \in Caller, NEW st, Moves(c, st),
           ~Inside(c), st \in {"scan", "poll", "held", "leaving"}
    PROVE  \A p \in Proc :
             Cardinality(InsideOf(p)') =
                 IF p = ProcOf[c] THEN Cardinality(InsideOf(p)) + 1
                                  ELSE Cardinality(InsideOf(p))
  <1> TAKE p \in Proc
  <1>1. c \notin InsideOf(p)
    BY DEF InsideOf
  <1>2. CASE p = ProcOf[c]
    <2>1. InsideOf(p)' = InsideOf(p) \cup {c}
      BY <1>2 DEF TypeOK, Moves, InsideOf, Inside
    <2> QED
      BY <1>1, <1>2, <2>1, InsideFinite, FS_AddElement
  <1>3. CASE p # ProcOf[c]
    <2>1. InsideOf(p)' = InsideOf(p)
      BY <1>3 DEF TypeOK, Moves, InsideOf, Inside
    <2> QED
      BY <1>3, <2>1
  <1> QED
    BY <1>2, <1>3

\* A caller that goes out is one less.
LEMMA GoesOut ==
    ASSUME TypeOK, NEW c \in Caller, Moves(c, "idle"), Inside(c)
    PROVE  \A p \in Proc :
             Cardinality(InsideOf(p)') =
                 IF p = ProcOf[c] THEN Cardinality(InsideOf(p)) - 1
                                  ELSE Cardinality(InsideOf(p))
  <1> TAKE p \in Proc
  <1>1. CASE p = ProcOf[c]
    <2>1. InsideOf(p)' = InsideOf(p) \ {c} /\ c \in InsideOf(p)
      BY <1>1 DEF TypeOK, Moves, InsideOf, Inside
    <2> QED
      BY <1>1, <2>1, InsideFinite, FS_RemoveElement
  <1>2. CASE p # ProcOf[c]
    <2>1. InsideOf(p)' = InsideOf(p)
      BY <1>2 DEF TypeOK, Moves, InsideOf, Inside
    <2> QED
      BY <1>2, <2>1
  <1> QED
    BY <1>1, <1>2

-----------------------------------------------------------------------------
(* One lemma per action                                                     *)

\* The permits of a process and the callers inside it make up the limit.
LEMMA PermitsByProcess ==
    PermitsExact <=>
        \A p \in Proc : permits[p] + Cardinality(InsideOf(p)) = MaxConcurrent
  BY DEF PermitsExact, InsideOf

\* The same of the next state.
LEMMA PermitsByProcessNext ==
    PermitsExact' <=>
        \A p \in Proc : permits'[p] + Cardinality(InsideOf(p)') = MaxConcurrent
  BY DEF PermitsExact, InsideOf

\* Before the first acquire every permit and every slot is free.
LEMMA InitInv == Init => IInv
  <1> SUFFICES ASSUME Init PROVE IInv
    OBVIOUS
  <1>1. TypeOK
    BY GateAssumption DEF Init, TypeOK, Slot, NoSlot
  <1>2. \A p \in Proc : InsideOf(p) = {}
    BY DEF Init, InsideOf, Inside
  <1>3. PermitsExact
    BY <1>2, FS_EmptySet, GateAssumption, PermitsByProcess DEF Init
  <1>4. LocksExact /\ SlotKnown
    BY GateAssumption DEF Init, LocksExact, SlotKnown
  <1> QED
    BY <1>1, <1>3, <1>4 DEF IInv

\* Waiting for a permit, and giving up on it, touch nothing.
LEMMA OutsideStep ==
    ASSUME IInv, NEW c \in Caller, Acquire(c) \/ PermitTimeout(c)
    PROVE  IInv'
  <1> USE DEF Acquire, PermitTimeout, Go
  <1>1. TypeOK'
    BY DEF IInv, TypeOK, NoSlot
  <1>2. PICK st \in {"idle", "permit"} : Moves(c, st) /\ ~Inside(c)
    BY DEF Moves, Inside
  <1>3. PermitsExact'
    <2>1. \A p \in Proc : InsideOf(p)' = InsideOf(p)
      BY <1>2, StaysInside DEF IInv
    <2> QED
      BY <2>1, PermitsByProcess, PermitsByProcessNext DEF IInv
  <1>4. LocksExact' /\ SlotKnown'
    BY DEF IInv, TypeOK, LocksExact, SlotKnown
  <1> QED
    BY <1>1, <1>3, <1>4 DEF IInv

\* A caller that gets a permit of its process is one more inside.
LEMMA TakePermitStep ==
    ASSUME IInv, NEW c \in Caller, TakePermit(c)
    PROVE  IInv'
  <1> USE DEF TakePermit, Go
  <1>1. TypeOK'
    <2>1. ProcOf[c] \in Proc /\ 1 \in Slot
      BY GateAssumption DEF Slot
    <2>2. permits[ProcOf[c]] - 1 \in 0 .. MaxConcurrent
      BY <2>1, GateAssumption DEF IInv, TypeOK
    <2> QED
      BY <2>1, <2>2 DEF IInv, TypeOK
  <1>2. PermitsExact'
    <2>1. Moves(c, "scan") /\ ~Inside(c)
      BY DEF Moves, Inside
    <2>2. \A p \in Proc :
            Cardinality(InsideOf(p)') =
                IF p = ProcOf[c] THEN Cardinality(InsideOf(p)) + 1
                                 ELSE Cardinality(InsideOf(p))
      BY <2>1, ComesIn DEF IInv
    <2>3. \A p \in Proc : permits[p] + Cardinality(InsideOf(p)) = MaxConcurrent
      BY PermitsByProcess DEF IInv
    <2>4. \A p \in Proc : permits'[p] + Cardinality(InsideOf(p)') = MaxConcurrent
      BY <2>2, <2>3, InsideFinite, GateAssumption DEF IInv, TypeOK
    <2> QED
      BY <2>4, PermitsByProcessNext
  <1>3. LocksExact' /\ SlotKnown'
    BY GateAssumption DEF IInv, TypeOK, LocksExact, SlotKnown, Slot
  <1> QED
    BY <1>1, <1>2, <1>3 DEF IInv

\* A step inside that takes no permit and gives none back.
LEMMA InsideStep ==
    ASSUME IInv, NEW c \in Caller,
           LockSlot(c) \/ SkipSlot(c) \/ Rescan(c) \/ Unlock(c)
    PROVE  IInv'
  <1> USE DEF LockSlot, SkipSlot, Rescan, Unlock, Go, SlotFree
  <1>1. TypeOK'
    <2>1. 1 \in Slot /\ (slot[c] \in Slot /\ slot[c] < MaxConcurrent => slot[c] + 1 \in Slot)
      BY GateAssumption DEF Slot
    <2>2. at[c] \in {"scan", "held"} => slot[c] \in Slot
      BY DEF IInv, SlotKnown
    <2> QED
      BY <2>1, <2>2 DEF IInv, TypeOK
  <1>2. PICK st \in {"scan", "poll", "held", "leaving"} : Moves(c, st) /\ Inside(c)
    BY DEF Moves, Inside
  <1>3. PermitsExact'
    <2>1. \A p \in Proc : InsideOf(p)' = InsideOf(p)
      BY <1>2, StaysInside DEF IInv
    <2> QED
      BY <2>1, PermitsByProcess, PermitsByProcessNext DEF IInv
  <1>4. LocksExact' /\ SlotKnown'
    <2>1. CASE LockSlot(c)
      BY <2>1, GateAssumption DEF IInv, TypeOK, LocksExact, SlotKnown
    <2>2. CASE SkipSlot(c)
      <3>1. slot[c] \in Slot /\ (slot[c] < MaxConcurrent => slot[c] + 1 \in Slot)
        BY <2>2, GateAssumption DEF IInv, SlotKnown, Slot
      <3>2. SlotKnown'
        BY <2>2, <3>1 DEF IInv, TypeOK, SlotKnown
      <3>3. LocksExact'
        BY <2>2 DEF IInv, TypeOK, LocksExact
      <3> QED
        BY <3>2, <3>3
    <2>3. CASE Rescan(c)
      BY <2>3, GateAssumption DEF IInv, TypeOK, LocksExact, SlotKnown, Slot
    <2>4. CASE Unlock(c)
      BY <2>4, GateAssumption DEF IInv, TypeOK, LocksExact, SlotKnown
    <2> QED
      BY <2>1, <2>2, <2>3, <2>4
  <1> QED
    BY <1>1, <1>3, <1>4 DEF IInv

\* A caller that leaves gives its permit back; it holds no lock any more.
LEMMA LeaveStep ==
    ASSUME IInv, NEW c \in Caller, SlotFails(c) \/ ReleasePermit(c)
    PROVE  IInv'
  <1> USE DEF SlotFails, ReleasePermit, GiveBackPermit, Go
  <1>1. Moves(c, "idle") /\ Inside(c)
    BY DEF Moves, Inside
  <1>2. \A p \in Proc : permits[p] + Cardinality(InsideOf(p)) = MaxConcurrent
    BY PermitsByProcess DEF IInv
  <1>3. \A p \in Proc :
          Cardinality(InsideOf(p)') =
              IF p = ProcOf[c] THEN Cardinality(InsideOf(p)) - 1
                               ELSE Cardinality(InsideOf(p))
    BY <1>1, GoesOut DEF IInv
  <1>4. PermitsExact'
    <2>1. \A p \in Proc : permits'[p] + Cardinality(InsideOf(p)') = MaxConcurrent
      BY <1>2, <1>3, InsideFinite, GateAssumption DEF IInv, TypeOK
    <2> QED
      BY <2>1, PermitsByProcessNext
  <1>5. TypeOK'
    <2>1. permits' \in [Proc -> 0 .. MaxConcurrent]
      <3>1. c \in InsideOf(ProcOf[c]) /\ ProcOf[c] \in Proc
        BY <1>1, GateAssumption DEF InsideOf
      <3>2. Cardinality(InsideOf(ProcOf[c])) > 0
        BY <3>1, InsideFinite, FS_EmptySet
      <3>3. permits[ProcOf[c]] < MaxConcurrent
        BY <3>1, <3>2, <1>2, InsideFinite, GateAssumption DEF IInv, TypeOK
      <3> QED
        BY <3>1, <3>3, GateAssumption DEF IInv, TypeOK
    <2> QED
      BY <2>1 DEF IInv, TypeOK, NoSlot
  <1>6. LocksExact' /\ SlotKnown'
    BY GateAssumption DEF IInv, TypeOK, LocksExact, SlotKnown
  <1> QED
    BY <1>4, <1>5, <1>6 DEF IInv

\* The kernel drops the locks of a dead process and only those.
LEMMA DieStep ==
    ASSUME IInv, NEW p \in Proc, Die(p)
    PROVE  IInv'
  <1> USE DEF Die
  <1>1. TypeOK'
    BY GateAssumption DEF IInv, TypeOK, NoSlot
  <1>2. PermitsExact'
    <2>1. InsideOf(p)' = {}
      BY DEF InsideOf, Inside
    <2>2. \A q \in Proc \ {p} : InsideOf(q)' = InsideOf(q)
      BY GateAssumption DEF InsideOf, Inside
    <2>3. permits'[p] + Cardinality(InsideOf(p)') = MaxConcurrent
      BY <2>1, FS_EmptySet, GateAssumption DEF IInv, TypeOK
    <2>4. \A q \in Proc \ {p} :
            permits'[q] + Cardinality(InsideOf(q)') = MaxConcurrent
      BY <2>2, PermitsByProcess DEF IInv, TypeOK
    <2> QED
      BY <2>3, <2>4, PermitsByProcessNext
  <1>3. LocksExact'
    BY GateAssumption DEF IInv, TypeOK, LocksExact
  <1>4. SlotKnown'
    BY DEF IInv, SlotKnown
  <1> QED
    BY <1>1, <1>2, <1>3, <1>4 DEF IInv

-----------------------------------------------------------------------------
(* Theorems                                                                 *)

\* The gate's inductive invariant.
THEOREM GateInvariant == Spec => []IInv
  <1>1. IInv /\ [Next]_vars => IInv'
    <2> SUFFICES ASSUME IInv, [Next]_vars PROVE IInv'
      OBVIOUS
    <2>1. ASSUME NEW c \in Caller, CallerStep(c) PROVE IInv'
      BY <2>1, OutsideStep, TakePermitStep, InsideStep, LeaveStep DEF CallerStep
    <2>2. ASSUME NEW p \in Proc, Die(p) PROVE IInv'
      BY <2>2, DieStep
    <2>3. CASE UNCHANGED vars
      BY <2>3 DEF vars, IInv, TypeOK, PermitsExact, LocksExact, SlotKnown, Inside
    <2> QED
      BY <2>1, <2>2, <2>3 DEF Next
  <1> QED
    BY <1>1, InitInv, PTL DEF Spec

\* Permits, locks and positions keep their types.
THEOREM TypeCorrect == Spec => []TypeOK
  BY GateInvariant, PTL DEF IInv

\* browser_gate.py's semaphore: however acquisitions fail, time out or die
\* with their process, no permit is lost and none is handed out twice.
THEOREM PermitsExactHolds == Spec => []PermitsExact
  BY GateInvariant, PTL DEF IInv

\* browser_gate.py's slot files: a lock is held by exactly the caller that
\* believes it holds it.
THEOREM LocksExactHolds == Spec => []LocksExact
  BY GateInvariant, PTL DEF IInv

\* The bound across processes, for any number of them: each caller past the
\* gate has a slot file to itself.
THEOREM HoldersBoundedHolds == Spec => []HoldersBounded
  <1>1. IInv => HoldersBounded
    <2> SUFFICES ASSUME IInv PROVE HoldersBounded
      OBVIOUS
    <2> DEFINE Holders == {c \in Caller : at[c] = "held"}
               f == [c \in Holders |-> slot[c]]
    <2>1. f \in Injection(Holders, Slot)
      <3>1. f \in [Holders -> Slot]
        BY DEF IInv, SlotKnown
      <3>2. \A c, d \in Holders : f[c] = f[d] => c = d
        BY DEF IInv, SlotKnown, LocksExact
      <3> QED
        BY <3>1, <3>2 DEF Injection, IsInjective
    <2>2. IsFiniteSet(Slot) /\ Cardinality(Slot) = MaxConcurrent
      BY FS_Interval, GateAssumption DEF Slot
    <2>3. Cardinality(Holders) <= Cardinality(Slot)
      BY <2>1, <2>2, FS_Injection
    <2> QED
      BY <2>2, <2>3 DEF HoldersBounded
  <1> QED
    BY <1>1, GateInvariant, PTL
=============================================================================

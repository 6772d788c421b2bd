-------------------------- MODULE LoginGuardProofs --------------------------
(***************************************************************************)
(* The login limit and the revocations for any number of handlers,         *)
(* identifiers, sessions and tokens: no more attempts than the limit reach *)
(* the password check in the life of a row, the count of a row is bounded, *)
(* and what was revoked stays dead.                                        *)
(***************************************************************************)
EXTENDS LoginGuard, FiniteSetTheorems, TLAPS

\* A login knows its identifier, a request that is past authentication the
\* account it acts for.
WhoKnown ==
    \A h \in Handler :
        /\ task[h].at \in {"read", "reserve", "verify"} => task[h].who \in Key
        /\ task[h].at \in {"reset", "session", "act", "tokens"}
               => task[h].who \in Owner
        /\ task[h].at = "act" => task[h].by \in used

\* The handlers whose write is going to count on the row of k as it stands.
Counting(k) ==
    {h \in Handler : /\ task[h].at = "reserve" /\ task[h].who = k
                     /\ ~Expired(row[k], task[h].lag)}

\* No attempt is admitted without being counted, and a handler that has
\* passed the read is one that may still count beyond the limit.
RowBounded(k) ==
    IF row[k] = None THEN admitted[k] = 0
    ELSE /\ admitted[k] <= row[k].count
         /\ admitted[k] <= Max
         /\ row[k].count + Cardinality(Counting(k)) <= MaxCount

RowsBounded == \A k \in Key : RowBounded(k)

\* A secret that was cut is spent and gone; only drawn secrets are alive.
SecretsSpent ==
    \A x \in Secret : /\ secret[x] # None => x \in used
                      /\ x \in cut => x \in used /\ secret[x] = None

\* Between the two statements of revoke_all: the sessions are gone, and the
\* tokens that are to go belong to the account or are gone.
DoomedSpent ==
    \A h \in Handler : task[h].at = "tokens" =>
        \A x \in task[h].doomed :
            /\ x \in used
            /\ secret[x] \in {None, task[h].who}
            /\ x \in Session => secret[x] = None

IInv == TypeOK /\ WhoKnown /\ RowsBounded /\ SecretsSpent /\ DoomedSpent

Pc == {"idle", "read", "reserve", "verify", "reset", "session", "act", "tokens"}

-----------------------------------------------------------------------------
(* Facts about the model's operators                                        *)

\* The limits are numbers, and every key is told apart from None.
LEMMA Limits ==
    /\ Max \in Nat \ {0} /\ Window \in Nat \ {0} /\ MaxLag \in Nat
    /\ Cardinality(Handler) \in Nat
    /\ MaxCount \in Nat /\ MaxCount = Max + Cardinality(Handler)
    /\ MaxAge \in Nat /\ MaxAge = Window + MaxLag
    /\ Owner \subseteq Key /\ None \notin Owner /\ None \notin Secret
  BY LimitAssumption, FS_CardinalityType DEF MaxCount, MaxAge, Secret

\* The fields of what a handler is in the middle of.
LEMMA TaskFields ==
    ASSUME NEW t \in Task
    PROVE  /\ t.at \in Pc /\ t.who \in Key \cup {None} /\ t.by \in Secret \cup {None}
           /\ t.lag \in 0 .. MaxLag /\ t.lag \in Nat /\ t.doomed \in SUBSET Secret
  BY Limits DEF Task, Pc

\* A request that is over.
LEMMA IdleTask == Idle \in Task /\ Idle.at = "idle"
  BY Limits DEF Idle, Task

\* A request that goes on to its next step.
LEMMA GotoTask ==
    ASSUME NEW t \in Task, NEW pc \in Pc
    PROVE  LET u == [t EXCEPT !.at = pc]
           IN  /\ u \in Task /\ u.at = pc /\ u.who = t.who
               /\ u.by = t.by /\ u.lag = t.lag /\ u.doomed = t.doomed
  BY DEF Task, Pc

\* The step of one handler writes its own task only.
LEMMA TaskWrite ==
    ASSUME TypeOK, NEW h \in Handler, NEW t, Become(h, t)
    PROVE  /\ task'[h] = t
           /\ \A g \in Handler : g # h => task'[g] = task[g]
           /\ t \in Task => task' \in [Handler -> Task]
  BY DEF TypeOK, Become

\* The handlers that are going to count on a row are finitely many.
LEMMA CountingFinite ==
    ASSUME NEW S \in SUBSET Handler
    PROVE  /\ IsFiniteSet(S) /\ Cardinality(S) \in Nat
           /\ Cardinality(S) <= Cardinality(Handler)
           /\ \A T \in SUBSET S : Cardinality(T) <= Cardinality(S)
  BY LimitAssumption, FS_Subset, FS_CardinalityType

-----------------------------------------------------------------------------
(* The parts of the invariant that a step does not concern                  *)

\* The rows are as before, and nobody has come to count on them.
LEMMA RowsKept ==
    ASSUME IInv, UNCHANGED <<row, admitted>>, NEW h \in Handler, NEW t,
           Become(h, t), t.at # "reserve"
    PROVE  RowsBounded'
  <1> SUFFICES ASSUME NEW k \in Key PROVE RowBounded(k)'
    BY DEF RowsBounded
  <1>1. RowBounded(k) /\ (row[k] # None => row[k] \in Row)
    BY DEF IInv, RowsBounded, TypeOK
  <1>2. Counting(k)' \in SUBSET Counting(k) /\ Counting(k) \in SUBSET Handler
    <2>1. \A g \in Handler : g # h => task'[g] = task[g]
      BY TaskWrite DEF IInv
    <2>2. task'[h].at # "reserve"
      BY TaskWrite DEF IInv
    <2> QED
      BY <2>1, <2>2 DEF Counting, Expired
  <1>3. /\ Cardinality(Counting(k)') <= Cardinality(Counting(k))
        /\ Cardinality(Counting(k)') \in Nat /\ Cardinality(Counting(k)) \in Nat
    BY <1>2, CountingFinite
  <1>4. row[k] # None => row[k].count \in Nat
    BY <1>1, Limits DEF Row
  <1> QED
    BY <1>1, <1>3, <1>4, Limits DEF RowBounded

\* Neither a secret nor a request of revoke_all is touched.
LEMMA SecretsKept ==
    ASSUME IInv, UNCHANGED <<secret, used, cut>>, NEW h \in Handler, NEW t,
           Become(h, t), t.at # "tokens"
    PROVE  SecretsSpent' /\ DoomedSpent'
  <1>1. \A g \in Handler : g # h => task'[g] = task[g]
    BY TaskWrite DEF IInv
  <1>2. task'[h].at # "tokens"
    BY TaskWrite DEF IInv
  <1> QED
    BY <1>1, <1>2 DEF IInv, SecretsSpent, DoomedSpent

\* A handler's new task is one that WhoKnown allows.
Known(t) ==
    /\ t \in Task
    /\ t.at \in {"read", "reserve", "verify"} => t.who \in Key
    /\ t.at \in {"reset", "session", "act", "tokens"} => t.who \in Owner
    /\ t.at = "act" => t.by \in used

\* A handler that takes up such a task leaves the others as they were.
LEMMA WhoWrite ==
    ASSUME IInv, NEW h \in Handler, NEW t, Become(h, t), Known(t),
           used \subseteq used'
    PROVE  WhoKnown' /\ task' \in [Handler -> Task]
  <1>1. \A g \in Handler : g # h => task'[g] = task[g]
    BY TaskWrite DEF IInv
  <1>2. task'[h] = t /\ task' \in [Handler -> Task]
    BY TaskWrite DEF IInv, Known
  <1> QED
    BY <1>1, <1>2 DEF IInv, WhoKnown, Known

\* A step that only moves a handler on.
LEMMA MoveOn ==
    ASSUME IInv, UNCHANGED store, NEW h \in Handler, NEW t, Become(h, t),
           Known(t), t.at \notin {"reserve", "tokens"}
    PROVE  IInv'
  <1> USE DEF store
  <1>1. TypeOK' /\ WhoKnown'
    BY WhoWrite DEF IInv, TypeOK
  <1>2. RowsBounded' /\ SecretsSpent' /\ DoomedSpent'
    BY RowsKept, SecretsKept
  <1> QED
    BY <1>1, <1>2 DEF IInv

-----------------------------------------------------------------------------
(* The steps of a login                                                     *)

\* The request is over, whatever it was.
LEMMA BackToIdle ==
    ASSUME IInv, NEW h \in Handler,
           \/ WrongPassword(h) \/ SessionsExhausted(h) \/ RequestFails(h)
    PROVE  IInv'
  <1>1. Become(h, Idle) /\ UNCHANGED store
    BY DEF WrongPassword, SessionsExhausted, RequestFails
  <1>2. Known(Idle)
    BY IdleTask DEF Known
  <1> QED
    BY <1>1, <1>2, IdleTask, MoveOn

\* A login, and a request with a session, begin.
LEMMA BeginStep ==
    ASSUME IInv, NEW h \in Handler, Begin(h)
    PROVE  IInv'
  <1>1. ASSUME NEW k \in Key, StartLogin(h, k) PROVE IInv'
    <2> DEFINE t == [Idle EXCEPT !.at = "read", !.who = k]
    <2>1. t \in Task /\ t.at = "read" /\ t.who = k
      BY IdleTask DEF Idle, Task
    <2>2. Known(t)
      BY <2>1 DEF Known
    <2>3. Become(h, t) /\ UNCHANGED store
      BY <1>1 DEF StartLogin
    <2> QED
      BY <2>1, <2>2, <2>3, MoveOn
  <1>2. ASSUME NEW x \in Session, VerifySession(h, x) PROVE IInv'
    <2> DEFINE t == [Idle EXCEPT !.at = "act", !.who = secret[x], !.by = x]
    <2>1. x \in Secret /\ secret[x] \in Owner /\ secret[x] \in Key
      BY <1>2, Limits DEF VerifySession, Resolves, IInv, TypeOK, Secret
    <2>2. x \in used
      BY <2>1, Limits DEF IInv, SecretsSpent
    <2>3. t \in Task /\ t.at = "act" /\ t.who = secret[x] /\ t.by = x
      BY <2>1, IdleTask DEF Idle, Task
    <2>4. Known(t)
      BY <2>1, <2>2, <2>3 DEF Known
    <2>5. Become(h, t) /\ UNCHANGED store
      BY <1>2 DEF VerifySession
    <2> QED
      BY <2>3, <2>4, <2>5, MoveOn
  <1> QED
    BY <1>1, <1>2 DEF Begin

\* A handler that passes the read below the limit may count once more; one
\* that passes because the row has expired for it will not count on that row.
LEMMA ReadStep ==
    ASSUME IInv, NEW h \in Handler, ReadLimit(h)
    PROVE  IInv'
  <1> DEFINE k == task[h].who
             t == [task[h] EXCEPT !.at = "reserve"]
  <1>1. task[h] \in Task /\ task[h].at = "read" /\ k \in Key
    BY DEF ReadLimit, At, IInv, TypeOK, WhoKnown
  <1>2. CASE RefusedByRead(k, task[h].lag)
    <2>1. Become(h, Idle) /\ UNCHANGED store
      BY <1>2 DEF ReadLimit
    <2>2. Known(Idle)
      BY IdleTask DEF Known
    <2> QED
      BY <2>1, <2>2, IdleTask, MoveOn
  <1>3. CASE ~RefusedByRead(k, task[h].lag)
    <2>1. Become(h, t) /\ UNCHANGED store
      BY <1>3 DEF ReadLimit, Goto
    <2>2. t \in Task /\ t.at = "reserve" /\ t.who = k /\ t.lag = task[h].lag
      BY <1>1, GotoTask DEF Pc
    <2>3. Known(t)
      BY <1>1, <2>2 DEF Known
    <2>4. TypeOK' /\ WhoKnown'
      BY <2>1, <2>3, WhoWrite DEF IInv, TypeOK, store
    <2>5. SecretsSpent' /\ DoomedSpent'
      BY <2>1, <2>2, SecretsKept DEF store
    <2>6. /\ \A g \in Handler : g # h => task'[g] = task[g]
          /\ task'[h] = t
      BY <2>1, TaskWrite DEF IInv
    <2>7. ASSUME NEW j \in Key PROVE RowBounded(j)'
      <3>1. RowBounded(j) /\ row' = row /\ admitted' = admitted
        BY <2>1 DEF IInv, RowsBounded, store
      <3>2. row[j] # None => row[j].count \in Nat
        BY Limits DEF IInv, TypeOK, Row
      <3>3. Counting(j) \in SUBSET Handler /\ Counting(j)' \in SUBSET Handler
        BY DEF Counting
      <3>4. /\ Cardinality(Counting(j)) \in Nat /\ Cardinality(Counting(j)') \in Nat
            /\ Cardinality(Counting(j)') <= Cardinality(Handler)
        BY <3>3, CountingFinite
      <3>5. CASE row[j] = None
        BY <3>1, <3>5 DEF RowBounded
      <3>6. CASE row[j] # None /\ (j # k \/ Expired(row[j], task[h].lag))
        <4>1. Counting(j)' = Counting(j)
          BY <1>1, <2>2, <2>6, <3>1, <3>6 DEF Counting, Expired
        <4> QED
          BY <4>1, <3>1 DEF RowBounded
      <3>7. CASE row[j] # None /\ j = k /\ ~Expired(row[j], task[h].lag)
        <4>1. ~(row[j].count >= Max)
          BY <1>3, <3>7 DEF RefusedByRead
        <4>2. row[j].count <= Max
          BY <4>1, <3>2, <3>7, Limits
        <4>3. row[j].count + Cardinality(Counting(j)') <= MaxCount
          BY <4>2, <3>2, <3>4, <3>7, Limits
        <4> QED
          BY <4>3, <3>1, <3>7 DEF RowBounded
      <3> QED
        BY <3>5, <3>6, <3>7
    <2>8. RowsBounded'
      BY <2>7 DEF RowsBounded
    <2> QED
      BY <2>4, <2>5, <2>8 DEF IInv
  <1> QED
    BY <1>2, <1>3

\* The table before the INSERT has rows of the table before, or fewer.
LEMMA EvictedRows ==
    ASSUME TypeOK, NEW lag \in Nat, NEW k \in Key,
           NEW rows \in Evicted(Purged(lag), k)
    PROVE  /\ rows \in [Key -> Row \cup {None}]
           /\ \A j \in Key : rows[j] # None =>
                  rows[j] = row[j] /\ ~Expired(row[j], lag)
  <1>1. Purged(lag) \in [Key -> Row \cup {None}]
    BY DEF Purged, TypeOK
  <1>2. \A j \in Key : Purged(lag)[j] # None =>
            Purged(lag)[j] = row[j] /\ ~Expired(row[j], lag)
    BY DEF Purged
  <1>3. CASE rows = Purged(lag)
    BY <1>1, <1>2, <1>3
  <1>4. ASSUME NEW v \in Key,
               rows = [j \in Key |-> IF j = v THEN None ELSE Purged(lag)[j]]
        PROVE  /\ rows \in [Key -> Row \cup {None}]
               /\ \A j \in Key : rows[j] # None => rows[j] = Purged(lag)[j]
    BY <1>1, <1>4
  <1>5. \/ rows = Purged(lag)
        \/ \E v \in Key :
             rows = [j \in Key |-> IF j = v THEN None ELSE Purged(lag)[j]]
    BY DEF Evicted, Oldest, Tracked
  <1> QED
    BY <1>2, <1>3, <1>4, <1>5

\* The write that counts: whoever it admits is counted in the same
\* transaction, and the handler has counted for good.
LEMMA ReserveStep ==
    ASSUME IInv, NEW h \in Handler, Reserve(h)
    PROVE  IInv'
  <1> DEFINE k == task[h].who
             lag == task[h].lag
  <1>1. /\ task[h] \in Task /\ task[h].at = "reserve" /\ k \in Key
        /\ lag \in 0 .. MaxLag /\ lag \in Nat
    BY TaskFields DEF Reserve, At, IInv, TypeOK, WhoKnown
  <1>2. PICK rows \in Evicted(Purged(lag), k) :
            ReserveOn(h, k, rows, Counted(rows, k, lag))
    BY DEF Reserve
  <1>3. /\ rows \in [Key -> Row \cup {None}]
        /\ \A j \in Key : rows[j] # None => rows[j] = row[j] /\ ~Expired(row[j], lag)
    BY <1>1, EvictedRows DEF IInv
  <1>4. h \in Handler /\ (rows[k] # None => h \in Counting(k))
    BY <1>1, <1>3 DEF Counting
  <1> DEFINE new == Counted(rows, k, lag)
  <1>5. \A j \in Key : j # k => new[j] = rows[j]
    BY <1>1, <1>3 DEF Counted
  <1>6. Counting(k) \in SUBSET Handler /\ Cardinality(Counting(k)) \in Nat
    BY CountingFinite DEF Counting
  <1>7. rows[k] # None =>
           /\ rows[k].count \in Nat /\ rows[k].count >= 1
           /\ rows[k].age \in 0 .. MaxAge
           /\ rows[k].count + 1 <= MaxCount
    <2> SUFFICES ASSUME rows[k] # None
                 PROVE  /\ rows[k].count \in Nat /\ rows[k].count >= 1
                        /\ rows[k].age \in 0 .. MaxAge
                        /\ rows[k].count + 1 <= MaxCount
      OBVIOUS
    <2>1. rows[k] \in Row /\ rows[k] = row[k]
      BY <1>1, <1>3
    <2>2. rows[k].count \in Nat /\ rows[k].count >= 1 /\ rows[k].age \in 0 .. MaxAge
      BY <2>1, Limits DEF Row
    <2>3. Cardinality(Counting(k)) # 0
      BY <1>4, <1>6, CountingFinite, FS_EmptySet
    <2>4. rows[k].count + Cardinality(Counting(k)) <= MaxCount
      BY <1>1, <2>1 DEF IInv, RowsBounded, RowBounded
    <2> QED
      BY <1>6, <2>2, <2>3, <2>4, Limits
  <1>8. /\ new[k] \in Row
        /\ new[k].count = IF rows[k] = None THEN 1 ELSE rows[k].count + 1
        /\ new[k].age = IF rows[k] = None THEN lag ELSE rows[k].age
    <2>1. CASE rows[k] = None
      <3>1. new[k] = [count |-> 1, age |-> lag]
        BY <1>1, <1>3, <2>1 DEF Counted
      <3> QED
        BY <1>1, <2>1, <3>1, Limits DEF Row
    <2>2. CASE rows[k] # None
      <3>1. new[k] = [rows[k] EXCEPT !.count = @ + 1] /\ rows[k] \in Row
        BY <1>1, <1>3, <2>2 DEF Counted
      <3> QED
        BY <1>7, <2>2, <3>1, Limits DEF Row
    <2> QED
      BY <2>1, <2>2
  <1>9. new[k] # None /\ new \in [Key -> Row \cup {None}]
    BY <1>3, <1>8, RowAssumption DEF Counted
  <1>10. /\ row' = new
         /\ \A j \in Key : admitted'[j] =
               (IF rows[j] = None THEN 0 ELSE admitted[j])
                   + (IF j = k /\ new[k].count <= Max THEN 1 ELSE 0)
    BY <1>2 DEF ReserveOn, Admits
  <1>11. PICK t \in {[task[h] EXCEPT !.at = "verify", !.lag = 0], Idle} : Become(h, t)
    BY <1>2 DEF ReserveOn
  <1>12. Known(t) /\ t.at \notin {"reserve", "tokens"}
    <2> DEFINE u == [task[h] EXCEPT !.at = "verify", !.lag = 0]
    <2>1. u \in Task /\ u.at = "verify" /\ u.who = k
      <3>1. 0 \in 0 .. MaxLag
        BY Limits
      <3> QED
        BY <1>1, <3>1 DEF Task
    <2> QED
      BY <1>1, <2>1, IdleTask DEF Known
  <1>13. UNCHANGED <<active, secret, used, cut>>
    BY DEF Reserve
  <1>14. ASSUME NEW j \in Key
         PROVE  RowBounded(j)' /\ admitted'[j] \in 0 .. MaxCount
    <2>1. RowBounded(j) /\ admitted[j] \in Nat
      BY Limits DEF IInv, RowsBounded, TypeOK
    <2>2. /\ \A g \in Handler : g # h => task'[g] = task[g]
          /\ task'[h] = t
      BY <1>11, TaskWrite DEF IInv
    <2>3. h \notin Counting(j)' /\ Counting(j)' \in SUBSET (Handler \ {h})
      BY <1>12, <2>2 DEF Counting
    <2>4. /\ Cardinality(Handler \ {h}) = Cardinality(Handler) - 1
          /\ IsFiniteSet(Handler \ {h})
      BY FS_RemoveElement, LimitAssumption
    <2>5. /\ Cardinality(Counting(j)') \in Nat
          /\ Cardinality(Counting(j)') <= Cardinality(Handler) - 1
      BY <2>3, <2>4, FS_Subset, FS_CardinalityType
    <2>6. CASE j = k /\ rows[k] = None
      BY <1>1, <1>8, <1>9, <1>10, <2>5, <2>6, Limits DEF RowBounded
    <2>7. CASE j = k /\ rows[k] # None
      <3>1. rows[k] = row[k] /\ new[k].count = row[k].count + 1 /\ row[k].count \in Nat
        BY <1>3, <1>7, <1>8, <2>7
      <3>2. Counting(j)' \in SUBSET (Counting(k) \ {h})
        <4>1. \A g \in Handler \ {h} : g \in Counting(j)' =>
                  task[g].at = "reserve" /\ task[g].who = k /\ ~Expired(new[k], task[g].lag)
          BY <1>10, <2>2, <2>7 DEF Counting, Expired
        <4>2. new[k].age = row[k].age
          BY <1>8, <2>7, <3>1
        <4> QED
          BY <4>1, <4>2, <2>3, <2>7 DEF Counting, Expired
      <3>3. Cardinality(Counting(k) \ {h}) = Cardinality(Counting(k)) - 1
        BY <1>4, <1>6, <2>7, CountingFinite, FS_RemoveElement
      <3>4. Cardinality(Counting(j)') <= Cardinality(Counting(k)) - 1
        BY <1>6, <3>2, <3>3, CountingFinite, FS_RemoveElement, FS_Subset
      <3>5. admitted[k] <= row[k].count /\ admitted[k] <= Max
            /\ row[k].count + Cardinality(Counting(k)) <= MaxCount
        BY <2>1, <2>7, <3>1 DEF RowBounded
      <3>6. admitted'[k] = admitted[k] + (IF new[k].count <= Max THEN 1 ELSE 0)
        BY <1>1, <1>10, <2>7
      <3>7. admitted'[k] <= new[k].count /\ admitted'[k] <= Max /\ admitted'[k] \in Nat
        BY <2>1, <2>7, <3>1, <3>5, <3>6, Limits
      <3>8. new[k].count + Cardinality(Counting(j)') <= MaxCount
        BY <1>6, <2>5, <2>7, <3>1, <3>4, <3>5, Limits
      <3> QED
        BY <1>9, <1>10, <2>7, <3>7, <3>8, Limits DEF RowBounded
    <2>8. CASE j # k
      <3>1. row'[j] = rows[j] /\ admitted'[j] = IF rows[j] = None THEN 0 ELSE admitted[j]
        BY <1>5, <1>10, <2>1, <2>8
      <3>2. CASE rows[j] = None
        BY <3>1, <3>2, Limits DEF RowBounded
      <3>3. CASE rows[j] # None
        <4>1. row'[j] = row[j] /\ admitted'[j] = admitted[j] /\ row[j] # None
          BY <1>3, <3>1, <3>3
        <4>2. Counting(j)' \in SUBSET Counting(j) /\ Counting(j) \in SUBSET Handler
          BY <1>12, <2>2, <4>1 DEF Counting, Expired
        <4>3. Cardinality(Counting(j)') <= Cardinality(Counting(j))
              /\ Cardinality(Counting(j)) \in Nat
          BY <4>2, CountingFinite
        <4>4. row[j].count \in Nat
          BY <4>1, Limits DEF IInv, TypeOK, Row
        <4> QED
          BY <2>1, <2>5, <4>1, <4>3, <4>4, Limits DEF RowBounded
      <3> QED
        BY <3>2, <3>3
    <2> QED
      BY <2>6, <2>7, <2>8
  <1>15. DOMAIN admitted' = Key /\ admitted' = [j \in Key |-> admitted'[j]]
    BY <1>2 DEF ReserveOn
  <1>16. TypeOK' /\ WhoKnown'
    <2>1. admitted' \in [Key -> 0 .. MaxCount]
      BY <1>14, <1>15
    <2>2. WhoKnown' /\ task' \in [Handler -> Task]
      BY <1>11, <1>12, <1>13, WhoWrite
    <2> QED
      BY <1>9, <1>10, <1>13, <2>1, <2>2 DEF IInv, TypeOK
  <1>17. SecretsSpent' /\ DoomedSpent'
    BY <1>11, <1>12, <1>13, SecretsKept
  <1> QED
    BY <1>14, <1>16, <1>17 DEF IInv, RowsBounded

\* The password was right.
LEMMA RightPasswordStep ==
    ASSUME IInv, NEW h \in Handler, RightPassword(h)
    PROVE  IInv'
  <1> DEFINE t == [task[h] EXCEPT !.at = "reset"]
  <1>1. task[h] \in Task /\ task[h].who \in Owner
    BY DEF RightPassword, IInv, TypeOK
  <1>2. t \in Task /\ t.at = "reset" /\ t.who = task[h].who
    BY <1>1, GotoTask DEF Pc
  <1>3. Become(h, t) /\ UNCHANGED store
    BY DEF RightPassword, Goto
  <1> QED
    BY <1>1, <1>2, <1>3, MoveOn DEF Known

\* A successful login clears its row and with it what the row has admitted.
LEMMA ResetStep ==
    ASSUME IInv, NEW h \in Handler, ResetLimit(h)
    PROVE  IInv'
  <1> DEFINE t == [task[h] EXCEPT !.at = "session"]
  <1>1. task[h] \in Task /\ task[h].who \in Owner /\ task[h].who \in Key
    BY Limits DEF ResetLimit, At, IInv, TypeOK, WhoKnown
  <1>2. t \in Task /\ t.at = "session" /\ t.who = task[h].who
    BY <1>1, GotoTask DEF Pc
  <1>3. Become(h, t) /\ Known(t) /\ UNCHANGED <<active, secret, used, cut>>
    BY <1>1, <1>2 DEF ResetLimit, Goto, Known
  <1>4. TypeOK' /\ WhoKnown'
    <2>1. 0 \in 0 .. MaxCount
      BY Limits
    <2>2. row' \in [Key -> Row \cup {None}] /\ admitted' \in [Key -> 0 .. MaxCount]
      BY <1>1, <2>1 DEF ResetLimit, IInv, TypeOK
    <2> QED
      BY <1>3, <2>2, WhoWrite DEF IInv, TypeOK
  <1>5. SecretsSpent' /\ DoomedSpent'
    BY <1>2, <1>3, SecretsKept
  <1>6. ASSUME NEW j \in Key PROVE RowBounded(j)'
    <2>1. CASE j = task[h].who
      BY <1>1, <2>1 DEF ResetLimit, IInv, TypeOK, RowBounded
    <2>2. CASE j # task[h].who
      <3>1. row'[j] = row[j] /\ admitted'[j] = admitted[j]
        BY <2>2 DEF ResetLimit, IInv, TypeOK
      <3>2. Counting(j)' \in SUBSET Counting(j) /\ Counting(j) \in SUBSET Handler
        <4>1. /\ \A g \in Handler : g # h => task'[g] = task[g]
              /\ task'[h] = t
          BY <1>3, TaskWrite DEF IInv
        <4> QED
          BY <1>2, <3>1, <4>1 DEF Counting, Expired
      <3>3. /\ Cardinality(Counting(j)') <= Cardinality(Counting(j))
            /\ Cardinality(Counting(j)) \in Nat /\ Cardinality(Counting(j)') \in Nat
        BY <3>2, CountingFinite
      <3>4. RowBounded(j) /\ (row[j] # None => row[j].count \in Nat)
        BY Limits DEF IInv, RowsBounded, TypeOK, Row
      <3> QED
        BY <3>1, <3>3, <3>4, Limits DEF RowBounded
    <2> QED
      BY <2>1, <2>2
  <1> QED
    BY <1>4, <1>5, <1>6 DEF IInv, RowsBounded

-----------------------------------------------------------------------------
(* Sessions and tokens                                                      *)

\* A secret that is drawn was never used, so it is neither cut nor doomed.
LEMMA DrawStep ==
    ASSUME IInv, NEW h \in Handler, NEW x \in Secret,
           task[h].who \in Owner, Draw(x, task[h].who), Become(h, Idle),
           UNCHANGED <<row, admitted, active, cut>>
    PROVE  IInv'
  <1> USE DEF Draw
  <1>1. Known(Idle)
    BY IdleTask DEF Known
  <1>2. TypeOK' /\ WhoKnown'
    BY <1>1, WhoWrite DEF IInv, TypeOK
  <1>3. RowsBounded'
    BY IdleTask, RowsKept
  <1>4. secret \in [Secret -> Owner \cup {None}]
    BY DEF IInv, TypeOK
  <1>5. SecretsSpent'
    BY <1>4 DEF IInv, SecretsSpent
  <1>6. DoomedSpent'
    <2>1. /\ \A g \in Handler : g # h => task'[g] = task[g]
          /\ task'[h].at # "tokens"
      BY TaskWrite, IdleTask DEF IInv
    <2>2. \A g \in Handler : task[g].doomed \in SUBSET Secret
      BY TaskFields DEF IInv, TypeOK
    <2> QED
      BY <1>4, <2>1, <2>2 DEF IInv, DoomedSpent
  <1> QED
    BY <1>2, <1>3, <1>5, <1>6 DEF IInv

\* A login and a request for a token draw a secret.
LEMMA CreateStep ==
    ASSUME IInv, NEW h \in Handler,
           \/ \E x \in Session : CreateSession(h, x)
           \/ \E x \in Token : CreateToken(h, x)
    PROVE  IInv'
  <1>1. task[h].who \in Owner
    BY DEF CreateSession, CreateToken, At, IInv, WhoKnown
  <1>2. PICK x \in Secret : Draw(x, task[h].who)
    BY DEF CreateSession, CreateToken, Secret
  <1>3. Become(h, Idle) /\ UNCHANGED <<row, admitted, active, cut>>
    BY DEF CreateSession, CreateToken
  <1> QED
    BY <1>1, <1>2, <1>3, DrawStep

\* Secrets that die leave the others as they are.
LEMMA DeadSecrets ==
    ASSUME TypeOK, NEW X, Dead(X)
    PROVE  /\ secret' \in [Secret -> Owner \cup {None}]
           /\ \A x \in Secret : secret'[x] = IF x \in X THEN None ELSE secret[x]
  BY DEF TypeOK, Dead

\* A request that kills secrets of a set and reports them, or part of them,
\* together with others that were doomed and are dead already.
LEMMA CutStep ==
    ASSUME IInv, NEW h \in Handler, NEW X, NEW Y \in SUBSET used, Dead(X),
           \A y \in Y : y \in Secret /\ (y \in X \/ secret[y] = None),
           cut' = cut \cup Y, Become(h, Idle),
           UNCHANGED <<row, admitted, active, used>>
    PROVE  IInv'
  <1>1. Known(Idle)
    BY IdleTask DEF Known
  <1>2. /\ secret' \in [Secret -> Owner \cup {None}]
        /\ \A x \in Secret : secret'[x] = IF x \in X THEN None ELSE secret[x]
    BY DeadSecrets DEF IInv
  <1>3. TypeOK' /\ WhoKnown'
    BY <1>1, <1>2, WhoWrite DEF IInv, TypeOK
  <1>4. RowsBounded'
    BY IdleTask, RowsKept
  <1>5. SecretsSpent'
    BY <1>2 DEF IInv, SecretsSpent
  <1>6. DoomedSpent'
    <2>1. /\ \A g \in Handler : g # h => task'[g] = task[g]
          /\ task'[h].at # "tokens"
      BY TaskWrite, IdleTask DEF IInv
    <2>2. \A g \in Handler : task[g].doomed \in SUBSET Secret
      BY TaskFields DEF IInv, TypeOK
    <2> QED
      BY <1>2, <2>1, <2>2 DEF IInv, DoomedSpent
  <1> QED
    BY <1>3, <1>4, <1>5, <1>6 DEF IInv

\* Logout and the revocation of one token.
LEMMA RevokeOneStep ==
    ASSUME IInv, NEW h \in Handler,
           Logout(h) \/ \E x \in Token : RevokeToken(h, x)
    PROVE  IInv'
  <1>1. /\ task[h].by \in used /\ task[h].who \in Owner
        /\ used \subseteq Secret /\ Become(h, Idle)
        /\ UNCHANGED <<row, admitted, active, used>>
    BY DEF Logout, RevokeToken, At, IInv, WhoKnown, TypeOK
  <1>2. CASE Logout(h)
    <2>1. Dead({task[h].by}) /\ cut' = cut \cup {task[h].by}
      BY <1>2 DEF Logout
    <2> QED
      BY <1>1, <2>1, CutStep
  <1>3. ASSUME NEW x \in Token, RevokeToken(h, x) PROVE IInv'
    <2> DEFINE X == Of(task[h].who, {x})
    <2>1. Dead(X) /\ cut' = cut \cup X
      BY <1>3 DEF RevokeToken
    <2>2. X \in SUBSET used /\ X \in SUBSET Secret
      BY <1>1, Limits DEF Of, IInv, SecretsSpent, Secret
    <2> QED
      BY <1>1, <2>1, <2>2, CutStep
  <1> QED
    BY <1>2, <1>3

\* The first statement of revoke_all.
LEMMA RevokeSessionsStep ==
    ASSUME IInv, NEW h \in Handler, NEW o \in Owner, RevokeSessions(h, o)
    PROVE  IInv'
  <1> DEFINE D == Of(o, Secret)
             t == [Idle EXCEPT !.at = "tokens", !.who = o, !.doomed = D]
  <1>1. Dead(Of(o, Session)) /\ Become(h, t) /\ UNCHANGED <<row, admitted, active, used, cut>>
    BY DEF RevokeSessions
  <1>2. D \in SUBSET Secret /\ D \in SUBSET used
    BY Limits DEF Of, IInv, SecretsSpent
  <1>3. o \in Key /\ o \in Owner
    BY Limits
  <1>4. t \in Task /\ t.at = "tokens" /\ t.who = o /\ t.doomed = D
    BY <1>2, <1>3, IdleTask DEF Idle, Task
  <1>5. Known(t)
    BY <1>3, <1>4 DEF Known
  <1>6. /\ secret' \in [Secret -> Owner \cup {None}]
        /\ \A x \in Secret : secret'[x] = IF x \in Of(o, Session) THEN None ELSE secret[x]
    BY <1>1, DeadSecrets DEF IInv
  <1>7. TypeOK' /\ WhoKnown'
    BY <1>1, <1>5, <1>6, WhoWrite DEF IInv, TypeOK
  <1>8. RowsBounded'
    BY <1>1, <1>4, RowsKept
  <1>9. SecretsSpent'
    BY <1>1, <1>6 DEF IInv, SecretsSpent
  <1>10. DoomedSpent'
    <2>1. /\ \A g \in Handler : g # h => task'[g] = task[g]
          /\ task'[h] = t
      BY <1>1, TaskWrite DEF IInv
    <2>2. \A g \in Handler : task[g].doomed \in SUBSET Secret
      BY TaskFields DEF IInv, TypeOK
    <2>3. \A x \in D : secret'[x] \in {None, o} /\ (x \in Session => secret'[x] = None)
      BY <1>2, <1>6 DEF Of
    <2>4. ASSUME NEW g \in Handler, g # h, task[g].at = "tokens",
                 NEW x \in task[g].doomed
          PROVE  /\ x \in used' /\ secret'[x] \in {None, task[g].who}
                 /\ x \in Session => secret'[x] = None
      BY <1>1, <1>6, <2>2, <2>4 DEF IInv, DoomedSpent
    <2>5. \A x \in D : x \in used'
      BY <1>1, <1>2
    <2>6. task'[h].doomed = D /\ task'[h].who = o
      BY <1>4, <2>1
    <2>7. ASSUME NEW g \in Handler, task'[g].at = "tokens", NEW x \in task'[g].doomed
          PROVE  /\ x \in used' /\ secret'[x] \in {None, task'[g].who}
                 /\ x \in Session => secret'[x] = None
      <3>1. CASE g = h
        BY <2>3, <2>5, <2>6, <2>7, <3>1
      <3>2. CASE g # h
        BY <2>1, <2>4, <2>7, <3>2
      <3> QED
        BY <3>1, <3>2
    <2> QED
      BY <2>7 DEF DoomedSpent
  <1> QED
    BY <1>7, <1>8, <1>9, <1>10 DEF IInv

\* The second statement of revoke_all, after which all of it is reported.
LEMMA RevokeTokensStep ==
    ASSUME IInv, NEW h \in Handler, RevokeTokens(h)
    PROVE  IInv'
  <1> DEFINE X == Of(task[h].who, Token)
             Y == task[h].doomed
  <1>1. /\ task[h].at = "tokens" /\ Dead(X) /\ cut' = cut \cup Y
        /\ Become(h, Idle) /\ UNCHANGED <<row, admitted, active, used>>
    BY DEF RevokeTokens, At, TokensToRevoke
  <1>2. Y \in SUBSET Secret
    BY TaskFields DEF IInv, TypeOK
  <1>3. \A y \in Y : y \in used /\ (y \in X \/ secret[y] = None)
    BY <1>1, <1>2 DEF IInv, DoomedSpent, Of, Secret
  <1>4. Y \in SUBSET used
    BY <1>3
  <1> QED
    BY <1>1, <1>2, <1>3, <1>4, CutStep

-----------------------------------------------------------------------------
(* The environment                                                          *)

\* A secret expires, or an account is switched.
LEMMA EnvironmentStep ==
    ASSUME IInv, \/ \E x \in Secret : Expire(x)
                 \/ \E o \in Owner : SwitchOwner(o)
    PROVE  IInv'
  <1>1. UNCHANGED <<row, admitted, used, cut, task>>
    BY DEF Expire, SwitchOwner
  <1>2. /\ secret' \in [Secret -> Owner \cup {None}]
        /\ \A x \in Secret : secret'[x] \in {None, secret[x]}
    BY DeadSecrets DEF Expire, SwitchOwner, IInv, TypeOK
  <1>3. active' \subseteq Owner
    BY DEF Expire, SwitchOwner, IInv, TypeOK
  <1>4. TypeOK' /\ WhoKnown'
    BY <1>1, <1>2, <1>3 DEF IInv, TypeOK, WhoKnown
  <1>5. RowsBounded'
    BY <1>1 DEF IInv, RowsBounded, RowBounded, Counting, Expired
  <1>6. SecretsSpent'
    BY <1>1, <1>2 DEF IInv, SecretsSpent
  <1>7. \A g \in Handler : task[g].doomed \in SUBSET Secret
    BY TaskFields DEF IInv, TypeOK
  <1>8. DoomedSpent'
    BY <1>1, <1>2, <1>7 DEF IInv, DoomedSpent
  <1> QED
    BY <1>4, <1>5, <1>6, <1>8 DEF IInv

\* Time passes for a row and for the instants that were read alike: a row
\* expires for a handler by a tick only if it had expired for it before.
LEMMA TickStep ==
    ASSUME IInv, Tick
    PROVE  IInv'
  <1>1. \A k \in Key : row'[k] =
            IF row[k] # None /\ row[k].age < MaxAge
            THEN [row[k] EXCEPT !.age = @ + 1] ELSE row[k]
    BY DEF Tick
  <1>2. \A g \in Handler : task'[g] =
            IF HoldsNow(g) THEN [task[g] EXCEPT !.lag = @ + 1] ELSE task[g]
    BY DEF Tick
  <1>3. UNCHANGED <<admitted, active, secret, used, cut>>
    BY DEF Tick
  <1>4. ASSUME NEW k \in Key
        PROVE  IF row[k] = None THEN row'[k] = None
               ELSE /\ row'[k] \in Row /\ row'[k] # None
                    /\ row'[k].count = row[k].count
                    /\ row[k].age \in 0 .. MaxAge
                    /\ row'[k].age = IF row[k].age < MaxAge THEN row[k].age + 1
                                     ELSE row[k].age
    <2>1. CASE row[k] = None
      BY <1>1, <2>1
    <2>2. CASE row[k] # None
      <3>1. row[k] \in Row /\ row[k].age \in 0 .. MaxAge
        BY <2>2 DEF IInv, TypeOK, Row
      <3>2. row[k].age < MaxAge => row[k].age + 1 \in 0 .. MaxAge
        BY <3>1, Limits
      <3>3. CASE row[k].age < MaxAge
        <4>1. row'[k] = [row[k] EXCEPT !.age = row[k].age + 1]
          BY <1>1, <2>2, <3>3
        <4>2. row'[k] \in Row /\ row'[k].count = row[k].count
              /\ row'[k].age = row[k].age + 1
          BY <3>1, <3>2, <3>3, <4>1 DEF Row
        <4> QED
          BY <2>2, <3>1, <3>3, <4>2, RowAssumption
      <3>4. CASE ~(row[k].age < MaxAge)
        BY <1>1, <2>2, <3>1, <3>4
      <3> QED
        BY <3>3, <3>4
    <2> QED
      BY <2>1, <2>2
  <1>5. ASSUME NEW g \in Handler
        PROVE  /\ task'[g] \in Task /\ task'[g].at = task[g].at
               /\ task'[g].who = task[g].who /\ task'[g].by = task[g].by
               /\ task'[g].doomed = task[g].doomed
               /\ task[g].lag \in Nat
               /\ HoldsNow(g) => task'[g].lag = task[g].lag + 1 /\ task[g].lag < MaxLag
    <2>1. task[g] \in Task /\ task[g].lag \in 0 .. MaxLag /\ task[g].lag \in Nat
      BY TaskFields DEF IInv, TypeOK
    <2>2. CASE HoldsNow(g)
      <3>1. task[g].lag < MaxLag
        BY <2>2 DEF Tick
      <3>2. task[g].lag + 1 \in 0 .. MaxLag
        BY <2>1, <3>1, Limits
      <3> QED
        BY <1>2, <2>1, <2>2, <3>1, <3>2 DEF Task
    <2>3. CASE ~HoldsNow(g)
      BY <1>2, <2>1, <2>3
    <2> QED
      BY <2>2, <2>3
  <1>6. TypeOK' /\ WhoKnown'
    <2>1. row' \in [Key -> Row \cup {None}]
      <3>1. \A k \in Key : row'[k] \in Row \cup {None}
        BY <1>4
      <3> QED
        BY <3>1 DEF Tick
    <2>2. task' \in [Handler -> Task]
      <3>1. \A g \in Handler : task'[g] \in Task
        BY <1>5
      <3> QED
        BY <3>1 DEF Tick
    <2>3. TypeOK'
      BY <1>3, <2>1, <2>2 DEF IInv, TypeOK
    <2>4. WhoKnown'
      BY <1>3, <1>5 DEF IInv, WhoKnown
    <2> QED
      BY <2>3, <2>4
  <1>7. ASSUME NEW k \in Key PROVE RowBounded(k)'
    <2>1. RowBounded(k)
      BY DEF IInv, RowsBounded
    <2>2. CASE row[k] = None
      BY <1>3, <1>4, <2>1, <2>2 DEF RowBounded
    <2>3. CASE row[k] # None
      <3>1. Counting(k)' = Counting(k)
        <4>1. ASSUME NEW g \in Handler, task[g].at = "reserve"
              PROVE  Expired(row'[k], task'[g].lag) <=> Expired(row[k], task[g].lag)
          <5>1. HoldsNow(g)
            BY <4>1 DEF HoldsNow
          <5>2. task'[g].lag = task[g].lag + 1 /\ task[g].lag < MaxLag /\ task[g].lag \in Nat
            BY <1>5, <5>1
          <5>3. /\ row[k].age \in 0 .. MaxAge
                /\ row'[k].age = IF row[k].age < MaxAge THEN row[k].age + 1
                                 ELSE row[k].age
            BY <1>4, <2>3
          <5> QED
            BY <5>2, <5>3, Limits DEF Expired
        <4>2. Counting(k)' =
                {g \in Handler : task'[g].at = "reserve" /\ task'[g].who = k
                                 /\ ~Expired(row'[k], task'[g].lag)}
          BY DEF Counting, Expired
        <4> QED
          BY <1>5, <4>1, <4>2 DEF Counting
      <3>2. row'[k] # None /\ row'[k].count = row[k].count
        BY <1>4, <2>3
      <3> QED
        BY <1>3, <2>1, <2>3, <3>1, <3>2 DEF RowBounded
    <2> QED
      BY <2>2, <2>3
  <1>8. SecretsSpent'
    BY <1>3 DEF IInv, SecretsSpent
  <1>9. DoomedSpent'
    BY <1>3, <1>5 DEF IInv, DoomedSpent
  <1> QED
    BY <1>6, <1>7, <1>8, <1>9 DEF IInv, RowsBounded

-----------------------------------------------------------------------------
(* Theorems                                                                 *)

\* Nothing has happened yet.
LEMMA InitInv == Init => IInv
  <1> SUFFICES ASSUME Init PROVE IInv
    OBVIOUS
  <1>1. TypeOK
    BY IdleTask, Limits DEF Init, TypeOK
  <1>2. WhoKnown /\ DoomedSpent
    BY IdleTask DEF Init, WhoKnown, DoomedSpent
  <1>3. RowsBounded /\ SecretsSpent
    BY DEF Init, RowsBounded, RowBounded, SecretsSpent
  <1> QED
    BY <1>1, <1>2, <1>3 DEF IInv

\* The inductive invariant of the limit and of the secrets.
THEOREM GuardInvariant == Spec => []IInv
  <1>1. IInv /\ [Next]_vars => IInv'
    <2> SUFFICES ASSUME IInv, [Next]_vars PROVE IInv'
      OBVIOUS
    <2>1. ASSUME NEW h \in Handler, LoginStep(h) PROVE IInv'
      BY <2>1, ReadStep, ReserveStep, BackToIdle, RightPasswordStep, ResetStep,
         CreateStep DEF LoginStep
    <2>2. ASSUME NEW h \in Handler, SessionStep(h) PROVE IInv'
      BY <2>2, CreateStep, RevokeOneStep, RevokeSessionsStep, RevokeTokensStep
      DEF SessionStep
    <2>3. ASSUME NEW h \in Handler, RequestFails(h) PROVE IInv'
      BY <2>3, BackToIdle
    <2>4. ASSUME UNCHANGED vars PROVE IInv'
      BY <2>4 DEF vars, store, IInv, TypeOK, WhoKnown, RowsBounded, RowBounded,
                  Counting, Expired, SecretsSpent, DoomedSpent
    <2> QED
      BY <2>1, <2>2, <2>3, <2>4, BeginStep, EnvironmentStep, TickStep
      DEF Next, Untroubled, Step
  <1> QED
    BY <1>1, InitInv, PTL DEF Spec

\* The tables keep their types; in particular a row of login_attempts counts
\* at most one attempt of each handler beyond the limit.
THEOREM TypeCorrect == Spec => []TypeOK
  BY GuardInvariant, PTL DEF IInv

\* The rate limit of auth_store.py cannot be raced past.
THEOREM AdmittedBoundedHolds == Spec => []AdmittedBounded
  <1>1. IInv => AdmittedBounded
    BY Limits DEF IInv, RowsBounded, RowBounded, AdmittedBounded
  <1> QED
    BY <1>1, GuardInvariant, PTL

\* A session or token that was revoked never authenticates again, also when
\* revoke_all is interrupted between its two statements or races with logins.
THEOREM RevokedStaysDeadHolds == Spec => []RevokedStaysDead
  <1>1. IInv => RevokedStaysDead
    BY Limits DEF IInv, TypeOK, SecretsSpent, RevokedStaysDead, Resolves
  <1> QED
    BY <1>1, GuardInvariant, PTL
=============================================================================

----------------------------- MODULE LoginGuard -----------------------------
(***************************************************************************)
(* Logins, sessions and tokens: AuthService (core/app/auth.py) over        *)
(* SqliteAuthStore (registry/auth_store.py), as the WebUI calls them.      *)
(*                                                                         *)
(* A login reads the clock once, asks the rate limit with that instant     *)
(* (first a read, then a write transaction), verifies the password, and on *)
(* success clears the limit and creates a session. Each of these is a      *)
(* transaction of its own and other handlers run in between. Every other   *)
(* request first resolves its session, then does what it came for.         *)
(*                                                                         *)
(* Time is kept as ages: of the window of an identifier (now minus         *)
(* window_start) and of the instant a login read (its lag). Both stop      *)
(* growing where nothing can tell larger values apart. Session and token   *)
(* lifetimes are days, not minutes: their end is a step that may come at   *)
(* any time. Passwords and hashes are left out: a login is right or not.   *)
(***************************************************************************)
EXTENDS Naturals, FiniteSets

CONSTANTS
    Handler,        \* threads of the WebUI
    Key,            \* identifiers as typed, stripped and lowercased
    Owner,          \* the identifiers among them that name an account
    Admin,          \* the owners with role 'admin'
    Session, Token, \* the secrets that may be drawn; no value comes up twice
    Max,            \* login_rate_limit_max_attempts
    Window,         \* login_rate_limit_window_seconds, in ticks
    RowCap,         \* login_rate_limit_row_cap
    MaxLag,         \* bound: ticks between reading the clock and using it
    None

ASSUME LimitAssumption ==
    /\ IsFiniteSet(Handler)
    /\ Max \in Nat \ {0} /\ Window \in Nat \ {0} /\ RowCap \in Nat \ {0}
    /\ MaxLag \in Nat
    /\ Admin \subseteq Owner /\ Owner \subseteq Key
    /\ Session \cap Token = {}
    /\ None \notin Key \cup Session \cup Token

Secret == Session \cup Token
MaxCount == Max + Cardinality(Handler)
MaxAge == Window + MaxLag

VARIABLES
    row,        \* login_attempts: failure_count and the age of window_start
    admitted,   \* history: attempts let through since the row was inserted
    active,     \* the owners whose state is 'active'
    secret,     \* sessions and tokens: the owner of each, or None
    used,       \* the secrets that were drawn
    cut,        \* history: the secrets somebody was told are revoked
    task        \* what each handler is in the middle of

store == <<row, admitted, active, secret, used, cut>>
vars == <<store, task>>

Row == [count : 1 .. MaxCount, age : 0 .. MaxAge]

ASSUME RowAssumption == None \notin Row

Task ==
    [at : {"idle", "read", "reserve", "verify", "reset", "session",
           "act", "tokens"},
     who : Key \cup {None}, by : Secret \cup {None}, lag : 0 .. MaxLag,
     doomed : SUBSET Secret]

\* A row counts at most one attempt of each handler beyond the limit: a
\* flooded identifier is answered from the read alone.
TypeOK ==
    /\ row \in [Key -> Row \cup {None}]
    /\ admitted \in [Key -> 0 .. MaxCount]
    /\ active \subseteq Owner
    /\ secret \in [Secret -> Owner \cup {None}]
    /\ used \subseteq Secret
    /\ cut \subseteq Secret
    /\ task \in [Handler -> Task]

Idle == [at |-> "idle", who |-> None, by |-> None, lag |-> 0, doomed |-> {}]

Init ==
    /\ row = [k \in Key |-> None]
    /\ admitted = [k \in Key |-> 0]
    /\ active = Owner
    /\ secret = [x \in Secret |-> None]
    /\ used = {}
    /\ cut = {}
    /\ task = [h \in Handler |-> Idle]

At(h, pc) == task[h].at = pc
Become(h, t) == task' = [task EXCEPT ![h] = t]
Goto(h, pc) == Become(h, [task[h] EXCEPT !.at = pc])

-----------------------------------------------------------------------------
(* The rate limit                                                           *)

\* window_start <= now - window, for a `now` read lag ticks ago
Expired(r, lag) == r.age >= Window + lag

\* Faulty variant: the read does not look at the window.
RefusedByReadAnyAge(k, lag) == row[k] # None /\ row[k].count >= Max

\* Faulty variant: no read first, every attempt writes.
RefusedByReadNever(k, lag) == FALSE

RefusedByRead(k, lag) ==
    row[k] # None /\ ~Expired(row[k], lag) /\ row[k].count >= Max

\* Faulty variant: the outcome was decided by the read.
AdmitsAlways(n) == TRUE

Admits(n) == n <= Max

Tracked(rows) == {k \in Key : rows[k] # None}

\* DELETE FROM login_attempts WHERE window_start <= now - window
Purged(lag) ==
    [k \in Key |-> IF row[k] # None /\ Expired(row[k], lag) THEN None ELSE row[k]]

Oldest(rows) ==
    {k \in Tracked(rows) : \A j \in Tracked(rows) : rows[k].age >= rows[j].age}

MustEvict(rows, k) ==
    rows[k] = None /\ Cardinality(Tracked(rows)) >= RowCap

\* The table before the INSERT: a new identifier at capacity evicts the
\* oldest row (any of them, if several are).
Evicted(rows, k) ==
    IF MustEvict(rows, k)
    THEN {[j \in Key |-> IF j = v THEN None ELSE rows[j]] : v \in Oldest(rows)}
    ELSE {rows}

\* INSERT ... ON CONFLICT DO UPDATE SET failure_count = failure_count + 1
Counted(rows, k, lag) ==
    [rows EXCEPT ![k] =
        IF rows[k] = None THEN [count |-> 1, age |-> lag]
                          ELSE [rows[k] EXCEPT !.count = @ + 1]]

-----------------------------------------------------------------------------
(* check_and_authenticate() and the session of a login                      *)

StartLogin(h, k) ==
    /\ At(h, "idle")
    /\ Become(h, [Idle EXCEPT !.at = "read", !.who = k])
    /\ UNCHANGED store

ReadLimit(h) ==
    /\ At(h, "read")
    /\ IF RefusedByRead(task[h].who, task[h].lag) THEN Become(h, Idle)
                                                  ELSE Goto(h, "reserve")
    /\ UNCHANGED store

ReserveOn(h, k, rows, new) ==
    /\ row' = new
    /\ admitted' = [j \in Key |->
         (IF rows[j] = None THEN 0 ELSE admitted[j])
             + (IF j = k /\ Admits(new[k].count) THEN 1 ELSE 0)]
    /\ Become(h, IF Admits(new[k].count)
                 THEN [task[h] EXCEPT !.at = "verify", !.lag = 0]
                 ELSE Idle)

Reserve(h) ==
    /\ At(h, "reserve")
    /\ \E rows \in Evicted(Purged(task[h].lag), task[h].who) :
         ReserveOn(h, task[h].who, rows,
                   Counted(rows, task[h].who, task[h].lag))
    /\ UNCHANGED <<active, secret, used, cut>>

\* authenticate(): the owner is looked up and the password verified.
WrongPassword(h) ==
    /\ At(h, "verify")
    /\ Become(h, Idle)
    /\ UNCHANGED store

RightPassword(h) ==
    /\ At(h, "verify")
    /\ task[h].who \in active
    /\ Goto(h, "reset")
    /\ UNCHANGED store

\* record_login_success
ResetLimit(h) ==
    /\ At(h, "reset")
    /\ row' = [row EXCEPT ![task[h].who] = None]
    /\ admitted' = [admitted EXCEPT ![task[h].who] = 0]
    /\ Goto(h, "session")
    /\ UNCHANGED <<active, secret, used, cut>>

Draw(x, o) ==
    /\ x \notin used
    /\ secret' = [secret EXCEPT ![x] = o]
    /\ used' = used \cup {x}

CreateSession(h, s) ==
    /\ At(h, "session")
    /\ Draw(s, task[h].who)
    /\ Become(h, Idle)
    /\ UNCHANGED <<row, admitted, active, cut>>

\* The bound on Session is reached: the login ends without one.
SessionsExhausted(h) ==
    /\ At(h, "session")
    /\ Session \subseteq used
    /\ Become(h, Idle)
    /\ UNCHANGED store

-----------------------------------------------------------------------------
(* Requests of a session                                                    *)

\* resolve_session and resolve_token: the row and its owner in one SELECT
Resolves(x) == secret[x] \in active

VerifySession(h, s) ==
    /\ At(h, "idle")
    /\ Resolves(s)
    /\ Become(h, [Idle EXCEPT !.at = "act", !.who = secret[s], !.by = s])
    /\ UNCHANGED store

CreateToken(h, t) ==
    /\ At(h, "act")
    /\ Draw(t, task[h].who)
    /\ Become(h, Idle)
    /\ UNCHANGED <<row, admitted, active, cut>>

Dead(X) == secret' = [x \in Secret |-> IF x \in X THEN None ELSE secret[x]]

Of(o, X) == {x \in X : secret[x] = o}

\* Logout: delete_session by its hash
Logout(h) ==
    /\ At(h, "act")
    /\ Dead({task[h].by})
    /\ cut' = cut \cup {task[h].by}
    /\ Become(h, Idle)
    /\ UNCHANGED <<row, admitted, active, used>>

\* revoke_token: scoped by owner
RevokeToken(h, t) ==
    /\ At(h, "act")
    /\ Dead(Of(task[h].who, {t}))
    /\ cut' = cut \cup Of(task[h].who, {t})
    /\ Become(h, Idle)
    /\ UNCHANGED <<row, admitted, active, used>>

\* revoke_all(target): delete_owner_sessions, then revoke_owner_tokens
RevokeSessions(h, o) ==
    /\ At(h, "act")
    /\ o = task[h].who \/ task[h].who \in Admin
    /\ Dead(Of(o, Session))
    /\ Become(h, [Idle EXCEPT !.at = "tokens", !.who = o,
                              !.doomed = Of(o, Secret)])
    /\ UNCHANGED <<row, admitted, active, used, cut>>

\* Faulty variant: the second statement of revoke_all is forgotten.
TokensToRevokeNone(o) == {}

TokensToRevoke(o) == Of(o, Token)

RevokeTokens(h) ==
    /\ At(h, "tokens")
    /\ Dead(TokensToRevoke(task[h].who))
    /\ cut' = cut \cup task[h].doomed
    /\ Become(h, Idle)
    /\ UNCHANGED <<row, admitted, active, used>>

\* A transaction fails ("database is locked") and the request with it.
RequestFails(h) ==
    /\ task[h].at \in {"read", "reserve", "reset", "session", "act", "tokens"}
    /\ Become(h, Idle)
    /\ UNCHANGED store

-----------------------------------------------------------------------------
(* The environment                                                          *)

\* expires_at is reached.
Expire(x) ==
    /\ secret[x] # None
    /\ Dead({x})
    /\ UNCHANGED <<row, admitted, active, used, cut, task>>

\* The operator disables or enables an account in config.db.
SwitchOwner(o) ==
    /\ active' = IF o \in active THEN active \ {o} ELSE active \cup {o}
    /\ UNCHANGED <<row, admitted, secret, used, cut, task>>

HoldsNow(h) == task[h].at \in {"read", "reserve"}

Tick ==
    /\ \A h \in Handler : HoldsNow(h) => task[h].lag < MaxLag
    /\ row' = [k \in Key |->
         IF row[k] # None /\ row[k].age < MaxAge
         THEN [row[k] EXCEPT !.age = @ + 1] ELSE row[k]]
    /\ task' = [h \in Handler |->
         IF HoldsNow(h) THEN [task[h] EXCEPT !.lag = @ + 1] ELSE task[h]]
    /\ UNCHANGED <<admitted, active, secret, used, cut>>

-----------------------------------------------------------------------------
LoginStep(h) ==
    \/ ReadLimit(h) \/ Reserve(h)
    \/ WrongPassword(h) \/ RightPassword(h) \/ ResetLimit(h)
    \/ \E s \in Session : CreateSession(h, s)
    \/ SessionsExhausted(h)

SessionStep(h) ==
    \/ \E t \in Token : CreateToken(h, t) \/ RevokeToken(h, t)
    \/ \E o \in Owner : RevokeSessions(h, o)
    \/ Logout(h) \/ RevokeTokens(h)

Step(h) == LoginStep(h) \/ SessionStep(h)

Begin(h) ==
    \/ \E k \in Key : StartLogin(h, k)
    \/ \E s \in Session : VerifySession(h, s)

Untroubled ==
    \/ \E h \in Handler : Begin(h) \/ Step(h)
    \/ \E x \in Secret : Expire(x)
    \/ \E o \in Owner : SwitchOwner(o)
    \/ Tick

Next == Untroubled \/ \E h \in Handler : RequestFails(h)

Spec == Init /\ [][Next]_vars

\* Threads go on with the request they serve, and time passes.
Fairness == WF_vars(Tick) /\ \A h \in Handler : WF_vars(Step(h))

FairSpec == Spec /\ Fairness

-----------------------------------------------------------------------------
(* Properties                                                               *)

\* "concurrent requests for the same identifier_key serialize": however many
\* handlers read the count before anybody increments it, no more than Max
\* attempts reach the password check in the life of a row.
AdmittedBounded == \A k \in Key : admitted[k] <= Max

\* What was revoked, by logout, by id or by revoke_all, never resolves again,
\* whatever logins, expiries and switches of the account come later.
RevokedStaysDead == \A x \in cut : ~Resolves(x)

Attempt(k) == \E h \in Handler : At(h, "read") /\ task[h].who = k
Admitted(k) == \E h \in Handler : At(h, "verify") /\ task[h].who = k

\* Nobody is locked out for ever: if the database works from some point on and
\* an identifier keeps being tried, it keeps being let through to the password
\* check, however hard it is flooded.
LoginPossible ==
    \A k \in Key :
        <>[][Untroubled]_vars /\ []<>Attempt(k) => []<>Admitted(k)

=============================================================================

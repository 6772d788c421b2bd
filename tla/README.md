# A TLA+ model of kerdoos

kerdoos watches prices: it scrapes product pages of shops on a schedule or on
demand, records every result, and mails each tenant a digest. It is a Python
workspace of two packages:

- `kerdoos`, the application: web interface, MCP interface and command line over
  one set of services, two SQLite databases, an evaluator of scheduled digests,
  a queue of on-demand runs;
- `autolycos`, the fetching library: tiers of increasing weight (plain HTTP, TLS
  impersonation, three kinds of browsers), a gate that bounds the browsers that
  run at once, and an egress proxy.

The functions are small; what makes the program hard is who runs them and when.
Coroutines of one event loop, threads of several pools, browsers and drivers as
child processes, and other processes on the same databases meet in the same
tables, counters and lock files, and each of them can time out, be cancelled or
die. The modules here describe those meetings.

This file has eight parts: the inventory, the modules and how they correspond to
the code, the runs, bounds, fairness, the proofs, the disagreements found, and
what is left.

## 1. Inventory

Paths are below `src/packages/kerdoos/src/kerdoos/` (`core/`, `registry/`, ...) or
`src/packages/autolycos/src/autolycos/` (`adapters/`, `browser_gate.py`, ...).

| Component | State it keeps | Operations | What makes it correct |
|---|---|---|---|
| run_now queue, `core/run_queue.py` | queue, in-flight set, status and completion time per owner, backlog latch, restart count, dead flag | `enqueue`, `run_forever`, `run_supervised`, cancellation | one run per owner at a time; status, set and queue agree through crashes; a dead queue strands nobody; every queued run ends |
| digest evaluator, `core/evaluator.py`, `core/scheduler.py` | locals of a tick, send threads; rows of `job_runs` and `scrapes` | reap, Plan A (scrape), Plan B (claim, send), loop | a firing is mailed at most once; a stranded row is released; orphaned send threads are bounded |
| state store, `persistence/sqlite_store.py` | `job_runs`, `scrapes` | insert-or-ignore, update, sweep, newest record | the primary key is the only lock between processes |
| browser gate, `browser_gate.py` | a semaphore per process, flock'd slot files | `acquire`, release | never more than N holders over all processes; no permit or slot lost |
| browser tier, `adapters/browser.py` | abandoned-thread count, claim, liveness and holder per fetch | `fetch`, watchdog, kill, count | one side decides the outcome; the count is exact; the caller always returns |
| Camoufox and undetected-chromedriver tiers, `adapters/camoufox.py`, `adapters/uc.py` | the same, in another order; a launch deadline | `fetch` | as above; late launches are swept |
| HTTP and TLS tiers, challenge detection, `adapters/http.py`, `adapters/tls.py`, `challenge.py` | none | `fetch` | redirects are validated hop by hop |
| router, tiers, `router.py`, `tiers.py` | fetchers by tier and sub-resource domains | `select`, `known_tiers`, budget checks | the budgets add up to what a stuck fetch really takes |
| target validation, `safety.py` | none | `validate_target` | no dial without a validated target, at any hop |
| egress proxy, `egress_proxy.py` | sockets and relay threads | accept, relay, close | both directions end |
| configuration store, `registry/sqlite_store.py` | sites, products, sources, digest jobs, links, owners | upserts, deletes with cascades | no dangling reference; tenants apart |
| application services, `core/app/services.py` | none of their own | the use cases, `import_config`, `run_now` | checks and writes agree although they are separate transactions |
| login, sessions, tokens, `core/app/auth.py`, `registry/auth_store.py` | `login_attempts`, `sessions`, `tokens` | login, verify, create, revoke | the limit cannot be raced past nor lock anybody out for ever; revoked means revoked |
| scrape pipeline, `core/orchestrator.py`, `core/retry.py`, `core/verdict.py`, `core/fetcher_guard.py` | none | fetch with retries, parse, judge, record | each source is judged and recorded once per run |
| SMTP sender, `digest/smtp_sender.py`, `digest/factory.py` | deadline of a send | connect, authenticate, send, retry | no second attempt after a possible delivery; no retry without its budget before the reaper |
| parsers, `parsers/` | none | a parser per shop | a definitive verdict only on what the page says of the listing itself |
| settings, `config.py` | none | environment variables, clamps, warnings | what is not warned about fits |
| rendering, YAML files, web, MCP and CLI front ends | none that outlives a request | | pure, or thin over the services |

How they interact:

- A request handler (a thread of the WebUI or the CLI) calls a service; a service
  makes several store calls, each on a connection of its own, so other handlers
  run between any two of them.
- POST /run puts the owner into the run_now queue and returns; a coroutine takes
  it out and calls `run_now` on a worker thread.
- The evaluator loop is a coroutine of the WebUI; `kerdoos digest` runs the same
  tick in a process of its own. They meet in `job_runs` and `scrapes` only.
- Both scrape paths go through the router to a tier. A browser tier passes the
  gate, which threads of one process share as a semaphore and processes share as
  lock files, and then watches a thread of its own.
- An import is the same sequence of store calls as single requests would make.

`PROJECT.json` lists under `hazards` each place where such a meeting could go
wrong, with the property that would show it.

## 2. Modules

| Module | Part of the code | Composition |
|---|---|---|
| `RunQueue` | run_now queue | |
| `DigestLedger` | (what the evaluator promises of one firing) | refined by `DigestEvaluator` |
| `DigestEvaluator` | evaluator, scheduler, their tables | instantiates `DigestLedger` |
| `BrowserGate` | gate | |
| `FetchCycle` | what the three browser tiers share: ceiling, gate, claim, kills | its `permits` is the one-process view of `BrowserGate` |
| `BrowserFetch`, `CamoufoxFetch`, `UcFetch` | the steps of each tier | extend `FetchCycle` |
| `BrowserTiers` | fetches of any tiers behind one gate | extends the three tiers |
| `ConfigStore` | configuration store and the services that write it | |
| `LoginGuard` | login rate limit, sessions, tokens | |
| `Settings` | environment variables, clamps, budget checks | |
| `RegistryLoad` | `load()` and `iter_sources()` under concurrent edits | |
| `PageFetch` | router, target validation, HTTP and TLS tiers, challenge, retry | extends `RegistryLoad` |
| `Parsers` | the shop parsers and the verdict, as operators | |
| `ScrapeRun` | `run_now()`, `scrape_one`, `scrape_and_record` | extends `PageFetch`, `Parsers` |
| `SmtpSend` | `SmtpDigestSender.send()` | extends `RegistryLoad`, `Settings` |
| `GateClock` | how long a stuck fetch keeps the gate | extends `Settings` |
| `Deployment` | a run, a digest or a stuck fetch in one deployment | extends `ScrapeRun`, `SmtpSend`, `GateClock` |
| `RunQueueProofs`, `DigestEvaluatorProofs`, `BrowserGateProofs`, `BrowserTiersProofs`, `LoginGuardProofs`, `ConfigStoreProofs`, `DeploymentProofs` | theorems | extend their modules |
| `MC...` | instances for TLC | extend their modules |

Conventions. An action is what the code does without letting anybody else in:
between two awaits that suspend (coroutines), one SQL transaction (stores), or
one access of shared memory (threads). Definitions whose comment begins with
"Faulty variant" are not part of a model; each is a plausible mistake in the
definition below it, and some property of a run detects it.

**RunQueue.** `queue`, `pending`, `status`, `warned`, `dead`, `restarts`, `stop` are
the fields of `RunQueue`; `sinceDone` is the time since `_done_monotonic`, which
stops at the cooldown because nothing distinguishes larger values; `consumer` and
`current` are the program counter and the local of the one consumer task.
`Enqueue*` is `enqueue()`, one action because its lock is never held across a
suspension and `put()` on an unbounded queue does not wait. `Take` is the pop with
the RUNNING mark, `RunNowSucceeds` and `RunNowRaises` the return of the worker
thread with the `finally` block, `ConsumerCrash` an exception of the consumer
itself as `run_supervised` sees it, `Restart` the end of the backoff, `SetStop` and
`Cancel` the shutdown of the application. What `run_now` does is one step that
succeeds or fails.

**DigestEvaluator.** Every process has a tick (`ev`) with the locals of
`evaluate_tick` and its program counter, and its send threads (`thread`, by firing).
The tables are `rowStatus` and `firedAt` (`job_runs` by its primary key) and
`lastScrape` (the newest `scrapes` row). A cron grid is periodic, so
`compute_window_start` is arithmetic; jobs come in any order, which covers the
order of the listing. `Claim` is the insert-or-ignore, `Dispatch` the update to
'running' with the submit, `Settle` and `SendTimesOut` the two ends of the await.
`Fault` is charged for crashes, cancelled loops, failing statements and switched
jobs. `jobRow` is the job's row in `config.db`: enabled, disabled, or not there. A
behaviour starts with one of `Deployments`, the processes and the jobs that there are;
a process that is not part of it stays "off". A process in `Loop` is the WebUI, the others are successive invocations of
`kerdoos digest`, whose threads die with them. The history variable `sends` counts
entries into `sender.send`.

**BrowserGate.** A caller takes a permit of its process, scans the slot files with a
non-blocking `flock` on a fresh descriptor, polls, and releases in the opposite
order. `Die` is the death of a process: the kernel drops its locks and the next
process starts with a full semaphore.

**FetchCycle, BrowserFetch, CamoufoxFetch, UcFetch, BrowserTiers.** `main` is the
calling thread in `fetch()`, `run` the thread it watches. `claimed` is the winner of
`_claim()`, `holder` the outcome the thread leaves, `counted` its entry in the
abandoned count of its module. Deadlines are events that may occur at any time. A
process is a driver or the browser it drives; `procs` are those alive, `baseline` the
snapshot of a fetch, `frozen` what it identified for a later kill. A kill finds only
what exists at that moment and what its criterion identifies: the launch marker, a
frozen identity, or being new since the snapshot, which is only sound behind a gate of
one permit. The tiers differ in order: the browser tier counts a thread after the kill,
Camoufox at the deadline, and uc does not count but has two deadlines, a driver that is
replaced in the middle of a navigation and a late sweep.

**Settings.** One unit of time is a tenth of a second, where the clamps of the code
stop. `EnvNumber` falls back to the default for what is not set or not valid,
`SafeSweepDelay`, `SafeSmtpTimeout` and `SendDeadline` are the clamps, `GateWarns` and
`LaunchWarns` the checks at start.

**RegistryLoad.** The three SELECTs of `load()` are three steps and each edit of
`config.db` by others is one; a foreign key protects the table, not the reader.

**PageFetch, Parsers, ScrapeRun.** A target is what the validation asks of it (allowed,
and the kinds of address it resolves to), drawn anew at every hop; a page is one of the
kinds that challenge detection tells apart. A whole page is, for its parser, what the
anchors find: amounts that are missing, rejected or good, and texts with the markers
they hold. `Readings` maps every such page to the verdict of the code and to the
verdicts the page supports, which are defined without the parsers. An exception in
place of a value (`ParserRaises`, `FetchFails`, `StoreFails`, `GuardCatches`) may occur
wherever the code guards against one.

**SmtpSend.** `op` numbers the nine operations of an attempt. Each waits for as many
replies as `smtplib` does in it (`Rounds`: connect and banner, EHLO and HELO, STARTTLS
and the handshake, the mechanisms that `login()` tries in turn), each wait takes any time
up to the socket timeout, and each operation may fail in every way that `smtplib` tells
apart. `delivered` counts the times that the relay took the message, which the sender
cannot see when the connection is lost on the last reply.

**GateClock.** The bounded waits of a stuck fetch in the order of the code, each of which
may take any time up to its bound.

**Deployment.** The three calls start from the same settings and registry but do not
influence each other, so a behaviour has one of them (`part`).

**ConfigStore.** The tables of `config.db` with their keys and cascades. A request
that is one transaction is one action; one that reads first is two or more
(`FindProduct`/`DropProduct`, `FindJob`/`DropJob`, `FindJob`/`LinkSource`, and
`LoadRegistry`/`CheckPolicy`/`InsertSource` for `add_source`). `import_config`
validates its batch and then walks it through the same steps. A url stands for the
domain of its host. The
validation of an import is taken as one instant.

**LoginGuard.** A login reads the clock (`lag` counts how long ago), asks the limit
by a read (`ReadLimit`), reserves an attempt by a write (`Reserve`: purge, eviction,
increment), verifies, resets the limit and creates a session. Rows hold the age of
their window instead of its start. `cut` is the set of secrets somebody was told
are revoked.

## 3. Runs

| Run | Expectation | Question |
|---|---|---|
| `run_queue` | pass | Do enqueues, runs, crashes, restarts, death and shutdown, in any order, keep queue, in-flight set, status and latch in step (`Coalesced`, `InFlightExact`, `DeadLeavesNobodyWaiting`, `BacklogLatchExact`), keep the cooldown (`CooldownRespected`), and does every queued run end (`QueuedRunEnds`)? |
| `evaluator` | pass | The WebUI loop and a `kerdoos digest` process on one job, or the loop alone on two jobs of different periods that share a source, with a fault anywhere: is a firing sent at most once (`AtMostOnceSend`), does a claim have one owner (`ClaimDiscipline`), are orphans bounded (`OrphansBounded`), is `DigestLedger` implemented (`LedgerImplemented`), are stranded rows released (`StrandedRowReleased`)? For the loop alone: one firing per job in progress (`LoneJobSingleton`), terminal statuses stay (`LoneTerminalStable`), sources are not scraped too often (`ScrapeDedup`). |
| `overlap_reaper` | violation | `TerminalStatusStable` with two overlapping `kerdoos digest` processes. |
| `browser_gate` | pass | Two processes with two threads each on two slot files: `HoldersBounded`, `PermitsExact`, `LocksExact`, and progress once trouble ceases (`GateProgress`). |
| `browser_tiers` | pass | Two callers, any mix of the three tiers, late threads and processes: `CountExact`, `CeilingHolds`, `HolderFilled`; no sweep reaches another fetch's processes (`KillsSpareOthers`), late browsers go (`LateBrowserGone`), fetches end (`FetchEnds`). |
| `gate_late_launch` | violation | `GateCoversBrowser`: is the gate held as long as a browser of the fetch may live? |
| `config_store` | pass | Any order of removals, links, insertions, updates and imports of two tenants: `ConfigIntact`, `TenantScoped`. |
| `import_partial` | violation | `ImportAllOrNothing`: does an undisturbed import that passes validation finish? |
| `login_guard` | pass | Two handlers, a table of one row: `AdmittedBounded`, `RevokedStaysDead`, `LoginPossible`. |
| `deployment` | pass | A run over three sources while others edit the registry: every source of a consistent registry accounted for (`RunComplete`), and no verdict the page does not support (`VerdictGrounded`). A digest through a relay that may fail in every operation: `DeliveryExact`, `RetryStartsInTime`. A stuck fetch of each tier in 81 environments: `CamoufoxLeavesInTime`. |
| `run_aborted` | violation | `RunNeverAborted`: does a run return whatever is wrong with one of its sources? |
| `gate_overheld` | violation | `SilenceMeansInTime`: without a warning at start, is every stuck fetch out of the gate before the others give up? |

Every state machine but `Deployment` also has one type invariant. Two of them say more
than types: in `ConfigStore` a catalogued site always names a known tier, and in `LoginGuard` a
row counts at most one attempt of each handler beyond the limit.

`CeilingHolds` is deliberately weaker than "abandoned <= MaxAbandoned": the ceiling
is read before the gate is waited for, so the fetches in flight may exceed it, by
at most one per calling thread; that is the bound the property states.
`AdmittedBounded` is about the life of a row: a successful login, the end of the
window and an eviction end it.

`RunComplete` is about registries that `load()` read consistently; for those, a run that
has loaded them ends with every source accounted for, whatever fetchers, parsers and the
store do. `RunNeverAborted` is what the code says of every run, and `run_aborted` refutes
it. `RetryStartsInTime` is about the start of an attempt: `Budget` before the reaper's window
closes. That an attempt, once begun, ends within it is not claimed (observation 2 below).
`CamoufoxLeavesInTime` is the contract of `GateWarning` for the one tier whose budget counts
every wait; `SilenceMeansInTime` is the same contract for all of them.
`VerdictGrounded` compares every parser with a definition of what its pages say.

`overlap_reaper` uses `PromptSpec`, in which the clock moves only while every process is
waiting for something; its counterexample needs no stalled machine.

Run a model with `tlc -config <cfg> <module>`, the proofs with `tlapm <module>.tla`.

## 4. Bounds

- `run_queue`: three owners (one runs, one waits, one arrives), a budget of one
  restart (a tolerated crash and a fatal one), a threshold of two, a cooldown of
  two ticks (inside, at the edge, after).
- `evaluator`: two processes on one job for everything that takes a second process, one
  on two jobs (periods of two and three ticks, one source of both, one source of a tier that
  is not installed) for everything that takes a second job; both together exceed a few
  minutes and add no interaction between jobs, which share sources only. Both deployments
  contain the loop, of which liveness is asked. The clock stops at `MaxClock`; its last
  instant stands for all later ones, which is why a deadline that could not be reached
  otherwise passes there and why `StrandedRowReleased` speaks only of rows that can still grow
  old. `MaxClock` is two, the start of the second window of the first job, so a firing can
  be stranded in one window and found in the next. One fault suffices for each
  single-failure hazard; the theorems hold for any number. `MaxOrphans = 1` with two windows
  reaches the ceiling.
- `browser_gate`: two processes of two threads for two slots: one waits for a permit
  of its own process while another polls for a slot of the other process.
- `browser_tiers`: two callers behind one or two permits, either one fetch each of any
  two tiers, or three fetches of the browser tier against a ceiling of one, with psutil
  importable or not: a fetch behind the gate when the ceiling is reached, a later one
  that is refused, a late thread of one fetch beside the processes of another. Two uc
  fetches share no second permit and the three-fetch mix has no psutil, to keep the run
  within minutes. The threads of a process and its fetches are not symmetric.
- `deployment`: three sources on three sites, one of them on a tier that is not
  installed, and two edits, which is what a dangling source takes (a site, then a source
  on it). `Retries` and `MaxRedirects` are two. Default timeouts are scaled to a few
  tenths (`KillWait` and `LateSweep` one), with the order of the real ones; the
  environments put each value below, at and above its limits. Windows of the reaper are
  even, so that half a window is exact. `MaxPrep` exceeds the margin of one timeout;
  `MaxOversleep` is one. A MercadoLivre page has up to two nodes, which covers none, the
  only one, and several of which none, one or both match.
- `config_store`: an administrator and a tenant, one shop with an old and a new
  domain, one product and two jobs, so that every row has a rival; files that move
  the shop while the product's url is on the old domain; tiers that are installed, known
  but not installed, and misspelt. Statements may fail anywhere. `import_partial` also
  has urls on the new domain.
- `login_guard`: one known and one made-up identifier for a table of one row, so
  that each new identifier evicts the other; a limit of two, a window of two ticks,
  an instant that may be one tick old (`MaxLag`). Ages stop at `Window + MaxLag`,
  beyond which every row is expired for everybody. Two sessions and one token, each
  drawn at most once.

Handlers, jobs and job names are symmetric in `config_store`; no other run uses
symmetry.

## 5. Fairness

Liveness is checked under the weakest assumptions that the scheduling justifies.

- `RunQueue`: a ready coroutine is run, the backoff sleep ends, and `run_now` returns
  or raises, because every fetch has a deadline. No user, crash or shutdown is
  forced.
- `DigestEvaluator`: the loop's tick proceeds, the clock runs, and a service that went
  down is started again (`restart: unless-stopped`) when its threads are joined. A
  send thread is not assumed to end, except those joined at exit. Nothing is assumed
  of `kerdoos digest`.
- `BrowserGate`: a scanning caller goes on, a permit is taken, a hold is released. The
  deadline of `acquire()` is not assumed: it may be None.
- `BrowserTiers`: the caller runs and its deadlines pass; the fetch thread's own Python
  code runs. Launch, navigation, reading and quitting may hang for ever.
- `Deployment`: the thread of the call goes on. Nobody has to edit the registry.
- `LoginGuard`: time passes and handlers go on with what they serve. `LoginPossible`
  has the premise that from some time on no transaction fails.

`GateProgress` and `LoginPossible` have such a premise ("once trouble ceases")
because a caller whose every attempt fails gets nowhere, in the code as well.

## 6. Proofs

TLAPS proves, for every value of the constants that satisfies the named
assumptions of the modules:

`RunQueueProofs` (from `OwnerAssumption`: finitely many owners; `BudgetAssumption`:
natural numbers, zero included):

- `TypeCorrect`, `CoalescingHolds`, `InFlightExactHolds`, `DeadQueueIsEmpty`,
  `BacklogLatchHolds`: the invariants of the run;
- `CooldownHolds`: the action property.

None of these is inductive alone. The invariant `IInv` is their conjunction with
`ConsumerShape` (the local `current` is set exactly while `run_now` runs, a dead queue
has no consumer, a living one has budget left) and `CooldownMarked` (an owner inside
the window still shows "done"). The last one is the heart of `CooldownHolds`: the code
decides by the status, the property speaks of time, and nothing but a dead queue
may overwrite the status within the window. One lemma per action shows that `IInv`
is preserved; facts about `Append`, `Tail` and the latch are lemmas of their own.

`DigestEvaluatorProofs` (from `SetsAssumption`, `NumbersAssumption`, `DeploymentsAssumption`),
for any number of processes, jobs, windows and faults and any set of deployments:

- `TypeCorrect`, with `JobLocalSet`: the job local is set in the steps of Plan B that
  use it, without which the key of a firing has no type;
- `DisciplineHolds`: `ClaimDiscipline`, the inductive core. The row alone does not say
  who may send, because the reaper may end it under its owner; owner, thread and count
  together do;
- `AtMostOnce`: its consequence;
- `LedgerRefined`: each step of the evaluator is a step of `DigestLedger` or leaves
  every phase alone;
- `OrphansBoundedHolds`. Inductive is `OrphanRoom`: between the claim, which needs
  `can_submit`, and the submit, a loop has strictly fewer threads than its ceiling.
  That room cannot be lost in between, because only a submit adds a thread;
- `LoneJobSingletonHolds`, `LoneTerminalStableHolds`, `ScrapeDedupHolds`: the properties of an
  evaluator that is alone. `Alone` (at most one process is not "off") is a state
  predicate, not an assumption; it is kept because no process joins a deployment
  (`StepActs`, `AloneKept`). With a second process `overlap_reaper` refutes the second, and
  the first is observation 1 below. The invariant (`LoneInv`, of `AloneAt`) keeps what a step
  of the tick has found out until it is used: between the check for an active firing and
  the insert the job has no active row, from the insert to the end of the send only
  that one, and a scrape under way was due.

`BrowserGateProofs` (from `GateAssumption`), for any number of processes, callers and
slots: `TypeCorrect`, `PermitsExactHolds`, `LocksExactHolds`, `HoldersBoundedHolds`. The
invariant is `TypeOK`, `PermitsExact`, `LocksExact` and `SlotKnown` (a caller that tries
or holds a slot file knows which one). `HoldersBounded` is not inductive; it follows by
counting: to hold a lock is an injection of the callers past the gate into the slots.

`BrowserTiersProofs` (from `FetchAssumption`), for any number of threads, fetches and
permits and any mix of tiers:

- `TypeCorrect`, `CountExactHolds`, `CeilingNeverOverrun`, `HolderFilledHolds`,
  `LateBrowserGoneHolds`: the invariants;
- `KillsSpareOthersHolds`: the action property.

The invariant has a part per fetch and a shared part. Per fetch, `Claims` says where
caller and thread can be once one of them has won the claim, and when nobody has;
what the holder contains (`Filled`), when a thread is counted (`CountedLate`) and when no
browser is left (`Gone`) follow the winner. Shared are `PermitsExact` (permits and holders
make up the capacity), `CountExact`, `OnePerCaller` and `FrozenSafe`: what a fetch
has frozen for a later kill is its own or of a fetch that is over. `FrozenSafe` is
preserved because a kill by novelty happens only with capacity one, where
`PermitsExact` makes the holder the only one. The ceiling follows from
`CountExact` and `OnePerCaller`: beyond it there is one fetch per caller thread.

`LoginGuardProofs` (from `LimitAssumption`, `RowAssumption`), for any number of handlers,
identifiers, sessions and tokens: `TypeCorrect`, `AdmittedBoundedHolds`,
`RevokedStaysDeadHolds`. `RowsBounded` counts, with the row, the handlers that have read it and
not yet written: they are why the stored count may exceed the limit, and by no more than
their number. `SecretsSpent` and `DoomedSpent` say that no secret is drawn twice and that,
between the two statements of `revoke_all`, what is to die belongs to the account or
is dead.

`ConfigStoreProofs` (from `ConfigAssumption`, `RowAssumption`, `BatchAssumption`), for any number
of handlers, tenants, rows and import files: `TypeCorrect`, `ConfigIntactHolds`, and
`TenantScopedHolds`, the action property. The rows of a tenant (`RowsOf`) are its products and
sources, its jobs with their contents, and their links, so a change in place shows as well as an
insertion or a removal. `TaskKnown` is what a request that looks first
and writes later still knows at the write: a job it found is of its tenant or gone,
since ids are given out once (`SpentOnce`); what is left of an import was validated.

`DeploymentProofs` (from `SettingsAssumption`, `RegistryAssumption`, `ScrapeAssumption`,
`SmtpAssumption`, `DeploymentAssumption`), for every environment and every catalogue:

- `VerdictGroundedHolds`: one lemma per parser, over all pages, shows that it takes a price
  and an availability only from what the page says of the listing;
- `RunAccountedHolds`: a run that has finished has accounted for every source it loaded
  (the end that `RunComplete` leads to), and one that was aborted was so because a
  site was catalogued between the reads (the only way into the violation of
  `run_aborted`). The invariant `RunBooks` divides the sources
  into those the loop has passed, which are settled, and the others, which show nothing, and
  keeps the foreign key from sources to sites, although the reader may not have seen
  the site;
- `DeliveryExactHolds`: a retry follows only a fault that leaves `delivered` at zero
  (`SendOK`);
- `RetryStartsInTimeHolds`: an attempt is begun anew only if its budget fits before the
  deadline, which is the reaper's delay less one timeout. The settings enter by
  `SafeSettings`, what the clamps and checks of `Settings` leave of any environment;
- `CamoufoxLeavesInTimeHolds`: the time held and the bounds of the waits to come never exceed the
  sum of the waits of the path (`GateOK`), which for Camoufox is the sum the check is made of.

Every invariant and every action property of the passing runs is stated by a theorem.
Only model-checked is liveness, because fairness and ENABLED are out of the prover's
reach: `QueuedRunEnds`, `StrandedRowReleased`, `GateProgress`, `FetchEnds`,
`LoginPossible`, `RunComplete`. No module uses a RECURSIVE operator, so none is closed to
proof; what a recursive function computes for all inputs would be, for lack of induction
over data.

## 7. Disagreements between code and documentation

Each is a run that expects a violation; `findings` in `PROJECT.json` has the quotations.

1. `overlap_reaper`, `core/evaluator.py:463`. Rows are stamped with the start of their
   tick. After a long Plan A, another process reaps the row of a send in progress,
   and the send then overwrites the terminal status. The docstring says the reaper
   cannot race a send. At-most-once sending is not affected.
2. `gate_late_launch`, `adapters/browser.py:423`. A deadline that passes while the fetch
   thread is still starting its driver finds no process to kill; the gate is released,
   and Chromium starts after that, outside the gate.
3. `import_partial`, `core/app/services.py:279`. Validation accepts a url on a domain of
   the present catalogue or of the batch; the write phase first replaces the site and
   then accepts only what the new catalogue has. An import that moves a site and keeps
   a source on its old domain stops half way.
4. `gate_overheld`, `tiers.py:107`. The browser tier's budget has no cleanup terms, and the
   docstring says it has none to count; `adapters/browser.py:402-432` waits up to three
   times `_KILL_WAIT_SECONDS` before the gate is left. A deployment starts without a warning
   although one stuck fetch makes the others time out at the gate, which is what the
   warning is for. (`UcBudget` likewise leaves out the launch and one kill wait.)
5. `run_aborted`, `core/app/services.py:445`. "A failing source must never abort the run", but
   the generator over the sources is the header of the loop, outside the guard in its
   body, and raises KeyError for a source whose site was catalogued after `load()` had
   read the sites.

Observations without a run of their own:

1. The per-job singleton does not hold across processes. `has_active_job_run`
   (`core/evaluator.py:329`) and the insert of the row are two transactions, and the key of
   `job_runs` contains the window: two processes whose ticks start on different sides of
   a window boundary both get through, although the docstring (`core/evaluator.py:516-518`)
   calls the singleton cross-process. `JobSingleton` as an invariant of the instance
   of `overlap_reaper`, with a period of two and `MaxClock` four, shows it. Each firing is
   still sent at most once.
2. Eight socket timeouts are not "a full attempt's worst case"
   (`digest/smtp_sender.py:317-320`): the comment above `_MAX_OPS_PER_ATTEMPT` lists nine
   operations, several of them wait more than once (up to seventeen waits in `Rounds`), and
   QUIT, or RSET and QUIT after a refusal, come on top. An attempt that begins in time may
   therefore end after the reaper's window; what is certain is `RetryStartsInTime`.
3. A QUIT that is answered by anything but 221 turns a delivered digest into an error.
   The firing ends as error and is not repeated, so nothing is sent twice.
4. Every parser raises without a usable price, so a page that says "out of stock" and
   shows no price is indeterminate, never unavailable.
5. A clamp that stops at a tenth of a second may exceed the limit it serves when that
   limit is below a fifth of one.

## 8. What is left

Not modelled in the components that are: backward steps of the wall clock; sources
linked to a job whose configuration is gone (in `EndScrape` they count as a failed
scrape); the rate limiter of log lines; gates on platforms without `fcntl` (one
process); a SIGKILL without effect; schema upgrades; the owners table and e-mail
addresses; a login limit of zero, which switches the limiter off; password hashing.
In the browser tiers: process numbers that are used again, snapshots that fail although
psutil is there, what the rendered document contains. In the pipeline: regular
expressions, windows of text and the conversion of amounts; which addresses are unsafe;
bytes and headers. In the sender: `LogDigestSender`, relays without TLS or login.

Not modelled as components: the rendering of digests (formatting), the YAML files (their
result is the batch of `ConfigStore`), the web, MCP and command line front ends, which are
thin over modelled services and otherwise made of signatures, forms and argument
parsing, and the egress proxy, a relay of bytes whose threads share nothing but two
sockets.

Plan: an abstract specification of what the gate promises its callers (a counting
semaphore across processes whose permits return when a holder dies), and the proof that
`BrowserGate` implements it, as `DigestEvaluator` implements `DigestLedger`.

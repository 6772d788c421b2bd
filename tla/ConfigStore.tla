---------------------------- MODULE ConfigStore ----------------------------
(***************************************************************************)
(* The configuration of the tenants: config.db (registry/sqlite_store.py)  *)
(* and the use cases that write it (core/app/services.py).                 *)
(*                                                                         *)
(* Request handlers run on threads of a pool and in the CLI; every store   *)
(* method opens a connection of its own. A SELECT outside a transaction    *)
(* sees the database of its own instant, so a method that reads first and  *)
(* writes later is two steps; what follows the first INSERT, UPDATE or     *)
(* DELETE of a method up to its commit is one step.                        *)
(*                                                                         *)
(* A url stands for the domain of its host. Names, labels, parser settings *)
(* and schedules of the rows are left out, and so are requests refused for *)
(* their shape alone: they change nothing.                                 *)
(***************************************************************************)
EXTENDS Naturals, Sequences, FiniteSets

CONSTANTS
    Handler,        \* the threads that serve requests, the CLI included
    Owner,          \* the tenants
    Admin,          \* those with role 'admin'
    Site, Product, Domain, Job, Name,
    Url,            \* the urls that are followed, each by its domain
    Fetcher,        \* the tier names a site may be given
    Known,          \* router.known_tiers()
    Available,      \* the tiers installed in this deployment
    Batch,          \* the files `config import` may be given
    Faults,         \* may a write fail (disk, "database is locked")?
    NoRow

ASSUME ConfigAssumption ==
    /\ Admin \subseteq Owner
    /\ Available \subseteq Known
    /\ Known \subseteq Fetcher
    /\ Url \subseteq Domain
    /\ Faults \in BOOLEAN

SiteRow == [domain : Domain, fetcher : Fetcher]
\* make_source_id: the triple, without the owner.
SourceId == [product : Product, site : Site, url : Url]
JobRow == [owner : Owner, name : Name]

ASSUME RowAssumption == NoRow \notin SiteRow \cup JobRow

\* One line of an import: sites first, then each product and its sources.
Entry ==
    [kind : {"site"}, name : Site, row : SiteRow]
        \cup [kind : {"product"}, key : Product]
        \cup [kind : {"source"}, id : SourceId]

ASSUME BatchAssumption == Batch \subseteq Seq(Entry)

VARIABLES
    sites,      \* sites: the catalogue all tenants share
    products,   \* products
    sources,    \* sources
    jobs,       \* digest_jobs
    spent,      \* the job ids that were ever given out (uuid4: never twice)
    links,      \* digest_job_sources
    task        \* what each handler is in the middle of

tables == <<sites, products, sources, jobs, spent, links>>
vars == <<tables, task>>

Task ==
    [at : {"idle", "write", "policy", "insert", "drop", "delete", "link"},
     owner : Owner \cup {NoRow}, \* the tenant the request works on
     todo : Seq(Entry),         \* what is still to be written
     import : BOOLEAN,          \* is this an import_config()?
     arg : Product \cup Job \cup {NoRow},
     source : SourceId \cup {NoRow}]

\* A site that is catalogued names a tier the router knows.
TypeOK ==
    /\ sites \in [Site -> [domain : Domain, fetcher : Known] \cup {NoRow}]
    /\ products \subseteq [owner : Owner, key : Product]
    /\ sources \subseteq [owner : Owner, id : SourceId]
    /\ jobs \in [Job -> JobRow \cup {NoRow}]
    /\ spent \subseteq Job
    /\ links \subseteq [owner : Owner, job : Job, source : SourceId]
    /\ task \in [Handler -> Task]

Idle ==
    [at |-> "idle", owner |-> NoRow, todo |-> << >>, import |-> FALSE,
     arg |-> NoRow, source |-> NoRow]

Init ==
    /\ sites = [s \in Site |-> NoRow]
    /\ products = {}
    /\ sources = {}
    /\ jobs = [j \in Job |-> NoRow]
    /\ spent = {}
    /\ links = {}
    /\ task = [h \in Handler |-> Idle]

-----------------------------------------------------------------------------
(* The request of a handler                                                 *)

Free(h) == task[h].at = "idle"

Become(h, t) == task' = [task EXCEPT ![h] = t]

\* A request that is one transaction leaves the handler free.
Reply(h) == Free(h) /\ UNCHANGED task

\* A request for o that is left at pc.
Begin(h, o, t) == Free(h) /\ Become(h, [t EXCEPT !.owner = o])

Goto(h, pc) == Become(h, [task[h] EXCEPT !.at = pc])

\* The head of todo is written.
Written(h) ==
    Become(h, [task[h] EXCEPT !.at = "write", !.todo = Tail(@)])

\* The request ends: it returns or raises.
Return(h) == Become(h, Idle)
Raise(h) == Return(h)

-----------------------------------------------------------------------------
(* The statements of the store                                              *)

\* Faulty variant: the typo check of the fetcher name is missing.
TierKnownNoCheck(r) == TRUE

TierKnown(r) == r.fetcher \in Known

UpsertSite(s, r) == sites' = [sites EXCEPT ![s] = r]

\* Faulty variant: PRAGMA foreign_keys is off.
ParentsExistUnchecked(o, i) == TRUE

\* The foreign keys of a row of sources.
ParentsExist(o, i) ==
    [owner |-> o, key |-> i.product] \in products /\ sites[i.site] # NoRow

\* Deleting rows of sources also deletes the links that refer to them.
DeleteSources(gone) ==
    /\ sources' = sources \ gone
    /\ links' = {l \in links :
                    [owner |-> l.owner, id |-> l.source] \notin gone}

\* Faulty variant: the delete goes by source_id, which tenants share.
SourceRowsOfAll(o, i) == {x \in sources : x.id = i}

SourceRows(o, i) == {x \in sources : x.id = i /\ x.owner = o}

\* UNIQUE (owner_id, name)
NameTaken(o, n, others) == \E j \in others : jobs[j] = [owner |-> o, name |-> n]

OwnsJob(o, j) == jobs[j] # NoRow /\ jobs[j].owner = o

\* _link_sources: only sources of the owner are linked.
Links(o, j, S) ==
    {[owner |-> o, job |-> j, source |-> i] :
        i \in {i \in S : [owner |-> o, id |-> i] \in sources}}

-----------------------------------------------------------------------------
(* Requests that are one transaction                                        *)

AddSite(h, o, s, r) ==
    /\ o \in Admin
    /\ TierKnown(r)
    /\ Reply(h)
    /\ UpsertSite(s, r)
    /\ UNCHANGED <<products, sources, jobs, spent, links>>

AddProduct(h, o, p) ==
    /\ Reply(h)
    /\ products' = products \cup {[owner |-> o, key |-> p]}
    /\ UNCHANGED <<sites, sources, jobs, spent, links>>

RemoveSource(h, o, i) ==
    /\ Reply(h)
    /\ DeleteSources(SourceRows(o, i))
    /\ UNCHANGED <<sites, products, jobs, spent>>

CreateJob(h, o, j, n, S) ==
    /\ j \notin spent
    /\ ~NameTaken(o, n, Job)
    /\ Reply(h)
    /\ jobs' = [jobs EXCEPT ![j] = [owner |-> o, name |-> n]]
    /\ spent' = spent \cup {j}
    /\ links' = links \cup Links(o, j, S)
    /\ UNCHANGED <<sites, products, sources>>

\* Faulty variant: the statement goes by the id of the job alone.
UpdateJobById(h, o, j, n) ==
    /\ jobs[j] # NoRow
    /\ ~NameTaken(o, n, Job \ {j})
    /\ Reply(h)
    /\ jobs' = [jobs EXCEPT ![j].name = n]
    /\ UNCHANGED <<sites, products, sources, spent, links>>

UpdateJob(h, o, j, n) ==
    /\ OwnsJob(o, j)
    /\ ~NameTaken(o, n, Job \ {j})
    /\ Reply(h)
    /\ jobs' = [jobs EXCEPT ![j].name = n]
    /\ UNCHANGED <<sites, products, sources, spent, links>>

RemoveJobSource(h, o, j, i) ==
    /\ Reply(h)
    /\ links' = links \ {[owner |-> o, job |-> j, source |-> i]}
    /\ UNCHANGED <<sites, products, sources, jobs, spent>>

-----------------------------------------------------------------------------
(* Requests that look first and write later                                 *)

FindProduct(h, o, p) ==
    /\ [owner |-> o, key |-> p] \in products
    /\ Begin(h, o, [Idle EXCEPT !.at = "drop", !.arg = p])
    /\ UNCHANGED tables

\* remove_product: the sources of the product, then the product.
DropProduct(h) ==
    LET o == task[h].owner
        p == task[h].arg
    IN /\ task[h].at = "drop"
       /\ DeleteSources({x \in sources : x.owner = o /\ x.id.product = p})
       /\ products' = products \ {[owner |-> o, key |-> p]}
       /\ Return(h)
       /\ UNCHANGED <<sites, jobs, spent>>

FindJob(h, o, j, pc, i) ==
    /\ OwnsJob(o, j)
    /\ Begin(h, o, [Idle EXCEPT !.at = pc, !.arg = j, !.source = i])
    /\ UNCHANGED tables

DropJob(h) ==
    LET o == task[h].owner
        j == task[h].arg
    IN /\ task[h].at = "delete"
       /\ links' = {l \in links : l.job # j}
       /\ jobs' = [jobs EXCEPT ![j] = NoRow]
       /\ Return(h)
       /\ UNCHANGED <<sites, products, sources, spent>>

\* add_job_source: nothing to insert for a source that is not the owner's;
\* the foreign key refuses a job that was deleted in the meantime.
LinkSource(h) ==
    LET o == task[h].owner
        j == task[h].arg
        fresh == Links(o, j, {task[h].source})
    IN /\ task[h].at = "link"
       /\ IF fresh # {} /\ jobs[j] = NoRow
          THEN Raise(h) /\ UNCHANGED tables
          ELSE /\ links' = links \cup fresh
               /\ Return(h)
               /\ UNCHANGED <<sites, products, sources, jobs, spent>>

-----------------------------------------------------------------------------
(* add_source() and import_config()                                         *)

\* CatalogueDomainPolicy: the live catalogue, whatever the site.
PolicyAllows(d) == \E s \in Site : sites[s] # NoRow /\ sites[s].domain = d

AddSource(h, o, i) ==
    /\ Begin(h, o, [Idle EXCEPT !.at = "write",
                                !.todo = <<[kind |-> "source", id |-> i]>>])
    /\ UNCHANGED tables

SitesOf(b) == {b[k] : k \in {k \in DOMAIN b : b[k].kind = "site"}}

\* The whole batch is validated before anything is written.
ValidEntry(b, e) ==
    CASE e.kind = "site" -> TierKnown(e.row)
      [] e.kind = "product" -> TRUE
      [] e.kind = "source" ->
            /\ \E s \in SitesOf(b) : /\ s.name = e.id.site
                                     /\ s.row.fetcher \in Available
            /\ \/ PolicyAllows(e.id.url)
               \/ \E s \in SitesOf(b) : s.row.domain = e.id.url

Valid(b) == \A k \in DOMAIN b : ValidEntry(b, b[k])

\* import_config(principal, owner): an admin for anybody, a tenant for itself
\* and without sites; a batch with an invalid entry is refused as a whole.
ImportConfig(h, by, o, b) ==
    /\ by \in Admin \/ (by = o /\ SitesOf(b) = {})
    /\ Valid(b)
    /\ Begin(h, o, [Idle EXCEPT !.at = "write", !.todo = b, !.import = TRUE])
    /\ UNCHANGED tables

NextIs(h, kind) ==
    /\ task[h].at = "write"
    /\ task[h].todo # << >>
    /\ Head(task[h].todo).kind = kind

WriteSite(h) ==
    LET e == Head(task[h].todo)
    IN /\ NextIs(h, "site")
       /\ UpsertSite(e.name, e.row)
       /\ Written(h)
       /\ UNCHANGED <<products, sources, jobs, spent, links>>

WriteProduct(h) ==
    /\ NextIs(h, "product")
    /\ products' = products \cup
         {[owner |-> task[h].owner, key |-> Head(task[h].todo).key]}
    /\ Written(h)
    /\ UNCHANGED <<sites, sources, jobs, spent, links>>

\* add_source: the site exists and its tier is installed, ...
LoadRegistry(h) ==
    LET s == sites[Head(task[h].todo).id.site]
    IN /\ NextIs(h, "source")
       /\ IF s # NoRow /\ s.fetcher \in Available THEN Goto(h, "policy")
                                                 ELSE Raise(h)
       /\ UNCHANGED tables

\* ... the url is on a catalogued domain, ...
CheckPolicy(h) ==
    /\ task[h].at = "policy"
    /\ IF PolicyAllows(Head(task[h].todo).id.url) THEN Goto(h, "insert")
                                                  ELSE Raise(h)
    /\ UNCHANGED tables

\* ... and the row goes in, if its parents are still there.
InsertSource(h) ==
    LET o == task[h].owner
        i == Head(task[h].todo).id
    IN /\ task[h].at = "insert"
       /\ IF ParentsExist(o, i)
          THEN sources' = sources \cup {[owner |-> o, id |-> i]} /\ Written(h)
          ELSE Raise(h) /\ UNCHANGED sources
       /\ UNCHANGED <<sites, products, jobs, spent, links>>

Finish(h) ==
    /\ task[h].at = "write"
    /\ task[h].todo = << >>
    /\ Return(h)
    /\ UNCHANGED tables

\* A statement fails and its transaction is rolled back.
StatementFails(h) ==
    /\ Faults
    /\ ~Free(h)
    /\ Raise(h)
    /\ UNCHANGED tables

-----------------------------------------------------------------------------
Request(h, o) ==
    \/ \E s \in Site, r \in SiteRow : AddSite(h, o, s, r)
    \/ \E p \in Product : AddProduct(h, o, p) \/ FindProduct(h, o, p)
    \/ \E i \in SourceId : RemoveSource(h, o, i) \/ AddSource(h, o, i)
    \/ \E j \in Job, n \in Name :
         \/ \E S \in SUBSET SourceId : CreateJob(h, o, j, n, S)
         \/ UpdateJob(h, o, j, n)
    \/ \E j \in Job, i \in SourceId :
         RemoveJobSource(h, o, j, i) \/ FindJob(h, o, j, "link", i)
    \/ \E j \in Job : FindJob(h, o, j, "delete", NoRow)
    \/ \E by \in Owner, b \in Batch : ImportConfig(h, by, o, b)

Step(h) ==
    \/ DropProduct(h) \/ DropJob(h) \/ LinkSource(h)
    \/ WriteSite(h) \/ WriteProduct(h) \/ LoadRegistry(h) \/ CheckPolicy(h)
    \/ InsertSource(h) \/ Finish(h) \/ StatementFails(h)

Next == \E h \in Handler : Step(h) \/ \E o \in Owner : Request(h, o)

Spec == Init /\ [][Next]_vars

-----------------------------------------------------------------------------
(* Properties                                                               *)

\* Every source hangs on a product of its tenant and on a catalogued site, ...
SourcesIntact ==
    \A x \in sources : /\ [owner |-> x.owner, key |-> x.id.product] \in products
                       /\ sites[x.id.site] # NoRow

\* ... every link joins a job and a source of one and the same tenant, ...
LinksIntact ==
    \A l \in links : /\ OwnsJob(l.owner, l.job)
                     /\ [owner |-> l.owner, id |-> l.source] \in sources

\* ... and a tenant's jobs are told apart by their names.
JobNamesUnique ==
    \A j, k \in Job : jobs[j] = jobs[k] /\ jobs[j] # NoRow => j = k

\* What the scrape loops and the evaluator rely on when they read config.db:
\* no order of concurrent removals, links and insertions leaves a row whose
\* parent is gone.
ConfigIntact == SourcesIntact /\ LinksIntact /\ JobNamesUnique

\* The rows of tenant o in every table, jobs with what is in them.
RowsOf(o) ==
    <<{x \in products : x.owner = o}, {x \in sources : x.owner = o},
      {<<j, jobs[j]>> : j \in {j \in Job : OwnsJob(o, j)}},
      {l \in links : l.owner = o}>>

\* A step that serves a request made for tenant o.
Serves(h, o) == Request(h, o) \/ (task[h].owner = o /\ Step(h))

\* Tenants share source ids and handlers; no step made for one tenant, the
\* cascades included, adds, changes or removes a row of another.
TenantScoped ==
    [][\A o \in Owner :
         RowsOf(o)' # RowsOf(o) =>
             \A h \in Handler, other \in Owner \ {o} : ~Serves(h, other)]_vars

\* "validates the WHOLE batch first [...] and writes nothing if any entry
\* fails": an import that nothing disturbs ends with nothing left to write.
ImportAllOrNothing ==
    [][\A h \in Handler : task[h].import /\ task'[h] = Idle
                            => task[h].todo = << >>]_vars

=============================================================================

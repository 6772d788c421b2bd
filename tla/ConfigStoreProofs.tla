------------------------- MODULE ConfigStoreProofs -------------------------
(***************************************************************************)
(* Proofs about ConfigStore: its type invariant, that no interleaving of   *)
(* requests leaves a row whose parent is gone, and that no step made for a *)
(* tenant touches a row of another, for any number of threads, tenants,    *)
(* jobs and import files.                                                  *)
(*                                                                         *)
(* A method that looks first and writes later acts on what it saw. What    *)
(* still holds of it by then is the invariant TaskKnown: a job that was    *)
(* found is of the tenant who asked, or gone, because an id is given out   *)
(* once (SpentOnce); and what is left of an import was validated.          *)
(***************************************************************************)
EXTENDS ConfigStore, TLAPS

KnownRow == [domain : Domain, fetcher : Known]

\* A catalogued line of an import names a tier the router knows.
EntryValid(e) == e.kind = "site" => e.row.fetcher \in Known

\* What a request in flight still knows from what it looked up.
JobFound(t) ==
    t.at \in {"delete", "link"} =>
        /\ t.arg \in spent
        /\ jobs[t.arg] # NoRow => jobs[t.arg].owner = t.owner

\* What a request in flight is made of: these parts do not depend on tables.
Formed(t) ==
    /\ t.at # "idle" => t.owner \in Owner
    /\ t.at = "link" => t.source \in SourceId
    /\ \A k \in DOMAIN t.todo : EntryValid(t.todo[k])
    /\ t.at \in {"policy", "insert"} =>
           t.todo # << >> /\ Head(t.todo).kind = "source"

TaskKnown == \A h \in Handler : Formed(task[h]) /\ JobFound(task[h])

SpentOnce == \A j \in Job : jobs[j] # NoRow => j \in spent

IInv == TypeOK /\ TaskKnown /\ SpentOnce /\ ConfigIntact

\* The part of the invariant that is about the tables alone.
TablesTyped ==
    /\ sites \in [Site -> KnownRow \cup {NoRow}]
    /\ products \subseteq [owner : Owner, key : Product]
    /\ sources \subseteq [owner : Owner, id : SourceId]
    /\ jobs \in [Job -> JobRow \cup {NoRow}]
    /\ spent \subseteq Job
    /\ links \subseteq [owner : Owner, job : Job, source : SourceId]

TablesOK == TablesTyped /\ SpentOnce /\ ConfigIntact

\* What every step leaves to the requests in flight: a job they found is
\* still of its tenant, or gone.
JobsStay ==
    /\ spent \subseteq spent'
    /\ \A j \in spent : jobs'[j] # NoRow =>
           jobs[j] # NoRow /\ jobs'[j].owner = jobs[j].owner

\* A step touches the rows of o only.
TouchesOnly(o) == \A q \in Owner \ {o} : RowsOf(q)' = RowsOf(q)

-----------------------------------------------------------------------------
(* Facts about the model's operators                                        *)

\* The invariant, split into tables and requests.
LEMMA InvParts ==
    IInv <=> TablesOK /\ task \in [Handler -> Task] /\ TaskKnown
  BY DEF IInv, TypeOK, TablesOK, TablesTyped, KnownRow

\* The same in the next state.
LEMMA InvPartsNext ==
    IInv' <=> TablesOK' /\ task' \in [Handler -> Task] /\ TaskKnown'
  BY DEF IInv, TypeOK, TablesOK, TablesTyped, KnownRow

\* A request that is over asks nothing of the tables.
LEMMA IdleTask == Idle \in Task /\ Formed(Idle) /\ Idle.at = "idle"
  BY DEF Idle, Task, Formed

\* The step of one handler: its new request is well formed and what it found
\* is so; the other requests still know what they knew.
LEMMA TaskWrite ==
    ASSUME task \in [Handler -> Task], TaskKnown, JobsStay,
           NEW h \in Handler, NEW t \in Task, Become(h, t), Formed(t),
           t.at \in {"delete", "link"} =>
               /\ t.arg \in spent'
               /\ jobs'[t.arg] # NoRow => jobs'[t.arg].owner = t.owner
    PROVE  task' \in [Handler -> Task] /\ TaskKnown'
  <1>1. /\ task' \in [Handler -> Task] /\ task'[h] = t
        /\ \A g \in Handler : g # h => task'[g] = task[g]
    BY DEF Become
  <1>2. ASSUME NEW g \in Handler PROVE (Formed(task[g]) /\ JobFound(task[g]))'
    <2>1. CASE g = h
      <3>1. Formed(task'[g])
        BY <1>1, <2>1
      <3> QED
        BY <1>1, <2>1, <3>1 DEF JobFound, Formed, EntryValid
    <2>2. CASE g # h
      <3>1. task'[g] = task[g] /\ Formed(task[g]) /\ JobFound(task[g])
        BY <1>1, <2>2 DEF TaskKnown
      <3> QED
        BY <3>1 DEF JobFound, Formed, EntryValid, JobsStay
    <2> QED
      BY <2>1, <2>2
  <1> QED
    BY <1>1, <1>2 DEF TaskKnown

\* A request of one transaction leaves the others what they knew.
LEMMA TaskKept ==
    ASSUME task \in [Handler -> Task], TaskKnown, JobsStay, UNCHANGED task
    PROVE  task' \in [Handler -> Task] /\ TaskKnown'
  BY DEF TaskKnown, JobFound, Formed, EntryValid, JobsStay

\* A request that is over, whatever it did to the tables.
LEMMA TaskOver ==
    ASSUME task \in [Handler -> Task], TaskKnown, JobsStay,
           NEW h \in Handler, Become(h, Idle)
    PROVE  task' \in [Handler -> Task] /\ TaskKnown'
  BY IdleTask, TaskWrite

\* What a request in flight may rely on.
LEMMA TaskFacts ==
    ASSUME IInv, NEW h \in Handler, task[h].at # "idle"
    PROVE  /\ task[h] \in Task /\ Formed(task[h]) /\ JobFound(task[h])
           /\ task[h].owner \in Owner
  BY DEF IInv, TypeOK, TaskKnown, Formed

\* Nothing is written: nothing to lose.
LEMMA TablesKept ==
    ASSUME TablesOK, UNCHANGED tables
    PROVE  TablesOK' /\ JobsStay /\ \A o \in Owner : TouchesOnly(o)
  <1>1. TablesTyped' /\ SpentOnce' /\ ConfigIntact'
    BY DEF TablesOK, TablesTyped, SpentOnce, ConfigIntact, SourcesIntact, LinksIntact,
           JobNamesUnique, OwnsJob, tables
  <1>2. JobsStay
    BY DEF JobsStay, tables
  <1>3. \A o \in Owner : TouchesOnly(o)
    BY DEF TouchesOnly, RowsOf, OwnsJob, tables
  <1> QED
    BY <1>1, <1>2, <1>3 DEF TablesOK

\* A step neither gives tenant q job j, nor takes it away, nor changes it.
SameJob(q, j) ==
    (OwnsJob(q, j)' <=> OwnsJob(q, j)) /\ (OwnsJob(q, j) => jobs'[j] = jobs[j])

\* Jobs that are not touched stay where they are.
LEMMA JobsKept ==
    ASSUME UNCHANGED <<jobs, spent>>
    PROVE  /\ JobsStay
           /\ SpentOnce => SpentOnce'
           /\ JobNamesUnique => JobNamesUnique'
           /\ \A q \in Owner, j \in Job : SameJob(q, j)
  BY DEF JobsStay, SpentOnce, JobNamesUnique, OwnsJob, SameJob

\* A step touches the rows of o only if it does so in each table.
LEMMA TouchesByTable ==
    ASSUME NEW o \in Owner,
           \A x : x.owner # o => (x \in products' <=> x \in products),
           \A x : x.owner # o => (x \in sources' <=> x \in sources),
           \A x : x.owner # o => (x \in links' <=> x \in links),
           \A q \in Owner \ {o}, j \in Job : SameJob(q, j)
    PROVE  TouchesOnly(o)
  <1> SUFFICES ASSUME NEW q \in Owner \ {o} PROVE RowsOf(q)' = RowsOf(q)
    BY DEF TouchesOnly
  <1>1. {x \in products : x.owner = q}' = {x \in products : x.owner = q}
    OBVIOUS
  <1>2. {x \in sources : x.owner = q}' = {x \in sources : x.owner = q}
    OBVIOUS
  <1>3. {x \in links : x.owner = q}' = {x \in links : x.owner = q}
    OBVIOUS
  <1>4. {<<j, jobs[j]>> : j \in {j \in Job : OwnsJob(q, j)}}'
          = {<<j, jobs[j]>> : j \in {j \in Job : OwnsJob(q, j)}}
    BY DEF SameJob
  <1> QED
    BY <1>1, <1>2, <1>3, <1>4 DEF RowsOf

-----------------------------------------------------------------------------
(* Requests that are one transaction                                        *)

\* add_site: the catalogue gains a row, or a row changes; it loses none.
LEMMA SiteWrite ==
    ASSUME TablesOK, NEW s \in Site, NEW r \in KnownRow, UpsertSite(s, r),
           UNCHANGED <<products, sources, jobs, spent, links>>
    PROVE  TablesOK' /\ JobsStay /\ \A o \in Owner : TouchesOnly(o)
  <1>1. r # NoRow
    BY RowAssumption, ConfigAssumption DEF KnownRow, SiteRow
  <1>2. /\ sites' \in [Site -> KnownRow \cup {NoRow}]
        /\ \A z \in Site : sites[z] # NoRow => sites'[z] # NoRow
    BY <1>1 DEF TablesOK, TablesTyped, UpsertSite
  <1>3. SourcesIntact'
    BY <1>2 DEF TablesOK, TablesTyped, ConfigIntact, SourcesIntact, SourceId
  <1>4. LinksIntact'
    BY DEF TablesOK, ConfigIntact, LinksIntact, OwnsJob
  <1>5. \A o \in Owner : TouchesOnly(o)
    BY DEF TouchesOnly, RowsOf, OwnsJob
  <1> QED
    BY <1>2, <1>3, <1>4, <1>5, JobsKept DEF TablesOK, TablesTyped, ConfigIntact

\* add_product: a row of the tenant's own.
LEMMA ProductWrite ==
    ASSUME TablesOK, NEW o \in Owner, NEW p \in Product,
           products' = products \cup {[owner |-> o, key |-> p]},
           UNCHANGED <<sites, sources, jobs, spent, links>>
    PROVE  TablesOK' /\ JobsStay /\ TouchesOnly(o)
  <1>1. TablesTyped'
    BY DEF TablesOK, TablesTyped
  <1>2. SourcesIntact' /\ LinksIntact'
    BY DEF TablesOK, ConfigIntact, SourcesIntact, LinksIntact, OwnsJob
  <1>3. \A x : x.owner # o => (x \in products' <=> x \in products)
    OBVIOUS
  <1>4. TouchesOnly(o)
    BY <1>3, JobsKept, TouchesByTable
  <1> QED
    BY <1>1, <1>2, <1>4, JobsKept DEF TablesOK, ConfigIntact

\* The links a delete takes along are those of the rows it deletes, so no
\* link loses its source and none of another tenant goes.
LEMMA SourcesDelete ==
    ASSUME TablesOK, NEW o \in Owner, NEW gone \in SUBSET sources,
           \A x \in gone : x.owner = o, DeleteSources(gone),
           UNCHANGED <<sites, jobs, spent>>
    PROVE  /\ LinksIntact' /\ JobsStay
           /\ sources' = sources \ gone
           /\ links' \subseteq links
           /\ \A x : x.owner # o => (x \in sources' <=> x \in sources)
           /\ \A x : x.owner # o => (x \in links' <=> x \in links)
  <1>1. sources' = sources \ gone /\ links' \subseteq links
    BY DEF DeleteSources
  <1>2. LinksIntact'
    BY <1>1 DEF DeleteSources, TablesOK, ConfigIntact, LinksIntact, OwnsJob
  <1>3. \A x : x.owner # o => (x \in sources' <=> x \in sources)
    BY <1>1
  <1>4. \A x : x.owner # o => (x \in links' <=> x \in links)
    BY DEF DeleteSources
  <1> QED
    BY <1>1, <1>2, <1>3, <1>4, JobsKept

\* remove_source
LEMMA RemoveSourceStep ==
    ASSUME IInv, NEW h \in Handler, NEW o \in Owner, NEW i \in SourceId,
           RemoveSource(h, o, i)
    PROVE  IInv' /\ TouchesOnly(o)
  <1> DEFINE gone == SourceRows(o, i)
  <1>1. /\ DeleteSources(gone) /\ UNCHANGED <<sites, products, jobs, spent>>
        /\ UNCHANGED task
    BY DEF RemoveSource, Reply
  <1>2. gone \in SUBSET sources /\ \A x \in gone : x.owner = o
    BY DEF SourceRows
  <1>3. TablesOK
    BY InvParts
  <1>4. /\ LinksIntact' /\ JobsStay
        /\ sources' = sources \ gone
        /\ links' \subseteq links
        /\ \A x : x.owner # o => (x \in sources' <=> x \in sources)
        /\ \A x : x.owner # o => (x \in links' <=> x \in links)
    BY <1>1, <1>2, <1>3, SourcesDelete
  <1>5. TablesTyped' /\ SourcesIntact'
    BY <1>1, <1>3, <1>4 DEF TablesOK, TablesTyped, ConfigIntact, SourcesIntact
  <1>6. TablesOK'
    BY <1>1, <1>3, <1>4, <1>5, JobsKept DEF TablesOK, ConfigIntact
  <1>7. TouchesOnly(o)
    BY <1>1, <1>4, JobsKept, TouchesByTable
  <1> QED
    BY <1>1, <1>4, <1>6, <1>7, InvParts, InvPartsNext, TaskKept

\* _link_sources links sources of the owner to the job it is given.
LEMMA LinksFacts ==
    ASSUME NEW o \in Owner, NEW j \in Job, NEW S \in SUBSET SourceId,
           NEW l \in Links(o, j, S)
    PROVE  /\ l \in [owner : Owner, job : Job, source : SourceId]
           /\ l.owner = o /\ l.job = j
           /\ [owner |-> l.owner, id |-> l.source] \in sources
  <1>1. PICK i \in S : /\ [owner |-> o, id |-> i] \in sources
                       /\ l = [owner |-> o, job |-> j, source |-> i]
    BY DEF Links
  <1> QED
    BY <1>1

\* create_job: a fresh id, a name of its own, links of the tenant's sources.
LEMMA CreateJobStep ==
    ASSUME IInv, NEW h \in Handler, NEW o \in Owner, NEW j \in Job, NEW n \in Name,
           NEW S \in SUBSET SourceId, CreateJob(h, o, j, n, S)
    PROVE  IInv' /\ TouchesOnly(o)
  <1> DEFINE r == [owner |-> o, name |-> n]
  <1>1. /\ j \notin spent /\ ~NameTaken(o, n, Job)
        /\ jobs' = [jobs EXCEPT ![j] = r]
        /\ spent' = spent \cup {j}
        /\ links' = links \cup Links(o, j, S)
        /\ UNCHANGED <<sites, products, sources, task>>
    BY DEF CreateJob, Reply
  <1>2. TablesOK
    BY InvParts
  <1>3. r \in JobRow /\ r # NoRow
    BY RowAssumption DEF JobRow
  <1>4. /\ jobs' \in [Job -> JobRow \cup {NoRow}] /\ jobs'[j] = r
        /\ \A k \in Job : k # j => jobs'[k] = jobs[k]
        /\ jobs[j] = NoRow
    BY <1>1, <1>2, <1>3 DEF TablesOK, TablesTyped, SpentOnce
  <1>5. \A l \in Links(o, j, S) :
            /\ l \in [owner : Owner, job : Job, source : SourceId]
            /\ l.owner = o /\ l.job = j
            /\ [owner |-> l.owner, id |-> l.source] \in sources
    BY LinksFacts
  <1>6. TablesTyped'
    BY <1>1, <1>2, <1>4, <1>5 DEF TablesOK, TablesTyped
  <1>7. SpentOnce' /\ JobsStay
    BY <1>1, <1>2, <1>4 DEF TablesOK, TablesTyped, SpentOnce, JobsStay
  <1>8. SourcesIntact'
    BY <1>1, <1>2 DEF TablesOK, ConfigIntact, SourcesIntact
  <1>9. LinksIntact'
    BY <1>1, <1>2, <1>3, <1>4, <1>5
       DEF TablesOK, TablesTyped, ConfigIntact, LinksIntact, OwnsJob
  <1>10. JobNamesUnique'
    BY <1>1, <1>2, <1>4 DEF TablesOK, ConfigIntact, JobNamesUnique, NameTaken
  <1>11. TouchesOnly(o)
    <2>1. \A q \in Owner \ {o}, k \in Job : SameJob(q, k)
      BY <1>4 DEF OwnsJob, SameJob
    <2>2. \A x : x.owner # o => (x \in links' <=> x \in links)
      BY <1>1, <1>5
    <2> QED
      BY <1>1, <2>1, <2>2, TouchesByTable
  <1>12. TablesOK'
    BY <1>6, <1>7, <1>8, <1>9, <1>10 DEF TablesOK, ConfigIntact
  <1> QED
    BY <1>1, <1>7, <1>11, <1>12, InvParts, InvPartsNext, TaskKept

\* update_job: the name changes, the owner does not.
LEMMA UpdateJobStep ==
    ASSUME IInv, NEW h \in Handler, NEW o \in Owner, NEW j \in Job, NEW n \in Name,
           UpdateJob(h, o, j, n)
    PROVE  IInv' /\ TouchesOnly(o)
  <1>1. /\ OwnsJob(o, j) /\ ~NameTaken(o, n, Job \ {j})
        /\ jobs' = [jobs EXCEPT ![j].name = n]
        /\ UNCHANGED <<sites, products, sources, spent, links, task>>
    BY DEF UpdateJob, Reply
  <1>2. TablesOK
    BY InvParts
  <1>3. jobs[j] \in JobRow /\ jobs[j].owner = o
    BY <1>1, <1>2 DEF TablesOK, TablesTyped, OwnsJob
  <1>4. [jobs[j] EXCEPT !.name = n] = [owner |-> o, name |-> n]
    BY <1>3 DEF JobRow
  <1>5. [owner |-> o, name |-> n] \in JobRow /\ [owner |-> o, name |-> n] # NoRow
    BY RowAssumption DEF JobRow
  <1>6. /\ jobs' \in [Job -> JobRow \cup {NoRow}]
        /\ jobs'[j] = [owner |-> o, name |-> n]
        /\ \A k \in Job : k # j => jobs'[k] = jobs[k]
        /\ jobs[j] # NoRow
    BY <1>1, <1>2, <1>4, <1>5 DEF TablesOK, TablesTyped, OwnsJob
  <1>7. \A q \in Owner, k \in Job : OwnsJob(q, k)' <=> OwnsJob(q, k)
    BY <1>3, <1>5, <1>6 DEF OwnsJob
  <1>8. TablesTyped' /\ SpentOnce' /\ JobsStay
    BY <1>1, <1>2, <1>3, <1>6 DEF TablesOK, TablesTyped, SpentOnce, JobsStay
  <1>9. SourcesIntact' /\ LinksIntact'
    BY <1>1, <1>2, <1>7 DEF TablesOK, TablesTyped, ConfigIntact, SourcesIntact, LinksIntact
  <1>10. JobNamesUnique'
    BY <1>1, <1>2, <1>6 DEF TablesOK, ConfigIntact, JobNamesUnique, NameTaken
  <1>11. TouchesOnly(o)
    <2>1. \A q \in Owner \ {o}, k \in Job : SameJob(q, k)
      BY <1>3, <1>6, <1>7 DEF OwnsJob, SameJob
    <2> QED
      BY <1>1, <2>1, TouchesByTable
  <1>12. TablesOK'
    BY <1>8, <1>9, <1>10 DEF TablesOK, ConfigIntact
  <1> QED
    BY <1>1, <1>8, <1>11, <1>12, InvParts, InvPartsNext, TaskKept

\* remove_job_source
LEMMA RemoveJobSourceStep ==
    ASSUME IInv, NEW h \in Handler, NEW o \in Owner, NEW j \in Job, NEW i \in SourceId,
           RemoveJobSource(h, o, j, i)
    PROVE  IInv' /\ TouchesOnly(o)
  <1>1. /\ links' = links \ {[owner |-> o, job |-> j, source |-> i]}
        /\ UNCHANGED <<sites, products, sources, jobs, spent, task>>
    BY DEF RemoveJobSource, Reply
  <1>2. TablesOK
    BY InvParts
  <1>3. TablesTyped' /\ SourcesIntact' /\ LinksIntact'
    BY <1>1, <1>2 DEF TablesOK, TablesTyped, ConfigIntact, SourcesIntact, LinksIntact, OwnsJob
  <1>4. TablesOK'
    BY <1>1, <1>2, <1>3, JobsKept DEF TablesOK, ConfigIntact
  <1>5. \A x : x.owner # o => (x \in links' <=> x \in links)
    BY <1>1
  <1>6. TouchesOnly(o)
    BY <1>1, <1>5, JobsKept, TouchesByTable
  <1> QED
    BY <1>1, <1>4, <1>6, InvParts, InvPartsNext, TaskKept, JobsKept

-----------------------------------------------------------------------------
(* Requests that look first and write later                                 *)

\* A request that has only looked so far.
LEMMA BeginStep ==
    ASSUME IInv, NEW h \in Handler, NEW o \in Owner, NEW t \in Task,
           Begin(h, o, t), UNCHANGED tables, Formed([t EXCEPT !.owner = o]),
           t.at \in {"delete", "link"} => t.arg \in Job /\ OwnsJob(o, t.arg)
    PROVE  IInv' /\ TouchesOnly(o)
  <1> DEFINE u == [t EXCEPT !.owner = o]
  <1>1. Become(h, u)
    BY DEF Begin
  <1>2. u \in Task /\ u.at = t.at /\ u.arg = t.arg /\ u.owner = o
    BY DEF Task
  <1>3. TablesOK' /\ JobsStay /\ TouchesOnly(o)
    BY InvParts, TablesKept
  <1>4. u.at \in {"delete", "link"} =>
            /\ u.arg \in spent'
            /\ jobs'[u.arg] # NoRow => jobs'[u.arg].owner = u.owner
    BY <1>2 DEF OwnsJob, tables, IInv, SpentOnce
  <1>5. task' \in [Handler -> Task] /\ TaskKnown'
    BY <1>1, <1>2, <1>3, <1>4, InvParts, TaskWrite
  <1> QED
    BY <1>3, <1>5, InvPartsNext

\* remove_product finds the product ...
LEMMA FindProductStep ==
    ASSUME IInv, NEW h \in Handler, NEW o \in Owner, NEW p \in Product,
           FindProduct(h, o, p)
    PROVE  IInv' /\ TouchesOnly(o)
  <1> DEFINE t == [Idle EXCEPT !.at = "drop", !.arg = p]
  <1>1. Begin(h, o, t) /\ UNCHANGED tables
    BY DEF FindProduct
  <1>2. t \in Task /\ t.at = "drop"
    BY IdleTask DEF Task
  <1>3. Formed([t EXCEPT !.owner = o])
    BY DEF Idle, Formed
  <1> QED
    BY <1>1, <1>2, <1>3, BeginStep

\* ... and drops it with its sources and their links.
LEMMA DropProductStep ==
    ASSUME IInv, NEW h \in Handler, DropProduct(h)
    PROVE  IInv' /\ TouchesOnly(task[h].owner)
  <1>1. PICK o, p : o = task[h].owner /\ p = task[h].arg
    OBVIOUS
  <1> DEFINE gone == {x \in sources : x.owner = o /\ x.id.product = p}
  <1>2. /\ task[h].at = "drop" /\ DeleteSources(gone)
        /\ products' = products \ {[owner |-> o, key |-> p]}
        /\ Become(h, Idle) /\ UNCHANGED <<sites, jobs, spent>>
    BY <1>1 DEF DropProduct, Return
  <1>3. o \in Owner /\ TablesOK
    BY <1>1, <1>2, TaskFacts, InvParts
  <1>4. gone \in SUBSET sources /\ \A x \in gone : x.owner = o
    OBVIOUS
  <1>5. /\ LinksIntact' /\ JobsStay
        /\ sources' = sources \ gone
        /\ links' \subseteq links
        /\ \A x : x.owner # o => (x \in sources' <=> x \in sources)
        /\ \A x : x.owner # o => (x \in links' <=> x \in links)
    BY <1>2, <1>3, <1>4, SourcesDelete
  <1>6. TablesTyped'
    BY <1>2, <1>3, <1>5 DEF TablesOK, TablesTyped
  <1>7. SourcesIntact'
    <2> SUFFICES ASSUME NEW x \in sources'
                 PROVE  /\ [owner |-> x.owner, key |-> x.id.product] \in products'
                        /\ sites'[x.id.site] # NoRow
      BY DEF SourcesIntact
    <2>1. x \in sources /\ ~(x.owner = o /\ x.id.product = p)
      BY <1>5
    <2>2. [owner |-> x.owner, key |-> x.id.product] # [owner |-> o, key |-> p]
      BY <2>1
    <2> QED
      BY <1>2, <1>3, <2>1, <2>2 DEF TablesOK, ConfigIntact, SourcesIntact
  <1>8. TablesOK'
    BY <1>2, <1>3, <1>5, <1>6, <1>7, JobsKept DEF TablesOK, ConfigIntact
  <1>9. \A x : x.owner # o => (x \in products' <=> x \in products)
    BY <1>2
  <1>10. TouchesOnly(o)
    BY <1>2, <1>3, <1>5, <1>9, JobsKept, TouchesByTable
  <1>11. task' \in [Handler -> Task] /\ TaskKnown'
    BY <1>2, <1>5, InvParts, TaskOver
  <1> QED
    BY <1>1, <1>8, <1>10, <1>11, InvPartsNext

\* delete_job and add_job_source find the job ...
LEMMA FindJobStep ==
    ASSUME IInv, NEW h \in Handler, NEW o \in Owner, NEW j \in Job,
           NEW pc \in {"delete", "link"}, NEW i \in SourceId \cup {NoRow},
           pc = "link" => i \in SourceId, FindJob(h, o, j, pc, i)
    PROVE  IInv' /\ TouchesOnly(o)
  <1> DEFINE t == [Idle EXCEPT !.at = pc, !.arg = j, !.source = i]
  <1>1. OwnsJob(o, j) /\ Begin(h, o, t) /\ UNCHANGED tables
    BY DEF FindJob
  <1>2. t \in Task /\ t.at = pc /\ t.arg = j
    BY IdleTask DEF Task
  <1>3. Formed([t EXCEPT !.owner = o])
    BY DEF Idle, Formed
  <1> QED
    BY <1>1, <1>2, <1>3, BeginStep

\* ... which is then still of the tenant, or gone: no other tenant's job and
\* no link of one is deleted.
LEMMA DropJobStep ==
    ASSUME IInv, NEW h \in Handler, DropJob(h)
    PROVE  IInv' /\ TouchesOnly(task[h].owner)
  <1>1. PICK o, j : o = task[h].owner /\ j = task[h].arg
    OBVIOUS
  <1>2. /\ task[h].at = "delete" /\ links' = {l \in links : l.job # j}
        /\ jobs' = [jobs EXCEPT ![j] = NoRow]
        /\ Become(h, Idle) /\ UNCHANGED <<sites, products, sources, spent>>
    BY <1>1 DEF DropJob, Return
  <1>3. o \in Owner /\ TablesOK
    BY <1>1, <1>2, TaskFacts, InvParts
  <1>4. j \in spent /\ j \in Job /\ (jobs[j] # NoRow => jobs[j].owner = o)
    BY <1>1, <1>2, <1>3, TaskFacts DEF JobFound, TablesOK, TablesTyped
  <1>5. /\ jobs' \in [Job -> JobRow \cup {NoRow}] /\ jobs'[j] = NoRow
        /\ \A k \in Job : k # j => jobs'[k] = jobs[k]
    BY <1>2, <1>3, <1>4 DEF TablesOK, TablesTyped
  <1>6. \A l \in links : l.job = j => l.owner = o
    BY <1>3, <1>4 DEF TablesOK, ConfigIntact, LinksIntact, OwnsJob
  <1>7. TablesTyped' /\ SpentOnce' /\ JobsStay
    BY <1>2, <1>3, <1>5 DEF TablesOK, TablesTyped, SpentOnce, JobsStay
  <1>8. SourcesIntact' /\ JobNamesUnique'
    BY <1>2, <1>3, <1>5 DEF TablesOK, ConfigIntact, SourcesIntact, JobNamesUnique
  <1>9. LinksIntact'
    BY <1>2, <1>3, <1>5 DEF TablesOK, TablesTyped, ConfigIntact, LinksIntact, OwnsJob
  <1>10. TablesOK'
    BY <1>7, <1>8, <1>9 DEF TablesOK, ConfigIntact
  <1>11. TouchesOnly(o)
    <2>1. \A q \in Owner \ {o}, k \in Job : SameJob(q, k)
      BY <1>4, <1>5 DEF OwnsJob, SameJob
    <2>2. \A x : x.owner # o => (x \in links' <=> x \in links)
      BY <1>2, <1>6
    <2> QED
      BY <1>2, <1>3, <2>1, <2>2, TouchesByTable
  <1>12. task' \in [Handler -> Task] /\ TaskKnown'
    BY <1>2, <1>7, InvParts, TaskOver
  <1> QED
    BY <1>1, <1>10, <1>11, <1>12, InvPartsNext

\* add_job_source: the link goes in only if the job is still there.
LEMMA LinkSourceStep ==
    ASSUME IInv, NEW h \in Handler, LinkSource(h)
    PROVE  IInv' /\ TouchesOnly(task[h].owner)
  <1>1. PICK o, j, i : o = task[h].owner /\ j = task[h].arg /\ i = task[h].source
    OBVIOUS
  <1> DEFINE fresh == Links(o, j, {i})
  <1>2. /\ task[h].at = "link"
        /\ IF fresh # {} /\ jobs[j] = NoRow
           THEN Become(h, Idle) /\ UNCHANGED tables
           ELSE /\ links' = links \cup fresh
                /\ Become(h, Idle)
                /\ UNCHANGED <<sites, products, sources, jobs, spent>>
    BY <1>1 DEF LinkSource, Return, Raise
  <1>3. o \in Owner /\ TablesOK
    BY <1>1, <1>2, TaskFacts, InvParts
  <1>4. /\ j \in Job /\ i \in SourceId
        /\ jobs[j] # NoRow => jobs[j].owner = o
    BY <1>1, <1>2, <1>3, TaskFacts DEF JobFound, Formed, TablesOK, TablesTyped
  <1>5. CASE fresh # {} /\ jobs[j] = NoRow
    <2>1. TablesOK' /\ JobsStay /\ TouchesOnly(o)
      BY <1>2, <1>3, <1>5, TablesKept
    <2> QED
      BY <1>1, <1>2, <1>5, <2>1, InvParts, InvPartsNext, TaskOver
  <1>6. CASE ~(fresh # {} /\ jobs[j] = NoRow)
    <2>1. /\ links' = links \cup fresh /\ Become(h, Idle)
          /\ UNCHANGED <<sites, products, sources, jobs, spent>>
      BY <1>2, <1>6
    <2>2. \A l \in fresh : /\ l \in [owner : Owner, job : Job, source : SourceId]
                           /\ l.owner = o /\ l.job = j /\ OwnsJob(l.owner, l.job)
                           /\ [owner |-> l.owner, id |-> l.source] \in sources
      <3>1. {i} \in SUBSET SourceId
        BY <1>4
      <3>2. ASSUME NEW l \in fresh
            PROVE  /\ l \in [owner : Owner, job : Job, source : SourceId]
                   /\ l.owner = o /\ l.job = j
                   /\ [owner |-> l.owner, id |-> l.source] \in sources
        BY <1>3, <1>4, <3>1, <3>2, LinksFacts
      <3>3. fresh # {} => OwnsJob(o, j)
        BY <1>4, <1>6 DEF OwnsJob
      <3> HIDE DEF fresh
      <3> QED
        BY <3>2, <3>3
    <2>3. TablesTyped' /\ SourcesIntact'
      BY <1>3, <2>1, <2>2 DEF TablesOK, TablesTyped, ConfigIntact, SourcesIntact
    <2>4. LinksIntact'
      BY <1>3, <2>1, <2>2 DEF TablesOK, ConfigIntact, LinksIntact, OwnsJob
    <2>5. TablesOK'
      BY <1>3, <2>1, <2>3, <2>4, JobsKept DEF TablesOK, ConfigIntact
    <2>6. \A x : x.owner # o => (x \in links' <=> x \in links)
      BY <2>1, <2>2
    <2>7. TouchesOnly(o)
      BY <1>3, <2>1, <2>6, JobsKept, TouchesByTable
    <2> QED
      BY <1>1, <2>1, <2>5, <2>7, InvParts, InvPartsNext, TaskOver, JobsKept
  <1> QED
    BY <1>5, <1>6

-----------------------------------------------------------------------------
(* add_source() and import_config()                                         *)

\* The next line of an import, and what is left once it is written.
LEMMA TodoFacts ==
    ASSUME NEW s \in Seq(Entry), s # << >>, \A k \in DOMAIN s : EntryValid(s[k])
    PROVE  /\ Head(s) \in Entry /\ EntryValid(Head(s))
           /\ Tail(s) \in Seq(Entry)
           /\ \A k \in DOMAIN Tail(s) : EntryValid(Tail(s)[k])
  <1>1. /\ Head(s) = s[1] /\ 1 \in DOMAIN s /\ s[1] \in Entry
        /\ Tail(s) \in Seq(Entry) /\ Len(Tail(s)) = Len(s) - 1
        /\ \A k \in 1 .. Len(Tail(s)) : Tail(s)[k] = s[k + 1]
    OBVIOUS
  <1>2. \A k \in 1 .. Len(Tail(s)) : k + 1 \in DOMAIN s
    BY <1>1
  <1>3. DOMAIN Tail(s) = 1 .. Len(Tail(s))
    BY <1>1
  <1> QED
    BY <1>1, <1>2, <1>3

\* A line of an import by its kind.
LEMMA EntryKinds ==
    ASSUME NEW e \in Entry
    PROVE  /\ e.kind = "site" => e.name \in Site /\ e.row \in SiteRow
           /\ e.kind = "product" => e.key \in Product
           /\ e.kind = "source" => e.id \in SourceId
  BY DEF Entry

\* The request goes on behind the line that was written.
LEMMA WrittenTask ==
    ASSUME task \in [Handler -> Task], TaskKnown, JobsStay, NEW h \in Handler,
           task[h].at # "idle", task[h].todo # << >>, Written(h)
    PROVE  task' \in [Handler -> Task] /\ TaskKnown'
  <1> DEFINE t == task[h]
             u == [t EXCEPT !.at = "write", !.todo = Tail(t.todo)]
  <1>1. Become(h, u)
    BY DEF Written
  <1>2. t \in Task /\ t.owner \in Owner /\ t.todo \in Seq(Entry)
        /\ \A k \in DOMAIN t.todo : EntryValid(t.todo[k])
    BY DEF TaskKnown, Formed, Task
  <1>3. /\ Tail(t.todo) \in Seq(Entry)
        /\ \A k \in DOMAIN Tail(t.todo) : EntryValid(Tail(t.todo)[k])
    BY <1>2, TodoFacts
  <1>4. u \in Task /\ u.at = "write" /\ u.owner = t.owner /\ u.todo = Tail(t.todo)
    BY <1>2, <1>3 DEF Task
  <1>5. Formed(u)
    BY <1>2, <1>3, <1>4 DEF Formed
  <1> HIDE DEF u
  <1> QED
    BY <1>1, <1>4, <1>5, TaskWrite

\* The request goes on to its next statement with the same lines to write.
LEMMA GotoTask ==
    ASSUME IInv, NEW h \in Handler, NEW pc \in {"policy", "insert"},
           task[h].at # "idle", task[h].todo # << >>,
           Head(task[h].todo).kind = "source", Goto(h, pc), UNCHANGED tables
    PROVE  IInv' /\ \A o \in Owner : TouchesOnly(o)
  <1> DEFINE t == task[h]
             u == [t EXCEPT !.at = pc]
  <1>1. Become(h, u)
    BY DEF Goto
  <1>2. t \in Task /\ Formed(t) /\ t.owner \in Owner
    BY TaskFacts
  <1>3. u \in Task /\ u.at = pc /\ u.owner = t.owner /\ u.todo = t.todo
    BY <1>2 DEF Task
  <1>4. Formed(u)
    BY <1>2, <1>3 DEF Formed
  <1>5. TablesOK' /\ JobsStay /\ \A o \in Owner : TouchesOnly(o)
    BY InvParts, TablesKept
  <1> HIDE DEF u
  <1>6. task' \in [Handler -> Task] /\ TaskKnown'
    BY <1>1, <1>3, <1>4, <1>5, InvParts, TaskWrite
  <1> QED
    BY <1>5, <1>6, InvPartsNext

\* The request ends, or fails, without having written anything.
LEMMA EndStep ==
    ASSUME IInv, NEW h \in Handler, Become(h, Idle), UNCHANGED tables
    PROVE  IInv' /\ \A o \in Owner : TouchesOnly(o)
  <1>1. TablesOK' /\ JobsStay /\ \A o \in Owner : TouchesOnly(o)
    BY InvParts, TablesKept
  <1> QED
    BY <1>1, InvParts, InvPartsNext, TaskOver

\* add_source with one source to write.
LEMMA AddSourceStep ==
    ASSUME IInv, NEW h \in Handler, NEW o \in Owner, NEW i \in SourceId,
           AddSource(h, o, i)
    PROVE  IInv' /\ TouchesOnly(o)
  <1>1. PICK e : e = [kind |-> "source", id |-> i]
    OBVIOUS
  <1>2. e \in Entry /\ EntryValid(e)
    BY <1>1 DEF Entry, EntryValid
  <1> DEFINE t == [Idle EXCEPT !.at = "write", !.todo = <<e>>]
  <1>3. Begin(h, o, t) /\ UNCHANGED tables
    BY <1>1 DEF AddSource
  <1>4. t \in Task /\ t.at = "write" /\ t.todo = <<e>>
    <2>1. <<e>> \in Seq(Entry)
      BY <1>2
    <2> QED
      BY <2>1, IdleTask DEF Task
  <1>5. Formed([t EXCEPT !.owner = o])
    <2>1. LET u == [t EXCEPT !.owner = o]
          IN  u.at = "write" /\ u.owner = o /\ u.todo = <<e>>
      BY <1>4 DEF Task
    <2> QED
      BY <1>2, <2>1 DEF Formed
  <1> HIDE DEF t
  <1> QED
    BY <1>3, <1>4, <1>5, BeginStep

\* import_config: the lines that are left to write were validated.
LEMMA ImportConfigStep ==
    ASSUME IInv, NEW h \in Handler, NEW by \in Owner, NEW o \in Owner,
           NEW b \in Batch, ImportConfig(h, by, o, b)
    PROVE  IInv' /\ TouchesOnly(o)
  <1> DEFINE t == [Idle EXCEPT !.at = "write", !.todo = b, !.import = TRUE]
  <1>1. Begin(h, o, t) /\ UNCHANGED tables /\ Valid(b)
    BY DEF ImportConfig
  <1>2. b \in Seq(Entry)
    BY BatchAssumption
  <1>3. \A k \in DOMAIN b : EntryValid(b[k])
    BY <1>1 DEF Valid, ValidEntry, EntryValid, TierKnown
  <1>4. t \in Task /\ t.at = "write" /\ t.todo = b
    BY <1>2, IdleTask DEF Task
  <1>5. Formed([t EXCEPT !.owner = o])
    <2>1. LET u == [t EXCEPT !.owner = o]
          IN  u.at = "write" /\ u.owner = o /\ u.todo = b
      BY <1>4 DEF Task
    <2> QED
      BY <1>3, <2>1 DEF Formed
  <1> HIDE DEF t
  <1> QED
    BY <1>1, <1>4, <1>5, BeginStep

\* What is known of the line that a request is about to write.
LEMMA HeadFacts ==
    ASSUME IInv, NEW h \in Handler, task[h].at # "idle", task[h].todo # << >>
    PROVE  Head(task[h].todo) \in Entry /\ EntryValid(Head(task[h].todo))
  <1>1. task[h].todo \in Seq(Entry)
        /\ \A k \in DOMAIN task[h].todo : EntryValid(task[h].todo[k])
    BY TaskFacts DEF Formed, Task
  <1> QED
    BY <1>1, TodoFacts

\* An import writes a site.
LEMMA WriteSiteStep ==
    ASSUME IInv, NEW h \in Handler, WriteSite(h)
    PROVE  IInv' /\ TouchesOnly(task[h].owner)
  <1>1. PICK e : e = Head(task[h].todo)
    OBVIOUS
  <1>2. /\ task[h].at = "write" /\ task[h].todo # << >> /\ e.kind = "site"
        /\ UpsertSite(e.name, e.row) /\ Written(h)
        /\ UNCHANGED <<products, sources, jobs, spent, links>>
    BY <1>1 DEF WriteSite, NextIs
  <1>3. e \in Entry /\ EntryValid(e) /\ task[h].owner \in Owner
    BY <1>1, <1>2, HeadFacts, TaskFacts
  <1>4. e.name \in Site /\ e.row \in KnownRow
    BY <1>2, <1>3, EntryKinds DEF EntryValid, SiteRow, KnownRow
  <1>5. TablesOK' /\ JobsStay /\ TouchesOnly(task[h].owner)
    BY <1>2, <1>3, <1>4, InvParts, SiteWrite
  <1>6. task' \in [Handler -> Task] /\ TaskKnown'
    BY <1>2, <1>5, InvParts, WrittenTask
  <1> QED
    BY <1>5, <1>6, InvPartsNext

\* An import writes a product.
LEMMA WriteProductStep ==
    ASSUME IInv, NEW h \in Handler, WriteProduct(h)
    PROVE  IInv' /\ TouchesOnly(task[h].owner)
  <1>1. PICK e : e = Head(task[h].todo)
    OBVIOUS
  <1>2. /\ task[h].at = "write" /\ task[h].todo # << >> /\ e.kind = "product"
        /\ products' = products \cup {[owner |-> task[h].owner, key |-> e.key]}
        /\ Written(h) /\ UNCHANGED <<sites, sources, jobs, spent, links>>
    BY <1>1 DEF WriteProduct, NextIs
  <1>3. e \in Entry /\ task[h].owner \in Owner
    BY <1>1, <1>2, HeadFacts, TaskFacts
  <1>4. e.key \in Product
    BY <1>2, <1>3, EntryKinds
  <1>5. TablesOK' /\ JobsStay /\ TouchesOnly(task[h].owner)
    BY <1>2, <1>3, <1>4, InvParts, ProductWrite
  <1>6. task' \in [Handler -> Task] /\ TaskKnown'
    BY <1>2, <1>5, InvParts, WrittenTask
  <1> QED
    BY <1>5, <1>6, InvPartsNext

\* add_source looks at the site, and then at the domain.
LEMMA LookStep ==
    ASSUME IInv, NEW h \in Handler, LoadRegistry(h) \/ CheckPolicy(h)
    PROVE  IInv' /\ TouchesOnly(task[h].owner)
  <1>1. /\ task[h].at # "idle" /\ UNCHANGED tables
        /\ Become(h, Idle) \/ \E pc \in {"policy", "insert"} : Goto(h, pc)
    BY DEF LoadRegistry, CheckPolicy, NextIs, Raise, Return
  <1>2. task[h].todo # << >> /\ Head(task[h].todo).kind = "source"
    BY <1>1, TaskFacts DEF LoadRegistry, CheckPolicy, NextIs, Formed
  <1>3. task[h].owner \in Owner
    BY <1>1, TaskFacts
  <1> QED
    BY <1>1, <1>2, <1>3, GotoTask, EndStep

\* The row of a source goes in only while its parents exist.
LEMMA InsertSourceStep ==
    ASSUME IInv, NEW h \in Handler, InsertSource(h)
    PROVE  IInv' /\ TouchesOnly(task[h].owner)
  <1>1. PICK o, i : o = task[h].owner /\ i = Head(task[h].todo).id
    OBVIOUS
  <1>2. /\ task[h].at = "insert"
        /\ IF ParentsExist(o, i)
           THEN sources' = sources \cup {[owner |-> o, id |-> i]} /\ Written(h)
           ELSE Become(h, Idle) /\ UNCHANGED sources
        /\ UNCHANGED <<sites, products, jobs, spent, links>>
    BY <1>1 DEF InsertSource, Raise, Return
  <1>3. /\ o \in Owner /\ TablesOK
        /\ task[h].todo # << >> /\ Head(task[h].todo).kind = "source"
    BY <1>1, <1>2, TaskFacts, InvParts DEF Formed
  <1>4. i \in SourceId
    BY <1>1, <1>2, <1>3, HeadFacts, EntryKinds
  <1>5. CASE ~ParentsExist(o, i)
    BY <1>1, <1>2, <1>3, <1>5, EndStep DEF tables
  <1>6. CASE ParentsExist(o, i)
    <2>1. /\ sources' = sources \cup {[owner |-> o, id |-> i]} /\ Written(h)
          /\ UNCHANGED <<sites, products, jobs, spent, links>>
      BY <1>2, <1>6
    <2>2. TablesTyped'
      BY <1>3, <1>4, <2>1 DEF TablesOK, TablesTyped
    <2>3. SourcesIntact'
      <3>1. ASSUME NEW x \in sources'
            PROVE  /\ [owner |-> x.owner, key |-> x.id.product] \in products
                   /\ sites[x.id.site] # NoRow
        <4>1. CASE x \in sources
          BY <1>3, <4>1 DEF TablesOK, ConfigIntact, SourcesIntact
        <4>2. CASE x = [owner |-> o, id |-> i]
          <5>1. x.owner = o /\ x.id = i
            BY <4>2
          <5> QED
            BY <1>6, <5>1 DEF ParentsExist
        <4> QED
          BY <2>1, <3>1, <4>1, <4>2
      <3> QED
        BY <2>1, <3>1 DEF SourcesIntact
    <2>4. LinksIntact'
      BY <1>3, <2>1 DEF TablesOK, ConfigIntact, LinksIntact, OwnsJob
    <2>5. TablesOK'
      BY <1>3, <2>1, <2>2, <2>3, <2>4, JobsKept DEF TablesOK, ConfigIntact
    <2>6. \A x : x.owner # o => (x \in sources' <=> x \in sources)
      BY <2>1
    <2>7. TouchesOnly(o) /\ JobsStay
      BY <1>3, <2>1, <2>6, JobsKept, TouchesByTable
    <2>8. task' \in [Handler -> Task] /\ TaskKnown'
      BY <1>2, <1>3, <2>1, <2>7, InvParts, WrittenTask
    <2> QED
      BY <1>1, <2>5, <2>7, <2>8, InvPartsNext
  <1> QED
    BY <1>5, <1>6

-----------------------------------------------------------------------------
(* The invariant                                                            *)

\* A request that is made for a tenant.
LEMMA RequestStep ==
    ASSUME IInv, NEW h \in Handler, NEW o \in Owner, Request(h, o)
    PROVE  IInv' /\ TouchesOnly(o)
  <1>1. CASE \E s \in Site, r \in SiteRow : AddSite(h, o, s, r)
    <2>1. PICK s \in Site, r \in SiteRow : AddSite(h, o, s, r)
      BY <1>1
    <2>2. /\ r \in KnownRow /\ UpsertSite(s, r) /\ UNCHANGED task
          /\ UNCHANGED <<products, sources, jobs, spent, links>>
      BY <2>1 DEF AddSite, Reply, TierKnown, SiteRow, KnownRow
    <2>3. TablesOK' /\ JobsStay /\ TouchesOnly(o)
      BY <2>2, InvParts, SiteWrite
    <2> QED
      BY <2>2, <2>3, InvParts, InvPartsNext, TaskKept
  <1>2. CASE \E p \in Product : AddProduct(h, o, p)
    <2>1. PICK p \in Product : AddProduct(h, o, p)
      BY <1>2
    <2>2. /\ products' = products \cup {[owner |-> o, key |-> p]}
          /\ UNCHANGED task /\ UNCHANGED <<sites, sources, jobs, spent, links>>
      BY <2>1 DEF AddProduct, Reply
    <2>3. TablesOK' /\ JobsStay /\ TouchesOnly(o)
      BY <2>2, InvParts, ProductWrite
    <2> QED
      BY <2>2, <2>3, InvParts, InvPartsNext, TaskKept
  <1>3. CASE \E p \in Product : FindProduct(h, o, p)
    BY <1>3, FindProductStep
  <1>4. CASE \E i \in SourceId : RemoveSource(h, o, i) \/ AddSource(h, o, i)
    BY <1>4, RemoveSourceStep, AddSourceStep
  <1>5. CASE \E j \in Job, n \in Name, S \in SUBSET SourceId : CreateJob(h, o, j, n, S)
    BY <1>5, CreateJobStep
  <1>6. CASE \E j \in Job, n \in Name : UpdateJob(h, o, j, n)
    BY <1>6, UpdateJobStep
  <1>7. CASE \E j \in Job, i \in SourceId : RemoveJobSource(h, o, j, i)
    BY <1>7, RemoveJobSourceStep
  <1>8. CASE \E j \in Job, i \in SourceId : FindJob(h, o, j, "link", i)
    BY <1>8, FindJobStep
  <1>9. CASE \E j \in Job : FindJob(h, o, j, "delete", NoRow)
    BY <1>9, FindJobStep
  <1>10. CASE \E by \in Owner, b \in Batch : ImportConfig(h, by, o, b)
    BY <1>10, ImportConfigStep
  <1> QED
    BY <1>1, <1>2, <1>3, <1>4, <1>5, <1>6, <1>7, <1>8, <1>9, <1>10 DEF Request

\* A further step of a request, made for the tenant it was made for.
LEMMA HandlerStep ==
    ASSUME IInv, NEW h \in Handler, Step(h)
    PROVE  IInv' /\ task[h].owner \in Owner /\ TouchesOnly(task[h].owner)
  <1>1. task[h].at # "idle"
    BY DEF Step, DropProduct, DropJob, LinkSource, WriteSite, WriteProduct,
           LoadRegistry, CheckPolicy, InsertSource, Finish, StatementFails, NextIs, Free
  <1>2. task[h].owner \in Owner
    BY <1>1, TaskFacts
  <1>3. CASE Finish(h) \/ StatementFails(h)
    BY <1>2, <1>3, EndStep DEF Finish, StatementFails, Return, Raise
  <1> QED
    BY <1>2, <1>3, DropProductStep, DropJobStep, LinkSourceStep, WriteSiteStep,
       WriteProductStep, LookStep, InsertSourceStep DEF Step

\* The empty database of a new deployment.
LEMMA InitInv == Init => IInv
  <1> SUFFICES ASSUME Init PROVE IInv
    OBVIOUS
  <1>1. task \in [Handler -> Task] /\ \A h \in Handler : task[h] = Idle
    BY IdleTask DEF Init
  <1>2. TaskKnown
    BY <1>1, IdleTask DEF TaskKnown, JobFound
  <1>3. TablesTyped /\ SpentOnce
    BY DEF Init, TablesTyped, SpentOnce
  <1>4. ConfigIntact
    BY DEF Init, ConfigIntact, SourcesIntact, LinksIntact, JobNamesUnique
  <1> QED
    BY <1>1, <1>2, <1>3, <1>4, InvParts DEF TablesOK

\* IInv is inductive: every step of every handler keeps it.
THEOREM ConfigInvariant == Spec => []IInv
  <1>1. IInv /\ [Next]_vars => IInv'
    <2> SUFFICES ASSUME IInv, [Next]_vars PROVE IInv'
      OBVIOUS
    <2>1. CASE Next
      BY <2>1, RequestStep, HandlerStep DEF Next
    <2>2. CASE UNCHANGED vars
      <3>1. UNCHANGED tables /\ UNCHANGED task
        BY <2>2 DEF vars
      <3> QED
        BY <3>1, InvParts, InvPartsNext, TablesKept, TaskKept
    <2> QED
      BY <2>1, <2>2
  <1> QED
    BY <1>1, InitInv, PTL DEF Spec

\* The tables and the requests keep their types; in particular no order of
\* requests catalogues a site whose tier the router does not know.
THEOREM TypeCorrect == Spec => []TypeOK
  BY ConfigInvariant, PTL DEF IInv

\* Removals, links and insertions of any number of threads, in any order and
\* with any statement failing, leave no row whose parent is gone, no link
\* across tenants and no two jobs of a tenant with one name.
THEOREM ConfigIntactHolds == Spec => []ConfigIntact
  BY ConfigInvariant, PTL DEF IInv

\* No step of a request made for a tenant touches the rows of another,
\* although ids of sources are shared and cascades go by job id alone.
THEOREM TenantScopedHolds == Spec => TenantScoped
  <1>1. ASSUME IInv, NEW o \in Owner, NEW h \in Handler, NEW other \in Owner \ {o},
               Serves(h, other)
        PROVE  RowsOf(o)' = RowsOf(o)
    <2>1. TouchesOnly(other)
      BY <1>1, RequestStep, HandlerStep DEF Serves
    <2> QED
      BY <2>1 DEF TouchesOnly
  <1>2. IInv => [\A o \in Owner :
                   RowsOf(o)' # RowsOf(o) =>
                       \A h \in Handler, other \in Owner \ {o} : ~Serves(h, other)]_vars
    BY <1>1
  <1> QED
    BY <1>2, ConfigInvariant, PTL DEF TenantScoped

=============================================================================

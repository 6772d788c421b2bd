---------------------------- MODULE RegistryLoad ----------------------------
(***************************************************************************)
(* Reading an owner's registry while others edit it                        *)
(* (kerdoos/registry/sqlite_store.py, load() and iter_sources()): sites,   *)
(* products and sources are read by three SELECT statements, each on its   *)
(* own snapshot of config.db, because Python's sqlite3 opens no            *)
(* transaction for a read. ConfigStore models the writers in full; here    *)
(* each of them is one step.                                               *)
(***************************************************************************)
EXTENDS Naturals, FiniteSetsExt

CONSTANTS
    Source,     \* the sources, by their numbers in the order of load()
    Product,
    Site,
    ProductOf,  \* the product a source hangs on
    SiteOf,     \* the site a source refers to
    MaxEdits    \* bound: edits of the registry that others make

ASSUME RegistryAssumption ==
    /\ Source \subseteq Nat /\ IsFiniteSet(Source)
    /\ ProductOf \in [Source -> Product]
    /\ SiteOf \in [Source -> Site]
    /\ MaxEdits \in Nat

VARIABLES
    sites, products, sources,   \* the rows of config.db
    edits,                      \* edits made so far
    at,                         \* where the reader is
    seen                        \* what it has read

rows == <<sites, products, sources, edits>>

NothingSeen == [sites |-> {}, products |-> {}, sources |-> {}]

-----------------------------------------------------------------------------
(* The other users of config.db                                             *)

Edit == edits < MaxEdits /\ edits' = edits + 1

AddSite(s) ==
    /\ Edit
    /\ s \notin sites
    /\ sites' = sites \cup {s}
    /\ UNCHANGED <<products, sources, at, seen>>

AddProduct(p) ==
    /\ Edit
    /\ p \notin products
    /\ products' = products \cup {p}
    /\ UNCHANGED <<sites, sources, at, seen>>

\* The foreign keys of the sources table.
ParentsExist(r) == ProductOf[r] \in products /\ SiteOf[r] \in sites

AddSource(r) ==
    /\ Edit
    /\ r \notin sources
    /\ ParentsExist(r)
    /\ sources' = sources \cup {r}
    /\ UNCHANGED <<sites, products, at, seen>>

RemoveSource(r) ==
    /\ Edit
    /\ r \in sources
    /\ sources' = sources \ {r}
    /\ UNCHANGED <<sites, products, at, seen>>

\* The sources of a product go with it.
RemoveProduct(p) ==
    /\ Edit
    /\ p \in products
    /\ products' = products \ {p}
    /\ sources' = {r \in sources : ProductOf[r] # p}
    /\ UNCHANGED <<sites, at, seen>>

EditRegistry ==
    \/ \E s \in Site : AddSite(s)
    \/ \E p \in Product : AddProduct(p) \/ RemoveProduct(p)
    \/ \E r \in Source : AddSource(r) \/ RemoveSource(r)

-----------------------------------------------------------------------------
(* load()                                                                   *)

LoadSites ==
    /\ at = "sites"
    /\ seen' = [seen EXCEPT !.sites = sites]
    /\ at' = "products"
    /\ UNCHANGED rows

LoadProducts ==
    /\ at = "products"
    /\ seen' = [seen EXCEPT !.products = products]
    /\ at' = "sources"
    /\ UNCHANGED rows

\* Sources are grouped under the products read before; others are dropped.
LoadSources ==
    /\ at = "sources"
    /\ seen' = [seen EXCEPT !.sources =
         {r \in sources : ProductOf[r] \in seen.products}]
    /\ at' = "loaded"
    /\ UNCHANGED rows

Load == LoadSites \/ LoadProducts \/ LoadSources

\* iter_sources raises a KeyError for a source whose site was not read.
Dangling(r) == SiteOf[r] \notin seen.sites
=============================================================================

--------------------------- MODULE MCConfigStore ---------------------------
(* One shop that moves from one domain to another, one product, two jobs,   *)
(* an administrator and a tenant.                                           *)
EXTENDS ConfigStore, TLC

CONSTANTS alice, bob, shop, monitor, old, new

SiteLine(d, f) ==
    [kind |-> "site", name |-> shop, row |-> [domain |-> d, fetcher |-> f]]
ProductLine == [kind |-> "product", key |-> monitor]
SourceLine(d) ==
    [kind |-> "source", id |-> [product |-> monitor, site |-> shop, url |-> d]]

\* The shop on its old or new domain, with a tier that is installed, not
\* installed or misspelt, and a product whose url is on one of the two; and a
\* product alone.
Files ==
    {<<SiteLine(d, f), ProductLine, SourceLine(u)>> :
        d \in Domain, f \in Fetcher, u \in Url} \cup {<<ProductLine>>}

Symm == Permutations(Handler) \cup Permutations(Job) \cup Permutations(Name)
=============================================================================

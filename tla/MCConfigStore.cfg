SPECIFICATION Spec
CONSTANTS
    alice = alice
    bob = bob
    shop = shop
    monitor = monitor
    old = old
    new = new
    Handler = {h1, h2}
    Owner = {alice, bob}
    Admin = {alice}
    Site = {shop}
    Product = {monitor}
    Domain = {old, new}
    Url = {old}
    Job = {j1, j2}
    Name = {n1, n2}
    Fetcher = {http, uc, uC}
    Known = {http, uc}
    Available = {http}
    Batch <- Files
    Faults = TRUE
    NoRow = NoRow
SYMMETRY Symm
INVARIANTS
    TypeOK
    ConfigIntact
PROPERTIES
    TenantScoped

SPECIFICATION FairSpec
CONSTANTS
    alice = alice
    ghost = ghost
    Handler = {h1, h2}
    Key = {alice, ghost}
    Owner = {alice}
    Admin = {}
    Session = {s1, s2}
    Token = {t1}
    Max = 2
    Window = 2
    RowCap = 1
    MaxLag = 1
    None = None
INVARIANTS
    TypeOK
    AdmittedBounded
    RevokedStaysDead
PROPERTIES
    LoginPossible

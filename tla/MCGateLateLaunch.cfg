SPECIFICATION Spec
CONSTANTS
    a = a
    b = b
    f1 = f1
    f2 = f2
    f3 = f3
    Caller = {a}
    Fetch = {f1}
    CallerOf <- OneFetch
    Setups <- OnlyBrowser
    MaxAbandoned = 1
INVARIANTS
    GateCoversBrowser

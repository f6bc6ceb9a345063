SPECIFICATION Spec
CONSTANTS
    Runs = {r1, r2}
    NoRun = NoRun
    Cookies = {r1, r2}
    CookieOf <- FreshCookies
    Cgroups = {core, leaf, parent, sibling}
    Encloses <- NestedPaths
    Core = core
    NoCgroup = NoCgroup
    TokenTTL = 1
    RunTTL = 2
    TombstoneTTL = 1
    TombstoneMaxEntries = 1
    Requests = {q1}
    Callers = {x1, x2}
    Finishers = {f1}
    Monitor = Monitor
    Violators = {}
    NoRequest = NoRequest
    NoReplay = NoReplay
    MaxReplays = 1
    MaxTime = 1
    core = core
    parent = parent
    leaf = leaf
SYMMETRY Interchangeable
INVARIANTS
    OneCredentialPerRequest

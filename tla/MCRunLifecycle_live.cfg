SPECIFICATION FairSpec
CONSTANTS
    Runs = {r1, r2}
    NoRun = NoRun
    Cookies = {r1, r2}
    CookieOf <- FreshCookies
    Cgroups = {core, leaf}
    Encloses = {}
    Core = core
    NoCgroup = NoCgroup
    TokenTTL = 1
    RunTTL = 1
    TombstoneTTL = 1
    TombstoneMaxEntries = 1
    Requests = {q1}
    Callers = {x1}
    Finishers = {f1}
    Monitor = Monitor
    Violators = {r1}
    NoRequest = NoRequest
    NoReplay = NoReplay
    MaxReplays = 1
    MaxTime = 1
    core = core
    parent = parent
    leaf = leaf
PROPERTIES
    ExpiredRunsEnd
    

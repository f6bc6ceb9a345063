SPECIFICATION MCSpec
CONSTANTS
    Runs = {r1, r2}
    NoRun = NoRun
    Cookies = {r1, r2}
    CookieOf <- FreshCookies
    Cgroups = {core, leaf, sibling}
    Encloses = {}
    Core = core
    NoCgroup = NoCgroup
    TokenTTL = 1
    RunTTL = 2
    TombstoneTTL = 1
    TombstoneMaxEntries = 1
    Requests = {q1, q2}
    Callers = {x1}
    Finishers = {}
    Monitor = Monitor
    Violators = {}
    NoRequest = NoRequest
    NoReplay = NoReplay
    MaxReplays = 2
    MaxTime = 0
    RingSize = 1
    QueueSize = 1
    MaxEvents = 2
    zero = zero
    host = host
    Hosts = {zero, host}
    ZeroHost = zero
    KernelMapCapacity = 4
    MaxUserSpaceRules = 4
    Modes = {"audit", "serve"}
    Bundles <- MCBundles
    Contexts <- MCContexts
    Destinations <- MCDestinations
    DestinationPorts = {1, 2}
    Opens <- MCOpens
    Execs <- MCExecs
    MaxActivations = 1
    CoreCgroups = {"core", "target", "below"}
    Target = "target"
    Below = {"below"}
    MaxMoves = 2
    Headers <- MCHeaders
    MaxLine = 2
    CounterMax = 1
    MaxInput = 5
    MaxChunk = 3
    StreamRequests = {1, 2}
    TicketTTL = 1
    MaxTickets = 1
    MaxConnections = 1
    MaxIssued = 2
    MaxClock = 2
    v1 = v1
    v2 = v2
    Updaters = {u1, u2}
    NoUpdater = NoUpdater
    Images <- MCImages
    Values = {v1, v2}
    NoValue = NoValue
    RuleCapacity = 2
    ProfileCapacity = 1
    MaxRevision = 3
    Claims <- MCClaims
    Facts <- MCFacts
    ReceiptTimes = {1, 2, 3}
    MaxClaims = 2
    MaxSameRun = 2
    BeforeWindow = 1
    AfterWindow = 2
    MinimumScore = 25
    ReadLimit = 3
    MaxSeen = 3
    MaxFacts = 1
SYMMETRY Interchangeable
INVARIANTS
    ServeReportsVerdicts

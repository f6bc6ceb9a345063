SPECIFICATION MCSpec
CONSTANTS
    Runs = {r1, r2}
    Handlers = {h1, h2}
    Keys = {k1, k2}
    NoKey = NoKey
    Bodies = {1, 2}
    BodySize <- MCBodySize
    MaxSequence = 3
    RequestsPerSecond = 2
    CapacityPerRun = 2
    CapacityBytesPerRun = 3
    CapacityBytesTotal = 4
    MaxClock = 2
    WithRelay = TRUE
    MaxRetries = 1
    NoRequest = NoRequest
    NoHandler = NoHandler
    InspectRuns = {"run", "other"}
    Slots = {s1, s2}
    InspectBodies <- MCInspectBodies
    ToolPolicy <- MCTools
    RequestsPerRun = 2
    TrackedRuns = 1
    ApprovalCapacity = 1
    ApprovalTTL = 1
    MaxCheckTime = 1
    MaxAttempts = 4
    MaxGrants = 1
SYMMETRY Symmetry
INVARIANTS
    DroppedIsNotAccepted

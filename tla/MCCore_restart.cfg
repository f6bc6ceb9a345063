SPECIFICATION MCSpec
CHECK_DEADLOCK FALSE
CONSTANTS
    w1 = w1
    Records = {}
    Invalid = {}
    Severity <- MCSeverity
    SizeOf <- MCSizes
    MaxBatch = 3
    SoftLimit = 2
    HardLimit = 5
    QueueCapacity = 2
    RecentCapacity = 2
    RecentBytes = 3
    BatchSize = 2
    PipelineCapacity = 1
    Viewers = {w1}
    Classes = {"info", "high"}
    Wanted <- MCWanted
    Capacity = 2
    ClientQueue = 1
    MaxMessages = 4
    MaxRestarts = 1
    AllowCount = 0
    Workload = TRUE
    DropTypes = {}
    MaxKernelDrops = 1
    MaxRegistrations = 0
INVARIANTS
    NoGapAcrossRestart

SPECIFICATION MCSpec
CHECK_DEADLOCK FALSE
CONSTANTS
    w1 = w1
    Records = {1, 2, 3}
    Invalid = {}
    Severity <- MCSeverity
    SizeOf <- MCSizes
    MaxBatch = 1
    SoftLimit = 4
    HardLimit = 5
    QueueCapacity = 2
    RecentCapacity = 2
    RecentBytes = 9
    BatchSize = 1
    PipelineCapacity = 1
    Viewers = {}
    Classes = {"info", "high"}
    Wanted <- MCWanted
    Capacity = 2
    ClientQueue = 1
    MaxMessages = 1
    MaxRestarts = 1
    AllowCount = 0
    Workload = TRUE
    DropTypes = {}
    MaxKernelDrops = 1
    MaxRegistrations = 0
PROPERTIES
    EvidenceSettles

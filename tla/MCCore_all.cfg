SPECIFICATION MCSpec
CHECK_DEADLOCK FALSE
CONSTANTS
    w1 = w1
    Records = {1, 2, 3, 4}
    Invalid = {4}
    Severity <- MCSeverity
    SizeOf <- MCSizes
    MaxBatch = 3
    SoftLimit = 2
    HardLimit = 5
    QueueCapacity = 2
    RecentCapacity = 2
    RecentBytes = 3
    BatchSize = 2
    PipelineCapacity = 1
    Viewers = {w1}
    Classes = {"info", "high"}
    Wanted <- MCWanted
    Capacity = 2
    ClientQueue = 1
    MaxMessages = 4
    MaxRestarts = 1
    AllowCount = 2
    Workload = TRUE
    DropTypes = {1, 2}
    MaxKernelDrops = 1
    MaxRegistrations = 1
INVARIANTS
    EvidenceBalance
    NoOvertaking
    QuietMeansStored
    CleanExitLosesNothing
    
    DropsNoticedOnce
    StopsInOrder
    ReleasedOnlyRegistered
    
PROPERTIES
    
    ImplementsLiveTail
    CancelEndsSession
    LauncherEnds

CONSTANTS
    c1 = c1
    c2 = c2
    i1 = i1
    a1 = a1
    a2 = a2
    ctl = ctl
    p1 = p1
    None = None
    Controller = ctl
    Imports <- SeedAndOther
    Seeds <- OneSeed
    Accounts <- OneAccount
    ClusterOf <- OneCluster
    Remote <- RemoteFirst
    ClientSets <- AnyClusters
    Pods <- WithPod
    Annotation <- NamesOther
    InitialTokens = 1
    MaxTokens = 1
    MaxSecrets = 2
    MaxEdits = 0
    MaxSourceEdits = 0
    MaxFaults = 1
SPECIFICATION InstallFairSpec
CHECK_DEADLOCK FALSE
INVARIANTS MountedExist
PROPERTIES ControllerReturns BootstrappedImported EventuallyRunning

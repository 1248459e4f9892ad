CONSTANTS
    c1 = c1
    c2 = c2
    i1 = i1
    a1 = a1
    a2 = a2
    ctl = ctl
    p1 = p1
    None = None
    Controller = ctl
    Imports <- TwoSeeds
    Seeds <- TwoSeeds
    Accounts <- TwoAccounts
    ClusterOf <- TwoClusters
    Remote <- RemoteBoth
    ClientSets <- AnyClusters
    Pods <- OnlyController
    Annotation <- NotAnnotated
    InitialTokens = 1
    MaxTokens = 1
    MaxSecrets = 2
    MaxEdits = 1
    MaxSourceEdits = 1
    MaxFaults = 0
SPECIFICATION InstallSpec
SYMMETRY ClusterSymmetry
CONSTRAINT OneChange
CHECK_DEADLOCK FALSE
INVARIANTS InstallTypeOK MountedAsAnnotated ClientsAsAnnounced ClientsReachTheirCluster

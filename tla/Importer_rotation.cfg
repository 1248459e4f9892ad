CONSTANTS
    i1 = i1
    i2 = i2
    a1 = a1
    a2 = a2
    c1 = c1
    c2 = c2
    None = None
    Imports <- OneImport
    Accounts <- OneAccount
    ClusterOf <- OneCluster
    ClientSets <- KnownCluster
    InitialTokens = 1
    MaxTokens = 2
    MaxSecrets = 2
    MaxEdits = 0
    MaxSourceEdits = 3
    MaxFaults = 1
SPECIFICATION FairSpec
PROPERTIES StatusEventuallyAccurate EventuallyImported EventuallyWithdrawn

CONSTANTS
    i1 = i1
    i2 = i2
    a1 = a1
    a2 = a2
    c1 = c1
    c2 = c2
    None = None
    Imports <- OneImport
    Accounts <- TwoAccounts
    ClusterOf <- TwoClusters
    ClientSets <- EitherClusters
    InitialTokens = 1
    MaxTokens = 1
    MaxSecrets = 2
    MaxEdits = 1
    MaxSourceEdits = 1
    MaxFaults = 0
SPECIFICATION FairSpec
PROPERTIES StatusEventuallyAccurate EventuallyImported OrphansCollected

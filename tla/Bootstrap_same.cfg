CONSTANTS
    c1 = c1
    c2 = c2
    n1 = n1
    n2 = n2
    bad = bad
    r1 = r1
    r2 = r2
    r3 = r3
    NoToken = NoToken
    Clusters <- TwoClusters
    Names <- ThreeNames
    ValidNames <- ValidTwo
    Accounts <- AllAccounts
    Runs <- ThreeRuns
    From <- FromSecond
    To <- ToFirst
    SourceName <- NamedBadly
    TargetName <- NamedFirst
    InitialTokens = 0
    MaxTokens = 1
    MaxPolls = 1
    MaxReruns = 1
    MaxUpdates = 0
    MaxEdits = 1
    MaxFaults = 1
SPECIFICATION FairSpec
CHECK_DEADLOCK FALSE
INVARIANTS AnnouncedUsable
PROPERTIES Terminates

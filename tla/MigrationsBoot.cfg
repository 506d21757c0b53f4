SPECIFICATION FairSpec
CONSTANTS
    old = old
    new1 = new1
    new2 = new2
    Instances = {old, new1, new2}
    FilesIn <- RollingDeploy
    ClaimColumns = 3
    MaxCrashes = 2
CHECK_DEADLOCK FALSE
INVARIANTS
    RunOnce
    RecordedMeansApplied
    ServesMigrated
PROPERTIES
    EventuallyServing

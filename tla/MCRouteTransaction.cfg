SPECIFICATION FairSpec
CONSTANTS
    Txns = {t1, t2}
    Routes = {"r1", "r2", "r3", "vpn"}
    Plans <- RunPlans
    Overlaps <- RunOverlaps
    Foreign = {"vpn", "r2"}
    RecoverFirst = TRUE
    DeletesAbsent = TRUE
    MaxFaults = 3
INVARIANTS
    OwnedIsJournaled
    ReportedCleanupIsReal
PROPERTIES
    RoutesAreExact
    CrashIsCleanedUp

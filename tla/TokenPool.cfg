SPECIFICATION Spec
CONSTANTS
    Requests = {r1, r2}
    N = 2
    MaxConsecutiveUse = 1
    DailyMaxRequests = 1
    MaxQuota = 1
    MaxFailures = 1
    MultiTenant = TRUE
SYMMETRY RequestSymmetry
INVARIANTS
    TypeOK
    OverdraftBounded
    DailyLimitKept
    UseBounded

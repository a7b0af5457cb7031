SPECIFICATION Spec
CONSTANTS
    Requests = {r1}
    N = 2
    MaxConsecutiveUse = 2
    DailyMaxRequests = 3
    MaxQuota = 1
    MaxFailures = 1
    MultiTenant = FALSE
INVARIANTS
    FailedTokenCools

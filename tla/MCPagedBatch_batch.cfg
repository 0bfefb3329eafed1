\* Three documents on pages of two, and one that may arrive.
SPECIFICATION BatchSpec
CONSTANTS
    d1 = d1
    d2 = d2
    d3 = d3
    d4 = d4
    Documents = {d1, d2, d3, d4}
    Scripts = FALSE
    Library <- ThreeOfFour
    PageSize = 2
    Limits = {0, 2}
    PoolSize = 2
    MaxForces = 1
    MaxChanges = 1
    MaxFailures = 1
INVARIANTS StandingIsQueued PaidOncePerWrite

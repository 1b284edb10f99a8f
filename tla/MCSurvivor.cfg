SPECIFICATION Safe

CONSTANTS
    leader = leader
    k1 = k1
    Leader = leader
    Kids <- MCKids
    Diagnostics <- MCDiagnostics
    Cap = 2
    StreamLimit = 1
    ResultLimit = 2
    Request = 3
    Jobs <- MCJobs

INVARIANT NoSurvivor

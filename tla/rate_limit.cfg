\* Two requests at a time, two windows of arrivals, late INCRs and lost EXPIREs.
\* No symmetry: it is unsound for liveness.
SPECIFICATION FairSpec
CONSTANTS
    Requests = {r1, r2}
    Limit = 2
    Minute = 2
    MaxWindow = 1
    MaxMade = 4
INVARIANT TypeOK
INVARIANT LimitKept
INVARIANT RefusalsEarned
INVARIANT LeaksExplained
PROPERTY CountersVanish
CHECK_DEADLOCK FALSE

\* Two requests at a time, with expiry, cleanup, disabled accounts and crashes.
\* No symmetry: it is unsound for liveness.
SPECIFICATION FairSpec
CONSTANTS
    None = None
    Requests = {r1, r2}
    Emails = {alice}
    TokenIds = {t1, t2, t3}
INVARIANT TypeOK
INVARIANT RotatedIsDead
INVARIANT OneTokenPerLogin
PROPERTY NeverUsableAgain
PROPERTY RowsAreDeleted
CHECK_DEADLOCK FALSE

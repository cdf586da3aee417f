\* Readers, writers and crashes in two slots.  No symmetry: it is unsound for
\* liveness.
SPECIFICATION FairSpec
CONSTANTS
    None = None
    Clients = {c1, c2}
    Products = {p1, p2}
    Pages = {k1}
    MaxVersion = 2
INVARIANT TypeOK
INVARIANT StaleExplained
PROPERTY StaleIsTemporary
CHECK_DEADLOCK FALSE

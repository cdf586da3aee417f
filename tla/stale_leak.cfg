\* A stale order is cancelled, one request at a time.
SPECIFICATION FairSpec
CONSTANTS
    None = None
    Requests = {r1}
    Users = {alice}
    Admins = {}
    Sellers = {}
    Products = {p1}
    SellerOf <- OneSeller
    OrderIds = {o1}
    Handlers = {"create_order", "cancel_order", "cancel_stale"}
    InitStock <- TwoEach
    InitPrice <- OneEach
    InitCart <- FilledCarts
    Quantities = {1}
    StockValues = {0}
    Prices = {2}
    MAX_RETRIES = 1
    MaxCartRows = 1
    MaxLineQty = 1
    MaxCharges = 3
    MaxStock = 4
INVARIANT Conservation
CHECK_DEADLOCK FALSE

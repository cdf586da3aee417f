\* Two checkouts of the last unit.
SPECIFICATION FairSpec
CONSTANTS
    None = None
    Requests = {r1, r2}
    Users = {alice, bob}
    Admins = {}
    Sellers = {}
    Products = {p1}
    SellerOf <- OneSeller
    OrderIds = {o1, o2}
    Handlers = {"create_order"}
    InitStock <- OneEach
    InitPrice <- OneEach
    InitCart <- FilledCarts
    Quantities = {1}
    StockValues = {0}
    Prices = {2}
    MAX_RETRIES = 1
    MaxCartRows = 1
    MaxLineQty = 1
    MaxCharges = 3
    MaxStock = 4
INVARIANT NoOversell
CHECK_DEADLOCK FALSE

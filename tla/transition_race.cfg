\* Two payments of one order.
SPECIFICATION FairSpec
CONSTANTS
    None = None
    Requests = {r1, r2}
    Users = {alice}
    Admins = {}
    Sellers = {}
    Products = {p1}
    SellerOf <- OneSeller
    OrderIds = {o1}
    Handlers = {"create_order", "process_payment"}
    InitStock <- TwoEach
    InitPrice <- OneEach
    InitCart <- FilledCarts
    Quantities = {1}
    StockValues = {0}
    Prices = {2}
    MAX_RETRIES = 1
    MaxCartRows = 1
    MaxLineQty = 1
    MaxCharges = 1
    MaxStock = 4
PROPERTY LegalTransitions
CHECK_DEADLOCK FALSE

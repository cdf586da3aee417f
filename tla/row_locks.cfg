\* Two checkouts of two products and whatever else locks their rows: every
\* request is answered.  No symmetry: it is unsound for liveness.
SPECIFICATION FairSpec
CONSTANTS
    None = None
    Requests = {r1, r2}
    Users = {alice, bob}
    Admins = {}
    Sellers = {alice}
    Products = {p1, p2}
    SellerOf <- OneSeller
    OrderIds = {o1, o2}
    Handlers = {"create_order", "cancel_order", "delete_product"}
    InitStock <- OneEach
    InitPrice <- OneEach
    InitCart <- FilledCarts
    Quantities = {1}
    StockValues = {}
    Prices = {}
    MAX_RETRIES = 1
    MaxCartRows = 1
    MaxLineQty = 1
    MaxCharges = 3
    MaxStock = 4
PROPERTY RequestsFinish
CHECK_DEADLOCK FALSE

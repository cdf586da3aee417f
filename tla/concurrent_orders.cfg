\* Every handler of orders and payments, two requests at a time, with crashes.
SPECIFICATION Spec
CONSTANTS
    None = None
    Requests = {r1, r2}
    Users = {alice, root}
    Admins = {root}
    Sellers = {}
    Products = {p1}
    SellerOf <- OneSeller
    OrderIds = {o1}
    Handlers = {"create_order", "cancel_order", "update_order_status",
                "process_payment", "cancel_stale", "crash"}
    InitStock <- TwoEach
    InitPrice <- OneEach
    InitCart <- FilledCarts
    Quantities = {1}
    StockValues = {0}
    Prices = {2}
    MAX_RETRIES = 2
    MaxCartRows = 1
    MaxLineQty = 1
    MaxCharges = 3
    MaxStock = 4
SYMMETRY IdSymmetry
INVARIANT PipelineOrder
INVARIANT PaidWasConfirmed
INVARIANT RetriesBounded
CHECK_DEADLOCK FALSE

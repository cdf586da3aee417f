\* Every handler but update_order_status (and no price updates), two requests at a time, with crashes.
SPECIFICATION Spec
CONSTANTS
    None = None
    Requests = {r1, r2}
    Users = {alice}
    Admins = {}
    Sellers = {alice}
    Products = {p1}
    SellerOf <- OneSeller
    OrderIds = {o1}
    Handlers = {"create_order", "cancel_order", "process_payment",
                "cancel_stale", "add_item", "update_item", "remove_item",
                "clear_cart", "update_product", "delete_product", "crash"}
    InitStock <- Zero
    InitPrice <- OneEach
    InitCart <- FilledCarts
    Quantities = {2}
    StockValues = {2}
    Prices = {}
    MAX_RETRIES = 1
    MaxCartRows = 2
    MaxLineQty = 3
    MaxCharges = 2
    MaxStock = 4
SYMMETRY IdSymmetry
INVARIANT StockNonNegative
INVARIANT ConfirmedWasCharged
PROPERTY DeletedRowsStay
CHECK_DEADLOCK FALSE

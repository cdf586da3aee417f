\* Every handler, one request at a time: the guarantees of a single worker.
\* One product keeps two orders, retries and role checks within reach.
SPECIFICATION Spec
CONSTANTS
    None = None
    Requests = {r1}
    Users = {alice, root}
    Admins = {root}
    Sellers = {alice}
    Products = {p1}
    SellerOf <- OneSeller
    OrderIds = {o1, o2}
    Handlers = {"create_order", "cancel_order", "update_order_status",
                "process_payment", "cancel_stale", "add_item",
                "update_item", "remove_item", "clear_cart",
                "update_product", "delete_product"}
    InitStock <- TwoEach
    InitPrice <- OneEach
    InitCart <- EmptyCarts
    Quantities = {1}
    StockValues = {0}
    Prices = {2}
    MAX_RETRIES = 2
    MaxCartRows = 1
    MaxLineQty = 1
    MaxCharges = 4
    MaxStock = 4
SYMMETRY IdSymmetry
INVARIANT TypeOK
INVARIANT NoDoubleCharge
INVARIANT RetryLimit
PROPERTY LegalTransitions
CHECK_DEADLOCK FALSE

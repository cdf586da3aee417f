\* Two products, one request at a time, crashes included: what a checkout makes
\* of the cart and of the stock.  Products are updated in price only.
SPECIFICATION Spec
CONSTANTS
    None = None
    Requests = {r1}
    Users = {alice}
    Admins = {}
    Sellers = {alice}
    Products = {p1, p2}
    SellerOf <- OneSeller
    OrderIds = {o1, o2}
    Handlers = {"create_order", "cancel_order", "add_item",
                "update_item", "remove_item", "clear_cart",
                "update_product", "delete_product", "crash"}
    InitStock <- TwoEach
    InitPrice <- OneEach
    InitCart <- EmptyCarts
    Quantities = {1, 2}
    StockValues = {}
    Prices = {2}
    MAX_RETRIES = 1
    MaxCartRows = 2
    MaxLineQty = 2
    MaxCharges = 3
    MaxStock = 4
SYMMETRY IdSymmetry
INVARIANT Conservation
PROPERTY OrderMatchesCart
PROPERTY PriceAtPurchase
PROPERTY InventoryRefined
CHECK_DEADLOCK FALSE

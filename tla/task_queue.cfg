\* Payments of one order, two at a time, their tasks and one worker; crashes of
\* the API and of the worker, tasks that are not published, SMTP errors.
\* No symmetry: it is unsound for liveness.
SPECIFICATION FairFulfilSpec
CONSTANTS
    None = None
    Requests = {r1, r2}
    Users = {alice}
    Admins = {}
    Sellers = {alice}
    Products = {p1}
    SellerOf <- OneSeller
    OrderIds = {o1}
    Handlers = {"create_order", "process_payment", "crash"}
    InitStock <- OneEach
    InitPrice <- OneEach
    InitCart <- FilledCarts
    Quantities = {1}
    StockValues = {}
    Prices = {}
    MAX_RETRIES = 2
    MaxCartRows = 1
    MaxLineQty = 1
    MaxCharges = 1
    MaxStock = 4
    Workers = {w1}
    MAIL_RETRIES = 1
    EMAIL_ENABLED = TRUE
    MaxDeaths = 1
INVARIANT TasksTyped
INVARIANT NoticeIsTrue
INVARIANT MailsExplained
PROPERTY TasksEnd
PROPERTY PaidIsAnnounced
CHECK_DEADLOCK FALSE

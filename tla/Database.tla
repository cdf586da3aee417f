------------------------------- MODULE Database -------------------------------
(***************************************************************************)
(* The PostgreSQL tables the handlers share, and the ORM session each      *)
(* request in flight works in.                                             *)
(*                                                                         *)
(* A request is a slot of Requests: one API request (app/database.py opens *)
(* one AsyncSession for it) or one run of a Celery task.  Every SQL        *)
(* statement is a step of its own, because PostgreSQL runs them at READ    *)
(* COMMITTED and each statement sees what was committed before it; the     *)
(* flush at the end and its commit are one step, since nobody sees the     *)
(* rows in between.  What a session has read stays in its identity map     *)
(* (ses) until the session ends: a later SELECT of the same row, FOR       *)
(* UPDATE included, does not overwrite the attributes already loaded, and  *)
(* a flush writes the columns whose new value differs from the loaded one, *)
(* as absolute values.                                                     *)
(***************************************************************************)
EXTENDS Integers, OrderState

CONSTANTS
    Requests,       \* request slots: how many handlers run concurrently
    Users,
    Admins,         \* users with UserRole.ADMIN
    Sellers,        \* users with UserRole.SELLER
    Products,
    SellerOf,       \* the seller of each product
    OrderIds,       \* bound: the primary keys orders can be given
    Handlers,       \* the endpoints, tasks and faults exercised
    InitStock,      \* stock of each product at the start
    InitPrice,      \* price of each product at the start
    InitCart,       \* quantity of each product in each user's cart at the start
    Quantities,     \* the quantities a cart request may ask for
    StockValues,    \* the stock levels a product update may set
    Prices,         \* the prices a product update may set
    MAX_RETRIES,    \* failed payment attempts allowed per order
    MaxCartRows,    \* bound: no add_item starts that may insert a row again
    MaxLineQty,     \* bound: an add_item that would exceed it is not continued
    MaxStock,       \* bound: no cancellation starts that would exceed it
    MaxCharges,     \* bound: an order charged this often is not paid for again
    None            \* no row, no owner, no lock holder

ASSUME ConstantsAssumption ==
    /\ Admins \subseteq Users
    /\ Sellers \subseteq Users
    /\ SellerOf \in [Products -> Users]
    /\ InitStock \in [Products -> Nat]
    /\ InitPrice \in [Products -> Nat]
    /\ InitCart \in [Users -> [Products -> Nat]]
    /\ Quantities \subseteq Nat \ {0}
    /\ StockValues \subseteq Nat
    /\ Prices \subseteq Nat
    /\ MAX_RETRIES \in Nat \ {0}
    /\ None \notin Requests \cup Users \cup Products \cup OrderIds

VARIABLES
    stock, price, active,       \* table products, by product
    cart,                       \* table cart_items, by user and product
    status, owner, qty, unit,   \* tables orders and order_items, by order id
    payment,                    \* table payments, by order id
    lock,                       \* holder of each product's row lock
    pc, ses,                    \* progress and identity map of each request
    gateway,                    \* answers the payment gateway gave, by order id
    visited                     \* history: the statuses each order has had

catalog == <<stock, price, active>>
orders  == <<status, owner, qty, unit, visited>>
tables  == <<catalog, cart, orders, payment>>
vars    == <<tables, lock, pc, ses, gateway>>

-------------------------------------------------------------------------------
(***************************************************************************)
(* Rows.  NoRow is the status of an order or payment that does not exist.  *)
(* A cart row is known by its generation: a row deleted and inserted again *)
(* has a new primary key.  qty = 0 means that there is no row.             *)
(***************************************************************************)
NoRow     == "NO_ROW"
NoPayment == [status |-> NoRow, retries |-> 0]
NoLines   == [p \in Products |-> [gen |-> 0, qty |-> 0]]
Zero      == [p \in Products |-> 0]

CartRow    == [gen : Nat, qty : Nat]
PaymentRow == [status : PaymentStatus \cup {NoRow}, retries : Nat]

EmptySession ==
    [user    |-> None,      \* the current user
     order   |-> None,      \* the order the handler works on
     product |-> None,      \* the product the handler works on
     amount  |-> 0,         \* the quantity in the payload
     lines   |-> NoLines,   \* the cart rows loaded
     stock   |-> Zero,      \* the product rows loaded: their stock, ...
     price   |-> Zero,      \* ... their price
     active  |-> FALSE,     \* ... and is_active (of product)
     status  |-> NoRow,     \* the order's status when it was loaded
     payment |-> NoPayment, \* the order's payment when it was loaded
     batch   |-> {}]        \* the orders a cleanup task loaded

Session ==
    [user    : Users \cup {None},
     order   : OrderIds \cup {None},
     product : Products \cup {None},
     amount  : Nat,
     lines   : [Products -> CartRow],
     stock   : [Products -> Int],
     price   : [Products -> Nat],
     active  : BOOLEAN,
     status  : OrderStatus \cup {NoRow},
     payment : PaymentRow,
     batch   : SUBSET OrderIds]

Labels ==
    {"idle",
     "checkout_products", "checkout_lock",
     "cancel_products", "cancel_write", "status_write",
     "pay_payment", "pay_approved", "pay_declined",
     "cleanup_write", "product_write", "product_delete",
     "add_cart", "add_write", "update_products", "update_write",
     "cart_delete"}

-------------------------------------------------------------------------------
(***************************************************************************)
(* Steps of a session.                                                     *)
(***************************************************************************)

\* A free slot takes a request for this handler.
Begin(r, handler) == handler \in Handlers /\ pc[r] = "idle"

\* The session has loaded s and waits for its next statement at label.
Advance(r, label, s) ==
    /\ pc'  = [pc EXCEPT ![r] = label]
    /\ ses' = [ses EXCEPT ![r] = s]

\* Mutant of Finish: the row locks are not given back.
FinishHoldingLocks(r) ==
    /\ pc'  = [pc EXCEPT ![r] = "idle"]
    /\ ses' = [ses EXCEPT ![r] = EmptySession]
    /\ UNCHANGED lock

\* The transaction ends, by commit or rollback, and its row locks with it.
Finish(r) ==
    /\ pc'   = [pc EXCEPT ![r] = "idle"]
    /\ ses'  = [ses EXCEPT ![r] = EmptySession]
    /\ lock' = [p \in Products |-> IF lock[p] = r THEN None ELSE lock[p]]

\* An error response: the transaction is rolled back, nothing is written.
Reject(r) == Finish(r) /\ UNCHANGED <<tables, gateway>>

\* A flush writes a column only if the session changed it.
Flushed(current, loaded, new) == IF new = loaded THEN current ELSE new

\* An UPDATE of a product row waits for the row lock of another transaction.
Writable(r, p) == lock[p] \in {None, r}

\* What a SELECT of the products P puts into the identity map.
Loaded(column, P) == [p \in Products |-> IF p \in P THEN column[p] ELSE 0]

\* The products of a set of cart rows.
InLines(lines) == {p \in Products : lines[p].qty > 0}

\* The order ids of existing rows.
Placed == {o \in OrderIds : status[o] # NoRow}

\* Mutant of ItemsOf: the items are not loaded.
NoItems(o) == {}

\* The items of an order.
ItemsOf(o) == {p \in Products : qty[o][p] > 0}

SetStatus(o, s) ==
    /\ status'  = [status EXCEPT ![o] = s]
    /\ visited' = [visited EXCEPT ![o] = @ \cup {s}]
    /\ UNCHANGED <<owner, qty, unit>>

\* Mutant of CartWithout: the rows are left in the cart.
CartKept(u, lines) == cart

\* DELETE of the cart rows that were loaded, by primary key: a row that is
\* gone or was inserted again since then is left alone.
CartWithout(u, lines) ==
    [cart EXCEPT ![u] =
        [p \in Products |->
            IF lines[p].qty > 0 /\ cart[u][p].gen = lines[p].gen
            THEN [gen |-> cart[u][p].gen, qty |-> 0]
            ELSE cart[u][p]]]

\* The tables are created empty; since then sellers have added the products and
\* customers have filled the carts that a configuration gives.
Init ==
    /\ stock  = InitStock
    /\ price  = InitPrice
    /\ active = [p \in Products |-> TRUE]
    /\ cart   = [u \in Users |-> [p \in Products |->
                    [gen |-> IF InitCart[u][p] > 0 THEN 1 ELSE 0,
                     qty |-> InitCart[u][p]]]]
    /\ status  = [o \in OrderIds |-> NoRow]
    /\ owner   = [o \in OrderIds |-> None]
    /\ qty     = [o \in OrderIds |-> Zero]
    /\ unit    = [o \in OrderIds |-> Zero]
    /\ visited = [o \in OrderIds |-> {}]
    /\ payment = [o \in OrderIds |-> NoPayment]
    /\ gateway = [o \in OrderIds |-> [approved |-> 0, declined |-> 0]]
    /\ lock    = [p \in Products |-> None]
    /\ pc      = [r \in Requests |-> "idle"]
    /\ ses     = [r \in Requests |-> EmptySession]

===============================================================================

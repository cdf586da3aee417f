------------------------------ MODULE OrdersApi -------------------------------
(***************************************************************************)
(* app/api/v1/endpoints/orders.py: checkout, cancellation and the status   *)
(* update, and the hourly task of app/tasks/cleanup_tasks.py that cancels  *)
(* stale orders.  The cache invalidation that follows a commit touches no  *)
(* table and is not part of this module.                                   *)
(***************************************************************************)
EXTENDS Database

-------------------------------------------------------------------------------
(***************************************************************************)
(* create_order.  The cart query loads the rows, then the products behind  *)
(* them (selectinload); only then are the product rows locked.             *)
(***************************************************************************)
\* The order's primary key, a fresh uuid4, is drawn here.
CreateOrderReadCart(r, u, o) ==
    /\ Begin(r, "create_order")
    /\ InLines(cart[u]) # {}                    \* else 400: cart is empty
    /\ status[o] = NoRow
    /\ \A x \in Requests : ses[x].order # o
    /\ Advance(r, "checkout_products",
               [EmptySession EXCEPT !.user = u, !.order = o, !.lines = cart[u]])
    /\ UNCHANGED <<tables, lock, gateway>>

\* Mutant of CreateOrderReadProducts: prices as they were first listed.
CreateOrderReadListed(r) ==
    /\ pc[r] = "checkout_products"
    /\ Advance(r, "checkout_lock",
               [ses[r] EXCEPT !.stock = Loaded(stock, InLines(ses[r].lines)),
                              !.price = Loaded(InitPrice, InLines(ses[r].lines))])
    /\ UNCHANGED <<tables, lock, gateway>>

CreateOrderReadProducts(r) ==
    /\ pc[r] = "checkout_products"
    /\ Advance(r, "checkout_lock",
               [ses[r] EXCEPT !.stock = Loaded(stock, InLines(ses[r].lines)),
                              !.price = Loaded(price, InLines(ses[r].lines))])
    /\ UNCHANGED <<tables, lock, gateway>>

\* The products whose row locks a transaction collects: those of SELECT ...
\* FOR UPDATE in a checkout, those its flush updates in a cancellation.
Wanted(r) ==
    CASE pc[r] = "checkout_lock" -> InLines(ses[r].lines)
      [] pc[r] = "cancel_write"  -> ItemsOf(ses[r].order)
      [] OTHER                   -> {}

\* Rows are locked one after the other.  The identity map keeps what was
\* loaded before: locking does not refresh it.
LockRow(r, p) ==
    /\ p \in Wanted(r)
    /\ lock[p] = None
    /\ lock' = [lock EXCEPT ![p] = r]
    /\ UNCHANGED <<tables, pc, ses, gateway>>

HasLocks(r) == \A p \in Wanted(r) : lock[p] = r

\* Mutants of InStock: one unit too many passes; the rows are compared as they
\* are now, while the commit subtracts from those loaded before.
InStockOffByOne(s) == \A p \in InLines(s.lines) : s.stock[p] + 1 >= s.lines[p].qty
InStockNow(s) == \A p \in InLines(s.lines) : stock[p] >= s.lines[p].qty

\* Every line is in stock: as the products were when the session loaded them.
InStock(s) == \A p \in InLines(s.lines) : s.stock[p] >= s.lines[p].qty

CreateOrderCommit(r) ==
    LET s == ses[r]
        o == s.order
        L == InLines(s.lines)
    IN  /\ pc[r] = "checkout_lock"
        /\ HasLocks(r)
        /\ InStock(s)
        /\ stock' = [p \in Products |->
                        IF p \in L THEN s.stock[p] - s.lines[p].qty
                                   ELSE stock[p]]
        /\ status'  = [status  EXCEPT ![o] = "PENDING"]
        /\ visited' = [visited EXCEPT ![o] = @ \cup {"PENDING"}]
        /\ owner'   = [owner   EXCEPT ![o] = s.user]
        /\ qty'     = [qty     EXCEPT ![o] = [p \in Products |-> s.lines[p].qty]]
        /\ unit'    = [unit    EXCEPT ![o] = s.price]
        /\ cart'    = CartWithout(s.user, s.lines)
        /\ Finish(r)
        /\ UNCHANGED <<price, active, payment, gateway>>

CreateOrderReject(r) ==                         \* 400: insufficient stock
    /\ pc[r] = "checkout_lock"
    /\ HasLocks(r)
    /\ ~InStock(ses[r])
    /\ Reject(r)

\* Two transactions that each hold a row the other wants: PostgreSQL cancels
\* the statement of one of them.
WaitsFor(a, b) == a # b /\ \E p \in Wanted(a) : lock[p] = b

DeadlockVictim(r) ==
    /\ \E C \in SUBSET Requests :
        /\ r \in C
        /\ \A a \in C : /\ \E b \in C : WaitsFor(a, b)
                        /\ \E b \in C : WaitsFor(b, a)
    /\ Reject(r)

-------------------------------------------------------------------------------
(***************************************************************************)
(* cancel_order, by the owner or an admin.  Order and products are loaded  *)
(* by separate SELECTs; db.get answers from the identity map.              *)
(***************************************************************************)
CancelReadOrder(r, u, o) ==
    /\ Begin(r, "cancel_order")
    /\ o \in Placed                             \* else 404
    /\ owner[o] = u \/ u \in Admins             \* else 403
    /\ ValidTransition(status[o], "CANCELLED")  \* else 400
    /\ \A p \in Products : stock[p] + qty[o][p] <= MaxStock
    /\ Advance(r, "cancel_products",
               [EmptySession EXCEPT !.order = o, !.status = status[o]])
    /\ UNCHANGED <<tables, lock, gateway>>

CancelReadProducts(r) ==
    /\ pc[r] = "cancel_products"
    /\ Advance(r, "cancel_write",
               [ses[r] EXCEPT !.stock = Loaded(stock, ItemsOf(ses[r].order))])
    /\ UNCHANGED <<tables, lock, gateway>>

CancelCommit(r) ==
    LET s == ses[r]
        o == s.order
    IN  /\ pc[r] = "cancel_write"
        /\ HasLocks(r)
        /\ stock' = [p \in Products |->
                        IF p \in ItemsOf(o) THEN s.stock[p] + qty[o][p]
                                            ELSE stock[p]]
        /\ SetStatus(o, "CANCELLED")
        /\ Finish(r)
        /\ UNCHANGED <<price, active, cart, payment, gateway>>

-------------------------------------------------------------------------------
(***************************************************************************)
(* update_order_status, by an admin or a seller: any transition the table  *)
(* allows from the status that was loaded.                                 *)
(***************************************************************************)
StatusRead(r, u, o) ==
    /\ Begin(r, "update_order_status")
    /\ u \in Admins \cup Sellers
    /\ o \in Placed
    /\ ALLOWED_TRANSITIONS[status[o]] # {}
    /\ Advance(r, "status_write",
               [EmptySession EXCEPT !.order = o, !.status = status[o]])
    /\ UNCHANGED <<tables, lock, gateway>>

\* Mutant of StatusCommit: the transition is not checked.
StatusCommitUnchecked(r, target) ==
    /\ pc[r] = "status_write"
    /\ SetStatus(ses[r].order, target)
    /\ Finish(r)
    /\ UNCHANGED <<catalog, cart, payment, gateway>>

StatusCommit(r, target) ==
    LET s == ses[r]
    IN  /\ pc[r] = "status_write"
        /\ ValidTransition(s.status, target)
        /\ SetStatus(s.order, Flushed(status[s.order], s.status, target))
        /\ Finish(r)
        /\ UNCHANGED <<catalog, cart, payment, gateway>>

-------------------------------------------------------------------------------
(***************************************************************************)
(* cancel_stale_pending_orders.  Which of the PENDING orders are older     *)
(* than 24 hours is any subset.  Nothing is put back into stock.           *)
(***************************************************************************)
CleanupRead(r, batch) ==
    /\ Begin(r, "cancel_stale")
    /\ batch # {}
    /\ \A o \in batch : status[o] = "PENDING"
    /\ Advance(r, "cleanup_write", [EmptySession EXCEPT !.batch = batch])
    /\ UNCHANGED <<tables, lock, gateway>>

CleanupCommit(r) ==
    LET B == ses[r].batch
    IN  /\ pc[r] = "cleanup_write"
        /\ status'  = [o \in OrderIds |->
                          IF o \in B THEN "CANCELLED" ELSE status[o]]
        /\ visited' = [o \in OrderIds |->
                          IF o \in B THEN visited[o] \cup {"CANCELLED"}
                                     ELSE visited[o]]
        /\ Finish(r)
        /\ UNCHANGED <<catalog, cart, owner, qty, unit, payment, gateway>>

===============================================================================

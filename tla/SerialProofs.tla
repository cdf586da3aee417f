------------------------------ MODULE SerialProofs ------------------------------
(***************************************************************************)
(* What holds of the backend when requests run one at a time, for all      *)
(* users, products and orders: the guarantees of ShopProperties that the   *)
(* code loses when two requests interleave.                                *)
(***************************************************************************)
EXTENDS ShopProofs, SumTheorems

\* One worker that handles one request after the other.
OneAtATime == \A a, b \in Requests : a = b

-------------------------------------------------------------------------------
(***************************************************************************)
(* With nobody else around, what a session has loaded is still so when it  *)
(* writes, and so are the checks it made.                                  *)
(***************************************************************************)
CheckoutLabels == {"checkout_products", "checkout_lock"}
CancelLabels   == {"cancel_products", "cancel_write"}
PayLabels      == {"pay_payment", "pay_approved", "pay_declined"}

\* A session with s loaded that waits for its statement at label.
Fresh(label, s) ==
    /\ label \in CheckoutLabels =>
          /\ s.order \in OrderIds /\ status[s.order] = NoRow
          /\ s.lines = cart[s.user]
          /\ InLines(s.lines) # {}
    /\ label = "checkout_lock" =>
          \A p \in InLines(s.lines) : /\ s.stock[p] = stock[p]
                                      /\ s.price[p] = price[p]
    /\ label \in OrderLabels => s.status = status[s.order]
    /\ label \in CancelLabels => ValidTransition(s.status, "CANCELLED")
    /\ label = "cancel_write" =>
          \A p \in ItemsOf(s.order) : s.stock[p] = stock[p]
    /\ label \in PayLabels => s.status \in Payable
    /\ label \in {"pay_approved", "pay_declined"} => s.payment = payment[s.order]
    /\ label = "cleanup_write" => \A o \in s.batch : status[o] = "PENDING"

FreshInv == \A r \in Requests : Fresh(pc[r], ses[r])

\* The only request reads.
LEMMA FreshRead ==
  ASSUME OneAtATime, IInv, NEW r \in Requests, NEW label \in Labels, NEW s,
         Fresh(label, s), Advance(r, label, s), UNCHANGED tables
  PROVE  FreshInv'
<1>1. ASSUME NEW x \in Requests PROVE Fresh(pc[x], ses[x])'
  <2>1. x = r
    BY DEF OneAtATime
  <2>2. pc'[x] = label /\ ses'[x] = s
    BY <2>1 DEF Advance, IInv, SessionsTyped
  <2>3. UNCHANGED <<stock, price, cart, status, qty, payment>>
    BY DEF tables, catalog, orders
  <2> QED
    BY <2>2, <2>3 DEF Fresh, ItemsOf, InLines
<1> QED
  BY <1>1 DEF FreshInv

\* The only request ends.
LEMMA FreshEnd ==
  ASSUME OneAtATime, IInv, NEW r \in Requests, Finish(r)
  PROVE  FreshInv'
<1>1. ASSUME NEW x \in Requests PROVE Fresh(pc[x], ses[x])'
  <2>1. x = r
    BY DEF OneAtATime
  <2>2. pc'[x] = "idle"
    BY <2>1 DEF Finish, IInv, SessionsTyped
  <2> QED
    BY <2>2
    DEF Fresh, CheckoutLabels, OrderLabels, CancelLabels, PayLabels
<1> QED
  BY <1>1 DEF FreshInv

\* A session at a label that Fresh says nothing of.
LEMMA FreshElsewhere ==
  ASSUME NEW s,
         NEW label \in {"add_cart", "add_write", "update_products",
                        "update_write", "cart_delete", "product_write",
                        "product_delete"}
  PROVE  Fresh(label, s) /\ label \in Labels
BY DEF Fresh, CheckoutLabels, OrderLabels, CancelLabels, PayLabels, Labels

\* What a handler reads first is current when it is read.
LEMMA FreshStart ==
  ASSUME OneAtATime, IInv, NEW r \in Requests, Start(r)
  PROVE  FreshInv'
<1>1. /\ cart \in [Users -> [Products -> CartRow]]
      /\ status \in [OrderIds -> OrderStatus \cup {NoRow}]
  BY DEF IInv, TablesOK, TablesTyped
<1>2. CASE CartRequest(r)
  BY <1>2, FreshRead, FreshElsewhere
  DEF CartRequest, AddItemCheck, UpdateItemRead, RemoveItemRead, ClearCartRead
<1>3. CASE ProductRequest(r)
  BY <1>3, FreshRead, FreshElsewhere
  DEF ProductRequest, UpdateProductRead, DeleteProductRead, LoadProduct
<1>4. ASSUME NEW u \in Users, NEW o \in OrderIds, CreateOrderReadCart(r, u, o)
      PROVE  FreshInv'
  <2> DEFINE s == [EmptySession EXCEPT !.user = u, !.order = o, !.lines = cart[u]]
  <2>1. s.user = u /\ s.order = o /\ s.lines = cart[u]
    BY <1>1, FreshSession DEF Session
  <2>2. /\ InLines(cart[u]) # {} /\ status[o] = NoRow
        /\ Advance(r, "checkout_products", s) /\ UNCHANGED tables
    BY <1>4 DEF CreateOrderReadCart
  <2> HIDE DEF s
  <2>3. Fresh("checkout_products", s)
    BY <2>1, <2>2 DEF Fresh, OrderLabels, CancelLabels, PayLabels
  <2> QED
    BY <2>2, <2>3, FreshRead DEF Labels
<1>5. ASSUME NEW o \in Placed,
             NEW label \in {"cancel_products", "status_write", "pay_payment"},
             label = "cancel_products" => ValidTransition(status[o], "CANCELLED"),
             label = "pay_payment" => status[o] \in Payable,
             Advance(r, label, [EmptySession EXCEPT !.order = o, !.status = status[o]]),
             UNCHANGED tables
      PROVE  FreshInv'
  <2> DEFINE s == [EmptySession EXCEPT !.order = o, !.status = status[o]]
  <2>1. s.order = o /\ s.status = status[o]
    BY <1>1, FreshSession DEF Session, Placed
  <2> HIDE DEF s
  <2>2. Fresh(label, s)
    BY <1>5, <2>1 DEF Fresh, CheckoutLabels, OrderLabels, CancelLabels, PayLabels
  <2> QED
    BY <1>5, <2>2, FreshRead DEF s, Labels
<1>6. ASSUME NEW batch \in SUBSET OrderIds, CleanupRead(r, batch)
      PROVE  FreshInv'
  <2> DEFINE s == [EmptySession EXCEPT !.batch = batch]
  <2>1. s.batch = batch
    BY FreshSession DEF Session
  <2>2. /\ \A o \in batch : status[o] = "PENDING"
        /\ Advance(r, "cleanup_write", s) /\ UNCHANGED tables
    BY <1>6 DEF CleanupRead
  <2> HIDE DEF s
  <2>3. Fresh("cleanup_write", s)
    BY <2>1, <2>2 DEF Fresh, CheckoutLabels, OrderLabels, CancelLabels, PayLabels
  <2> QED
    BY <2>2, <2>3, FreshRead DEF Labels
<1>7. ASSUME NEW u \in Users, NEW o \in OrderIds, CancelReadOrder(r, u, o)
      PROVE  FreshInv'
  BY <1>5, <1>7 DEF CancelReadOrder
<1>8. ASSUME NEW u \in Users, NEW o \in OrderIds, StatusRead(r, u, o)
      PROVE  FreshInv'
  BY <1>5, <1>8 DEF StatusRead
<1>9. ASSUME NEW u \in Users, NEW o \in OrderIds, PayReadOrder(r, u, o)
      PROVE  FreshInv'
  BY <1>5, <1>9 DEF PayReadOrder
<1> QED
  BY <1>2, <1>3, <1>4, <1>6, <1>7, <1>8, <1>9
  DEF Start, OrderRequest, CleanupTask

\* The statements that read the products of a checkout or of a cancellation.
LEMMA FreshProducts ==
  ASSUME OneAtATime, IInv, FreshInv, NEW r \in Requests,
         CreateOrderReadProducts(r) \/ CancelReadProducts(r)
  PROVE  FreshInv'
<1>1. ses[r] \in Session /\ Fresh(pc[r], ses[r])
  BY DEF IInv, SessionOK, FreshInv
<1>2. CASE CreateOrderReadProducts(r)
  <2> DEFINE L == InLines(ses[r].lines)
             s == [ses[r] EXCEPT !.stock = Loaded(stock, L),
                                 !.price = Loaded(price, L)]
  <2>1. /\ pc[r] = "checkout_products"
        /\ Advance(r, "checkout_lock", s) /\ UNCHANGED tables
    BY <1>2 DEF CreateOrderReadProducts
  <2>2. /\ s.user = ses[r].user /\ s.order = ses[r].order
        /\ s.lines = ses[r].lines
        /\ s.stock = Loaded(stock, L) /\ s.price = Loaded(price, L)
    BY <1>1 DEF Session
  <2>3. L \subseteq Products /\ L = InLines(s.lines)
    BY <2>2 DEF InLines
  <2> HIDE DEF s, L
  <2>4. \A p \in L : s.stock[p] = stock[p] /\ s.price[p] = price[p]
    BY <2>2, <2>3 DEF Loaded
  <2>5. Fresh("checkout_lock", s)
    BY <1>1, <2>1, <2>2, <2>3, <2>4
    DEF Fresh, CheckoutLabels, OrderLabels, CancelLabels, PayLabels
  <2> QED
    BY <2>1, <2>5, FreshRead DEF Labels
<1>3. CASE CancelReadProducts(r)
  <2> DEFINE L == ItemsOf(ses[r].order)
             s == [ses[r] EXCEPT !.stock = Loaded(stock, L)]
  <2>1. /\ pc[r] = "cancel_products"
        /\ Advance(r, "cancel_write", s) /\ UNCHANGED tables
    BY <1>3 DEF CancelReadProducts
  <2>2. /\ s.order = ses[r].order /\ s.status = ses[r].status
        /\ s.stock = Loaded(stock, L)
    BY <1>1 DEF Session
  <2>3. L \subseteq Products /\ L = ItemsOf(s.order)
    BY <2>2 DEF ItemsOf
  <2> HIDE DEF s, L
  <2>4. \A p \in L : s.stock[p] = stock[p]
    BY <2>2, <2>3 DEF Loaded
  <2>5. Fresh("cancel_write", s)
    BY <1>1, <2>1, <2>2, <2>3, <2>4
    DEF Fresh, CheckoutLabels, OrderLabels, CancelLabels, PayLabels
  <2> QED
    BY <2>1, <2>5, FreshRead DEF Labels
<1> QED
  BY <1>2, <1>3

\* The gateway answers a payment.
LEMMA FreshGateway ==
  ASSUME OneAtATime, IInv, FreshInv, NEW r \in Requests,
         NEW answer \in {"approved", "declined"}, PayGateway(r, answer)
  PROVE  FreshInv'
<1> DEFINE o     == ses[r].order
           s     == [ses[r] EXCEPT !.payment = payment[o]]
           label == IF answer = "approved" THEN "pay_approved"
                                           ELSE "pay_declined"
<1>1. /\ pc[r] = "pay_payment"
      /\ Advance(r, label, s) /\ UNCHANGED tables
  BY DEF PayGateway
<1>2. ses[r] \in Session /\ Fresh(pc[r], ses[r])
  BY DEF IInv, SessionOK, FreshInv
<1>3. s.order = o /\ s.status = ses[r].status /\ s.payment = payment[o]
  BY <1>2 DEF Session
<1>4. label \in {"pay_approved", "pay_declined"}
  OBVIOUS
<1> HIDE DEF s, label
<1>5. Fresh(label, s)
  BY <1>1, <1>2, <1>3, <1>4
  DEF Fresh, CheckoutLabels, OrderLabels, CancelLabels, PayLabels
<1> QED
  BY <1>1, <1>4, <1>5, FreshRead DEF Labels

\* It stays current, as the only request goes on or ends.
LEMMA FreshContinue ==
  ASSUME OneAtATime, IInv, FreshInv, NEW r \in Requests, Continue(r)
  PROVE  FreshInv'
<1>1. CASE CartStep(r)
  <2>1. CASE AddItemReadCart(r) \/ UpdateItemReadProducts(r)
    BY <2>1, FreshRead, FreshElsewhere DEF AddItemReadCart, UpdateItemReadProducts
  <2>2. CASE ~(AddItemReadCart(r) \/ UpdateItemReadProducts(r))
    BY <1>1, <2>2, FreshEnd
    DEF CartStep, AddItemUpdate, AddItemInsert, AddItemConflict,
        UpdateItemReject, UpdateItemCommit, UpdateItemConflict,
        CartDeleteCommit, Reject
  <2> QED
    BY <2>1, <2>2
<1>2. CASE OrderStep(r)
  <2>1. CASE CreateOrderReadProducts(r) \/ CancelReadProducts(r)
    BY <2>1, FreshProducts
  <2>2. CASE \E p \in Products : LockRow(r, p)
    <3>1. UNCHANGED <<stock, price, cart, status, qty, payment, pc, ses>>
      BY <2>2 DEF LockRow, tables, catalog, orders
    <3> QED
      BY <3>1 DEF FreshInv, Fresh, ItemsOf, InLines
  <2>3. CASE \/ CreateOrderCommit(r) \/ CreateOrderReject(r) \/ CancelCommit(r)
             \/ DeadlockVictim(r) \/ CleanupCommit(r)
             \/ \E target \in OrderStatus : StatusCommit(r, target)
    BY <2>3, FreshEnd
    DEF CreateOrderCommit, CreateOrderReject, CancelCommit, DeadlockVictim,
        CleanupCommit, StatusCommit, Reject
  <2> QED
    BY <1>2, <2>1, <2>2, <2>3 DEF OrderStep
<1>3. CASE PaymentStep(r)
  <2>1. CASE \E answer \in {"approved", "declined"} : PayGateway(r, answer)
    BY <2>1, FreshGateway
  <2>2. CASE \/ PayRejectRetries(r) \/ PayApprovedCommit(r)
             \/ PayDeclinedCommit(r) \/ PayConflict(r)
    BY <2>2, FreshEnd
    DEF PayRejectRetries, PayApprovedCommit, PayDeclinedCommit, PayConflict, Reject
  <2> QED
    BY <1>3, <2>1, <2>2 DEF PaymentStep
<1>4. CASE ProductStep(r)
  BY <1>4, FreshEnd DEF ProductStep, UpdateProductCommit, DeleteProductCommit
<1> QED
  BY <1>1, <1>2, <1>3, <1>4 DEF Continue

\* One request at a time, every session is up to date.
THEOREM AlwaysFresh ==
  ASSUME OneAtATime
  PROVE  Spec => [](IInv /\ FreshInv)
<1>1. Init => FreshInv
  BY DEF Init, FreshInv, Fresh, CheckoutLabels, OrderLabels, CancelLabels, PayLabels
<1>2. IInv /\ FreshInv /\ [Next]_vars => FreshInv'
  <2> SUFFICES ASSUME IInv, FreshInv, [Next]_vars PROVE FreshInv'
    OBVIOUS
  <2>1. ASSUME NEW r \in Requests, Crash(r) PROVE FreshInv'
    BY <2>1, FreshEnd DEF Crash, Reject
  <2>2. CASE UNCHANGED vars
    <3>1. UNCHANGED <<stock, price, cart, status, qty, payment, pc, ses>>
      BY <2>2 DEF vars, tables, catalog, orders
    <3> QED
      BY <3>1 DEF FreshInv, Fresh, ItemsOf, InLines
  <2> QED
    BY <2>1, <2>2, FreshStart, FreshContinue DEF Next
<1> QED
  BY <1>1, <1>2, Invariance, PTL DEF Spec

-------------------------------------------------------------------------------
(***************************************************************************)
(* What the writers of an order do when they find it as they loaded it.    *)
(***************************************************************************)
\* Of the writers, only a checkout makes an order; the others give an order
\* that exists a status that its status allows, and leave its items alone.
LEMMA OneWriter ==
  ASSUME IInv, FreshInv, NEW r \in Requests, StatusWriter(r)
  PROVE  \/ /\ CreateOrderCommit(r)
            /\ ses[r].order \in OrderIds \ Placed
            /\ \A a \in OrderIds : a # ses[r].order => status'[a] = status[a]
         \/ /\ \A o \in Placed : LegalStep(status[o], status'[o])
            /\ \A o \in OrderIds \ Placed : status'[o] = NoRow
            /\ UNCHANGED <<owner, qty, unit>>
<1> DEFINE s == ses[r]
           o == ses[r].order
<1>1. /\ Fresh(pc[r], s) /\ SessionOK(pc[r], s)
      /\ status \in [OrderIds -> OrderStatus \cup {NoRow}]
  BY DEF FreshInv, IInv, TablesOK, TablesTyped
<1>2. CASE CreateOrderCommit(r)
  <2>1. /\ pc[r] = "checkout_lock"
        /\ status' = [status EXCEPT ![o] = "PENDING"]
    BY <1>2 DEF CreateOrderCommit
  <2> QED
    BY <1>1, <1>2, <2>1 DEF Fresh, CheckoutLabels, Placed
<1>3. ASSUME pc[r] \in OrderLabels, NEW x, SetStatus(o, x), LegalStep(status[o], x)
      PROVE  /\ \A a \in Placed : LegalStep(status[a], status'[a])
             /\ \A a \in OrderIds \ Placed : status'[a] = NoRow
             /\ UNCHANGED <<owner, qty, unit>>
  <2>1. o \in Placed
    BY <1>1, <1>3 DEF SessionOK
  <2>2. ASSUME NEW a \in OrderIds
        PROVE  status'[a] = IF a = o THEN x ELSE status[a]
    BY <1>1, <1>3 DEF SetStatus
  <2> QED
    BY <1>3, <2>1, <2>2 DEF SetStatus, LegalStep, Placed
<1>4. CASE CancelCommit(r)
  <2>1. pc[r] = "cancel_write" /\ SetStatus(o, "CANCELLED")
    BY <1>4 DEF CancelCommit
  <2>2. LegalStep(status[o], "CANCELLED")
    BY <1>1, <2>1 DEF Fresh, OrderLabels, CancelLabels, LegalStep
  <2> QED
    BY <1>3, <2>1, <2>2 DEF OrderLabels
<1>5. ASSUME NEW target \in OrderStatus, StatusCommit(r, target)
      PROVE  /\ \A a \in Placed : LegalStep(status[a], status'[a])
             /\ \A a \in OrderIds \ Placed : status'[a] = NoRow
             /\ UNCHANGED <<owner, qty, unit>>
  <2>1. /\ pc[r] = "status_write" /\ ValidTransition(s.status, target)
        /\ SetStatus(o, Flushed(status[o], s.status, target))
    BY <1>5 DEF StatusCommit
  <2>2. s.status = status[o]
    BY <1>1, <2>1 DEF Fresh, OrderLabels
  <2>3. LegalStep(status[o], Flushed(status[o], s.status, target))
    BY <2>1, <2>2 DEF LegalStep, Flushed
  <2> QED
    BY <1>3, <2>1, <2>3 DEF OrderLabels
<1>6. CASE PayApprovedCommit(r)
  <2>1. /\ pc[r] = "pay_approved" /\ ValidTransition(s.status, "PAYMENT_SUCCESS")
        /\ SetStatus(o, "ORDER_CONFIRMED")
    BY <1>6 DEF PayApprovedCommit
  <2>2. LegalStep(status[o], "ORDER_CONFIRMED")
    BY <1>1, <2>1 DEF Fresh, OrderLabels, LegalStep
  <2> QED
    BY <1>3, <2>1, <2>2 DEF OrderLabels
<1>7. CASE PayDeclinedCommit(r)
  <2>1. /\ pc[r] = "pay_declined" /\ ValidTransition(s.status, "PAYMENT_FAILED")
        /\ SetStatus(o, Flushed(status[o], s.status, "PAYMENT_FAILED"))
    BY <1>7 DEF PayDeclinedCommit
  <2>2. s.status = status[o]
    BY <1>1, <2>1 DEF Fresh, OrderLabels
  <2>3. LegalStep(status[o], Flushed(status[o], s.status, "PAYMENT_FAILED"))
    BY <2>1, <2>2 DEF LegalStep, Flushed
  <2> QED
    BY <1>3, <2>1, <2>3 DEF OrderLabels
<1>8. CASE CleanupCommit(r)
  <2>1. /\ pc[r] = "cleanup_write"
        /\ \A a \in OrderIds :
              status'[a] = IF a \in s.batch THEN "CANCELLED" ELSE status[a]
        /\ UNCHANGED <<owner, qty, unit>>
    BY <1>8 DEF CleanupCommit
  <2>2. /\ \A a \in s.batch : status[a] = "PENDING"
        /\ s.batch \subseteq Placed
    BY <1>1, <2>1 DEF Fresh, SessionOK
  <2>3. LegalStep("PENDING", "CANCELLED")
    BY DEF LegalStep, ValidTransition, ALLOWED_TRANSITIONS
  <2>4. \A a \in Placed : LegalStep(status[a], status'[a])
    BY <2>1, <2>2, <2>3 DEF LegalStep, Placed
  <2>5. \A a \in OrderIds \ Placed : status'[a] = NoRow
    BY <2>1, <2>2 DEF Placed
  <2> QED
    BY <2>1, <2>4, <2>5
<1> QED
  BY <1>2, <1>4, <1>5, <1>6, <1>7, <1>8 DEF StatusWriter

\* The steps of the backend, seen from the orders.
LEMMA OrdersNext ==
  ASSUME IInv, FreshInv, [Next]_vars
  PROVE  \/ \E r \in Requests :
               /\ CreateOrderCommit(r)
               /\ ses[r].order \in OrderIds \ Placed
               /\ \A a \in OrderIds : a # ses[r].order => status'[a] = status[a]
         \/ /\ \A o \in Placed : LegalStep(status[o], status'[o])
            /\ \A o \in OrderIds \ Placed : status'[o] = NoRow
            /\ UNCHANGED <<owner, qty, unit>>
<1>1. CASE UNCHANGED orders
  BY <1>1 DEF orders, LegalStep, Placed
<1>2. ASSUME NEW r \in Requests, StatusWriter(r)
      PROVE  \/ \E x \in Requests :
                   /\ CreateOrderCommit(x)
                   /\ ses[x].order \in OrderIds \ Placed
                   /\ \A a \in OrderIds : a # ses[x].order => status'[a] = status[a]
             \/ /\ \A o \in Placed : LegalStep(status[o], status'[o])
                /\ \A o \in OrderIds \ Placed : status'[o] = NoRow
                /\ UNCHANGED <<owner, qty, unit>>
  <2>1. \/ /\ CreateOrderCommit(r)
           /\ ses[r].order \in OrderIds \ Placed
           /\ \A a \in OrderIds : a # ses[r].order => status'[a] = status[a]
        \/ /\ \A o \in Placed : LegalStep(status[o], status'[o])
           /\ \A o \in OrderIds \ Placed : status'[o] = NoRow
           /\ UNCHANGED <<owner, qty, unit>>
    BY <1>2, OneWriter
  <2> QED
    BY <2>1
<1>3. UNCHANGED orders \/ \E r \in Requests : StatusWriter(r)
  <2>1. CASE UNCHANGED vars
    BY <2>1 DEF vars, tables
  <2>2. CASE Next
    BY <2>2, OrderWriters DEF Next
  <2> QED
    BY <2>1, <2>2
<1> QED
  BY <1>1, <1>2, <1>3

\* One request at a time, no order takes a step that ALLOWED_TRANSITIONS does
\* not have, whoever sets its status.
THEOREM TransitionsLegal ==
  ASSUME OneAtATime
  PROVE  Spec => LegalTransitions
<1>1. IInv /\ FreshInv /\ [Next]_vars
         => [\A o \in Placed : LegalStep(status[o], status'[o])]_vars
  <2> SUFFICES ASSUME IInv, FreshInv, [Next]_vars
               PROVE  \A o \in Placed : LegalStep(status[o], status'[o])
    OBVIOUS
  <2> QED
    BY OrdersNext DEF LegalStep, Placed
<1> QED
  BY <1>1, AlwaysFresh, PTL DEF Spec, LegalTransitions

\* One request at a time, an order has exactly the rows that its owner's cart
\* had when it was committed, and those rows are gone.
THEOREM CartIsOrdered ==
  ASSUME OneAtATime
  PROVE  Spec => OrderMatchesCart
<1>1. IInv /\ FreshInv /\ [Next]_vars
         => [\A o \in NewOrders : \A p \in Products :
                /\ qty'[o][p] = cart[owner'[o]][p].qty
                /\ cart'[owner'[o]][p].qty = 0]_vars
  <2> SUFFICES ASSUME IInv, FreshInv, [Next]_vars,
                      NEW o \in NewOrders, NEW p \in Products
               PROVE  /\ qty'[o][p] = cart[owner'[o]][p].qty
                      /\ cart'[owner'[o]][p].qty = 0
    OBVIOUS
  <2>1. PICK r \in Requests : CreateOrderCommit(r) /\ ses[r].order = o
    BY OrdersNext DEF NewOrders, Placed
  <2> DEFINE s == ses[r]
  <2>2. /\ s \in Session /\ s.user \in Users /\ o \in OrderIds
        /\ s.lines = cart[s.user]
    BY <2>1
    DEF CreateOrderCommit, IInv, SessionOK, UserLabels, FreshInv, Fresh,
        CheckoutLabels
  <2>3. /\ owner \in [OrderIds -> Users \cup {None}]
        /\ qty \in [OrderIds -> [Products -> Nat]]
        /\ cart \in [Users -> [Products -> CartRow]]
    BY DEF IInv, TablesOK, TablesTyped
  <2>4. /\ owner' = [owner EXCEPT ![o] = s.user]
        /\ qty'   = [qty EXCEPT ![o] = [x \in Products |-> s.lines[x].qty]]
        /\ cart'  = CartWithout(s.user, s.lines)
    BY <2>1 DEF CreateOrderCommit
  <2>5. owner'[o] = s.user /\ qty'[o][p] = cart[s.user][p].qty
    BY <2>2, <2>3, <2>4
  <2>6. cart[s.user][p].qty \in Nat
    BY <2>2, <2>3 DEF CartRow
  <2>7. cart'[s.user][p].qty = 0
    BY <2>2, <2>3, <2>4, <2>6 DEF CartWithout
  <2> QED
    BY <2>5, <2>7
<1> QED
  BY <1>1, AlwaysFresh, PTL DEF Spec, OrderMatchesCart

\* One request at a time, every item of a new order is sold at the price its
\* product has when the order is committed.
THEOREM PriceIsCurrent ==
  ASSUME OneAtATime
  PROVE  Spec => PriceAtPurchase
<1>1. IInv /\ FreshInv /\ [Next]_vars
         => [\A o \in NewOrders : \A p \in Products :
                qty'[o][p] > 0 => unit'[o][p] = price[p]]_vars
  <2> SUFFICES ASSUME IInv, FreshInv, [Next]_vars, NEW o \in NewOrders,
                      NEW p \in Products, qty'[o][p] > 0
               PROVE  unit'[o][p] = price[p]
    OBVIOUS
  <2>1. PICK r \in Requests : CreateOrderCommit(r) /\ ses[r].order = o
    BY OrdersNext DEF NewOrders, Placed
  <2> DEFINE s == ses[r]
  <2>2. /\ o \in OrderIds
        /\ \A x \in InLines(s.lines) : s.price[x] = price[x]
    BY <2>1 DEF CreateOrderCommit, FreshInv, Fresh, CheckoutLabels
  <2>3. /\ qty \in [OrderIds -> [Products -> Nat]]
        /\ unit \in [OrderIds -> [Products -> Nat]]
    BY DEF IInv, TablesOK, TablesTyped
  <2>4. /\ qty'  = [qty EXCEPT ![o] = [x \in Products |-> s.lines[x].qty]]
        /\ unit' = [unit EXCEPT ![o] = s.price]
    BY <2>1 DEF CreateOrderCommit
  <2>5. p \in InLines(s.lines)
    BY <2>2, <2>3, <2>4 DEF InLines
  <2> QED
    BY <2>2, <2>3, <2>4, <2>5
<1> QED
  BY <1>1, AlwaysFresh, PTL DEF Spec, PriceAtPurchase

-------------------------------------------------------------------------------
(***************************************************************************)
(* Charges and declined attempts, one request at a time and when none is   *)
(* cut off between the gateway's answer and its commit: what the gateway   *)
(* has answered for an order and what its rows say differ only while the   *)
(* request that got the answer is about to write it.                       *)
(***************************************************************************)
Settled == {"PAYMENT_SUCCESS", "ORDER_CONFIRMED", "SHIPPED", "DELIVERED",
            "CANCELLED"}

At(label, o) == \E r \in Requests : pc[r] = label /\ ses[r].order = o

MoneyInv ==
    \A o \in OrderIds :
        /\ gateway[o].approved <= 1
        /\ gateway[o].approved = 1 =>
              status[o] \in Settled \/ At("pay_approved", o)
        /\ gateway[o].declined =
              payment[o].retries + (IF At("pay_declined", o) THEN 1 ELSE 0)

\* No order that is paid for, or can no longer be, becomes payable again.
LEMMA SettledStays ==
  ASSUME NEW old \in Settled, NEW new, LegalStep(old, new)
  PROVE  new \in Settled
BY DEF Settled, LegalStep, ValidTransition, ALLOWED_TRANSITIONS

\* Whether the statement of the only request at label is about order o.
LEMMA OnlyAt ==
  ASSUME OneAtATime, NEW r \in Requests, NEW label, NEW o
  PROVE  At(label, o) <=> pc[r] = label /\ ses[r].order = o
BY DEF OneAtATime, At

\* The same after a step.
LEMMA OnlyAtNext ==
  ASSUME OneAtATime, NEW r \in Requests, NEW label, NEW o
  PROVE  At(label, o)' <=> pc'[r] = label /\ ses'[r].order = o
BY DEF OneAtATime, At

\* A step of r that neither asks the gateway nor follows its answer.
Quiet(r) ==
    /\ pc[r] \notin {"pay_approved", "pay_declined"}
    /\ pc'[r] \notin {"pay_approved", "pay_declined"}
    /\ UNCHANGED <<payment, gateway>>

\* Such a step keeps the invariant.
LEMMA MoneyElse ==
  ASSUME OneAtATime, IInv, FreshInv, MoneyInv, [Next]_vars, NEW r \in Requests,
         Quiet(r)
  PROVE  MoneyInv'
<1>1. ASSUME NEW o \in OrderIds
      PROVE  /\ gateway'[o].approved <= 1
             /\ gateway'[o].approved = 1 =>
                   status'[o] \in Settled \/ At("pay_approved", o)'
             /\ gateway'[o].declined =
                   payment'[o].retries + (IF At("pay_declined", o)' THEN 1 ELSE 0)
  <2>1. /\ ~At("pay_approved", o) /\ ~At("pay_declined", o)
        /\ ~At("pay_approved", o)' /\ ~At("pay_declined", o)'
    BY OnlyAt, OnlyAtNext DEF Quiet
  <2>2. CASE status[o] \in Settled
    <3>1. o \in Placed
      BY <2>2 DEF Settled, Placed, NoRow
    <3>2. LegalStep(status[o], status'[o])
      BY <3>1, OrdersNext DEF LegalStep
    <3> QED
      BY <2>1, <2>2, <3>2, SettledStays DEF MoneyInv, Quiet
  <2>3. CASE status[o] \notin Settled
    BY <2>1, <2>3 DEF MoneyInv, Quiet
  <2> QED
    BY <2>2, <2>3
<1> QED
  BY <1>1 DEF MoneyInv

\* The steps of which that is so.
LEMMA OtherThanMoney ==
  ASSUME IInv, NEW r \in Requests,
         \/ Start(r) \/ CartStep(r) \/ OrderStep(r) \/ ProductStep(r)
         \/ PayRejectRetries(r)
  PROVE  Quiet(r)
<1>1. pc \in [Requests -> Labels]
  BY DEF IInv, SessionsTyped
<1>2. ASSUME pc[r] \notin {"pay_approved", "pay_declined"}, Finish(r),
             UNCHANGED <<payment, gateway>>
      PROVE  Quiet(r)
  BY <1>1, <1>2 DEF Finish, Quiet
<1>3. ASSUME pc[r] \notin {"pay_approved", "pay_declined"}, Reject(r)
      PROVE  Quiet(r)
  BY <1>2, <1>3 DEF Reject, tables
<1>4. ASSUME pc[r] \notin {"pay_approved", "pay_declined"},
             NEW label \in Labels \ {"pay_approved", "pay_declined"}, NEW s,
             Advance(r, label, s), UNCHANGED <<tables, gateway>>
      PROVE  Quiet(r)
  BY <1>1, <1>4 DEF Advance, tables, Quiet
<1>5. CASE CartRequest(r)
  BY <1>4, <1>5
  DEF CartRequest, AddItemCheck, UpdateItemRead, RemoveItemRead, ClearCartRead,
      Begin, Labels
<1>6. CASE OrderRequest(r) \/ CleanupTask(r)
  BY <1>4, <1>6
  DEF OrderRequest, CleanupTask, CreateOrderReadCart, CancelReadOrder, StatusRead,
      PayReadOrder, CleanupRead, Begin, Labels
<1>7. CASE ProductRequest(r)
  BY <1>4, <1>7
  DEF ProductRequest, UpdateProductRead, DeleteProductRead, LoadProduct, Begin,
      Labels
<1>8. CASE CartStep(r)
  <2>1. CASE AddItemReadCart(r) \/ UpdateItemReadProducts(r)
    BY <1>4, <2>1 DEF AddItemReadCart, UpdateItemReadProducts, Labels
  <2>2. CASE AddItemConflict(r) \/ UpdateItemReject(r) \/ UpdateItemConflict(r)
    BY <1>3, <2>2 DEF AddItemConflict, UpdateItemReject, UpdateItemConflict
  <2>3. CASE \/ AddItemUpdate(r) \/ AddItemInsert(r) \/ UpdateItemCommit(r)
             \/ CartDeleteCommit(r)
    BY <1>2, <2>3
    DEF AddItemUpdate, AddItemInsert, UpdateItemCommit, CartDeleteCommit
  <2> QED
    BY <1>8, <2>1, <2>2, <2>3 DEF CartStep
<1>9. CASE OrderStep(r)
  <2>1. CASE CreateOrderReadProducts(r) \/ CancelReadProducts(r)
    BY <1>4, <2>1 DEF CreateOrderReadProducts, CancelReadProducts, Labels
  <2>2. ASSUME Wanted(r) # {} PROVE pc[r] \notin {"pay_approved", "pay_declined"}
    BY <2>2 DEF Wanted
  <2>3. CASE CreateOrderReject(r) \/ DeadlockVictim(r)
    BY <1>3, <2>2, <2>3 DEF CreateOrderReject, DeadlockVictim, WaitsFor
  <2>4. CASE \E p \in Products : LockRow(r, p)
    <3>1. Wanted(r) # {} /\ UNCHANGED <<pc, payment, gateway>>
      BY <2>4 DEF LockRow, tables
    <3> QED
      BY <2>2, <3>1 DEF Quiet
  <2>5. CASE \/ CreateOrderCommit(r) \/ CancelCommit(r) \/ CleanupCommit(r)
             \/ \E target \in OrderStatus : StatusCommit(r, target)
    BY <1>2, <2>5 DEF CreateOrderCommit, CancelCommit, CleanupCommit, StatusCommit
  <2> QED
    BY <1>9, <2>1, <2>3, <2>4, <2>5 DEF OrderStep
<1>10. CASE ProductStep(r)
  BY <1>2, <1>10 DEF ProductStep, UpdateProductCommit, DeleteProductCommit
<1>11. CASE PayRejectRetries(r)
  BY <1>3, <1>11 DEF PayRejectRetries
<1> QED
  BY <1>5, <1>6, <1>7, <1>8, <1>9, <1>10, <1>11 DEF Start

\* The gateway is only asked about an order that is still to be paid for.
LEMMA MoneyGateway ==
  ASSUME OneAtATime, IInv, FreshInv, MoneyInv, NEW r \in Requests,
         NEW answer \in {"approved", "declined"}, PayGateway(r, answer)
  PROVE  MoneyInv'
<1> DEFINE o     == ses[r].order
           s     == [ses[r] EXCEPT !.payment = payment[o]]
           label == IF answer = "approved" THEN "pay_approved"
                                           ELSE "pay_declined"
<1>1. /\ pc[r] = "pay_payment"
      /\ pc'  = [pc EXCEPT ![r] = label]
      /\ ses' = [ses EXCEPT ![r] = s]
      /\ gateway' = [gateway EXCEPT ![o][answer] = @ + 1]
      /\ UNCHANGED <<status, payment>>
  BY DEF PayGateway, Advance, tables, orders
<1>2. /\ ses[r] \in Session /\ o \in OrderIds
      /\ gateway \in [OrderIds -> [approved : Nat, declined : Nat]]
      /\ payment \in [OrderIds -> PaymentRow]
      /\ pc \in [Requests -> Labels] /\ ses \in [Requests -> Session]
  BY <1>1
  DEF IInv, SessionOK, OrderLabels, Placed, TablesOK, TablesTyped, SessionsTyped
<1>3. status[o] \notin Settled
  <2>1. Fresh(pc[r], ses[r])
    BY DEF FreshInv
  <2> QED
    BY <1>1, <2>1 DEF Fresh, OrderLabels, PayLabels, Payable, Settled
<1>4. pc'[r] = label /\ ses'[r].order = o
  <2>1. s.order = o
    BY <1>2 DEF Session
  <2> HIDE DEF s, label
  <2> QED
    BY <1>1, <1>2, <2>1
<1>5. ASSUME NEW a \in OrderIds
      PROVE  /\ gateway'[a].approved <= 1
             /\ gateway'[a].approved = 1 =>
                   status'[a] \in Settled \/ At("pay_approved", a)'
             /\ gateway'[a].declined =
                   payment'[a].retries + (IF At("pay_declined", a)' THEN 1 ELSE 0)
  <2>1. ~At("pay_approved", a) /\ ~At("pay_declined", a)
    BY <1>1, OnlyAt
  <2>2. /\ At("pay_approved", a)' <=> label = "pay_approved" /\ o = a
        /\ At("pay_declined", a)' <=> label = "pay_declined" /\ o = a
    BY <1>4, OnlyAtNext
  <2>3. /\ gateway[a] \in [approved : Nat, declined : Nat]
        /\ payment[a].retries \in Nat
    BY <1>2 DEF PaymentRow
  <2>4. /\ gateway[a].approved <= 1
        /\ gateway[a].approved = 1 => status[a] \in Settled
        /\ gateway[a].declined = payment[a].retries
    BY <2>1, <2>3 DEF MoneyInv
  <2>5. CASE a = o
    <3>1. gateway'[a] = [gateway[a] EXCEPT ![answer] = @ + 1]
      BY <1>1, <1>2, <2>5
    <3>2. gateway[a].approved = 0
      BY <1>3, <2>3, <2>4, <2>5
    <3>3. CASE answer = "approved"
      <4>1. gateway'[a].approved = 1 /\ gateway'[a].declined = gateway[a].declined
        BY <2>3, <3>1, <3>2, <3>3
      <4> QED
        BY <1>1, <2>2, <2>3, <2>4, <2>5, <3>3, <4>1
    <3>4. CASE answer = "declined"
      <4>1. /\ gateway'[a].approved = 0
            /\ gateway'[a].declined = gateway[a].declined + 1
        BY <2>3, <3>1, <3>2, <3>4
      <4> QED
        BY <1>1, <2>2, <2>3, <2>4, <2>5, <3>4, <4>1
    <3> QED
      BY <3>3, <3>4
  <2>6. CASE a # o
    <3>1. gateway'[a] = gateway[a]
      BY <1>1, <1>2, <2>6
    <3> QED
      BY <1>1, <2>2, <2>3, <2>4, <2>6, <3>1
  <2> QED
    BY <2>5, <2>6
<1> QED
  BY <1>5 DEF MoneyInv

\* The payment row that process_payment found is the one it changes.
LEMMA MoneyCommit ==
  ASSUME OneAtATime, IInv, FreshInv, MoneyInv, [Next]_vars, NEW r \in Requests,
         PayApprovedCommit(r) \/ PayDeclinedCommit(r)
  PROVE  MoneyInv'
<1> DEFINE o == ses[r].order
<1>1. /\ pc[r] \in {"pay_approved", "pay_declined"}
      /\ Finish(r) /\ UNCHANGED gateway
  BY DEF PayApprovedCommit, PayDeclinedCommit
<1>2. /\ o \in OrderIds
      /\ ses[r].payment = payment[o]
      /\ status \in [OrderIds -> OrderStatus \cup {NoRow}]
      /\ payment \in [OrderIds -> PaymentRow]
      /\ gateway \in [OrderIds -> [approved : Nat, declined : Nat]]
  BY <1>1
  DEF IInv, SessionOK, OrderLabels, Placed, TablesOK, TablesTyped, FreshInv, Fresh
<1>3. \A a \in OrderIds : ~At("pay_approved", a)' /\ ~At("pay_declined", a)'
  <2>1. pc'[r] = "idle"
    BY <1>1 DEF Finish, IInv, SessionsTyped
  <2> QED
    BY <2>1, OnlyAtNext
<1>4. /\ pc[r] = "pay_approved" => status'[o] \in Settled
      /\ payment'[o].retries =
            payment[o].retries + (IF pc[r] = "pay_declined" THEN 1 ELSE 0)
      /\ \A a \in OrderIds : a # o => payment'[a] = payment[a]
  <2>1. payment[o].retries \in Nat
    BY <1>2 DEF PaymentRow
  <2>2. CASE PayApprovedCommit(r)
    <3>1. /\ status' = [status EXCEPT ![o] = "ORDER_CONFIRMED"]
          /\ payment' = [payment EXCEPT ![o] =
                PaymentAfter(ses[r], [status  |-> "SUCCESS",
                                      retries |-> ses[r].payment.retries])]
          /\ pc[r] = "pay_approved"
      BY <2>2 DEF PayApprovedCommit, SetStatus
    <3> QED
      BY <1>2, <2>1, <3>1 DEF PaymentAfter, Flushed, Settled
  <2>3. CASE PayDeclinedCommit(r)
    <3>1. /\ payment' = [payment EXCEPT ![o] =
                PaymentAfter(ses[r], [status  |-> "FAILED",
                                      retries |-> ses[r].payment.retries + 1])]
          /\ pc[r] = "pay_declined"
      BY <2>3 DEF PayDeclinedCommit
    <3> QED
      BY <1>2, <2>1, <3>1 DEF PaymentAfter, Flushed
  <2> QED
    BY <2>2, <2>3
<1>5. ASSUME NEW a \in OrderIds
      PROVE  /\ gateway'[a].approved <= 1
             /\ gateway'[a].approved = 1 =>
                   status'[a] \in Settled \/ At("pay_approved", a)'
             /\ gateway'[a].declined =
                   payment'[a].retries + (IF At("pay_declined", a)' THEN 1 ELSE 0)
  <2>1. /\ At("pay_approved", a) <=> pc[r] = "pay_approved" /\ o = a
        /\ At("pay_declined", a) <=> pc[r] = "pay_declined" /\ o = a
    BY OnlyAt
  <2>2. status[a] \in Settled => status'[a] \in Settled
    <3> SUFFICES ASSUME status[a] \in Settled PROVE status'[a] \in Settled
      OBVIOUS
    <3>1. a \in Placed
      BY DEF Settled, Placed, NoRow
    <3>2. LegalStep(status[a], status'[a])
      BY <3>1, OrdersNext DEF LegalStep
    <3> QED
      BY <3>2, SettledStays
  <2>3. payment[a].retries \in Nat /\ payment'[a].retries \in Nat
    BY <1>2, <1>4 DEF PaymentRow
  <2>4. gateway[a].declined =
           payment[a].retries + (IF At("pay_declined", a) THEN 1 ELSE 0)
    BY DEF MoneyInv
  <2>5. gateway'[a].declined = payment'[a].retries
    BY <1>1, <1>4, <2>1, <2>3, <2>4
  <2>6. gateway'[a].approved = 1 => status'[a] \in Settled
    BY <1>1, <1>4, <2>1, <2>2 DEF MoneyInv
  <2> QED
    BY <1>1, <1>3, <2>3, <2>5, <2>6 DEF MoneyInv
<1> QED
  BY <1>5 DEF MoneyInv

\* The inductive invariant of the payments of a single worker that is not cut
\* off.
THEOREM MoneyKept ==
  ASSUME OneAtATime, "crash" \notin Handlers
  PROVE  Spec => [](IInv /\ FreshInv /\ MoneyInv)
<1>1. Init => MoneyInv
  BY DEF Init, MoneyInv, At, NoPayment
<1>2. IInv /\ FreshInv /\ MoneyInv /\ [Next]_vars => MoneyInv'
  <2> SUFFICES ASSUME IInv, FreshInv, MoneyInv, [Next]_vars PROVE MoneyInv'
    OBVIOUS
  <2>1. ASSUME NEW r \in Requests,
               \/ Start(r) \/ CartStep(r) \/ OrderStep(r) \/ ProductStep(r)
               \/ PayRejectRetries(r)
        PROVE  MoneyInv'
    BY <2>1, OtherThanMoney, MoneyElse
  <2>2. ASSUME NEW r \in Requests, PayConflict(r) PROVE MoneyInv'
    BY <2>2 DEF PayConflict, Duplicate, FreshInv, Fresh
  <2>3. ASSUME NEW r \in Requests, PaymentStep(r) PROVE MoneyInv'
    BY <2>1, <2>2, <2>3, MoneyGateway, MoneyCommit DEF PaymentStep
  <2>4. CASE UNCHANGED vars
    BY <2>4 DEF vars, tables, orders, MoneyInv, At
  <2> QED
    BY <2>1, <2>3, <2>4 DEF Next, Continue, Crash
<1> QED
  BY <1>1, <1>2, AlwaysFresh, PTL DEF Spec

\* One request at a time, and when no worker dies between the gateway's answer
\* and the commit, process_payment charges no order twice.
THEOREM NeverChargedTwice ==
  ASSUME OneAtATime, "crash" \notin Handlers
  PROVE  Spec => []NoDoubleCharge
<1>1. IInv /\ FreshInv /\ MoneyInv => NoDoubleCharge
  BY DEF MoneyInv, NoDoubleCharge
<1> QED
  BY <1>1, MoneyKept, PTL

\* Under the same conditions the gateway declines an order MAX_RETRIES times at
\* most: the next attempt is refused before it is asked.
THEOREM DeclinesLimited ==
  ASSUME OneAtATime, "crash" \notin Handlers
  PROVE  Spec => []RetryLimit
<1>1. IInv /\ FreshInv /\ MoneyInv => RetryLimit
  <2> SUFFICES ASSUME IInv, FreshInv, MoneyInv, NEW o \in OrderIds
               PROVE  gateway[o].declined <= MAX_RETRIES
    BY DEF RetryLimit
  <2>1. /\ payment[o].retries \in Nat /\ payment[o].retries <= MAX_RETRIES
        /\ MAX_RETRIES \in Nat
    BY ConstantsAssumption DEF IInv, TablesOK, TablesTyped, RetriesBounded, PaymentRow
  <2>2. CASE At("pay_declined", o)
    <3>1. PICK r \in Requests : pc[r] = "pay_declined" /\ ses[r].order = o
      BY <2>2 DEF At
    <3>2. /\ ses[r].payment.retries < MAX_RETRIES
          /\ ses[r].payment = payment[o]
      BY <3>1 DEF IInv, SessionOK, FreshInv, Fresh
    <3> QED
      BY <2>1, <2>2, <3>2 DEF MoneyInv
  <2>3. CASE ~At("pay_declined", o)
    BY <2>1, <2>3 DEF MoneyInv
  <2> QED
    BY <2>2, <2>3
<1> QED
  BY <1>1, MoneyKept, PTL

-------------------------------------------------------------------------------
(***************************************************************************)
(* Checkout and cancellation implement the atomic inventory, one request   *)
(* at a time and when nothing else moves stock or cancels orders: no       *)
(* update_product that sets a stock, no update_order_status and no cleanup *)
(* task, neither of which gives units back.  Payments and crashes may come *)
(* in between.                                                             *)
(***************************************************************************)
OnlyCheckouts ==
    /\ StockValues = {}
    /\ "cancel_stale" \notin Handlers
    /\ "update_order_status" \notin Handlers

StoreInv ==
    /\ \A o \in Placed : ItemsOf(o) # {}
    /\ \A r \in Requests : pc[r] \notin {"status_write", "cleanup_write"}

\* The units each order holds.
Held == [o \in OrderIds |->
            IF status[o] \in {NoRow, "CANCELLED"} THEN Zero ELSE qty[o]]

\* The steps that move stock.
LEMMA StockWriters ==
  ASSUME StockValues = {}, IInv, NEW r \in Requests,
         Start(r) \/ Continue(r) \/ Crash(r)
  PROVE  UNCHANGED stock \/ CreateOrderCommit(r) \/ CancelCommit(r)
<1>1. ASSUME Reject(r) \/ UNCHANGED tables \/ UNCHANGED catalog
      PROVE  UNCHANGED stock
  BY <1>1 DEF Reject, tables, catalog
<1>2. CASE Start(r)
  <2>1. CASE CartRequest(r)
    BY <1>1, <2>1 DEF CartRequest, AddItemCheck, UpdateItemRead, RemoveItemRead,
                      ClearCartRead
  <2>2. CASE OrderRequest(r) \/ CleanupTask(r)
    BY <1>1, <2>2 DEF OrderRequest, CleanupTask, CreateOrderReadCart,
                      CancelReadOrder, StatusRead, PayReadOrder, CleanupRead
  <2>3. CASE ProductRequest(r)
    BY <1>1, <2>3 DEF ProductRequest, UpdateProductRead, DeleteProductRead,
                      LoadProduct
  <2> QED
    BY <1>2, <2>1, <2>2, <2>3 DEF Start
<1>3. CASE CartStep(r)
  BY <1>1, <1>3
  DEF CartStep, AddItemReadCart, AddItemUpdate, AddItemInsert, AddItemConflict,
      UpdateItemReadProducts, UpdateItemReject, UpdateItemCommit,
      UpdateItemConflict, CartDeleteCommit
<1>4. CASE OrderStep(r)
  BY <1>1, <1>4
  DEF OrderStep, CreateOrderReadProducts, CreateOrderReject, CancelReadProducts,
      LockRow, DeadlockVictim, StatusCommit, CleanupCommit
<1>5. CASE PaymentStep(r)
  BY <1>1, <1>5
  DEF PaymentStep, PayRejectRetries, PayGateway, PayConflict, PayApprovedCommit,
      PayDeclinedCommit
<1>6. CASE ProductStep(r)
  <2>1. ASSUME NEW newStock, NEW newPrice, NEW newActive,
               UpdateProductCommit(r, newStock, newPrice, newActive)
        PROVE  UNCHANGED stock
    <3> DEFINE p == ses[r].product
    <3>1. /\ newStock = ses[r].stock[p]
          /\ stock' = [stock EXCEPT ![p] = Flushed(@, ses[r].stock[p], newStock)]
      BY <2>1 DEF UpdateProductCommit
    <3>2. stock \in [Products -> Int]
      BY DEF IInv, TablesOK, TablesTyped
    <3> QED
      BY <3>1, <3>2 DEF Flushed
  <2> QED
    BY <1>6, <2>1 DEF ProductStep, DeleteProductCommit
<1>7. CASE Crash(r)
  BY <1>1, <1>7 DEF Crash
<1> QED
  BY <1>2, <1>3, <1>4, <1>5, <1>6, <1>7 DEF Continue

\* A checkout is the Place of the inventory.
LEMMA CheckoutPlaces ==
  ASSUME IInv, FreshInv, NEW r \in Requests, CreateOrderCommit(r)
  PROVE  Promise!InvNext
<1> DEFINE s == ses[r]
           o == ses[r].order
           L == InLines(ses[r].lines)
           units == [p \in Products |-> ses[r].lines[p].qty]
<1>1. /\ s \in Session
      /\ o \in OrderIds /\ status[o] = NoRow
      /\ L # {}
      /\ \A p \in L : s.stock[p] = stock[p]
  BY DEF CreateOrderCommit, IInv, SessionOK, FreshInv, Fresh, CheckoutLabels
<1>2. /\ stock' = [p \in Products |->
                      IF p \in L THEN s.stock[p] - s.lines[p].qty ELSE stock[p]]
      /\ status' = [status EXCEPT ![o] = "PENDING"]
      /\ qty'    = [qty EXCEPT ![o] = units]
      /\ InStock(s)
  BY DEF CreateOrderCommit
<1>3. /\ stock \in [Products -> Int]
      /\ \A p \in Products : stock[p] >= 0
      /\ status \in [OrderIds -> OrderStatus \cup {NoRow}]
      /\ qty \in [OrderIds -> [Products -> Nat]]
  BY DEF IInv, TablesOK, TablesTyped, StockNonNegative
<1>4. /\ \A p \in Products : s.lines[p].qty \in Nat
      /\ \A p \in Products : p \in L <=> s.lines[p].qty > 0
      /\ L \subseteq Products
      /\ \A p \in L : s.stock[p] >= s.lines[p].qty
  BY <1>1, <1>2 DEF Session, CartRow, InLines, InStock
<1>5. units \in [Products -> Nat] /\ units # Zero
  BY <1>1, <1>4 DEF Zero
<1>6. \A p \in Products : units[p] = s.lines[p].qty
  OBVIOUS
<1> HIDE DEF s, o, L, units
<1>7. \A p \in Products : units[p] \in Nat /\ units[p] <= stock[p]
  BY <1>1, <1>3, <1>4, <1>6
<1>8. stock' = [p \in Products |-> stock[p] - units[p]]
  <2>1. ASSUME NEW p \in Products
        PROVE  (IF p \in L THEN s.stock[p] - s.lines[p].qty ELSE stock[p])
                  = stock[p] - units[p]
    BY <1>1, <1>3, <1>4, <1>6
  <2> QED
    BY <1>2, <2>1
<1>9. Held[o] = Zero /\ Held' = [Held EXCEPT ![o] = units]
  BY <1>1, <1>2, <1>3 DEF Held, NoRow
<1>10. units \in Promise!Requestable
  <2>1. ASSUME NEW p \in Products PROVE units[p] \in 0..stock[p]
    BY <1>3, <1>7
  <2>2. units \in [Products -> UNION {0..stock[p] : p \in Products}]
    BY <1>5, <2>1
  <2> QED
    BY <1>7, <2>2 DEF Promise!Requestable
<1>11. PICK a \in OrderIds, u \in Promise!Requestable : a = o /\ u = units
  BY <1>1, <1>10
<1>12. Promise!Place(a, u)
  BY <1>5, <1>7, <1>8, <1>9, <1>11
  DEF Promise!Place, Promise!Nothing, Held, Zero
<1> QED
  BY <1>12 DEF Promise!InvNext

\* A cancellation is the Release of the inventory.
LEMMA CancellationReleases ==
  ASSUME IInv, FreshInv, StoreInv, NEW r \in Requests, CancelCommit(r)
  PROVE  Promise!InvNext
<1> DEFINE s == ses[r]
           o == ses[r].order
<1>1. /\ o \in Placed /\ o \in OrderIds /\ s \in Session
      /\ ValidTransition(status[o], "CANCELLED")
      /\ \A p \in ItemsOf(o) : s.stock[p] = stock[p]
  BY DEF CancelCommit, IInv, SessionOK, FreshInv, Fresh, OrderLabels, CancelLabels,
         Placed
<1>2. /\ stock' = [p \in Products |->
                      IF p \in ItemsOf(o) THEN s.stock[p] + qty[o][p]
                                          ELSE stock[p]]
      /\ status' = [status EXCEPT ![o] = "CANCELLED"]
      /\ UNCHANGED qty
  BY DEF CancelCommit, SetStatus
<1>3. /\ stock \in [Products -> Int]
      /\ status \in [OrderIds -> OrderStatus \cup {NoRow}]
      /\ qty \in [OrderIds -> [Products -> Nat]]
  BY DEF IInv, TablesOK, TablesTyped
<1> HIDE DEF s, o
<1>4. status[o] # "CANCELLED" /\ status[o] # NoRow
  BY <1>1 DEF ValidTransition, ALLOWED_TRANSITIONS, Placed
<1>5. Held[o] = qty[o] /\ Held' = [Held EXCEPT ![o] = Zero]
  BY <1>1, <1>2, <1>3, <1>4 DEF Held
<1>6. qty[o] # Zero
  BY <1>1 DEF StoreInv, ItemsOf, Zero
<1>7. stock' = [p \in Products |-> stock[p] + qty[o][p]]
  <2>1. ASSUME NEW p \in Products
        PROVE  (IF p \in ItemsOf(o) THEN s.stock[p] + qty[o][p] ELSE stock[p])
                  = stock[p] + qty[o][p]
    <3>1. stock[p] \in Int /\ qty[o][p] \in Nat
      BY <1>1, <1>3
    <3> QED
      BY <1>1, <3>1 DEF ItemsOf
  <2> QED
    BY <1>2, <2>1
<1>8. PICK a \in OrderIds : a = o
  BY <1>1
<1>9. Promise!Release(a)
  BY <1>5, <1>6, <1>7, <1>8 DEF Promise!Release, Promise!Nothing, Held, Zero
<1> QED
  BY <1>9 DEF Promise!InvNext

\* A payment moves no units.
LEMMA PaymentHolds ==
  ASSUME IInv, FreshInv, NEW r \in Requests,
         PayApprovedCommit(r) \/ PayDeclinedCommit(r)
  PROVE  UNCHANGED <<stock, Held>>
<1> DEFINE o == ses[r].order
<1>1. /\ pc[r] \in {"pay_approved", "pay_declined"}
      /\ UNCHANGED <<stock, qty>>
  BY DEF PayApprovedCommit, PayDeclinedCommit, SetStatus, catalog
<1>2. /\ status[o] \in Payable
      /\ ses[r].status = status[o]
      /\ status \in [OrderIds -> OrderStatus \cup {NoRow}]
  BY <1>1 DEF FreshInv, Fresh, OrderLabels, PayLabels, IInv, TablesOK, TablesTyped
<1>3. PICK x \in {"ORDER_CONFIRMED", "PAYMENT_FAILED"} :
         status' = [status EXCEPT ![o] = x]
  BY <1>2 DEF PayApprovedCommit, PayDeclinedCommit, SetStatus, Flushed
<1> HIDE DEF o
<1> QED
  BY <1>1, <1>2, <1>3 DEF Held, Payable, NoRow

\* The steps of the backend are steps of the inventory.
LEMMA StoreNext ==
  ASSUME OnlyCheckouts, IInv, FreshInv, StoreInv, [Next]_vars
  PROVE  Promise!InvNext \/ UNCHANGED <<stock, Held>>
<1>1. ASSUME UNCHANGED <<stock, orders>> PROVE UNCHANGED <<stock, Held>>
  BY <1>1 DEF orders, Held
<1>2. ASSUME NEW r \in Requests, Start(r) \/ Continue(r) \/ Crash(r)
      PROVE  Promise!InvNext \/ UNCHANGED <<stock, Held>>
  <2>1. CASE CreateOrderCommit(r)
    BY <2>1, CheckoutPlaces
  <2>2. CASE CancelCommit(r)
    BY <2>2, CancellationReleases
  <2>3. CASE PayApprovedCommit(r) \/ PayDeclinedCommit(r)
    BY <2>3, PaymentHolds
  <2>4. CASE /\ ~CreateOrderCommit(r) /\ ~CancelCommit(r)
             /\ ~PayApprovedCommit(r) /\ ~PayDeclinedCommit(r)
    <3>1. UNCHANGED stock
      BY <1>2, <2>4, StockWriters DEF OnlyCheckouts
    <3>2. UNCHANGED orders
      BY <1>2, <2>4, OrderWriters
      DEF StatusWriter, StatusCommit, CleanupCommit, StoreInv
    <3> QED
      BY <1>1, <3>1, <3>2
  <2> QED
    BY <2>1, <2>2, <2>3, <2>4
<1>3. CASE UNCHANGED vars
  BY <1>1, <1>3 DEF vars, tables, catalog
<1> QED
  BY <1>2, <1>3 DEF Next

\* Which session waits to set a status by hand, or to clean up: none.
LEMMA NoBypass ==
  ASSUME OnlyCheckouts, IInv, FreshInv, StoreInv, NEW r \in Requests,
         Start(r) \/ Continue(r) \/ Crash(r), NEW x \in Requests
  PROVE  pc'[x] \notin {"status_write", "cleanup_write"}
<1> DEFINE Bad == {"status_write", "cleanup_write"}
<1>1. pc \in [Requests -> Labels] /\ pc[x] \notin Bad
  BY DEF IInv, SessionsTyped, StoreInv
<1>2. ASSUME Reject(r) \/ Finish(r) PROVE pc'[x] \notin Bad
  BY <1>1, <1>2 DEF Reject, Finish
<1>3. ASSUME NEW label \in Labels \ Bad, NEW s, Advance(r, label, s)
      PROVE  pc'[x] \notin Bad
  BY <1>1, <1>3 DEF Advance
<1>4. CASE Start(r)
  <2>1. CASE CartRequest(r)
    BY <1>3, <2>1
    DEF CartRequest, AddItemCheck, UpdateItemRead, RemoveItemRead, ClearCartRead,
        Labels
  <2>2. CASE OrderRequest(r) \/ CleanupTask(r)
    BY <1>3, <2>2
    DEF OrderRequest, CleanupTask, CreateOrderReadCart, CancelReadOrder, StatusRead,
        PayReadOrder, CleanupRead, Begin, OnlyCheckouts, Labels
  <2>3. CASE ProductRequest(r)
    BY <1>3, <2>3
    DEF ProductRequest, UpdateProductRead, DeleteProductRead, LoadProduct, Labels
  <2> QED
    BY <1>4, <2>1, <2>2, <2>3 DEF Start
<1>5. CASE CartStep(r)
  BY <1>2, <1>3, <1>5
  DEF CartStep, AddItemReadCart, AddItemUpdate, AddItemInsert, AddItemConflict,
      UpdateItemReadProducts, UpdateItemReject, UpdateItemCommit,
      UpdateItemConflict, CartDeleteCommit, Labels
<1>6. CASE OrderStep(r)
  <2>1. CASE \E p \in Products : LockRow(r, p)
    BY <1>1, <2>1 DEF LockRow
  <2>2. CASE CreateOrderReadProducts(r) \/ CancelReadProducts(r)
    BY <1>3, <2>2 DEF CreateOrderReadProducts, CancelReadProducts, Labels
  <2> QED
    BY <1>2, <1>6, <2>1, <2>2
    DEF OrderStep, CreateOrderCommit, CreateOrderReject, CancelCommit,
        DeadlockVictim, StatusCommit, CleanupCommit
<1>7. CASE PaymentStep(r)
  BY <1>2, <1>3, <1>7
  DEF PaymentStep, PayRejectRetries, PayGateway, PayConflict, PayApprovedCommit,
      PayDeclinedCommit, Labels
<1>8. CASE ProductStep(r)
  BY <1>2, <1>8 DEF ProductStep, UpdateProductCommit, DeleteProductCommit
<1>9. CASE Crash(r)
  BY <1>2, <1>9 DEF Crash
<1> QED
  BY <1>4, <1>5, <1>6, <1>7, <1>8, <1>9 DEF Continue

\* Every order has items, and no other writer of orders is under way.
LEMMA StoreKept ==
  ASSUME OnlyCheckouts, IInv, FreshInv, StoreInv, [Next]_vars
  PROVE  StoreInv'
<1>1. ASSUME NEW o \in Placed' PROVE ItemsOf(o)' # {}
  <2>1. CASE \E r \in Requests : CreateOrderCommit(r) /\ ses[r].order = o
    <3>1. PICK r \in Requests : CreateOrderCommit(r) /\ ses[r].order = o
      BY <2>1
    <3>2. /\ o \in OrderIds /\ InLines(ses[r].lines) # {}
          /\ qty \in [OrderIds -> [Products -> Nat]]
      BY <3>1
      DEF CreateOrderCommit, FreshInv, Fresh, CheckoutLabels, IInv, TablesOK,
          TablesTyped
    <3>3. qty' = [qty EXCEPT ![o] = [p \in Products |-> ses[r].lines[p].qty]]
      BY <3>1 DEF CreateOrderCommit
    <3> QED
      BY <3>2, <3>3 DEF ItemsOf, InLines
  <2>2. CASE ~\E r \in Requests : CreateOrderCommit(r) /\ ses[r].order = o
    <3>1. o \in Placed
      BY <2>2, OrdersNext DEF Placed
    <3>2. qty'[o] = qty[o]
      <4>1. CASE UNCHANGED qty
        BY <4>1
      <4>2. ASSUME NEW r \in Requests, CreateOrderCommit(r) PROVE qty'[o] = qty[o]
        <5>1. /\ qty' = [qty EXCEPT ![ses[r].order] =
                           [p \in Products |-> ses[r].lines[p].qty]]
              /\ ses[r].order # o
          BY <2>2, <4>2 DEF CreateOrderCommit
        <5>2. qty \in [OrderIds -> [Products -> Nat]] /\ o \in OrderIds
          BY <3>1 DEF IInv, TablesOK, TablesTyped, Placed
        <5> QED
          BY <5>1, <5>2
      <4> QED
        BY <4>1, <4>2, OrdersNext
    <3> QED
      BY <3>1, <3>2 DEF StoreInv, ItemsOf
  <2> QED
    BY <2>1, <2>2
<1>2. ASSUME NEW x \in Requests
      PROVE  pc'[x] \notin {"status_write", "cleanup_write"}
  <2>1. CASE UNCHANGED vars
    BY <2>1 DEF vars, StoreInv
  <2> QED
    BY <2>1, NoBypass DEF Next
<1> QED
  BY <1>1, <1>2 DEF StoreInv

\* One request at a time, a checkout takes its units out of the stock at once,
\* never more than there are, and cancel_order gives them back, once: the
\* handlers implement the specification of Inventory.
THEOREM InventoryKept ==
  ASSUME OneAtATime, OnlyCheckouts
  PROVE  Spec => InventoryRefined
<1>1. Init => StoreInv /\ Promise!InvInit
  <2> SUFFICES ASSUME Init PROVE StoreInv /\ Promise!InvInit
    OBVIOUS
  <2>1. StoreInv
    BY DEF Init, StoreInv, Placed
  <2>2. Promise!InvInit
    BY DEF Init, Promise!InvInit, Promise!Nothing, Zero
  <2> QED
    BY <2>1, <2>2
<1>2. IInv /\ FreshInv /\ StoreInv /\ [Next]_vars => StoreInv'
  BY StoreKept
<1>3. IInv /\ FreshInv /\ StoreInv /\ [Next]_vars
         => [Promise!InvNext]_(Promise!invVars)
  BY StoreNext DEF Promise!invVars, Held
<1> QED
  BY <1>1, <1>2, <1>3, AlwaysFresh, PTL
  DEF Spec, InventoryRefined, Promise!InvSpec

-------------------------------------------------------------------------------
(***************************************************************************)
(* Every unit is on the shelf or in an order.  Sold adds up what the       *)
(* orders hold of a product, which is the number of the boxes of           *)
(* SumTheorems that their units stack.                                     *)
(***************************************************************************)
Units(p) == [o \in OrderIds |-> Held[o][p]]

Stacked(p) == Cardinality(Boxes(Units(p), OrderIds))

Balanced == \A p \in Products : stock[p] + Stacked(p) = InitStock[p]

HeldTyped ==
    /\ Held \in [OrderIds -> [Products -> Nat]]
    /\ \A p \in Products : Units(p) \in [OrderIds -> Nat]

\* Orders hold natural numbers of units.
LEMMA HeldOK == IInv => HeldTyped
<1> SUFFICES ASSUME IInv PROVE HeldTyped
  OBVIOUS
<1>1. Held \in [OrderIds -> [Products -> Nat]]
  BY DEF IInv, TablesOK, TablesTyped, Held, Zero
<1> QED
  BY <1>1 DEF HeldTyped, Units

\* The fold of Sold counts those boxes.
LEMMA SoldIsStacked ==
  ASSUME IsFiniteSet(OrderIds), IInv, NEW p \in Products
  PROVE  Sold(p) = Stacked(p)
<1> DEFINE term(o) == IF status[o] \in {NoRow, "CANCELLED"} THEN 0 ELSE qty[o][p]
           first(s) == CHOOSE x \in s : TRUE
           body(it) == [s \in SUBSET OrderIds |->
                          IF s = {} THEN 0
                          ELSE term(first(s)) + it[s \ {first(s)}]]
           fold == CHOOSE it : it = body(it)
<1>1. Sold(p) = fold[OrderIds]
  BY DEF Sold, MapThenSumSet, MapThenFoldSet
<1>2. Units(p) \in [OrderIds -> Nat]
  BY HeldOK DEF HeldTyped
<1>3. \A o \in OrderIds : Units(p)[o] = term(o)
  BY DEF Units, Held, Zero
<1>4. ASSUME NEW s \in SUBSET OrderIds, s # {} PROVE Units(p)[first(s)] = term(first(s))
  BY <1>3, <1>4
<1>5. \A it : IsSum(it, Units(p), OrderIds) <=> it = body(it)
  BY <1>4 DEF IsSum
<1>6. \E it : it = body(it)
  <2> DEFINE count == [s \in SUBSET OrderIds |-> Cardinality(Boxes(Units(p), s))]
  <2>1. IsSum(count, Units(p), OrderIds)
    BY <1>2, CountIsSum
  <2> HIDE DEF count, body
  <2> QED
    BY <1>5, <2>1
<1> HIDE DEF body
<1>7. fold = body(fold)
  BY <1>6, Zenon
<1>8. IsSum(fold, Units(p), OrderIds)
  BY <1>5, <1>7
<1> HIDE DEF fold
<1> QED
  BY <1>1, <1>2, <1>8, SumIsCount DEF Stacked

\* An order that held nothing takes its units, or gives them back: the shelf
\* changes by as many.
LEMMA InventoryBalanced ==
  ASSUME IsFiniteSet(OrderIds), IInv, IInv', Balanced,
         Promise!InvNext \/ UNCHANGED <<stock, Held>>
  PROVE  Balanced'
<1>1. (IInv => HeldTyped)'
  BY HeldOK, PTL
<1>2. /\ Held \in [OrderIds -> [Products -> Nat]]
      /\ Held' \in [OrderIds -> [Products -> Nat]]
      /\ stock \in [Products -> Int]
  BY <1>1, HeldOK DEF HeldTyped, IInv, TablesOK, TablesTyped
<1> SUFFICES ASSUME NEW p \in Products
             PROVE  stock'[p] + Stacked(p)' = InitStock[p]
  BY DEF Balanced
<1>3. stock[p] + Stacked(p) = InitStock[p] /\ stock[p] \in Int
  BY <1>2 DEF Balanced
<1>4. Units(p) \in [OrderIds -> Nat] /\ Units(p)' \in [OrderIds -> Nat]
  BY <1>1, HeldOK DEF HeldTyped
<1>5. Stacked(p) \in Nat
  BY <1>4, BoxesFinite DEF Stacked
<1>6. CASE UNCHANGED <<stock, Held>>
  BY <1>3, <1>6 DEF Stacked, Units
<1>7. ASSUME NEW a \in OrderIds, \A x \in OrderIds : x # a => Held'[x] = Held[x],
             stock'[p] = stock[p] + Held[a][p] - Held'[a][p]
      PROVE  stock'[p] + Stacked(p)' = InitStock[p]
  <2>1. /\ Units(p)[a] = Held[a][p] /\ Units(p)'[a] = Held'[a][p]
        /\ \A x \in OrderIds : x # a => Units(p)'[x] = Units(p)[x]
    BY <1>7 DEF Units
  <2>2. Stacked(p)' = Stacked(p) - Held[a][p] + Held'[a][p]
    BY <1>4, <2>1, OneTermChanges DEF Stacked
  <2>3. Held[a][p] \in Nat /\ Held'[a][p] \in Nat
    BY <1>2
  <2> QED
    BY <1>3, <1>5, <1>7, <2>2, <2>3
<1>8. ASSUME NEW a \in OrderIds, NEW u \in Promise!Requestable, Promise!Place(a, u)
      PROVE  stock'[p] + Stacked(p)' = InitStock[p]
  <2>1. /\ Held[a] = Zero /\ Held' = [Held EXCEPT ![a] = u]
        /\ stock'[p] = stock[p] - u[p]
    BY <1>8 DEF Promise!Place, Promise!Nothing, Held, Zero
  <2>2. /\ Held[a][p] = 0 /\ Held'[a] = u
        /\ \A x \in OrderIds : x # a => Held'[x] = Held[x]
    BY <1>2, <2>1 DEF Zero
  <2>3. Held'[a][p] \in Nat
    BY <1>2
  <2>4. stock'[p] = stock[p] + Held[a][p] - Held'[a][p]
    BY <1>3, <2>1, <2>2, <2>3
  <2> QED
    BY <1>7, <2>2, <2>4
<1>9. ASSUME NEW a \in OrderIds, Promise!Release(a)
      PROVE  stock'[p] + Stacked(p)' = InitStock[p]
  <2>1. /\ Held' = [Held EXCEPT ![a] = Zero]
        /\ stock'[p] = stock[p] + Held[a][p]
    BY <1>9 DEF Promise!Release, Promise!Nothing, Held, Zero
  <2>2. /\ Held'[a][p] = 0
        /\ \A x \in OrderIds : x # a => Held'[x] = Held[x]
    BY <1>2, <2>1 DEF Zero
  <2>3. Held[a][p] \in Nat
    BY <1>2
  <2>4. stock'[p] = stock[p] + Held[a][p] - Held'[a][p]
    BY <1>3, <2>1, <2>2, <2>3
  <2> QED
    BY <1>7, <2>2, <2>4
<1> QED
  BY <1>6, <1>8, <1>9 DEF Promise!InvNext

\* No unit is lost or made by checkouts and cancellations, one at a time:
\* what is not in the stock is in an order that was not cancelled.
THEOREM UnitsConserved ==
  ASSUME OneAtATime, OnlyCheckouts, IsFiniteSet(OrderIds)
  PROVE  Spec => []Conservation
<1>1. Init => StoreInv /\ Balanced
  <2> SUFFICES ASSUME Init PROVE StoreInv /\ Balanced
    OBVIOUS
  <2>1. StoreInv
    BY DEF Init, StoreInv, Placed
  <2>2. ASSUME NEW p \in Products PROVE stock[p] + Stacked(p) = InitStock[p]
    <3>1. Boxes(Units(p), OrderIds) = {}
      <4>1. \A o \in OrderIds : Units(p)[o] = 0
        BY DEF Init, Units, Held, Zero
      <4> QED
        BY <4>1 DEF Boxes
    <3>2. Stacked(p) = 0
      BY <3>1, FS_EmptySet DEF Stacked
    <3>3. stock[p] = InitStock[p] /\ stock[p] \in Int
      BY InitIInv DEF Init, IInv, TablesOK, TablesTyped
    <3> QED
      BY <3>2, <3>3
  <2> QED
    BY <2>1, <2>2 DEF Balanced
<1>2. IInv /\ FreshInv /\ StoreInv /\ [Next]_vars => StoreInv'
  BY StoreKept
<1>3. IInv /\ IInv' /\ FreshInv /\ StoreInv /\ Balanced /\ [Next]_vars => Balanced'
  BY StoreNext, InventoryBalanced
<1>4. IInv /\ Balanced => Conservation
  BY SoldIsStacked DEF Balanced, Conservation
<1> QED
  BY <1>1, <1>2, <1>3, <1>4, AlwaysFresh, PTL DEF Spec

\* Nor is a unit sold that was not there.
THEOREM NothingOversold ==
  ASSUME OneAtATime, OnlyCheckouts, IsFiniteSet(OrderIds)
  PROVE  Spec => []NoOversell
<1>1. IInv /\ Conservation => NoOversell
  <2> SUFFICES ASSUME IInv, Conservation, NEW p \in Products
               PROVE  Sold(p) <= InitStock[p]
    BY DEF NoOversell
  <2>1. stock[p] \in Int /\ stock[p] >= 0
    BY DEF IInv, TablesOK, TablesTyped, StockNonNegative
  <2>2. Sold(p) \in Nat
    <3>1. Units(p) \in [OrderIds -> Nat]
      BY HeldOK DEF HeldTyped
    <3> QED
      BY <3>1, SoldIsStacked, BoxesFinite DEF Stacked
  <2> QED
    BY <2>1, <2>2 DEF Conservation
<1> QED
  BY <1>1, UnitsConserved, Invariance, PTL

===============================================================================

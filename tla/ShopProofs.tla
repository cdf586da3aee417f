------------------------------- MODULE ShopProofs -------------------------------
(***************************************************************************)
(* What holds of the backend for every number of concurrent requests, for  *)
(* all users, products and orders, and with every handler and crash.       *)
(***************************************************************************)
EXTENDS ShopProperties, TLAPS

-------------------------------------------------------------------------------
(***************************************************************************)
(* The inductive invariant.  What a session has loaded may be out of date, *)
(* but it was true at some time, and the rows it works on exist.           *)
(***************************************************************************)
OrderLabels == {"cancel_products", "cancel_write", "status_write",
                "pay_payment", "pay_approved", "pay_declined"}

UserLabels == {"checkout_products", "checkout_lock", "add_cart", "add_write",
               "update_products", "update_write", "cart_delete"}

ProductLabels == {"product_write", "product_delete", "add_cart", "add_write",
                  "update_products", "update_write"}

\* A session that waits for its statement at label.
SessionOK(label, s) ==
    /\ s \in Session
    /\ \A p \in Products : s.stock[p] >= 0
    /\ label \in OrderLabels => s.order \in Placed
                                /\ s.status \in visited[s.order]
    /\ label = "cleanup_write" => s.batch \subseteq Placed
    /\ label \in UserLabels => s.user \in Users
    /\ label \in ProductLabels => s.product \in Products
    /\ label \in {"pay_approved", "pay_declined"} =>
          /\ s.payment.retries < MAX_RETRIES
          /\ s.payment.status # NoRow => payment[s.order].status # NoRow

\* The status of an order is in its history.
HistoryOK == \A o \in Placed : status[o] \in visited[o]

\* An order without a payment row has no retries.
NewPaymentOK ==
    \A o \in OrderIds : payment[o].status = NoRow => payment[o].retries = 0

TablesOK ==
    /\ TablesTyped
    /\ StockNonNegative
    /\ HistoryOK
    /\ PipelineOrder
    /\ PaidWasConfirmed
    /\ RetriesBounded
    /\ NewPaymentOK

IInv ==
    /\ TablesOK
    /\ SessionsTyped
    /\ \A r \in Requests : SessionOK(pc[r], ses[r])

-------------------------------------------------------------------------------
(***************************************************************************)
(* Lemmas about the ends of a step.                                        *)
(***************************************************************************)

\* The empty session is a session, and is right for the idle label.
LEMMA EmptySessionOK == SessionOK("idle", EmptySession)
<1>1. EmptySession \in Session
  BY DEF EmptySession, Session, NoLines, Zero, CartRow, NoPayment, PaymentRow,
         NoRow
<1>2. \A p \in Products : EmptySession.stock[p] >= 0
  BY DEF EmptySession, Zero
<1> QED
  BY <1>1, <1>2 DEF SessionOK, OrderLabels, UserLabels, ProductLabels

\* Steps never delete an order or its payment, or forget a status it has had.
Grows ==
    /\ Placed \subseteq Placed'
    /\ \A o \in Placed :
          /\ visited[o] \subseteq visited'[o]
          /\ payment[o].status # NoRow => payment'[o].status # NoRow

\* What is true of a session stays true while the tables grow.
LEMMA SessionStable ==
  ASSUME Grows, NEW r \in Requests, SessionOK(pc[r], ses[r]),
         pc'[r] = pc[r], ses'[r] = ses[r]
  PROVE  SessionOK(pc[r], ses[r])'
BY DEF Grows, SessionOK, OrderLabels

\* Tables nobody writes stay as they should be.
LEMMA TablesStable ==
  ASSUME TablesOK, UNCHANGED <<tables, gateway>>
  PROVE  TablesOK' /\ Grows
<1>1. UNCHANGED <<stock, price, active, cart, status, owner, qty, unit, visited,
                  payment, gateway>>
  BY DEF tables, catalog, orders
<1> QED
  BY <1>1 DEF TablesOK, TablesTyped, StockNonNegative, HistoryOK, PipelineOrder,
              PaidWasConfirmed, RetriesBounded, NewPaymentOK, Grows, Placed

\* A statement that is not the last: the session is at label then, with s
\* loaded.
LEMMA LoadStep ==
  ASSUME IInv, NEW r \in Requests, NEW label \in Labels, NEW s,
         SessionOK(label, s), Advance(r, label, s), UNCHANGED lock,
         TablesOK', Grows
  PROVE  IInv'
<1>1. SessionsTyped'
  BY DEF IInv, SessionsTyped, Advance, SessionOK
<1>2. ASSUME NEW x \in Requests PROVE SessionOK(pc[x], ses[x])'
  <2>1. CASE x = r
    <3>1. pc'[x] = label /\ ses'[x] = s
      BY <2>1 DEF IInv, SessionsTyped, Advance
    <3> QED
      BY <3>1 DEF SessionOK, Grows, OrderLabels
  <2>2. CASE x # r
    BY <2>2, SessionStable DEF IInv, SessionsTyped, Advance
  <2> QED
    BY <2>1, <2>2
<1> QED
  BY <1>1, <1>2 DEF IInv

\* A statement that only reads: its session keeps what SessionOK says of it.
LEMMA ReadStep ==
  ASSUME IInv, NEW r \in Requests, NEW label \in Labels, NEW s,
         SessionOK(label, s), Advance(r, label, s),
         UNCHANGED <<tables, lock, gateway>>
  PROVE  IInv'
<1>1. TablesOK' /\ Grows
  BY TablesStable DEF IInv
<1> QED
  BY <1>1, LoadStep

\* The end of a transaction that leaves the tables as they should be.
LEMMA LastStep ==
  ASSUME IInv, NEW r \in Requests, Finish(r), TablesOK', Grows
  PROVE  IInv'
<1>1. SessionsTyped'
  BY EmptySessionOK DEF IInv, SessionsTyped, Finish, SessionOK, Labels
<1>2. ASSUME NEW x \in Requests PROVE SessionOK(pc[x], ses[x])'
  <2>1. CASE x = r
    <3>1. pc'[x] = "idle" /\ ses'[x] = EmptySession
      BY <2>1 DEF IInv, SessionsTyped, Finish
    <3> QED
      BY <3>1, EmptySessionOK DEF SessionOK, OrderLabels, UserLabels,
                                  ProductLabels
  <2>2. CASE x # r
    BY <2>2, SessionStable DEF IInv, SessionsTyped, Finish
  <2> QED
    BY <2>1, <2>2
<1> QED
  BY <1>1, <1>2 DEF IInv

\* A call that is refused changes no table.
LEMMA RejectStep ==
  ASSUME IInv, NEW r \in Requests, Reject(r)
  PROVE  IInv'
BY TablesStable, LastStep DEF IInv, Reject

-------------------------------------------------------------------------------
(***************************************************************************)
(* The statements that read.                                               *)
(***************************************************************************)
LEMMA LoadedTyped ==
  ASSUME TablesOK, NEW P \in SUBSET Products
  PROVE  /\ Loaded(stock, P) \in [Products -> Int]
         /\ \A p \in Products : Loaded(stock, P)[p] >= 0
         /\ Loaded(price, P) \in [Products -> Nat]
BY DEF TablesOK, TablesTyped, StockNonNegative, Loaded

\* What a session starts with.
LEMMA FreshSession ==
  /\ EmptySession \in Session
  /\ \A p \in Products : EmptySession.stock[p] = 0
BY EmptySessionOK DEF SessionOK, EmptySession, Zero

\* The first statements of the cart handlers.
LEMMA CartReads ==
  ASSUME IInv, NEW r \in Requests, CartRequest(r)
  PROVE  IInv'
<1>2. /\ cart \in [Users -> [Products -> CartRow]]
      /\ Quantities \subseteq Nat
  BY ConstantsAssumption DEF IInv, TablesOK, TablesTyped
<1>3. ASSUME NEW u \in Users, NEW p \in Products, NEW q \in Quantities,
             AddItemCheck(r, u, p, q)
      PROVE  IInv'
  <2> DEFINE s == [EmptySession EXCEPT !.user = u, !.product = p, !.amount = q]
  <2>1. s \in Session
    BY <1>2, FreshSession DEF Session
  <2>2. s.stock = EmptySession.stock /\ s.user = u /\ s.product = p
    BY <1>2, FreshSession DEF Session
  <2>3. Advance(r, "add_cart", s) /\ UNCHANGED <<tables, lock, gateway>>
    BY <1>3 DEF AddItemCheck
  <2> HIDE DEF s
  <2>4. SessionOK("add_cart", s)
    BY <2>1, <2>2, FreshSession DEF SessionOK, OrderLabels, UserLabels, ProductLabels
  <2> QED
    BY <2>3, <2>4, ReadStep DEF Labels
<1>4. ASSUME NEW u \in Users, NEW p \in Products, NEW q \in Quantities,
             UpdateItemRead(r, u, p, q)
      PROVE  IInv'
  <2> DEFINE s == [EmptySession EXCEPT !.user = u, !.product = p, !.amount = q,
                                     !.lines = cart[u]]
  <2>1. s \in Session
    BY <1>2, FreshSession DEF Session
  <2>2. s.stock = EmptySession.stock /\ s.user = u /\ s.product = p
    BY <1>2, FreshSession DEF Session
  <2>3. Advance(r, "update_products", s) /\ UNCHANGED <<tables, lock, gateway>>
    BY <1>4 DEF UpdateItemRead
  <2> HIDE DEF s
  <2>4. SessionOK("update_products", s)
    BY <2>1, <2>2, FreshSession DEF SessionOK, OrderLabels, UserLabels, ProductLabels
  <2> QED
    BY <2>3, <2>4, ReadStep DEF Labels
<1>5. ASSUME NEW u \in Users, NEW p \in Products, RemoveItemRead(r, u, p)
      PROVE  IInv'
  <2> DEFINE s == [EmptySession EXCEPT !.user = u,
                  !.lines = [NoLines EXCEPT ![p] = cart[u][p]]]
  <2>0. [NoLines EXCEPT ![p] = cart[u][p]] \in [Products -> CartRow]
    BY <1>2 DEF NoLines, CartRow
  <2>1. s \in Session
    BY <2>0, FreshSession DEF Session
  <2>2. s.stock = EmptySession.stock /\ s.user = u
    BY <1>2, FreshSession DEF Session
  <2>3. Advance(r, "cart_delete", s) /\ UNCHANGED <<tables, lock, gateway>>
    BY <1>5 DEF RemoveItemRead
  <2> HIDE DEF s
  <2>4. SessionOK("cart_delete", s)
    BY <2>1, <2>2, FreshSession DEF SessionOK, OrderLabels, UserLabels, ProductLabels
  <2> QED
    BY <2>3, <2>4, ReadStep DEF Labels
<1>6. ASSUME NEW u \in Users, ClearCartRead(r, u)
      PROVE  IInv'
  <2> DEFINE s == [EmptySession EXCEPT !.user = u, !.lines = cart[u]]
  <2>1. s \in Session
    BY <1>2, FreshSession DEF Session
  <2>2. s.stock = EmptySession.stock /\ s.user = u
    BY <1>2, FreshSession DEF Session
  <2>3. Advance(r, "cart_delete", s) /\ UNCHANGED <<tables, lock, gateway>>
    BY <1>6 DEF ClearCartRead
  <2> HIDE DEF s
  <2>4. SessionOK("cart_delete", s)
    BY <2>1, <2>2, FreshSession DEF SessionOK, OrderLabels, UserLabels, ProductLabels
  <2> QED
    BY <2>3, <2>4, ReadStep DEF Labels
<1> QED
  BY <1>3, <1>4, <1>5, <1>6 DEF CartRequest

\* The session of a handler that has loaded an order.
LEMMA OrderLoaded ==
  ASSUME IInv, NEW o \in Placed,
         NEW label \in {"cancel_products", "status_write", "pay_payment"}
  PROVE  SessionOK(label, [EmptySession EXCEPT !.order = o, !.status = status[o]])
<1> DEFINE s == [EmptySession EXCEPT !.order = o, !.status = status[o]]
<1>1. status[o] \in OrderStatus \cup {NoRow} /\ o \in OrderIds
  BY DEF IInv, TablesOK, TablesTyped, Placed
<1>2. s \in Session
  BY <1>1, FreshSession DEF Session
<1>3. s.stock = EmptySession.stock /\ s.order = o /\ s.status = status[o]
  BY <1>1, FreshSession DEF Session
<1> HIDE DEF s
<1>4. status[o] \in visited[o]
  BY DEF IInv, TablesOK, HistoryOK
<1>5. SessionOK(label, s)
  BY <1>2, <1>3, <1>4, FreshSession
  DEF SessionOK, OrderLabels, UserLabels, ProductLabels
<1> QED
  BY <1>5 DEF s

\* The first statements of the handlers of orders, and of the cleanup task.
LEMMA OrderReads ==
  ASSUME IInv, NEW r \in Requests,
         OrderRequest(r) \/ CleanupTask(r)
  PROVE  IInv'
<1>1. /\ \A o \in Placed : status[o] \in visited[o]
      /\ Placed \subseteq OrderIds
  BY DEF IInv, TablesOK, HistoryOK, Placed
<1>2. /\ cart \in [Users -> [Products -> CartRow]]
      /\ status \in [OrderIds -> OrderStatus \cup {NoRow}]
  BY DEF IInv, TablesOK, TablesTyped
<1>3. ASSUME NEW u \in Users, NEW o \in OrderIds, CreateOrderReadCart(r, u, o)
      PROVE  IInv'
  <2> DEFINE s == [EmptySession EXCEPT !.user = u, !.order = o, !.lines = cart[u]]
  <2>1. s \in Session
    BY <1>2, FreshSession DEF Session
  <2>2. s.stock = EmptySession.stock /\ s.user = u
    BY <1>2, FreshSession DEF Session
  <2>3. Advance(r, "checkout_products", s) /\ UNCHANGED <<tables, lock, gateway>>
    BY <1>3 DEF CreateOrderReadCart
  <2> HIDE DEF s
  <2>4. SessionOK("checkout_products", s)
    BY <2>1, <2>2, FreshSession DEF SessionOK, OrderLabels, UserLabels, ProductLabels
  <2> QED
    BY <2>3, <2>4, ReadStep DEF Labels
<1>4. ASSUME NEW u \in Users, NEW o \in OrderIds, CancelReadOrder(r, u, o)
      PROVE  IInv'
  <2>1. o \in Placed
    BY <1>4 DEF CancelReadOrder
  <2> QED
    BY <1>4, <2>1, OrderLoaded, ReadStep DEF CancelReadOrder, Labels
<1>5. ASSUME NEW u \in Users, NEW o \in OrderIds, StatusRead(r, u, o)
      PROVE  IInv'
  <2>1. o \in Placed
    BY <1>5 DEF StatusRead
  <2> QED
    BY <1>5, <2>1, OrderLoaded, ReadStep DEF StatusRead, Labels
<1>6. ASSUME NEW u \in Users, NEW o \in OrderIds, PayReadOrder(r, u, o)
      PROVE  IInv'
  <2>1. o \in Placed
    BY <1>6 DEF PayReadOrder
  <2> QED
    BY <1>6, <2>1, OrderLoaded, ReadStep DEF PayReadOrder, Labels
<1>7. ASSUME NEW batch \in SUBSET OrderIds, CleanupRead(r, batch)
      PROVE  IInv'
  <2> DEFINE s == [EmptySession EXCEPT !.batch = batch]
  <2>1. s \in Session
    BY <1>2, FreshSession DEF Session
  <2>2. s.stock = EmptySession.stock /\ s.batch = batch
    BY <1>2, FreshSession DEF Session
  <2>3. Advance(r, "cleanup_write", s) /\ UNCHANGED <<tables, lock, gateway>>
    BY <1>7 DEF CleanupRead
  <2> HIDE DEF s
  <2>5. batch \subseteq Placed
    BY <1>7 DEF CleanupRead, Placed, NoRow
  <2>4. SessionOK("cleanup_write", s)
    BY <2>1, <2>2, <2>5, FreshSession
    DEF SessionOK, OrderLabels, UserLabels, ProductLabels
  <2> QED
    BY <2>3, <2>4, ReadStep DEF Labels
<1> QED
  BY <1>3, <1>4, <1>5, <1>6, <1>7 DEF OrderRequest, CleanupTask

\* The first statements of the product handlers.
LEMMA ProductReads ==
  ASSUME IInv, NEW r \in Requests, ProductRequest(r)
  PROVE  IInv'
<1>1. ASSUME NEW p \in Products,
             NEW label \in {"product_write", "product_delete"},
             LoadProduct(r, p, label)
      PROVE  IInv'
  <2> DEFINE s == [EmptySession EXCEPT !.product = p,
                                       !.stock   = Loaded(stock, {p}),
                                       !.price   = Loaded(price, {p}),
                                       !.active  = active[p]]
  <2>1. /\ Loaded(stock, {p}) \in [Products -> Int]
        /\ \A x \in Products : Loaded(stock, {p})[x] >= 0
        /\ Loaded(price, {p}) \in [Products -> Nat]
        /\ active[p] \in BOOLEAN
    BY LoadedTyped DEF IInv, TablesOK, TablesTyped
  <2>2. s \in Session
    BY <2>1, FreshSession DEF Session
  <2>3. s.stock = Loaded(stock, {p}) /\ s.product = p
    BY <2>1, FreshSession DEF Session
  <2>4. Advance(r, label, s) /\ UNCHANGED <<tables, lock, gateway>>
    BY <1>1 DEF LoadProduct
  <2> HIDE DEF s
  <2>5. SessionOK(label, s)
    BY <2>1, <2>2, <2>3 DEF SessionOK, OrderLabels, UserLabels
  <2> QED
    BY <2>4, <2>5, ReadStep DEF Labels
<1> QED
  BY <1>1 DEF ProductRequest, UpdateProductRead, DeleteProductRead

\* The second and third statements of a handler that read.
LEMMA LaterReads ==
  ASSUME IInv, NEW r \in Requests,
         \/ AddItemReadCart(r) \/ UpdateItemReadProducts(r)
         \/ CreateOrderReadProducts(r) \/ CancelReadProducts(r)
  PROVE  IInv'
<1>1. SessionOK(pc[r], ses[r]) /\ ses[r] \in Session
  BY DEF IInv, SessionOK
<1>2. CASE AddItemReadCart(r)
  <2> DEFINE s == [ses[r] EXCEPT !.lines = cart[ses[r].user]]
  <2>1. pc[r] = "add_cart" /\ Advance(r, "add_write", s)
        /\ UNCHANGED <<tables, lock, gateway>>
    BY <1>2 DEF AddItemReadCart
  <2>2. cart[ses[r].user] \in [Products -> CartRow]
    BY <1>1, <2>1 DEF SessionOK, UserLabels, IInv, TablesOK, TablesTyped
  <2>3. s \in Session
    BY <1>1, <2>2 DEF Session
  <2>4. s.stock = ses[r].stock /\ s.user = ses[r].user
        /\ s.product = ses[r].product
    BY <1>1, <2>2 DEF Session
  <2> HIDE DEF s
  <2>5. SessionOK("add_write", s)
    BY <1>1, <2>1, <2>3, <2>4
    DEF SessionOK, OrderLabels, UserLabels, ProductLabels
  <2> QED
    BY <2>1, <2>5, ReadStep DEF Labels
<1>3. CASE UpdateItemReadProducts(r)
  <2>1. SessionOK("update_write", ses[r])
    BY <1>1, <1>3 DEF UpdateItemReadProducts, SessionOK, OrderLabels, UserLabels,
                      ProductLabels
  <2> QED
    BY <1>3, <2>1, ReadStep DEF UpdateItemReadProducts, Labels
<1>4. CASE CreateOrderReadProducts(r)
  <2> DEFINE L == InLines(ses[r].lines)
             s == [ses[r] EXCEPT !.stock = Loaded(stock, L),
                                 !.price = Loaded(price, L)]
  <2>1. pc[r] = "checkout_products" /\ Advance(r, "checkout_lock", s)
        /\ UNCHANGED <<tables, lock, gateway>>
    BY <1>4 DEF CreateOrderReadProducts
  <2>2. /\ Loaded(stock, L) \in [Products -> Int]
        /\ \A x \in Products : Loaded(stock, L)[x] >= 0
        /\ Loaded(price, L) \in [Products -> Nat]
    BY LoadedTyped DEF IInv, InLines
  <2> HIDE DEF L
  <2>3. s \in Session
    BY <1>1, <2>2 DEF Session
  <2>4. s.stock = Loaded(stock, L) /\ s.user = ses[r].user
    BY <1>1, <2>2 DEF Session
  <2> HIDE DEF s
  <2>5. SessionOK("checkout_lock", s)
    BY <1>1, <2>1, <2>2, <2>3, <2>4
    DEF SessionOK, OrderLabels, UserLabels, ProductLabels
  <2> QED
    BY <2>1, <2>5, ReadStep DEF Labels
<1>5. CASE CancelReadProducts(r)
  <2> DEFINE L == ItemsOf(ses[r].order)
             s == [ses[r] EXCEPT !.stock = Loaded(stock, L)]
  <2>1. pc[r] = "cancel_products" /\ Advance(r, "cancel_write", s)
        /\ UNCHANGED <<tables, lock, gateway>>
    BY <1>5 DEF CancelReadProducts
  <2>2. /\ Loaded(stock, L) \in [Products -> Int]
        /\ \A x \in Products : Loaded(stock, L)[x] >= 0
    BY LoadedTyped DEF IInv, ItemsOf
  <2> HIDE DEF L
  <2>3. s \in Session
    BY <1>1, <2>2 DEF Session
  <2>4. s.stock = Loaded(stock, L) /\ s.order = ses[r].order
        /\ s.status = ses[r].status
    BY <1>1, <2>2 DEF Session
  <2> HIDE DEF s
  <2>5. SessionOK("cancel_write", s)
    BY <1>1, <2>1, <2>2, <2>3, <2>4
    DEF SessionOK, OrderLabels, UserLabels, ProductLabels
  <2> QED
    BY <2>1, <2>5, ReadStep DEF Labels
<1> QED
  BY <1>2, <1>3, <1>4, <1>5

-------------------------------------------------------------------------------
(***************************************************************************)
(* The statements that write.                                              *)
(***************************************************************************)

\* A transaction that writes the carts only.
LEMMA CartWrite ==
  ASSUME IInv, NEW r \in Requests, Finish(r),
         cart' \in [Users -> [Products -> CartRow]],
         UNCHANGED <<catalog, orders, payment, gateway>>
  PROVE  IInv'
<1>1. UNCHANGED <<stock, price, active, status, owner, qty, unit, visited,
                  payment, gateway>>
  BY DEF catalog, orders
<1>2. TablesOK' /\ Grows
  BY <1>1
  DEF IInv, TablesOK, TablesTyped, StockNonNegative, HistoryOK, PipelineOrder,
      PaidWasConfirmed, RetriesBounded, NewPaymentOK, Grows, Placed
<1> QED
  BY <1>2, LastStep

\* Deleting rows leaves a cart.
LEMMA CartWithoutTyped ==
  ASSUME cart \in [Users -> [Products -> CartRow]], NEW u \in Users, NEW lines
  PROVE  CartWithout(u, lines) \in [Users -> [Products -> CartRow]]
<1> DEFINE left == [p \in Products |->
                      IF lines[p].qty > 0 /\ cart[u][p].gen = lines[p].gen
                      THEN [gen |-> cart[u][p].gen, qty |-> 0]
                      ELSE cart[u][p]]
<1>1. ASSUME NEW p \in Products PROVE left[p] \in CartRow
  <2>1. cart[u][p] \in CartRow
    OBVIOUS
  <2> QED
    BY <2>1 DEF CartRow
<1>2. left \in [Products -> CartRow]
  BY <1>1
<1>3. CartWithout(u, lines) = [cart EXCEPT ![u] = left]
  BY DEF CartWithout
<1> HIDE DEF left
<1> QED
  BY <1>2, <1>3

\* The cart handlers write nothing but carts.
LEMMA CartStepOK ==
  ASSUME IInv, NEW r \in Requests, CartStep(r)
  PROVE  IInv'
<1>1. /\ SessionOK(pc[r], ses[r])
      /\ ses[r] \in Session
      /\ cart \in [Users -> [Products -> CartRow]]
  BY DEF IInv, SessionOK, TablesOK, TablesTyped
<1>2. CASE AddItemReadCart(r) \/ UpdateItemReadProducts(r)
  BY <1>2, LaterReads
<1>3. CASE AddItemConflict(r) \/ UpdateItemReject(r) \/ UpdateItemConflict(r)
  BY <1>3, RejectStep DEF AddItemConflict, UpdateItemReject, UpdateItemConflict
<1>4. CASE AddItemUpdate(r)
  <2>1. cart' \in [Users -> [Products -> CartRow]]
    BY <1>1, <1>4 DEF AddItemUpdate, SetCartRow, SessionOK, UserLabels,
                      ProductLabels, Session, CartRow
  <2> QED
    BY <1>4, <2>1, CartWrite DEF AddItemUpdate
<1>5. CASE AddItemInsert(r)
  <2>1. cart' \in [Users -> [Products -> CartRow]]
    BY <1>1, <1>5 DEF AddItemInsert, SetCartRow, SessionOK, UserLabels,
                      ProductLabels, Session, CartRow
  <2> QED
    BY <1>5, <2>1, CartWrite DEF AddItemInsert
<1>6. CASE UpdateItemCommit(r)
  <2>1. cart' \in [Users -> [Products -> CartRow]]
    <3> DEFINE u   == ses[r].user
               p   == ses[r].product
               row == ses[r].lines[p]
    <3>1. CASE UNCHANGED cart
      BY <1>1, <3>1
    <3>2. CASE SetCartRow(u, p, [row EXCEPT !.qty = ses[r].amount])
      <4>1. u \in Users /\ p \in Products
        BY <1>1, <1>6 DEF UpdateItemCommit, SessionOK, UserLabels, ProductLabels
      <4>2. row \in CartRow /\ ses[r].amount \in Nat
        BY <1>1, <4>1 DEF Session
      <4>3. [row EXCEPT !.qty = ses[r].amount] \in CartRow
        BY <4>2 DEF CartRow
      <4> QED
        BY <1>1, <3>2, <4>1, <4>3 DEF SetCartRow
    <3> QED
      BY <1>6, <3>1, <3>2 DEF UpdateItemCommit
  <2> QED
    BY <1>6, <2>1, CartWrite DEF UpdateItemCommit
<1>7. CASE CartDeleteCommit(r)
  <2>1. cart' \in [Users -> [Products -> CartRow]]
    <3>1. /\ pc[r] = "cart_delete"
          /\ cart' = CartWithout(ses[r].user, ses[r].lines)
      BY <1>7 DEF CartDeleteCommit
    <3>2. ses[r].user \in Users
      BY <1>1, <3>1 DEF SessionOK, UserLabels
    <3> QED
      BY <1>1, <3>1, <3>2, CartWithoutTyped
  <2> QED
    BY <1>7, <2>1, CartWrite DEF CartDeleteCommit
<1> QED
  BY <1>2, <1>3, <1>4, <1>5, <1>6, <1>7 DEF CartStep

\* update_product writes the stock it was given, never below zero.
LEMMA ProductStepOK ==
  ASSUME IInv, NEW r \in Requests, ProductStep(r)
  PROVE  IInv'
<1> DEFINE s == ses[r]
           p == ses[r].product
<1>1. SessionOK(pc[r], s) /\ s \in Session
  BY DEF IInv, SessionOK
<1>2. ASSUME NEW newStock, NEW newPrice, NEW newActive,
             UpdateProductCommit(r, newStock, newPrice, newActive)
      PROVE  IInv'
  <2>1. p \in Products
    BY <1>1, <1>2 DEF UpdateProductCommit, SessionOK, ProductLabels
  <2>6. /\ s.stock[p] \in Int /\ s.stock[p] >= 0 /\ s.price[p] \in Nat
        /\ s.active \in BOOLEAN
    BY <1>1, <2>1 DEF SessionOK, Session
  <2>7. /\ newStock \in StockValues \cup {s.stock[p]}
        /\ newPrice \in Prices \cup {s.price[p]}
        /\ newActive \in BOOLEAN
        /\ UNCHANGED <<cart, orders, payment, gateway>>
    BY <1>2 DEF UpdateProductCommit
  <2>2. /\ newStock \in Int /\ newStock >= 0 /\ newPrice \in Nat
    <3>1. StockValues \subseteq Nat /\ Prices \subseteq Nat
      BY ConstantsAssumption
    <3> HIDE DEF s, p
    <3>2. newStock \in Nat \/ newStock = s.stock[p]
      BY <2>7, <3>1
    <3>3. newPrice \in Nat \/ newPrice = s.price[p]
      BY <2>7, <3>1
    <3> QED
      BY <2>6, <3>2, <3>3
  <2>3. /\ stock'  = [stock EXCEPT ![p] = Flushed(@, s.stock[p], newStock)]
        /\ price'  = [price EXCEPT ![p] = Flushed(@, s.price[p], newPrice)]
        /\ active' = [active EXCEPT ![p] = Flushed(@, s.active, newActive)]
        /\ Finish(r)
    BY <1>2 DEF UpdateProductCommit
  <2>4. TablesTyped' /\ StockNonNegative'
    BY <2>1, <2>2, <2>3, <2>6, <2>7
    DEF IInv, TablesOK, TablesTyped, StockNonNegative, Flushed, orders
  <2>5. TablesOK' /\ Grows
    BY <2>4, <2>7
    DEF IInv, TablesOK, TablesTyped, orders, HistoryOK, PipelineOrder,
        PaidWasConfirmed, RetriesBounded, NewPaymentOK, Grows, Placed
  <2> QED
    BY <2>3, <2>5, LastStep
<1>3. CASE DeleteProductCommit(r)
  <2>1. active' \in [Products -> BOOLEAN]
    BY <1>3 DEF DeleteProductCommit, IInv, TablesOK, TablesTyped, Flushed
  <2>2. TablesOK' /\ Grows
    BY <1>3, <2>1
    DEF DeleteProductCommit, IInv, TablesOK, TablesTyped, StockNonNegative,
        orders, HistoryOK, PipelineOrder, PaidWasConfirmed, RetriesBounded,
        NewPaymentOK, Grows, Placed
  <2> QED
    BY <1>3, <2>2, LastStep DEF DeleteProductCommit
<1> QED
  BY <1>2, <1>3 DEF ProductStep

-------------------------------------------------------------------------------
(***************************************************************************)
(* Orders and payments.                                                    *)
(***************************************************************************)

\* The pipeline: into SHIPPED from ORDER_CONFIRMED only, into DELIVERED from
\* SHIPPED only.
LEMMA PipelineTable ==
  ASSUME NEW current \in OrderStatus, NEW target, ValidTransition(current, target)
  PROVE  /\ target \in OrderStatus
         /\ target = "SHIPPED" => current = "ORDER_CONFIRMED"
         /\ target = "DELIVERED" => current = "SHIPPED"
BY DEF ValidTransition, ALLOWED_TRANSITIONS, OrderStatus

\* What SetStatus does to the histories.
LEMMA SetStatusOK ==
  ASSUME TablesTyped, HistoryOK, PipelineOrder, PaidWasConfirmed,
         NEW o \in Placed, NEW x \in OrderStatus, SetStatus(o, x),
         x = "SHIPPED" => "ORDER_CONFIRMED" \in visited[o],
         x = "DELIVERED" => "SHIPPED" \in visited[o],
         \A a \in Placed :
            payment[a].status # NoRow => payment'[a].status # NoRow
  PROVE  /\ status' \in [OrderIds -> OrderStatus \cup {NoRow}]
         /\ visited' \in [OrderIds -> SUBSET OrderStatus]
         /\ UNCHANGED <<owner, qty, unit>>
         /\ HistoryOK'
         /\ PipelineOrder'
         /\ Grows
         /\ \A a \in OrderIds : visited[a] \subseteq visited'[a]
         /\ x \in visited'[o]
<1>1. /\ o \in OrderIds
      /\ status \in [OrderIds -> OrderStatus \cup {NoRow}]
      /\ visited \in [OrderIds -> SUBSET OrderStatus]
  BY DEF Placed, TablesTyped
<1>2. /\ status'  = [status EXCEPT ![o] = x]
      /\ visited' = [visited EXCEPT ![o] = @ \cup {x}]
      /\ UNCHANGED <<owner, qty, unit>>
  BY DEF SetStatus
<1>3. /\ status' \in [OrderIds -> OrderStatus \cup {NoRow}]
      /\ visited' \in [OrderIds -> SUBSET OrderStatus]
  BY <1>1, <1>2
<1>4. /\ \A a \in OrderIds : visited[a] \subseteq visited'[a]
      /\ \A a \in OrderIds : a # o => visited'[a] = visited[a]
                                     /\ status'[a] = status[a]
      /\ visited'[o] = visited[o] \cup {x} /\ status'[o] = x
  BY <1>1, <1>2
<1>5. x # NoRow
  BY DEF OrderStatus, NoRow
<1>6. HistoryOK'
  BY <1>3, <1>4 DEF HistoryOK, Placed
<1>7. Grows
  BY <1>4, <1>5 DEF Grows, Placed
<1>8. PipelineOrder'
  BY <1>1, <1>4 DEF PipelineOrder
<1> QED
  BY <1>2, <1>3, <1>4, <1>6, <1>7, <1>8

\* FOR UPDATE changes no table.
LEMMA LockRowOK ==
  ASSUME IInv, NEW r \in Requests, NEW p \in Products, LockRow(r, p)
  PROVE  IInv'
<1>1. TablesOK' /\ Grows
  BY TablesStable DEF IInv, LockRow
<1>2. SessionsTyped' /\ UNCHANGED <<pc, ses>>
  BY DEF IInv, SessionsTyped, LockRow
<1> QED
  BY <1>1, <1>2, SessionStable DEF IInv

\* A checkout takes only what the stock it loaded has.
LEMMA CreateOrderOK ==
  ASSUME IInv, NEW r \in Requests, CreateOrderCommit(r)
  PROVE  IInv'
<1> DEFINE s == ses[r]
           o == ses[r].order
           L == InLines(ses[r].lines)
           bought == [p \in Products |-> ses[r].lines[p].qty]
<1>1. /\ s \in Session /\ s.user \in Users
      /\ \A p \in Products : s.stock[p] >= 0
  BY DEF IInv, SessionOK, UserLabels, CreateOrderCommit
<1>2. /\ stock' = [p \in Products |->
                      IF p \in L THEN s.stock[p] - s.lines[p].qty ELSE stock[p]]
      /\ status'  = [status  EXCEPT ![o] = "PENDING"]
      /\ visited' = [visited EXCEPT ![o] = @ \cup {"PENDING"}]
      /\ owner'   = [owner   EXCEPT ![o] = s.user]
      /\ qty'     = [qty     EXCEPT ![o] = bought]
      /\ unit'    = [unit    EXCEPT ![o] = s.price]
      /\ cart'    = CartWithout(s.user, s.lines)
      /\ Finish(r)
      /\ UNCHANGED <<price, active, payment, gateway>>
      /\ InStock(s)
  BY DEF CreateOrderCommit
<1>3. /\ \A p \in Products : s.lines[p].qty \in Nat /\ s.stock[p] \in Int
      /\ s.price \in [Products -> Nat]
  BY <1>1 DEF Session, CartRow
<1>4. bought \in [Products -> Nat]
  BY <1>3
<1>5. TablesTyped /\ StockNonNegative
  BY DEF IInv, TablesOK
<1>6. stock' \in [Products -> Int] /\ StockNonNegative'
  BY <1>2, <1>3, <1>5 DEF TablesTyped, StockNonNegative, InStock
<1>7. cart' \in [Users -> [Products -> CartRow]]
  BY <1>1, <1>2, <1>5, CartWithoutTyped DEF TablesTyped
<1> HIDE DEF s, o, L, bought
<1>8. /\ status' \in [OrderIds -> OrderStatus \cup {NoRow}]
      /\ visited' \in [OrderIds -> SUBSET OrderStatus]
  BY <1>2, <1>5 DEF TablesTyped, OrderStatus
<1>9. /\ owner' \in [OrderIds -> Users \cup {None}]
      /\ qty'   \in [OrderIds -> [Products -> Nat]]
      /\ unit'  \in [OrderIds -> [Products -> Nat]]
  BY <1>1, <1>2, <1>3, <1>4, <1>5 DEF TablesTyped
<1>10. TablesTyped'
  BY <1>2, <1>5, <1>6, <1>7, <1>8, <1>9 DEF TablesTyped
<1>11. /\ \A a \in OrderIds : visited[a] \subseteq visited'[a]
       /\ \A a \in OrderIds : a # o => visited'[a] = visited[a]
                                      /\ status'[a] = status[a]
       /\ o \in OrderIds => /\ visited'[o] = visited[o] \cup {"PENDING"}
                            /\ status'[o] = "PENDING"
  BY <1>2, <1>5 DEF TablesTyped
<1>12. HistoryOK' /\ Grows
  BY <1>2, <1>11 DEF IInv, TablesOK, HistoryOK, Grows, Placed, NoRow
<1>13. PipelineOrder' /\ PaidWasConfirmed'
  BY <1>2, <1>11 DEF IInv, TablesOK, PipelineOrder, PaidWasConfirmed
<1>14. RetriesBounded' /\ NewPaymentOK'
  BY <1>2 DEF IInv, TablesOK, RetriesBounded, NewPaymentOK
<1> QED
  BY <1>2, <1>6, <1>10, <1>12, <1>13, <1>14, LastStep DEF TablesOK

\* A transaction that sets the status of the order its session loaded and
\* leaves the payments alone.
LEMMA StatusWrite ==
  ASSUME IInv, NEW r \in Requests, NEW o \in Placed, NEW x \in OrderStatus,
         SetStatus(o, x), Finish(r),
         x = "SHIPPED" => "ORDER_CONFIRMED" \in visited[o],
         x = "DELIVERED" => "SHIPPED" \in visited[o],
         stock' \in [Products -> Int], StockNonNegative',
         UNCHANGED <<price, active, cart, payment, gateway>>
  PROVE  IInv'
<1>1. /\ status' \in [OrderIds -> OrderStatus \cup {NoRow}]
      /\ visited' \in [OrderIds -> SUBSET OrderStatus]
      /\ UNCHANGED <<owner, qty, unit>>
      /\ HistoryOK' /\ PipelineOrder' /\ Grows
      /\ \A a \in OrderIds : visited[a] \subseteq visited'[a]
  BY SetStatusOK DEF IInv, TablesOK
<1>2. TablesTyped'
  BY <1>1 DEF IInv, TablesOK, TablesTyped
<1>3. PaidWasConfirmed' /\ RetriesBounded' /\ NewPaymentOK'
  BY <1>1
  DEF IInv, TablesOK, PaidWasConfirmed, RetriesBounded, NewPaymentOK
<1> QED
  BY <1>1, <1>2, <1>3, LastStep DEF TablesOK

\* A cancellation adds to the stock it loaded, and to the history.
LEMMA CancelOK ==
  ASSUME IInv, NEW r \in Requests, CancelCommit(r)
  PROVE  IInv'
<1> DEFINE s == ses[r]
           o == ses[r].order
<1>1. s \in Session /\ o \in Placed /\ \A p \in Products : s.stock[p] >= 0
  BY DEF IInv, SessionOK, OrderLabels, CancelCommit
<1>2. /\ stock' = [p \in Products |->
                      IF p \in ItemsOf(o) THEN s.stock[p] + qty[o][p]
                                          ELSE stock[p]]
      /\ SetStatus(o, "CANCELLED")
      /\ Finish(r)
      /\ UNCHANGED <<price, active, cart, payment, gateway>>
  BY DEF CancelCommit
<1>3. /\ \A p \in Products : s.stock[p] \in Int
      /\ \A p \in Products : qty[o][p] \in Nat
  BY <1>1 DEF Session, IInv, TablesOK, TablesTyped, Placed
<1>4. /\ stock \in [Products -> Int]
      /\ \A p \in Products : stock[p] >= 0
  BY DEF IInv, TablesOK, TablesTyped, StockNonNegative
<1> HIDE DEF s, o
<1>5. stock' \in [Products -> Int] /\ StockNonNegative'
  BY <1>1, <1>2, <1>3, <1>4 DEF StockNonNegative
<1> QED
  BY <1>1, <1>2, <1>5, StatusWrite DEF OrderStatus

\* update_order_status keeps the pipeline's order, from any status loaded.
LEMMA StatusOK ==
  ASSUME IInv, NEW r \in Requests, NEW target \in OrderStatus,
         StatusCommit(r, target)
  PROVE  IInv'
<1> DEFINE s == ses[r]
           o == ses[r].order
           x == Flushed(status[o], s.status, target)
<1>1. o \in Placed /\ s.status \in visited[o]
  BY DEF IInv, SessionOK, OrderLabels, StatusCommit
<1>2. /\ ValidTransition(s.status, target)
      /\ SetStatus(o, x)
      /\ Finish(r)
      /\ UNCHANGED <<catalog, cart, payment, gateway>>
  BY DEF StatusCommit
<1>3. /\ visited[o] \subseteq OrderStatus
      /\ status[o] \in visited[o]
      /\ PipelineOrder
      /\ o \in OrderIds
  BY <1>1 DEF IInv, TablesOK, TablesTyped, HistoryOK, Placed
<1>4. x = status[o] \/ x = target
  BY DEF Flushed
<1>5. /\ target = "SHIPPED" => s.status = "ORDER_CONFIRMED"
      /\ target = "DELIVERED" => s.status = "SHIPPED"
  BY <1>1, <1>2, <1>3, PipelineTable
<1> HIDE DEF s, o, x
<1>6. /\ x = "SHIPPED" => "ORDER_CONFIRMED" \in visited[o]
      /\ x = "DELIVERED" => "SHIPPED" \in visited[o]
  BY <1>1, <1>3, <1>4, <1>5 DEF PipelineOrder
<1>7. x \in OrderStatus
  BY <1>3, <1>4
<1>8. /\ stock' \in [Products -> Int] /\ StockNonNegative'
      /\ UNCHANGED <<price, active, cart, payment, gateway>>
  BY <1>2 DEF catalog, IInv, TablesOK, TablesTyped, StockNonNegative
<1> QED
  BY <1>1, <1>2, <1>6, <1>7, <1>8, StatusWrite

\* The stale-order task adds to the history of its batch.
LEMMA CleanupOK ==
  ASSUME IInv, NEW r \in Requests, CleanupCommit(r)
  PROVE  IInv'
<1> DEFINE B == ses[r].batch
<1>1. B \subseteq Placed
  BY DEF IInv, SessionOK, CleanupCommit
<1>2. /\ status'  = [o \in OrderIds |->
                        IF o \in B THEN "CANCELLED" ELSE status[o]]
      /\ visited' = [o \in OrderIds |->
                        IF o \in B THEN visited[o] \cup {"CANCELLED"}
                                   ELSE visited[o]]
      /\ Finish(r)
      /\ UNCHANGED <<stock, price, active, cart, owner, qty, unit, payment, gateway>>
  BY DEF CleanupCommit, catalog
<1> HIDE DEF B
<1>3. TablesTyped'
  BY <1>2 DEF IInv, TablesOK, TablesTyped, OrderStatus
<1>4. StockNonNegative' /\ RetriesBounded' /\ NewPaymentOK'
  BY <1>2 DEF IInv, TablesOK, StockNonNegative, RetriesBounded, NewPaymentOK
<1>5. HistoryOK' /\ Grows
  BY <1>1, <1>2 DEF IInv, TablesOK, HistoryOK, Grows, Placed, NoRow
<1>6. PipelineOrder' /\ PaidWasConfirmed'
  BY <1>2 DEF IInv, TablesOK, PipelineOrder, PaidWasConfirmed
<1> QED
  BY <1>2, <1>3, <1>4, <1>5, <1>6, LastStep DEF TablesOK

\* The gateway's answer is remembered by the session.
LEMMA GatewayOK ==
  ASSUME IInv, NEW r \in Requests, NEW answer \in {"approved", "declined"},
         PayGateway(r, answer)
  PROVE  IInv'
<1> DEFINE o     == ses[r].order
           s     == [ses[r] EXCEPT !.payment = payment[o]]
           label == IF answer = "approved" THEN "pay_approved"
                                           ELSE "pay_declined"
<1>1. /\ pc[r] = "pay_payment"
      /\ ~RetriesExceeded(payment[o])
      /\ Advance(r, label, s)
      /\ gateway' = [gateway EXCEPT ![o][answer] = @ + 1]
      /\ UNCHANGED <<tables, lock>>
  BY DEF PayGateway
<1>2. /\ ses[r] \in Session /\ SessionOK(pc[r], ses[r])
      /\ o \in Placed /\ o \in OrderIds
  BY <1>1 DEF IInv, SessionOK, OrderLabels, Placed
<1>3. payment[o] \in PaymentRow
  BY <1>2 DEF IInv, TablesOK, TablesTyped
<1>4. payment[o].retries < MAX_RETRIES
  BY <1>1, <1>2, <1>3, ConstantsAssumption
  DEF RetriesExceeded, PaymentRow, IInv, TablesOK, NewPaymentOK
<1>5. s \in Session
  BY <1>2, <1>3 DEF Session
<1>6. /\ s.stock = ses[r].stock /\ s.order = o /\ s.status = ses[r].status
      /\ s.payment = payment[o]
  BY <1>2, <1>3 DEF Session
<1>7. gateway' \in [OrderIds -> [approved : Nat, declined : Nat]]
  <2>1. /\ gateway \in [OrderIds -> [approved : Nat, declined : Nat]]
        /\ gateway[o] \in [approved : Nat, declined : Nat]
    BY <1>2 DEF IInv, TablesOK, TablesTyped
  <2>2. [gateway[o] EXCEPT ![answer] = @ + 1] \in [approved : Nat, declined : Nat]
    BY <2>1
  <2> QED
    BY <1>1, <2>1, <2>2
<1>8. TablesOK' /\ Grows
  BY <1>1, <1>7
  DEF IInv, TablesOK, TablesTyped, StockNonNegative, HistoryOK, PipelineOrder,
      PaidWasConfirmed, RetriesBounded, NewPaymentOK, Grows, Placed, tables,
      catalog, orders
<1>9. label \in {"pay_approved", "pay_declined"}
  OBVIOUS
<1> HIDE DEF s, label
<1>10. SessionOK(label, s)
  BY <1>1, <1>2, <1>4, <1>5, <1>6, <1>9
  DEF SessionOK, OrderLabels, UserLabels, ProductLabels
<1> QED
  BY <1>1, <1>8, <1>9, <1>10, LoadStep DEF Labels

\* The commit of a payment: the order's status and its payment row change.
LEMMA PaymentWrite ==
  ASSUME IInv, NEW r \in Requests, NEW o \in Placed, NEW x \in OrderStatus,
         SetStatus(o, x), Finish(r), x \notin {"SHIPPED", "DELIVERED"} \/ x = status[o],
         NEW row \in PaymentRow,
         payment' = [payment EXCEPT ![o] = row],
         row.retries <= MAX_RETRIES,
         row.status # NoRow,
         row.status = "SUCCESS" => \/ payment[o].status = "SUCCESS"
                                   \/ x = "ORDER_CONFIRMED",
         UNCHANGED <<catalog, cart, gateway>>
  PROVE  IInv'
<1>1. /\ visited[o] \subseteq OrderStatus /\ status[o] \in visited[o]
      /\ PipelineOrder /\ o \in OrderIds
      /\ payment \in [OrderIds -> PaymentRow]
  BY DEF IInv, TablesOK, TablesTyped, HistoryOK, Placed
<1>2. /\ x = "SHIPPED" => "ORDER_CONFIRMED" \in visited[o]
      /\ x = "DELIVERED" => "SHIPPED" \in visited[o]
  BY <1>1 DEF PipelineOrder
<1>3. /\ payment'[o] = row
      /\ \A a \in OrderIds : a # o => payment'[a] = payment[a]
  BY <1>1
<1>4. /\ status' \in [OrderIds -> OrderStatus \cup {NoRow}]
      /\ visited' \in [OrderIds -> SUBSET OrderStatus]
      /\ UNCHANGED <<owner, qty, unit>>
      /\ HistoryOK' /\ PipelineOrder' /\ Grows
      /\ \A a \in OrderIds : visited[a] \subseteq visited'[a]
      /\ x \in visited'[o]
  BY <1>2, <1>3, SetStatusOK DEF IInv, TablesOK, Placed
<1>5. TablesTyped' /\ StockNonNegative'
  BY <1>1, <1>4 DEF IInv, TablesOK, TablesTyped, StockNonNegative, catalog
<1>6. RetriesBounded' /\ NewPaymentOK'
  BY <1>3 DEF IInv, TablesOK, RetriesBounded, NewPaymentOK
<1>7. PaidWasConfirmed'
  BY <1>1, <1>4, <1>3 DEF IInv, TablesOK, PaidWasConfirmed
<1> QED
  BY <1>4, <1>5, <1>6, <1>7, LastStep DEF TablesOK

\* An approved payment is recorded together with the confirmation.
LEMMA ApprovedOK ==
  ASSUME IInv, NEW r \in Requests, PayApprovedCommit(r)
  PROVE  IInv'
<1> DEFINE s == ses[r]
           o == ses[r].order
           row == PaymentAfter(s, [status  |-> "SUCCESS",
                                   retries |-> s.payment.retries])
<1>1. /\ s \in Session /\ o \in Placed /\ o \in OrderIds
      /\ s.payment.status # NoRow => payment[o].status # NoRow
  BY DEF IInv, SessionOK, OrderLabels, PayApprovedCommit, Placed
<1>2. /\ payment' = [payment EXCEPT ![o] = row]
      /\ SetStatus(o, "ORDER_CONFIRMED")
      /\ Finish(r)
      /\ UNCHANGED <<catalog, cart, gateway>>
      /\ ~Duplicate(s)
  BY DEF PayApprovedCommit
<1>3. /\ payment[o] \in PaymentRow /\ s.payment \in PaymentRow
      /\ payment[o].retries <= MAX_RETRIES
  BY <1>1 DEF IInv, TablesOK, TablesTyped, RetriesBounded, Session
<1>4. /\ row.retries = payment[o].retries
      /\ row.status \in {payment[o].status, "SUCCESS"}
      /\ row = [status |-> row.status, retries |-> row.retries]
  BY DEF PaymentAfter, Flushed
<1>5. row.status # NoRow
  BY <1>1, <1>2 DEF PaymentAfter, Flushed, Duplicate, NoRow
<1> HIDE DEF s, o, row
<1>6. row \in PaymentRow
  BY <1>3, <1>4 DEF PaymentRow, PaymentStatus
<1> QED
  BY <1>1, <1>2, <1>3, <1>4, <1>5, <1>6, PaymentWrite DEF OrderStatus

\* A declined payment counts one retry more, within the limit.
LEMMA DeclinedOK ==
  ASSUME IInv, NEW r \in Requests, PayDeclinedCommit(r)
  PROVE  IInv'
<1> DEFINE s == ses[r]
           o == ses[r].order
           x == Flushed(status[o], s.status, "PAYMENT_FAILED")
           row == PaymentAfter(s, [status  |-> "FAILED",
                                   retries |-> s.payment.retries + 1])
<1>1. /\ s \in Session /\ o \in Placed /\ o \in OrderIds
      /\ s.payment.retries < MAX_RETRIES
      /\ s.payment.status # NoRow => payment[o].status # NoRow
  BY DEF IInv, SessionOK, OrderLabels, PayDeclinedCommit, Placed
<1>2. /\ payment' = [payment EXCEPT ![o] = row]
      /\ SetStatus(o, x)
      /\ Finish(r)
      /\ UNCHANGED <<catalog, cart, gateway>>
      /\ ~Duplicate(s)
  BY DEF PayDeclinedCommit
<1>3. /\ payment[o] \in PaymentRow /\ s.payment \in PaymentRow
      /\ payment[o].retries <= MAX_RETRIES /\ MAX_RETRIES \in Nat
      /\ status[o] \in OrderStatus
  BY <1>1, ConstantsAssumption
  DEF IInv, TablesOK, TablesTyped, RetriesBounded, Session, HistoryOK
<1>4. /\ s.payment.retries \in Nat /\ payment[o].retries \in Nat
  BY <1>3 DEF PaymentRow
<1>5. /\ row.retries \in {payment[o].retries, s.payment.retries + 1}
      /\ row.status \in {payment[o].status, "FAILED"}
      /\ row = [status |-> row.status, retries |-> row.retries]
  BY DEF PaymentAfter, Flushed
<1>6. row.status # NoRow
  BY <1>1, <1>2 DEF PaymentAfter, Flushed, Duplicate, NoRow
<1>7. x \in {status[o], "PAYMENT_FAILED"}
  BY DEF Flushed
<1> HIDE DEF s, o, x, row
<1>8. row \in PaymentRow /\ row.retries <= MAX_RETRIES
  BY <1>1, <1>3, <1>4, <1>5 DEF PaymentRow, PaymentStatus
<1>9. x \in OrderStatus
  BY <1>3, <1>7 DEF OrderStatus
<1> QED
  BY <1>1, <1>2, <1>5, <1>6, <1>7, <1>8, <1>9, PaymentWrite

-------------------------------------------------------------------------------
(***************************************************************************)
(* The invariant, and what follows from it.                                *)
(***************************************************************************)
LEMMA OrderStepOK ==
  ASSUME IInv, NEW r \in Requests, OrderStep(r)
  PROVE  IInv'
<1>1. CASE CreateOrderReadProducts(r) \/ CancelReadProducts(r)
  BY <1>1, LaterReads
<1>2. CASE CreateOrderReject(r) \/ DeadlockVictim(r)
  BY <1>2, RejectStep DEF CreateOrderReject, DeadlockVictim
<1>3. CASE CreateOrderCommit(r)
  BY <1>3, CreateOrderOK
<1>4. CASE CancelCommit(r)
  BY <1>4, CancelOK
<1>5. CASE \E p \in Products : LockRow(r, p)
  BY <1>5, LockRowOK
<1>6. CASE \E target \in OrderStatus : StatusCommit(r, target)
  BY <1>6, StatusOK
<1>7. CASE CleanupCommit(r)
  BY <1>7, CleanupOK
<1> QED
  BY <1>1, <1>2, <1>3, <1>4, <1>5, <1>6, <1>7 DEF OrderStep

\* The payment handler, statement by statement.
LEMMA PaymentStepOK ==
  ASSUME IInv, NEW r \in Requests, PaymentStep(r)
  PROVE  IInv'
<1>1. CASE PayRejectRetries(r) \/ PayConflict(r)
  BY <1>1, RejectStep DEF PayRejectRetries, PayConflict
<1>2. CASE \E answer \in {"approved", "declined"} : PayGateway(r, answer)
  BY <1>2, GatewayOK
<1>3. CASE PayApprovedCommit(r)
  BY <1>3, ApprovedOK
<1>4. CASE PayDeclinedCommit(r)
  BY <1>4, DeclinedOK
<1> QED
  BY <1>1, <1>2, <1>3, <1>4 DEF PaymentStep

\* The tables as they are set up.
LEMMA InitIInv ==
  ASSUME Init
  PROVE  IInv
<1>1. /\ InitStock \in [Products -> Nat]
      /\ InitPrice \in [Products -> Nat]
      /\ InitCart \in [Users -> [Products -> Nat]]
      /\ MAX_RETRIES \in Nat \ {0}
  BY ConstantsAssumption
<1>2. TablesTyped
  <2>1. cart \in [Users -> [Products -> CartRow]]
    <3>1. ASSUME NEW u \in Users, NEW p \in Products
          PROVE  [gen |-> IF InitCart[u][p] > 0 THEN 1 ELSE 0,
                  qty |-> InitCart[u][p]] \in CartRow
      BY <1>1 DEF CartRow
    <3> QED
      BY <3>1 DEF Init
  <2>2. payment \in [OrderIds -> PaymentRow]
    BY DEF Init, NoPayment, PaymentRow
  <2>3. gateway \in [OrderIds -> [approved : Nat, declined : Nat]]
    BY DEF Init
  <2> QED
    BY <1>1, <2>1, <2>2, <2>3 DEF Init, TablesTyped, Zero
<1>3. TablesOK
  BY <1>1, <1>2
  DEF Init, TablesOK, StockNonNegative, HistoryOK, PipelineOrder, PaidWasConfirmed,
      RetriesBounded, NewPaymentOK, NoPayment, Placed, NoRow
<1>4. SessionsTyped
  BY FreshSession DEF Init, SessionsTyped, Labels
<1>5. \A r \in Requests : SessionOK(pc[r], ses[r])
  BY EmptySessionOK DEF Init
<1> QED
  BY <1>3, <1>4, <1>5 DEF IInv

\* Every step of the shop keeps the invariant.
LEMMA NextIInv ==
  ASSUME IInv, [Next]_vars
  PROVE  IInv'
<1>1. ASSUME NEW r \in Requests, Start(r) PROVE IInv'
  BY <1>1, CartReads, OrderReads, ProductReads DEF Start
<1>2. ASSUME NEW r \in Requests, Continue(r) PROVE IInv'
  BY <1>2, CartStepOK, OrderStepOK, PaymentStepOK, ProductStepOK DEF Continue
<1>3. ASSUME NEW r \in Requests, Crash(r) PROVE IInv'
  BY <1>3, RejectStep DEF Crash
<1>4. CASE UNCHANGED vars
  <2>1. UNCHANGED <<tables, gateway>> /\ UNCHANGED <<lock, pc, ses>>
    BY <1>4 DEF vars
  <2>2. TablesOK' /\ Grows
    BY <2>1, TablesStable DEF IInv
  <2>3. SessionsTyped'
    BY <2>1 DEF IInv, SessionsTyped
  <2> QED
    BY <2>1, <2>2, <2>3, SessionStable DEF IInv
<1> QED
  BY <1>1, <1>2, <1>3, <1>4 DEF Next

\* The inductive invariant holds of every reachable state.
THEOREM Invariance == Spec => []IInv
<1>1. Init => IInv
  BY InitIInv
<1>2. IInv /\ [Next]_vars => IInv'
  BY NextIInv
<1> QED
  BY <1>1, <1>2, PTL DEF Spec

\* Every row, lock and session keeps its type; in particular no handler ever
\* gives a status to an order that does not exist.
THEOREM TypeCorrect == Spec => []TypeOK
<1>1. IInv => TypeOK
  BY DEF IInv, TablesOK, TypeOK
<1> QED
  BY <1>1, Invariance, PTL

\* create_order, cancel_order and update_product never leave a product with
\* negative stock, however stale what they write is.
THEOREM StockSafe == Spec => []StockNonNegative
<1>1. IInv => StockNonNegative
  BY DEF IInv, TablesOK
<1> QED
  BY <1>1, Invariance, PTL

\* No handler delivers an order that was not shipped, or ships one that was
\* not confirmed, although sessions validate against an older status.
THEOREM PipelineSafe == Spec => []PipelineOrder
<1>1. IInv => PipelineOrder
  BY DEF IInv, TablesOK
<1> QED
  BY <1>1, Invariance, PTL

\* process_payment records a success only for an order it confirms.
THEOREM PaymentSafe == Spec => []PaidWasConfirmed
<1>1. IInv => PaidWasConfirmed
  BY DEF IInv, TablesOK
<1> QED
  BY <1>1, Invariance, PTL

\* The recorded retry count respects the limit under concurrent payments.
THEOREM RetriesSafe == Spec => []RetriesBounded
<1>1. IInv => RetriesBounded
  BY DEF IInv, TablesOK
<1> QED
  BY <1>1, Invariance, PTL

-------------------------------------------------------------------------------
(***************************************************************************)
(* Rows of a cart.                                                         *)
(***************************************************************************)
RowsStay ==
    \A u \in Users, p \in Products :
        \/ cart'[u][p].qty = 0
        \/ cart'[u][p].gen > cart[u][p].gen
        \/ cart[u][p].qty > 0 /\ cart'[u][p].gen = cart[u][p].gen

CartTyped == cart \in [Users -> [Products -> CartRow]]

\* A step that leaves the carts alone brings back no row.
LEMMA UnchangedRows ==
  ASSUME CartTyped, UNCHANGED cart
  PROVE  RowsStay
<1>1. ASSUME NEW u \in Users, NEW p \in Products
      PROVE  cart[u][p].qty \in Nat
  BY DEF CartTyped, CartRow
<1> QED
  BY <1>1 DEF RowsStay

\* Writing one row that is there, or is new.
LEMMA RowWritten ==
  ASSUME CartTyped, NEW u \in Users, NEW p \in Products, NEW row,
         SetCartRow(u, p, row),
         \/ row.gen > cart[u][p].gen
         \/ cart[u][p].qty > 0 /\ row.gen = cart[u][p].gen
  PROVE  RowsStay
<1>1. ASSUME NEW v \in Users, NEW x \in Products
      PROVE  cart[v][x].qty \in Nat
  BY DEF CartTyped, CartRow
<1>2. cart'[u][p] = row
  BY DEF CartTyped, SetCartRow
<1>3. ASSUME NEW v \in Users, NEW x \in Products, v # u \/ x # p
      PROVE  cart'[v][x] = cart[v][x]
  BY <1>3 DEF CartTyped, SetCartRow
<1> QED
  BY <1>1, <1>2, <1>3 DEF RowsStay

\* Nor does one that deletes rows.
LEMMA RowsDeleted ==
  ASSUME CartTyped, NEW u \in Users, NEW lines, cart' = CartWithout(u, lines)
  PROVE  RowsStay
<1>1. ASSUME NEW v \in Users, NEW x \in Products
      PROVE  cart[v][x].qty \in Nat
  BY DEF CartTyped, CartRow
<1>2. ASSUME NEW v \in Users, NEW x \in Products
      PROVE  cart'[v][x] = cart[v][x] \/ cart'[v][x].qty = 0
  BY <1>2 DEF CartTyped, CartWithout
<1> QED
  BY <1>1, <1>2 DEF RowsStay

\* The steps that write no cart.
LEMMA OtherSteps ==
  ASSUME NEW r \in Requests,
         \/ Start(r) \/ Crash(r) \/ PaymentStep(r) \/ ProductStep(r)
         \/ OrderStep(r) /\ ~CreateOrderCommit(r)
         \/ AddItemReadCart(r) \/ AddItemConflict(r)
         \/ UpdateItemReadProducts(r) \/ UpdateItemReject(r)
         \/ UpdateItemConflict(r)
  PROVE  UNCHANGED cart
<1>1. ASSUME Reject(r) \/ UNCHANGED tables PROVE UNCHANGED cart
  BY <1>1 DEF Reject, tables
<1>2. CASE Start(r)
  <2>1. CASE CartRequest(r)
    BY <1>1, <2>1 DEF CartRequest, AddItemCheck, UpdateItemRead, RemoveItemRead,
                      ClearCartRead
  <2>2. CASE OrderRequest(r) \/ CleanupTask(r)
    BY <1>1, <2>2 DEF OrderRequest, CleanupTask, CreateOrderReadCart,
                      CancelReadOrder, StatusRead, PayReadOrder, CleanupRead
  <2>3. CASE ProductRequest(r)
    BY <1>1, <2>3 DEF ProductRequest, UpdateProductRead, DeleteProductRead,
                      LoadProduct
  <2> QED
    BY <1>2, <2>1, <2>2, <2>3 DEF Start
<1>3. CASE PaymentStep(r)
  BY <1>1, <1>3 DEF PaymentStep, PayRejectRetries, PayGateway,
                    PayApprovedCommit, PayDeclinedCommit, PayConflict
<1>4. CASE ProductStep(r)
  BY <1>4 DEF ProductStep, UpdateProductCommit, DeleteProductCommit
<1>5. CASE OrderStep(r) /\ ~CreateOrderCommit(r)
  BY <1>1, <1>5 DEF OrderStep, CreateOrderReadProducts, CreateOrderReject,
                    CancelReadProducts, CancelCommit, LockRow, DeadlockVictim,
                    StatusCommit, CleanupCommit
<1>6. CASE Crash(r)
  BY <1>1, <1>6 DEF Crash
<1>7. CASE \/ AddItemReadCart(r) \/ AddItemConflict(r)
           \/ UpdateItemReadProducts(r) \/ UpdateItemReject(r)
           \/ UpdateItemConflict(r)
  BY <1>1, <1>7 DEF AddItemReadCart, AddItemConflict, UpdateItemReadProducts,
                    UpdateItemReject, UpdateItemConflict
<1> QED
  BY <1>2, <1>3, <1>4, <1>5, <1>6, <1>7

\* The steps that do.
LEMMA CartWriters ==
  ASSUME IInv, NEW r \in Requests,
         \/ AddItemUpdate(r) \/ AddItemInsert(r) \/ UpdateItemCommit(r)
         \/ CartDeleteCommit(r) \/ CreateOrderCommit(r)
  PROVE  RowsStay
<1> DEFINE s == ses[r]
<1>1. CartTyped /\ SessionOK(pc[r], s) /\ s \in Session
  BY DEF IInv, TablesOK, TablesTyped, SessionOK, CartTyped
<1>2. CASE AddItemUpdate(r)
  <2>1. /\ s.user \in Users /\ s.product \in Products
        /\ s.lines[s.product] \in CartRow
    BY <1>1, <1>2 DEF AddItemUpdate, SessionOK, UserLabels, ProductLabels, Session
  <2>2. PICK row : /\ SetCartRow(s.user, s.product, row)
                   /\ row.gen = cart[s.user][s.product].gen
                   /\ cart[s.user][s.product].qty > 0
    BY <1>2, <2>1 DEF AddItemUpdate, SameRow, CartRow
  <2> QED
    BY <1>1, <2>1, <2>2, RowWritten
<1>3. CASE AddItemInsert(r)
  <2>1. s.user \in Users /\ s.product \in Products
    BY <1>1, <1>3 DEF AddItemInsert, SessionOK, UserLabels, ProductLabels, Session
  <2>2. cart[s.user][s.product].gen \in Nat
    BY <1>1, <2>1 DEF CartTyped, CartRow
  <2>3. PICK row : /\ SetCartRow(s.user, s.product, row)
                   /\ row.gen = cart[s.user][s.product].gen + 1
    BY <1>3 DEF AddItemInsert
  <2>4. row.gen > cart[s.user][s.product].gen
    BY <2>2, <2>3
  <2> QED
    BY <1>1, <2>1, <2>3, <2>4, RowWritten
<1>4. CASE UpdateItemCommit(r)
  <2>1. /\ s.user \in Users /\ s.product \in Products
        /\ s.lines[s.product] \in CartRow
    BY <1>1, <1>4 DEF UpdateItemCommit, SessionOK, UserLabels, ProductLabels, Session
  <2>2. CASE UNCHANGED cart
    BY <1>1, <2>2, UnchangedRows
  <2>3. CASE ~UNCHANGED cart
    <3>1. PICK row : /\ SetCartRow(s.user, s.product, row)
                     /\ row.gen = cart[s.user][s.product].gen
                     /\ cart[s.user][s.product].qty > 0
      BY <1>4, <2>1, <2>3 DEF UpdateItemCommit, SameRow, CartRow
    <3> QED
      BY <1>1, <2>1, <3>1, RowWritten
  <2> QED
    BY <2>2, <2>3
<1>5. CASE CartDeleteCommit(r)
  <2>1. s.user \in Users
    BY <1>1, <1>5 DEF CartDeleteCommit, SessionOK, UserLabels
  <2> QED
    BY <1>1, <1>5, <2>1, RowsDeleted DEF CartDeleteCommit
<1>6. CASE CreateOrderCommit(r)
  <2>1. s.user \in Users
    BY <1>1, <1>6 DEF CreateOrderCommit, SessionOK, UserLabels
  <2> QED
    BY <1>1, <1>6, <2>1, RowsDeleted DEF CreateOrderCommit
<1> QED
  BY <1>2, <1>3, <1>4, <1>5, <1>6

\* A cart row that a checkout, remove_item or clear_cart deleted is not brought
\* back by an add_item or update_item that had loaded it.
THEOREM DeletedRowsSafe == Spec => DeletedRowsStay
<1>1. IInv /\ [Next]_vars => [RowsStay]_vars
  <2> SUFFICES ASSUME IInv, Next PROVE RowsStay
    OBVIOUS
  <2>1. CartTyped
    BY DEF IInv, TablesOK, TablesTyped, CartTyped
  <2>2. ASSUME NEW r \in Requests, Start(r) \/ Continue(r) \/ Crash(r)
        PROVE  RowsStay
    <3>1. \/ UNCHANGED cart
          \/ AddItemUpdate(r) \/ AddItemInsert(r) \/ UpdateItemCommit(r)
          \/ CartDeleteCommit(r) \/ CreateOrderCommit(r)
      BY <2>2, OtherSteps DEF Continue, CartStep
    <3> QED
      BY <2>1, <3>1, UnchangedRows, CartWriters
  <2> QED
    BY <2>2 DEF Next
<1>2. [RowsStay]_vars => [\A u \in Users, p \in Products :
          \/ cart'[u][p].qty = 0
          \/ cart'[u][p].gen > cart[u][p].gen
          \/ cart[u][p].qty > 0 /\ cart'[u][p].gen = cart[u][p].gen]_vars
  BY DEF RowsStay
<1> QED
  BY <1>1, <1>2, Invariance, PTL DEF Spec, DeletedRowsStay

-------------------------------------------------------------------------------
(***************************************************************************)
(* Charges, when nobody sets the status of an order by hand.  A session    *)
(* that is about to confirm an order has had its charge approved; the      *)
(* gateway never takes an approval back.                                   *)
(***************************************************************************)
ChargedInv ==
    /\ ConfirmedWasCharged
    /\ \A r \in Requests :
          /\ pc[r] # "status_write"
          /\ pc[r] = "pay_approved" => gateway[ses[r].order].approved > 0

\* A statement that is not the last and calls no gateway.
LEMMA ChargedRead ==
  ASSUME IInv, ChargedInv, NEW r \in Requests, NEW s,
         NEW label \in Labels \ {"status_write", "pay_approved"},
         Advance(r, label, s), UNCHANGED <<tables, gateway>>
  PROVE  ChargedInv'
<1>1. ConfirmedWasCharged'
  BY DEF ChargedInv, ConfirmedWasCharged, tables, orders
<1>2. ASSUME NEW x \in Requests
      PROVE  /\ pc'[x] # "status_write"
             /\ pc'[x] = "pay_approved" => gateway'[ses'[x].order].approved > 0
  BY DEF IInv, SessionsTyped, ChargedInv, Advance
<1> QED
  BY <1>1, <1>2 DEF ChargedInv

\* The end of a transaction that confirms only what was charged.
LEMMA ChargedEnd ==
  ASSUME IInv, ChargedInv, NEW r \in Requests, Finish(r), UNCHANGED gateway,
         \A o \in OrderIds : "ORDER_CONFIRMED" \in visited'[o] =>
            \/ "ORDER_CONFIRMED" \in visited[o]
            \/ gateway[o].approved > 0
  PROVE  ChargedInv'
<1>1. ConfirmedWasCharged'
  BY DEF ChargedInv, ConfirmedWasCharged
<1>2. ASSUME NEW x \in Requests
      PROVE  /\ pc'[x] # "status_write"
             /\ pc'[x] = "pay_approved" => gateway'[ses'[x].order].approved > 0
  BY DEF IInv, SessionsTyped, ChargedInv, Finish
<1> QED
  BY <1>1, <1>2 DEF ChargedInv

\* A transaction that writes no order.
LEMMA ChargedElse ==
  ASSUME IInv, ChargedInv, NEW r \in Requests, Finish(r),
         UNCHANGED <<visited, gateway>>
  PROVE  ChargedInv'
BY ChargedEnd

\* A transaction that gives one order a status it has had, or one that is not
\* ORDER_CONFIRMED.
LEMMA ChargedStatus ==
  ASSUME IInv, ChargedInv, NEW r \in Requests, Finish(r), UNCHANGED gateway,
         NEW o, NEW x, visited' = [visited EXCEPT ![o] = @ \cup {x}],
         o \in OrderIds /\ x = "ORDER_CONFIRMED" =>
            \/ "ORDER_CONFIRMED" \in visited[o]
            \/ gateway[o].approved > 0
  PROVE  ChargedInv'
<1>1. visited \in [OrderIds -> SUBSET OrderStatus]
  BY DEF IInv, TablesOK, TablesTyped
<1>2. ASSUME NEW a \in OrderIds, "ORDER_CONFIRMED" \in visited'[a]
      PROVE  "ORDER_CONFIRMED" \in visited[a] \/ gateway[a].approved > 0
  BY <1>1, <1>2
<1> QED
  BY <1>2, ChargedEnd

\* The first statement of a handler other than update_order_status.
LEMMA ChargedStart ==
  ASSUME "update_order_status" \notin Handlers, IInv, ChargedInv,
         NEW r \in Requests, Start(r)
  PROVE  ChargedInv'
<1>1. CASE CartRequest(r)
  BY <1>1, ChargedRead
  DEF CartRequest, AddItemCheck, UpdateItemRead, RemoveItemRead, ClearCartRead,
      Labels
<1>2. CASE OrderRequest(r) \/ CleanupTask(r)
  BY <1>2, ChargedRead
  DEF OrderRequest, CleanupTask, CreateOrderReadCart, CancelReadOrder,
      StatusRead, Begin, PayReadOrder, CleanupRead, Labels
<1>3. CASE ProductRequest(r)
  BY <1>3, ChargedRead
  DEF ProductRequest, UpdateProductRead, DeleteProductRead, LoadProduct, Labels
<1> QED
  BY <1>1, <1>2, <1>3 DEF Start

\* Carts and products have nothing to do with charges.
LEMMA ChargedCart ==
  ASSUME IInv, ChargedInv, NEW r \in Requests, CartStep(r) \/ ProductStep(r)
  PROVE  ChargedInv'
<1>1. CASE AddItemReadCart(r) \/ UpdateItemReadProducts(r)
  BY <1>1, ChargedRead DEF AddItemReadCart, UpdateItemReadProducts, Labels
<1>2. CASE CartStep(r) /\ ~(AddItemReadCart(r) \/ UpdateItemReadProducts(r))
  <2>1. Finish(r) /\ UNCHANGED <<visited, gateway>>
    BY <1>2
    DEF CartStep, AddItemUpdate, AddItemInsert, AddItemConflict,
        UpdateItemReject, UpdateItemCommit, UpdateItemConflict,
        CartDeleteCommit, Reject, tables, orders
  <2> QED
    BY <2>1, ChargedElse
<1>3. CASE ProductStep(r)
  <2>1. Finish(r) /\ UNCHANGED <<visited, gateway>>
    BY <1>3 DEF ProductStep, UpdateProductCommit, DeleteProductCommit, orders
  <2> QED
    BY <2>1, ChargedElse
<1> QED
  BY <1>1, <1>2, <1>3

\* Checkout, cancellation and cleanup confirm no order.
LEMMA ChargedOrder ==
  ASSUME IInv, ChargedInv, NEW r \in Requests, OrderStep(r)
  PROVE  ChargedInv'
<1>1. CASE CreateOrderReadProducts(r) \/ CancelReadProducts(r)
  BY <1>1, ChargedRead DEF CreateOrderReadProducts, CancelReadProducts, Labels
<1>2. CASE CreateOrderReject(r) \/ DeadlockVictim(r)
  BY <1>2, ChargedElse DEF CreateOrderReject, DeadlockVictim, Reject, tables, orders
<1>3. CASE CreateOrderCommit(r)
  <2>1. /\ visited' = [visited EXCEPT ![ses[r].order] = @ \cup {"PENDING"}]
        /\ Finish(r) /\ UNCHANGED gateway
    BY <1>3 DEF CreateOrderCommit
  <2> QED
    BY <2>1, ChargedStatus
<1>4. CASE CancelCommit(r)
  <2>1. /\ visited' = [visited EXCEPT ![ses[r].order] = @ \cup {"CANCELLED"}]
        /\ Finish(r) /\ UNCHANGED gateway
    BY <1>4 DEF CancelCommit, SetStatus
  <2> QED
    BY <2>1, ChargedStatus
<1>5. CASE \E p \in Products : LockRow(r, p)
  <2>1. UNCHANGED <<visited, gateway, pc, ses>>
    BY <1>5 DEF LockRow, tables, orders
  <2> QED
    BY <2>1 DEF ChargedInv, ConfirmedWasCharged
<1>6. CASE \E target \in OrderStatus : StatusCommit(r, target)
  BY <1>6 DEF StatusCommit, ChargedInv
<1>7. CASE CleanupCommit(r)
  <2>1. /\ Finish(r) /\ UNCHANGED gateway
        /\ \A o \in OrderIds : visited'[o] \subseteq visited[o] \cup {"CANCELLED"}
    BY <1>7 DEF CleanupCommit
  <2> QED
    BY <2>1, ChargedEnd
<1> QED
  BY <1>1, <1>2, <1>3, <1>4, <1>5, <1>6, <1>7 DEF OrderStep

\* The gateway's answer reaches the session before its approval is used.
LEMMA ChargedGateway ==
  ASSUME IInv, ChargedInv, NEW r \in Requests,
         NEW answer \in {"approved", "declined"}, PayGateway(r, answer)
  PROVE  ChargedInv'
<1> DEFINE o     == ses[r].order
           s     == [ses[r] EXCEPT !.payment = payment[o]]
           label == IF answer = "approved" THEN "pay_approved"
                                           ELSE "pay_declined"
<1>1. /\ pc[r] = "pay_payment"
      /\ pc'  = [pc EXCEPT ![r] = label]
      /\ ses' = [ses EXCEPT ![r] = s]
      /\ gateway' = [gateway EXCEPT ![o][answer] = @ + 1]
      /\ UNCHANGED visited
  BY DEF PayGateway, Advance, tables, orders
<1>2. /\ ses[r] \in Session /\ o \in OrderIds
      /\ gateway \in [OrderIds -> [approved : Nat, declined : Nat]]
      /\ pc \in [Requests -> Labels] /\ ses \in [Requests -> Session]
  BY <1>1
  DEF IInv, SessionOK, OrderLabels, Placed, TablesOK, TablesTyped, SessionsTyped
<1>3. s.order = o
  BY <1>2 DEF Session
<1>4. ASSUME NEW a \in OrderIds
      PROVE  /\ gateway'[a].approved >= gateway[a].approved
             /\ gateway[a].approved \in Nat
             /\ gateway'[a].approved \in Nat
             /\ a = o /\ answer = "approved" => gateway'[a].approved > 0
  <2>1. gateway[a] \in [approved : Nat, declined : Nat]
    BY <1>2
  <2>2. CASE a = o
    <3>1. gateway'[a] = [gateway[a] EXCEPT ![answer] = @ + 1]
      BY <1>1, <1>2, <2>2
    <3> QED
      BY <2>1, <3>1
  <2>3. CASE a # o
    BY <1>1, <1>2, <2>1, <2>3
  <2> QED
    BY <2>2, <2>3
<1>5. ConfirmedWasCharged'
  BY <1>1, <1>4 DEF ChargedInv, ConfirmedWasCharged
<1> HIDE DEF s
<1>6. ASSUME NEW x \in Requests
      PROVE  /\ pc'[x] # "status_write"
             /\ pc'[x] = "pay_approved" => gateway'[ses'[x].order].approved > 0
  <2>1. CASE x = r
    <3>1. pc'[x] = label /\ ses'[x].order = o
      BY <1>1, <1>2, <1>3, <2>1
    <3> QED
      BY <1>2, <1>4, <3>1
  <2>2. CASE x # r
    <3>1. pc'[x] = pc[x] /\ ses'[x] = ses[x]
      BY <1>1, <1>2, <2>2
    <3>2. pc[x] = "pay_approved" => ses[x].order \in OrderIds
      BY DEF IInv, SessionOK, OrderLabels, Placed
    <3> QED
      BY <1>4, <3>1, <3>2 DEF ChargedInv
  <2> QED
    BY <2>1, <2>2
<1> QED
  BY <1>5, <1>6 DEF ChargedInv

\* Only an approved payment confirms an order, after its charge.
LEMMA ChargedPayment ==
  ASSUME IInv, ChargedInv, NEW r \in Requests, PaymentStep(r)
  PROVE  ChargedInv'
<1>1. CASE PayRejectRetries(r) \/ PayConflict(r)
  BY <1>1, ChargedElse DEF PayRejectRetries, PayConflict, Reject, tables, orders
<1>2. CASE \E answer \in {"approved", "declined"} : PayGateway(r, answer)
  BY <1>2, ChargedGateway
<1>3. CASE PayApprovedCommit(r)
  <2>1. /\ visited' = [visited EXCEPT ![ses[r].order] = @ \cup {"ORDER_CONFIRMED"}]
        /\ Finish(r) /\ UNCHANGED gateway
        /\ pc[r] = "pay_approved"
    BY <1>3 DEF PayApprovedCommit, SetStatus
  <2>2. gateway[ses[r].order].approved > 0
    BY <2>1 DEF ChargedInv
  <2> QED
    BY <2>1, <2>2, ChargedStatus
<1>4. CASE PayDeclinedCommit(r)
  <2> DEFINE o == ses[r].order
             x == Flushed(status[o], ses[r].status, "PAYMENT_FAILED")
  <2>1. /\ visited' = [visited EXCEPT ![o] = @ \cup {x}]
        /\ Finish(r) /\ UNCHANGED gateway
        /\ pc[r] = "pay_declined"
    BY <1>4 DEF PayDeclinedCommit, SetStatus
  <2>2. x = "ORDER_CONFIRMED" => "ORDER_CONFIRMED" \in visited[o]
    BY <2>1 DEF Flushed, IInv, SessionOK, OrderLabels, TablesOK, HistoryOK
  <2> HIDE DEF x
  <2> QED
    BY <2>1, <2>2, ChargedStatus
<1> QED
  BY <1>1, <1>2, <1>3, <1>4 DEF PaymentStep

\* When no admin or seller sets statuses by hand, process_payment, the
\* cancellations and the cleanup never leave an order confirmed that the
\* gateway has not approved a charge for, whatever they interleave with.
THEOREM ChargedSafe ==
  ASSUME "update_order_status" \notin Handlers
  PROVE  Spec => []ConfirmedWasCharged
<1>1. Init => ChargedInv
  BY DEF Init, ChargedInv, ConfirmedWasCharged
<1>2. IInv /\ ChargedInv /\ [Next]_vars => ChargedInv'
  <2> SUFFICES ASSUME IInv, ChargedInv, [Next]_vars PROVE ChargedInv'
    OBVIOUS
  <2>1. ASSUME NEW r \in Requests, Continue(r) PROVE ChargedInv'
    BY <2>1, ChargedCart, ChargedOrder, ChargedPayment DEF Continue
  <2>2. ASSUME NEW r \in Requests, Crash(r) PROVE ChargedInv'
    BY <2>2, ChargedElse DEF Crash, Reject, tables, orders
  <2>3. CASE UNCHANGED vars
    BY <2>3 DEF vars, tables, orders, ChargedInv, ConfirmedWasCharged
  <2> QED
    BY <2>1, <2>2, <2>3, ChargedStart DEF Next
<1>3. ChargedInv => ConfirmedWasCharged
  BY DEF ChargedInv
<1> QED
  BY <1>1, <1>2, <1>3, Invariance, PTL DEF Spec

-------------------------------------------------------------------------------
(***************************************************************************)
(* Who writes orders.                                                      *)
(***************************************************************************)
StatusWriter(r) ==
    \/ CreateOrderCommit(r) \/ CancelCommit(r) \/ CleanupCommit(r)
    \/ \E target \in OrderStatus : StatusCommit(r, target)
    \/ PayApprovedCommit(r) \/ PayDeclinedCommit(r)

\* Every other step leaves the orders and their payments alone.
LEMMA OrderWriters ==
  ASSUME NEW r \in Requests, Start(r) \/ Continue(r) \/ Crash(r)
  PROVE  UNCHANGED <<orders, payment>> \/ StatusWriter(r)
<1>1. ASSUME Reject(r) \/ UNCHANGED tables PROVE UNCHANGED <<orders, payment>>
  BY <1>1 DEF Reject, tables
<1>2. CASE Start(r)
  <2>1. CASE CartRequest(r)
    BY <1>1, <2>1 DEF CartRequest, AddItemCheck, UpdateItemRead, RemoveItemRead,
                      ClearCartRead
  <2>2. CASE OrderRequest(r) \/ CleanupTask(r)
    BY <1>1, <2>2 DEF OrderRequest, CleanupTask, CreateOrderReadCart,
                      CancelReadOrder, StatusRead, PayReadOrder, CleanupRead
  <2>3. CASE ProductRequest(r)
    BY <1>1, <2>3 DEF ProductRequest, UpdateProductRead, DeleteProductRead,
                      LoadProduct
  <2> QED
    BY <1>2, <2>1, <2>2, <2>3 DEF Start
<1>3. CASE CartStep(r)
  BY <1>1, <1>3
  DEF CartStep, AddItemReadCart, AddItemUpdate, AddItemInsert, AddItemConflict,
      UpdateItemReadProducts, UpdateItemReject, UpdateItemCommit,
      UpdateItemConflict, CartDeleteCommit
<1>4. CASE OrderStep(r)
  BY <1>1, <1>4
  DEF OrderStep, CreateOrderReadProducts, CreateOrderReject, CancelReadProducts,
      LockRow, DeadlockVictim, StatusWriter
<1>5. CASE PaymentStep(r)
  BY <1>1, <1>5
  DEF PaymentStep, PayRejectRetries, PayGateway, PayConflict, StatusWriter
<1>6. CASE ProductStep(r)
  BY <1>6 DEF ProductStep, UpdateProductCommit, DeleteProductCommit
<1>7. CASE Crash(r)
  BY <1>1, <1>7 DEF Crash
<1> QED
  BY <1>2, <1>3, <1>4, <1>5, <1>6, <1>7 DEF Continue

===============================================================================

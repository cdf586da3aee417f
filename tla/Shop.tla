---------------------------------- MODULE Shop ----------------------------------
(***************************************************************************)
(* The order management backend: all request handlers and the stale-order  *)
(* task, running concurrently against one database.  Handlers restricts a  *)
(* configuration to some of them.                                          *)
(***************************************************************************)
EXTENDS OrdersApi, PaymentsApi, CartApi, ProductsApi

\* The worker dies, or the client goes away: the session is rolled back.  What
\* the payment gateway did stays done.
Crash(r) ==
    /\ "crash" \in Handlers
    /\ pc[r] # "idle"
    /\ Reject(r)

-------------------------------------------------------------------------------
CartRequest(r) ==
    \/ \E u \in Users, p \in Products, q \in Quantities :
          AddItemCheck(r, u, p, q) \/ UpdateItemRead(r, u, p, q)
    \/ \E u \in Users, p \in Products : RemoveItemRead(r, u, p)
    \/ \E u \in Users : ClearCartRead(r, u)

OrderRequest(r) ==
    \E u \in Users, o \in OrderIds :
        \/ CreateOrderReadCart(r, u, o)
        \/ CancelReadOrder(r, u, o)
        \/ StatusRead(r, u, o)
        \/ PayReadOrder(r, u, o)

ProductRequest(r) ==
    \E u \in Users, p \in Products :
        UpdateProductRead(r, u, p) \/ DeleteProductRead(r, u, p)

\* The beat scheduler sends the stale-order task, which selects any batch.
CleanupTask(r) == \E batch \in SUBSET OrderIds : CleanupRead(r, batch)

Start(r) ==
    CartRequest(r) \/ OrderRequest(r) \/ ProductRequest(r) \/ CleanupTask(r)

CartStep(r) ==
    \/ AddItemReadCart(r) \/ AddItemUpdate(r) \/ AddItemInsert(r)
    \/ AddItemConflict(r)
    \/ UpdateItemReadProducts(r) \/ UpdateItemReject(r) \/ UpdateItemCommit(r)
    \/ UpdateItemConflict(r)
    \/ CartDeleteCommit(r)

OrderStep(r) ==
    \/ CreateOrderReadProducts(r) \/ CreateOrderCommit(r) \/ CreateOrderReject(r)
    \/ CancelReadProducts(r) \/ CancelCommit(r)
    \/ \E p \in Products : LockRow(r, p)
    \/ DeadlockVictim(r)
    \/ \E target \in OrderStatus : StatusCommit(r, target)
    \/ CleanupCommit(r)

PaymentStep(r) ==
    \/ PayRejectRetries(r)
    \/ \E answer \in {"approved", "declined"} : PayGateway(r, answer)
    \/ PayApprovedCommit(r) \/ PayDeclinedCommit(r) \/ PayConflict(r)

ProductStep(r) ==
    \/ \E newStock \in StockValues \cup {ses[r].stock[p] : p \in Products},
          newPrice \in Prices \cup {ses[r].price[p] : p \in Products},
          newActive \in BOOLEAN :
             UpdateProductCommit(r, newStock, newPrice, newActive)
    \/ DeleteProductCommit(r)

\* The next statement of the request in slot r.
Continue(r) == CartStep(r) \/ OrderStep(r) \/ PaymentStep(r) \/ ProductStep(r)

Next == \E r \in Requests : Start(r) \/ Continue(r) \/ Crash(r)

Spec == Init /\ [][Next]_vars

(***************************************************************************)
(* A request that was accepted keeps running: the event loop resumes it,   *)
(* PostgreSQL hands row locks over in the order they were asked for, so a  *)
(* waiter is not overtaken forever, and its deadlock detector breaks       *)
(* cycles.  No request need ever be sent.                                  *)
(***************************************************************************)
FairSpec == Spec /\ \A r \in Requests : SF_vars(Continue(r))

===============================================================================

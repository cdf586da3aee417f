----------------------------- MODULE ShopProperties -----------------------------
(***************************************************************************)
(* What the backend should guarantee.  The first group holds however the   *)
(* requests interleave.  The second holds when requests run one at a time: *)
(* the code loses parts of it under concurrency, as the runs show that     *)
(* expect a violation.                                                     *)
(***************************************************************************)
EXTENDS Shop, FiniteSetsExt

-------------------------------------------------------------------------------
(***************************************************************************)
(* Any interleaving.                                                       *)
(***************************************************************************)

TablesTyped ==
    /\ stock   \in [Products -> Int]
    /\ price   \in [Products -> Nat]
    /\ active  \in [Products -> BOOLEAN]
    /\ cart    \in [Users -> [Products -> CartRow]]
    /\ status  \in [OrderIds -> OrderStatus \cup {NoRow}]
    /\ owner   \in [OrderIds -> Users \cup {None}]
    /\ qty     \in [OrderIds -> [Products -> Nat]]
    /\ unit    \in [OrderIds -> [Products -> Nat]]
    /\ visited \in [OrderIds -> SUBSET OrderStatus]
    /\ payment \in [OrderIds -> PaymentRow]
    /\ gateway \in [OrderIds -> [approved : Nat, declined : Nat]]

SessionsTyped ==
    /\ lock \in [Products -> Requests \cup {None}]
    /\ pc   \in [Requests -> Labels]
    /\ ses  \in [Requests -> Session]

\* Every table row, lock and session is of its type: among others, no stale
\* write ever gives a status to an order that does not exist.
TypeOK == TablesTyped /\ SessionsTyped

\* Stock never goes below zero, whatever a stale session writes back: the
\* checkout compares and subtracts the same loaded value.
StockNonNegative == \A p \in Products : stock[p] >= 0

\* No order is delivered without having been shipped, nor shipped without
\* having been confirmed, although statuses are overwritten by sessions that
\* loaded an older one.
PipelineOrder ==
    \A o \in OrderIds :
        /\ "DELIVERED" \in visited[o] => "SHIPPED" \in visited[o]
        /\ "SHIPPED" \in visited[o] => "ORDER_CONFIRMED" \in visited[o]

\* A payment is only recorded as successful together with the confirmation of
\* its order: process_payment commits both in one transaction.
PaidWasConfirmed ==
    \A o \in OrderIds :
        payment[o].status = "SUCCESS" => "ORDER_CONFIRMED" \in visited[o]

\* retry_count never exceeds the limit process_payment enforces, although
\* concurrent payments check it before they write it.
RetriesBounded == \A o \in OrderIds : payment[o].retries <= MAX_RETRIES

\* Without update_order_status, an order is confirmed only after the gateway
\* approved a charge for it.
ConfirmedWasCharged ==
    \A o \in OrderIds :
        "ORDER_CONFIRMED" \in visited[o] => gateway[o].approved > 0

\* A cart row that a checkout or a removal deleted is not brought back by a
\* session that had loaded it: only a new row, with a new key, follows.
DeletedRowsStay ==
    [][\A u \in Users, p \in Products :
          \/ cart'[u][p].qty = 0
          \/ cart'[u][p].gen > cart[u][p].gen
          \/ cart[u][p].qty > 0 /\ cart'[u][p].gen = cart[u][p].gen]_vars

\* Every request is answered: no set of transactions waits for each other's
\* row locks forever.
RequestsFinish == \A r \in Requests : pc[r] # "idle" ~> pc[r] = "idle"

-------------------------------------------------------------------------------
(***************************************************************************)
(* One request at a time.                                                  *)
(***************************************************************************)

\* A step between the rows of an order's status: one the table allows, or the
\* two that process_payment takes in one transaction.
LegalStep(old, new) ==
    \/ old = new
    \/ ValidTransition(old, new)
    \/ /\ ValidTransition(old, "PAYMENT_SUCCESS")
       /\ new = "ORDER_CONFIRMED"

\* Whoever changes an order's status, the change is one ALLOWED_TRANSITIONS
\* has: assert_valid_transition stands before every write but the cleanup's.
LegalTransitions ==
    [][\A o \in Placed : LegalStep(status[o], status'[o])]_vars

\* The units of a product in orders that are not cancelled.
Sold(p) ==
    MapThenSumSet(LAMBDA o : IF status[o] \in {NoRow, "CANCELLED"}
                             THEN 0 ELSE qty[o][p], OrderIds)

\* Every unit is on the shelf or in an order that was not cancelled, when only
\* checkouts and cancellations move stock.
Conservation == \A p \in Products : stock[p] + Sold(p) = InitStock[p]

\* Checkouts never sell more units of a product than there were.
NoOversell == \A p \in Products : Sold(p) <= InitStock[p]

\* The gateway charges an order at most once.
NoDoubleCharge == \A o \in OrderIds : gateway[o].approved <= 1

\* At most MAX_RETRIES attempts to pay for an order are declined: the next one
\* is refused before it reaches the gateway.
RetryLimit == \A o \in OrderIds : gateway[o].declined <= MAX_RETRIES

NewOrders == {o \in OrderIds : status[o] = NoRow /\ status'[o] # NoRow}

\* A new order has exactly the rows of its owner's cart, which it empties.
OrderMatchesCart ==
    [][\A o \in NewOrders : \A p \in Products :
          /\ qty'[o][p] = cart[owner'[o]][p].qty
          /\ cart'[owner'[o]][p].qty = 0]_vars

\* unit_price of a new order's items is the price of the product then.
PriceAtPurchase ==
    [][\A o \in NewOrders : \A p \in Products :
          qty'[o][p] > 0 => unit'[o][p] = price[p]]_vars

\* Checkout and cancellation implement the atomic inventory.
Promise == INSTANCE Inventory WITH
    available <- stock,
    held      <- [o \in OrderIds |->
                    IF status[o] \in {NoRow, "CANCELLED"} THEN Zero ELSE qty[o]]

InventoryRefined == Promise!InvSpec

===============================================================================

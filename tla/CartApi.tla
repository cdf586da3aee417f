-------------------------------- MODULE CartApi --------------------------------
(***************************************************************************)
(* app/api/v1/endpoints/cart.py: adding, changing and removing the rows of *)
(* the current user's cart.  The cart itself exists from registration on,  *)
(* so _get_or_create_cart only reads.  A request names the row it changes  *)
(* by its primary key, which its client got from an earlier response.      *)
(***************************************************************************)
EXTENDS Database

\* The statement r has reached is an UPDATE of a row that is still there.
SameRow(u, p, row) == cart[u][p].qty > 0 /\ cart[u][p].gen = row.gen

SetCartRow(u, p, row) == cart' = [cart EXCEPT ![u][p] = row]

\* Inserting a row that references a product takes FOR KEY SHARE on it, which
\* waits for a checkout's FOR UPDATE but not for an UPDATE of its stock.
Referable(p) == \A x \in Requests : lock[p] = x => pc[x] # "checkout_lock"

-------------------------------------------------------------------------------
(***************************************************************************)
(* add_item: check the product, read the cart, then change the row of this *)
(* product or insert one.                                                  *)
(***************************************************************************)
AddItemCheck(r, u, p, q) ==
    /\ Begin(r, "add_item")
    /\ active[p]                                \* else 404
    /\ stock[p] >= q                            \* else 400
    /\ cart[u][p].gen + (IF cart[u][p].qty > 0 THEN 0 ELSE 1) <= MaxCartRows
    /\ Advance(r, "add_cart",
               [EmptySession EXCEPT !.user = u, !.product = p, !.amount = q])
    /\ UNCHANGED <<tables, lock, gateway>>

AddItemReadCart(r) ==
    /\ pc[r] = "add_cart"
    /\ cart[ses[r].user][ses[r].product].qty + ses[r].amount <= MaxLineQty
    /\ Advance(r, "add_write", [ses[r] EXCEPT !.lines = cart[ses[r].user]])
    /\ UNCHANGED <<tables, lock, gateway>>

\* Mutant of AddItemUpdate: the row is written whether it is still there or not.
AddItemUpsert(r) ==
    LET s   == ses[r]
        row == s.lines[s.product]
    IN  /\ pc[r] = "add_write"
        /\ row.qty > 0
        /\ SetCartRow(s.user, s.product,
                      [row EXCEPT !.qty = row.qty + s.amount])
        /\ Finish(r)
        /\ UNCHANGED <<catalog, orders, payment, gateway>>

\* UPDATE with the sum computed from the row as it was loaded.
AddItemUpdate(r) ==
    LET s   == ses[r]
        row == s.lines[s.product]
    IN  /\ pc[r] = "add_write"
        /\ row.qty > 0
        /\ SameRow(s.user, s.product, row)
        /\ SetCartRow(s.user, s.product,
                      [row EXCEPT !.qty = row.qty + s.amount])
        /\ Finish(r)
        /\ UNCHANGED <<catalog, orders, payment, gateway>>

AddItemInsert(r) ==
    LET s   == ses[r]
        row == cart[s.user][s.product]
    IN  /\ pc[r] = "add_write"
        /\ s.lines[s.product].qty = 0
        /\ row.qty = 0
        /\ Referable(s.product)
        /\ SetCartRow(s.user, s.product,
                      [gen |-> row.gen + 1, qty |-> s.amount])
        /\ Finish(r)
        /\ UNCHANGED <<catalog, orders, payment, gateway>>

\* The row to change is gone (StaleDataError), or another request inserted
\* one for the product first (IntegrityError on uq_cart_product).
AddItemConflict(r) ==
    LET s   == ses[r]
        row == s.lines[s.product]
    IN  /\ pc[r] = "add_write"
        /\ IF row.qty > 0 THEN ~SameRow(s.user, s.product, row)
                          ELSE cart[s.user][s.product].qty > 0
        /\ Reject(r)

-------------------------------------------------------------------------------
(***************************************************************************)
(* update_item: the stock it compares with is loaded after the row.        *)
(***************************************************************************)
UpdateItemRead(r, u, p, q) ==
    /\ Begin(r, "update_item")
    /\ cart[u][p].qty > 0                       \* else 404
    /\ Advance(r, "update_products",
               [EmptySession EXCEPT !.user = u, !.product = p, !.amount = q,
                                    !.lines = cart[u]])
    /\ UNCHANGED <<tables, lock, gateway>>

UpdateItemReadProducts(r) ==
    /\ pc[r] = "update_products"
    /\ stock[ses[r].product] >= ses[r].amount
    /\ Advance(r, "update_write", ses[r])
    /\ UNCHANGED <<tables, lock, gateway>>

UpdateItemReject(r) ==                          \* 400: insufficient stock
    /\ pc[r] = "update_products"
    /\ stock[ses[r].product] < ses[r].amount
    /\ Reject(r)

\* Setting the quantity the row was loaded with is not a change: nothing is
\* written, and a row that is gone goes unnoticed.
UpdateItemCommit(r) ==
    LET s   == ses[r]
        row == s.lines[s.product]
    IN  /\ pc[r] = "update_write"
        /\ \/ s.amount = row.qty /\ UNCHANGED cart
           \/ /\ s.amount # row.qty
              /\ SameRow(s.user, s.product, row)
              /\ SetCartRow(s.user, s.product, [row EXCEPT !.qty = s.amount])
        /\ Finish(r)
        /\ UNCHANGED <<catalog, orders, payment, gateway>>

UpdateItemConflict(r) ==                        \* StaleDataError
    LET s   == ses[r]
        row == s.lines[s.product]
    IN  /\ pc[r] = "update_write"
        /\ s.amount # row.qty
        /\ ~SameRow(s.user, s.product, row)
        /\ Reject(r)

-------------------------------------------------------------------------------
(***************************************************************************)
(* remove_item deletes the row it was asked for, clear_cart those it finds.*)
(***************************************************************************)
RemoveItemRead(r, u, p) ==
    /\ Begin(r, "remove_item")
    /\ cart[u][p].qty > 0                       \* else 404
    /\ Advance(r, "cart_delete",
               [EmptySession EXCEPT !.user = u,
                                    !.lines = [NoLines EXCEPT ![p] = cart[u][p]]])
    /\ UNCHANGED <<tables, lock, gateway>>

ClearCartRead(r, u) ==
    /\ Begin(r, "clear_cart")
    /\ Advance(r, "cart_delete",
               [EmptySession EXCEPT !.user = u, !.lines = cart[u]])
    /\ UNCHANGED <<tables, lock, gateway>>

CartDeleteCommit(r) ==
    /\ pc[r] = "cart_delete"
    /\ cart' = CartWithout(ses[r].user, ses[r].lines)
    /\ Finish(r)
    /\ UNCHANGED <<catalog, orders, payment, gateway>>

===============================================================================

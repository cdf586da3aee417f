------------------------------ MODULE ProductsApi ------------------------------
(***************************************************************************)
(* app/api/v1/endpoints/products.py: the PATCH and DELETE of a product.    *)
(* Only the columns that orders and carts depend on are kept.              *)
(***************************************************************************)
EXTENDS Database

MayEdit(u, p) == u \in Admins \/ (u \in Sellers /\ SellerOf[p] = u)

LoadProduct(r, p, label) ==
    /\ Advance(r, label,
               [EmptySession EXCEPT !.product = p,
                                    !.stock   = Loaded(stock, {p}),
                                    !.price   = Loaded(price, {p}),
                                    !.active  = active[p]])
    /\ UNCHANGED <<tables, lock, gateway>>

UpdateProductRead(r, u, p) ==
    /\ Begin(r, "update_product")
    /\ MayEdit(u, p)                            \* else 403
    /\ LoadProduct(r, p, "product_write")

\* A field the payload leaves out keeps the value that was loaded.
UpdateProductCommit(r, newStock, newPrice, newActive) ==
    LET s == ses[r]
        p == s.product
    IN  /\ pc[r] = "product_write"
        /\ newStock \in StockValues \cup {s.stock[p]}
        /\ newPrice \in Prices \cup {s.price[p]}
        /\ newActive \in BOOLEAN
        /\ Writable(r, p)
        /\ stock'  = [stock EXCEPT ![p] = Flushed(@, s.stock[p], newStock)]
        /\ price'  = [price EXCEPT ![p] = Flushed(@, s.price[p], newPrice)]
        /\ active' = [active EXCEPT ![p] = Flushed(@, s.active, newActive)]
        /\ Finish(r)
        /\ UNCHANGED <<cart, orders, payment, gateway>>

\* Soft delete.
DeleteProductRead(r, u, p) ==
    /\ Begin(r, "delete_product")
    /\ MayEdit(u, p)
    /\ LoadProduct(r, p, "product_delete")

DeleteProductCommit(r) ==
    LET p == ses[r].product
    IN  /\ pc[r] = "product_delete"
        /\ Writable(r, p)
        /\ active' = [active EXCEPT ![p] = Flushed(@, ses[r].active, FALSE)]
        /\ Finish(r)
        /\ UNCHANGED <<stock, price, cart, orders, payment, gateway>>

===============================================================================

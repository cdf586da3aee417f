------------------------------ MODULE ProductCache ------------------------------
(***************************************************************************)
(* app/services/cache.py, the endpoints of products.py that read through   *)
(* it, and the ones of products.py and orders.py that commit a change and  *)
(* then invalidate.  What a product row says is its version: the number of *)
(* commits that wrote it, 0 when it does not exist.  Every await (a Redis  *)
(* command, an SQL statement) is a step of its own.                        *)
(***************************************************************************)
EXTENDS Naturals, FiniteSets

CONSTANTS
    Clients,        \* request slots
    Products,
    Pages,          \* the Redis keys of listings: filters, sorting and page
    MaxVersion,     \* bound: a row committed this often is not written again
    None            \* no entry in Redis

ASSUME CacheAssumption ==
    /\ MaxVersion \in Nat
    /\ IsFiniteSet(Products)
    /\ Products \cap Pages = {}
    /\ None \notin Nat \cup Products \cup Pages

VARIABLES
    version, active,    \* table products
    entry, listing,     \* Redis: one entry per product, one per listing
    pc, ses,            \* progress and local variables of each request
    late                \* history: keys set from rows that had changed, or
                        \* whose invalidation a crash lost

rows  == <<version, active>>
redis == <<entry, listing>>
vars  == <<rows, redis, pc, ses, late>>

Labels == {"idle", "get_row", "get_set", "list_count", "list_rows", "list_set",
           "delete_key", "scan_start", "scan"}

\* What list_products answers: how many products there are, and which.
Listed     == [p \in Products |-> IF active[p] THEN version[p] ELSE 0]
Total      == Cardinality({p \in Products : active[p]})
NewListing == [total |-> Total, items |-> Listed]

Listing == [total : Nat, items : [Products -> Nat]]

EmptySession ==
    [product |-> None,  \* the product that is read
     page    |-> None,  \* the listing that is read
     value   |-> 0,     \* the version of the row that was read
     total   |-> 0,     \* the count that was read
     items   |-> [p \in Products |-> 0],
     left    |-> {},    \* the products still to be invalidated
     todo    |-> {}]    \* the listings SCAN has still to return

Session ==
    [product : Products \cup {None}, page : Pages \cup {None},
     value : Nat, total : Nat, items : [Products -> Nat],
     left : SUBSET Products, todo : SUBSET Pages]

Goto(c, label, s) ==
    /\ pc'  = [pc EXCEPT ![c] = label]
    /\ ses' = [ses EXCEPT ![c] = s]

Done(c) == Goto(c, "idle", EmptySession)

Init ==
    /\ version \in [Products -> {0, 1}]
    /\ active  = [p \in Products |-> version[p] > 0]
    /\ entry   = [p \in Products |-> None]
    /\ listing = [k \in Pages |-> None]
    /\ pc      = [c \in Clients |-> "idle"]
    /\ ses     = [c \in Clients |-> EmptySession]
    /\ late  = {}

-------------------------------------------------------------------------------
(***************************************************************************)
(* get_product.  A hit answers from Redis and changes nothing.             *)
(***************************************************************************)
GetMiss(c, p) ==
    /\ pc[c] = "idle"
    /\ entry[p] = None
    /\ Goto(c, "get_row", [EmptySession EXCEPT !.product = p])
    /\ UNCHANGED <<rows, redis, late>>

\* Mutant of GetRow: a product that does not exist is cached as well.
GetRowUnchecked(c) ==
    /\ pc[c] = "get_row"
    /\ Goto(c, "get_set", [ses[c] EXCEPT !.value = version[ses[c].product]])
    /\ UNCHANGED <<rows, redis, late>>

GetRow(c) ==
    /\ pc[c] = "get_row"
    /\ version[ses[c].product] > 0
    /\ Goto(c, "get_set", [ses[c] EXCEPT !.value = version[ses[c].product]])
    /\ UNCHANGED <<rows, redis, late>>

GetNotFound(c) ==                               \* 404
    /\ pc[c] = "get_row"
    /\ version[ses[c].product] = 0
    /\ Done(c)
    /\ UNCHANGED <<rows, redis, late>>

GetSet(c) ==
    LET p == ses[c].product
    IN  /\ pc[c] = "get_set"
        /\ entry'  = [entry EXCEPT ![p] = ses[c].value]
        /\ late' = IF ses[c].value = version[p] THEN late \ {p}
                                                  ELSE late \cup {p}
        /\ Done(c)
        /\ UNCHANGED <<rows, listing>>

(***************************************************************************)
(* list_products: the count and the page are two statements.               *)
(***************************************************************************)
ListMiss(c, k) ==
    /\ pc[c] = "idle"
    /\ listing[k] = None
    /\ Goto(c, "list_count", [EmptySession EXCEPT !.page = k])
    /\ UNCHANGED <<rows, redis, late>>

ListCount(c) ==
    /\ pc[c] = "list_count"
    /\ Goto(c, "list_rows", [ses[c] EXCEPT !.total = Total])
    /\ UNCHANGED <<rows, redis, late>>

ListRows(c) ==
    /\ pc[c] = "list_rows"
    /\ Goto(c, "list_set", [ses[c] EXCEPT !.items = Listed])
    /\ UNCHANGED <<rows, redis, late>>

ListSet(c) ==
    LET k   == ses[c].page
        new == [total |-> ses[c].total, items |-> ses[c].items]
    IN  /\ pc[c] = "list_set"
        /\ listing' = [listing EXCEPT ![k] = new]
        /\ late'  = IF new = NewListing THEN late \ {k} ELSE late \cup {k}
        /\ Done(c)
        /\ UNCHANGED <<rows, entry>>

-------------------------------------------------------------------------------
(***************************************************************************)
(* The writers commit, then call invalidate_product_cache.                 *)
(***************************************************************************)
Commit(c, P, label) ==
    /\ pc[c] = "idle"
    /\ \A p \in P : version[p] < MaxVersion
    /\ version' = [p \in Products |->
                      IF p \in P THEN version[p] + 1 ELSE version[p]]
    /\ Goto(c, label, [EmptySession EXCEPT
                           !.left = IF label = "delete_key" THEN P ELSE {}])
    /\ UNCHANGED <<redis, late>>

\* A new product is in no entry: only the listings are invalidated.
CreateProduct(c, p) ==
    /\ version[p] = 0
    /\ Commit(c, {p}, "scan_start")
    /\ active' = [active EXCEPT ![p] = TRUE]

UpdateProduct(c, p, isActive) ==
    /\ version[p] > 0
    /\ Commit(c, {p}, "delete_key")
    /\ active' = [active EXCEPT ![p] = isActive]

DeleteProduct(c, p) ==
    /\ version[p] > 0
    /\ Commit(c, {p}, "delete_key")
    /\ active' = [active EXCEPT ![p] = FALSE]

\* A checkout or a cancellation moves stock of its products, listed or not,
\* and invalidates them one after the other.
MoveStock(c, P) ==
    /\ P # {}
    /\ \A p \in P : version[p] > 0
    /\ Commit(c, P, "delete_key")
    /\ UNCHANGED active

DeleteKey(c, p) ==
    /\ pc[c] = "delete_key"
    /\ p \in ses[c].left
    /\ entry'  = [entry EXCEPT ![p] = None]
    /\ late' = late \ {p}
    /\ Goto(c, "scan_start", [ses[c] EXCEPT !.left = @ \ {p}])
    /\ UNCHANGED <<rows, listing>>

Cached == {k \in Pages : listing[k] # None}

\* SCAN owes a key only while it stays: those of K are gone from Redis.
Dropped(sessions, K) ==
    [c \in Clients |-> [sessions[c] EXCEPT !.todo = @ \ K]]

\* The first SCAN: an iteration returns every key that is there throughout.
ScanStart(c) ==
    /\ pc[c] = "scan_start"
    /\ Goto(c, "scan", [ses[c] EXCEPT !.todo = Cached])
    /\ UNCHANGED <<rows, redis, late>>

\* One SCAN and the DEL of what it returned: any of the keys, also some that
\* were set after the iteration began.
ScanBatch(c, B) ==
    /\ pc[c] = "scan"
    /\ B # {} /\ B \subseteq Cached
    /\ listing' = [k \in Pages |-> IF k \in B THEN None ELSE listing[k]]
    /\ late'    = late \ B
    /\ ses'     = Dropped(ses, B)
    /\ UNCHANGED <<rows, entry, pc>>

\* Mutant of ScanEnd: one SCAN is taken for all.
ScanEndEarly(c) ==
    /\ pc[c] = "scan"
    /\ IF ses[c].left = {} THEN Done(c)
                           ELSE Goto(c, "delete_key", [ses[c] EXCEPT !.todo = {}])
    /\ UNCHANGED <<rows, redis, late>>

\* The cursor is back at 0: nothing that was there throughout is left.
ScanEnd(c) ==
    /\ pc[c] = "scan"
    /\ ses[c].todo = {}
    /\ IF ses[c].left = {} THEN Done(c) ELSE Goto(c, "delete_key", ses[c])
    /\ UNCHANGED <<rows, redis, late>>

-------------------------------------------------------------------------------
(***************************************************************************)
(* Redis drops a key PRODUCT_CACHE_TTL_SECONDS after it was set.           *)
(***************************************************************************)
EntryExpires(p) ==
    /\ entry[p] # None
    /\ entry' = [entry EXCEPT ![p] = None]
    /\ late'  = late \ {p}
    /\ UNCHANGED <<rows, listing, pc, ses>>

\* Mutant of ListingExpires: listings are set without a time to live.
ListingStays(k) == FALSE

ListingExpires(k) ==
    /\ k \in Cached
    /\ listing' = [listing EXCEPT ![k] = None]
    /\ late'    = late \ {k}
    /\ ses'     = Dropped(ses, {k})
    /\ UNCHANGED <<rows, entry, pc>>

\* The keys c has still to delete.
Pending(c) ==
    ses[c].left \cup
    CASE pc[c] \in {"delete_key", "scan_start"}     -> Pages
      [] pc[c] = "scan" /\ ses[c].left # {}         -> Pages
      [] OTHER                                      -> ses[c].todo

\* The worker dies or Redis fails: the commit stands, what was to follow is
\* not done.
Crash(c) ==
    /\ pc[c] # "idle"
    /\ late' = late \cup Pending(c)
    /\ Done(c)
    /\ UNCHANGED <<rows, redis>>

Read(c) ==
    \/ \E p \in Products : GetMiss(c, p)
    \/ GetRow(c) \/ GetNotFound(c) \/ GetSet(c)
    \/ \E k \in Pages : ListMiss(c, k)
    \/ ListCount(c) \/ ListRows(c) \/ ListSet(c)

Write(c) ==
    \/ \E p \in Products :
          \/ CreateProduct(c, p) \/ DeleteProduct(c, p)
          \/ \E isActive \in BOOLEAN : UpdateProduct(c, p, isActive)
    \/ \E P \in SUBSET Products : MoveStock(c, P)

Invalidate(c) ==
    \/ \E p \in Products : DeleteKey(c, p)
    \/ ScanStart(c) \/ ScanEnd(c)
    \/ \E B \in SUBSET Pages : ScanBatch(c, B)

Next ==
    \/ \E c \in Clients : Read(c) \/ Write(c) \/ Invalidate(c) \/ Crash(c)
    \/ \E p \in Products : EntryExpires(p)
    \/ \E k \in Pages : ListingExpires(k)

Spec == Init /\ [][Next]_vars

\* A time to live passes, whatever the requests do.
FairSpec ==
    /\ Spec
    /\ \A p \in Products : WF_vars(EntryExpires(p))
    /\ \A k \in Pages : WF_vars(ListingExpires(k))

-------------------------------------------------------------------------------
TypeOK ==
    /\ version \in [Products -> Nat]
    /\ active  \in [Products -> BOOLEAN]
    /\ entry   \in [Products -> (Nat \ {0}) \cup {None}]
    /\ listing \in [Pages -> Listing \cup {None}]
    /\ pc      \in [Clients -> Labels]
    /\ ses     \in [Clients -> Session]
    /\ late    \subseteq Products \cup Pages

\* What Redis holds under a key is not what the tables say.
StaleKeys ==
    {p \in Products : entry[p] \notin {None, version[p]}} \cup
    {k \in Pages : listing[k] \notin {None, NewListing}}

\* Every write invalidates what it changed: a key is stale only while the
\* request that made it stale is still to delete it, or because a reader had
\* loaded its rows before they changed, or because a crash lost the deletion.
StaleExplained ==
    StaleKeys \subseteq late \cup UNION {Pending(c) : c \in Clients}

\* A stale key never stays: the time to live repairs what races and crashes
\* leave behind.
StaleIsTemporary ==
    \A key \in Products \cup Pages : key \in StaleKeys ~> key \notin StaleKeys

===============================================================================

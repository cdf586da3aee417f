--------------------------- MODULE ProductCacheProofs ---------------------------
(***************************************************************************)
(* What holds of the product cache for any number of requests, products,   *)
(* listings and commits, with crashes at every await.                      *)
(***************************************************************************)
EXTENDS ProductCache, FiniteSetTheorems, TLAPS

-------------------------------------------------------------------------------
(***************************************************************************)
(* The inductive invariant.  A reader knows what it reads and only caches  *)
(* rows that exist; only a writer that is invalidating has anything left   *)
(* to delete, so that a request that ends owes nothing.                    *)
(***************************************************************************)
SessionOK(label, s) ==
    /\ label \in {"get_row", "get_set"} => s.product \in Products
    /\ label = "get_set" => s.value > 0
    /\ label \in {"list_count", "list_rows", "list_set"} => s.page \in Pages
    /\ label \notin {"delete_key", "scan_start", "scan"} =>
          s.left = {} /\ s.todo = {}

IInv ==
    /\ TypeOK
    /\ \A c \in Clients : SessionOK(pc[c], ses[c])
    /\ StaleExplained

\* The keys that a session with s, waiting at label, has still to delete.
Owed(label, s) ==
    s.left \cup
    CASE label \in {"delete_key", "scan_start"} -> Pages
      [] label = "scan" /\ s.left # {}          -> Pages
      [] OTHER                                  -> s.todo

\* What a request has still to invalidate depends on that request alone.
LEMMA PendingIsOwed ==
  ASSUME NEW c
  PROVE  /\ Pending(c) = Owed(pc[c], ses[c])
         /\ Pending(c)' = Owed(pc'[c], ses'[c])
BY DEF Pending, Owed

\* A key is stale.
LEMMA StaleIs ==
  ASSUME NEW key
  PROVE  key \in StaleKeys <=>
            \/ key \in Products /\ entry[key] \notin {None, version[key]}
            \/ key \in Pages /\ listing[key] \notin {None, NewListing}
BY DEF StaleKeys

-------------------------------------------------------------------------------
(***************************************************************************)
(* Types.                                                                  *)
(***************************************************************************)
LEMMA EmptySessionOK ==
  /\ EmptySession \in Session
  /\ SessionOK("idle", EmptySession)
  /\ EmptySession.left = {} /\ EmptySession.todo = {}
BY DEF EmptySession, Session, SessionOK

\* What list_products reads is a listing.
LEMMA NewListingTyped ==
  ASSUME TypeOK
  PROVE  /\ Total \in Nat
         /\ Listed \in [Products -> Nat]
         /\ NewListing \in Listing
<1>1. Total \in Nat
  <2>1. {p \in Products : active[p]} \in SUBSET Products
    OBVIOUS
  <2>2. IsFiniteSet({p \in Products : active[p]})
    BY <2>1, CacheAssumption, FS_Subset
  <2> QED
    BY <2>2, FS_CardinalityType DEF Total
<1>2. Listed \in [Products -> Nat]
  BY DEF TypeOK, Listed
<1> QED
  BY <1>1, <1>2 DEF NewListing, Listing

\* None is no version and no listing.
LEMMA NoneIsNothing ==
  /\ None \notin Nat
  /\ None \notin Pages /\ None \notin Products
BY CacheAssumption

\* One session moves.
LEMMA SessionMoves ==
  ASSUME IInv, NEW c \in Clients, NEW label \in Labels, NEW s \in Session,
         SessionOK(label, s), Goto(c, label, s)
  PROVE  /\ pc' \in [Clients -> Labels] /\ ses' \in [Clients -> Session]
         /\ \A x \in Clients : SessionOK(pc'[x], ses'[x])
         /\ pc'[c] = label /\ ses'[c] = s
         /\ \A x \in Clients : x # c => pc'[x] = pc[x] /\ ses'[x] = ses[x]
BY DEF IInv, TypeOK, Goto

-------------------------------------------------------------------------------
(***************************************************************************)
(* Steps that write neither a row nor Redis.                               *)
(***************************************************************************)
\* Such a step keeps the invariant when what the session no longer owes is not
\* stale or becomes late.
LEMMA QuietStep ==
  ASSUME IInv, NEW c \in Clients, NEW label \in Labels, NEW s \in Session,
         SessionOK(label, s), Goto(c, label, s), UNCHANGED <<rows, redis>>,
         late \subseteq late', late' \subseteq Products \cup Pages,
         \A key \in StaleKeys :
            key \in Owed(pc[c], ses[c]) => key \in Owed(label, s) \cup late'
  PROVE  IInv'
<1>1. /\ pc' \in [Clients -> Labels] /\ ses' \in [Clients -> Session]
      /\ \A x \in Clients : SessionOK(pc'[x], ses'[x])
      /\ pc'[c] = label /\ ses'[c] = s
      /\ \A x \in Clients : x # c => pc'[x] = pc[x] /\ ses'[x] = ses[x]
  BY SessionMoves
<1>2. UNCHANGED <<version, active, entry, listing>>
  BY DEF rows, redis
<1>3. TypeOK'
  BY <1>1, <1>2 DEF IInv, TypeOK
<1>4. StaleExplained'
  <2> SUFFICES ASSUME NEW key \in StaleKeys'
               PROVE  key \in late' \/ \E x \in Clients : key \in Pending(x)'
    BY DEF StaleExplained
  <2>1. key \in StaleKeys
    BY <1>2 DEF StaleKeys, NewListing, Total, Listed
  <2>2. CASE key \in late
    BY <2>2
  <2>3. CASE key \notin late
    <3>1. PICK x \in Clients : key \in Pending(x)
      BY <2>1, <2>3 DEF IInv, StaleExplained
    <3>2. CASE x = c
      BY <1>1, <2>1, <3>1, <3>2, PendingIsOwed
    <3>3. CASE x # c
      BY <1>1, <3>1, <3>3, PendingIsOwed
    <3> QED
      BY <3>2, <3>3
  <2> QED
    BY <2>2, <2>3
<1> QED
  BY <1>1, <1>3, <1>4 DEF IInv

\* A session that does not invalidate owes nothing.
LEMMA OwesNothing ==
  ASSUME NEW label, NEW s, SessionOK(label, s),
         label \notin {"delete_key", "scan_start", "scan"}
  PROVE  Owed(label, s) = {}
BY DEF SessionOK, Owed

\* Reading Redis or the table changes neither.
LEMMA ReadSteps ==
  ASSUME IInv, NEW c \in Clients,
         \/ \E p \in Products : GetMiss(c, p)
         \/ GetRow(c) \/ GetNotFound(c)
         \/ \E k \in Pages : ListMiss(c, k)
         \/ ListCount(c) \/ ListRows(c)
  PROVE  IInv'
<1>1. /\ TypeOK /\ ses[c] \in Session /\ SessionOK(pc[c], ses[c])
      /\ version \in [Products -> Nat]
  BY DEF IInv, TypeOK
<1>2. ASSUME NEW label \in Labels, NEW s \in Session, SessionOK(label, s),
             Goto(c, label, s), UNCHANGED <<rows, redis, late>>,
             pc[c] \notin {"delete_key", "scan_start", "scan"}
      PROVE  IInv'
  <2>1. Owed(pc[c], ses[c]) = {}
    BY <1>1, <1>2, OwesNothing
  <2> QED
    BY <1>1, <1>2, <2>1, QuietStep DEF TypeOK
<1>3. ASSUME NEW p \in Products, GetMiss(c, p) PROVE IInv'
  <2> DEFINE s == [EmptySession EXCEPT !.product = p]
  <2>1. /\ s \in Session
        /\ s.product = p /\ s.left = {} /\ s.todo = {}
    BY EmptySessionOK DEF Session
  <2>2. /\ Goto(c, "get_row", s) /\ UNCHANGED <<rows, redis, late>>
        /\ pc[c] = "idle"
    BY <1>3 DEF GetMiss
  <2> HIDE DEF s
  <2>3. SessionOK("get_row", s)
    BY <2>1 DEF SessionOK
  <2> QED
    BY <1>2, <2>1, <2>2, <2>3 DEF Labels
<1>4. CASE GetRow(c)
  <2> DEFINE s == [ses[c] EXCEPT !.value = version[ses[c].product]]
  <2>1. /\ pc[c] = "get_row" /\ version[ses[c].product] > 0
        /\ Goto(c, "get_set", s) /\ UNCHANGED <<rows, redis, late>>
    BY <1>4 DEF GetRow
  <2>2. ses[c].product \in Products /\ ses[c].left = {} /\ ses[c].todo = {}
    BY <1>1, <2>1 DEF SessionOK
  <2>3. version[ses[c].product] \in Nat
    BY <1>1, <2>2
  <2>4. /\ s \in Session
        /\ s.product = ses[c].product /\ s.value = version[ses[c].product]
        /\ s.left = {} /\ s.todo = {}
    BY <1>1, <2>2, <2>3 DEF Session
  <2> HIDE DEF s
  <2>5. SessionOK("get_set", s)
    BY <2>1, <2>2, <2>4 DEF SessionOK
  <2> QED
    BY <1>2, <2>1, <2>4, <2>5 DEF Labels
<1>5. CASE GetNotFound(c)
  BY <1>2, <1>5, EmptySessionOK DEF GetNotFound, Done, Labels
<1>6. ASSUME NEW k \in Pages, ListMiss(c, k) PROVE IInv'
  <2> DEFINE s == [EmptySession EXCEPT !.page = k]
  <2>1. /\ s \in Session
        /\ s.page = k /\ s.left = {} /\ s.todo = {}
    BY EmptySessionOK DEF Session
  <2>2. /\ Goto(c, "list_count", s) /\ UNCHANGED <<rows, redis, late>>
        /\ pc[c] = "idle"
    BY <1>6 DEF ListMiss
  <2> HIDE DEF s
  <2>3. SessionOK("list_count", s)
    BY <2>1 DEF SessionOK
  <2> QED
    BY <1>2, <2>1, <2>2, <2>3 DEF Labels
<1>7. CASE ListCount(c)
  <2> DEFINE s == [ses[c] EXCEPT !.total = Total]
  <2>1. /\ pc[c] = "list_count"
        /\ Goto(c, "list_rows", s) /\ UNCHANGED <<rows, redis, late>>
    BY <1>7 DEF ListCount
  <2>2. ses[c].page \in Pages /\ ses[c].left = {} /\ ses[c].todo = {}
    BY <1>1, <2>1 DEF SessionOK
  <2>3. /\ s \in Session
        /\ s.page = ses[c].page /\ s.left = {} /\ s.todo = {}
    BY <1>1, <2>2, NewListingTyped DEF Session
  <2> HIDE DEF s
  <2>4. SessionOK("list_rows", s)
    BY <2>2, <2>3 DEF SessionOK
  <2> QED
    BY <1>2, <2>1, <2>3, <2>4 DEF Labels
<1>8. CASE ListRows(c)
  <2> DEFINE s == [ses[c] EXCEPT !.items = Listed]
  <2>1. /\ pc[c] = "list_rows"
        /\ Goto(c, "list_set", s) /\ UNCHANGED <<rows, redis, late>>
    BY <1>8 DEF ListRows
  <2>2. ses[c].page \in Pages /\ ses[c].left = {} /\ ses[c].todo = {}
    BY <1>1, <2>1 DEF SessionOK
  <2>3. /\ s \in Session
        /\ s.page = ses[c].page /\ s.left = {} /\ s.todo = {}
    BY <1>1, <2>2, NewListingTyped DEF Session
  <2> HIDE DEF s
  <2>4. SessionOK("list_set", s)
    BY <2>2, <2>3 DEF SessionOK
  <2> QED
    BY <1>2, <2>1, <2>3, <2>4 DEF Labels
<1> QED
  BY <1>3, <1>4, <1>5, <1>6, <1>7, <1>8

\* A crash makes late what it leaves undeleted.
LEMMA CrashStep ==
  ASSUME IInv, NEW c \in Clients, Crash(c)
  PROVE  IInv'
<1>1. /\ ses[c] \in Session /\ late \subseteq Products \cup Pages
  BY DEF IInv, TypeOK
<1>2. late' = late \cup Owed(pc[c], ses[c])
  BY PendingIsOwed DEF Crash
<1>3. Owed(pc[c], ses[c]) \subseteq Products \cup Pages
  BY <1>1 DEF Owed, Session
<1> QED
  BY <1>1, <1>2, <1>3, EmptySessionOK, QuietStep DEF Crash, Done, Labels

\* SCAN owes the keys that are there when it starts, and has deleted them all
\* when its cursor is back at 0.
LEMMA ScanSteps ==
  ASSUME IInv, NEW c \in Clients, ScanStart(c) \/ ScanEnd(c)
  PROVE  IInv'
<1>1. /\ ses[c] \in Session /\ late \subseteq Products \cup Pages
  BY DEF IInv, TypeOK
<1>2. CASE ScanStart(c)
  <2> DEFINE s == [ses[c] EXCEPT !.todo = Cached]
  <2>1. /\ pc[c] = "scan_start"
        /\ Goto(c, "scan", s) /\ UNCHANGED <<rows, redis, late>>
    BY <1>2 DEF ScanStart
  <2>2. s \in Session /\ s.left = ses[c].left /\ s.todo = Cached
    BY <1>1 DEF Session, Cached
  <2> HIDE DEF s
  <2>3. SessionOK("scan", s)
    BY DEF SessionOK
  <2>4. ASSUME NEW key \in StaleKeys, key \in Owed(pc[c], ses[c])
        PROVE  key \in Owed("scan", s)
    <3>1. CASE key \in s.left
      BY <3>1 DEF Owed
    <3>2. CASE key \notin s.left
      <4>1. key \in Pages
        BY <2>1, <2>2, <2>4, <3>2 DEF Owed
      <4>2. key \notin Products
        BY <4>1, CacheAssumption
      <4>3. key \in Cached
        BY <2>4, <4>1, <4>2, StaleIs DEF Cached
      <4> QED
        BY <2>2, <4>1, <4>3 DEF Owed
    <3> QED
      BY <3>1, <3>2
  <2> QED
    BY <1>1, <2>1, <2>2, <2>3, <2>4, QuietStep DEF Labels
<1>3. CASE ScanEnd(c)
  <2>1. /\ pc[c] = "scan" /\ ses[c].todo = {}
        /\ UNCHANGED <<rows, redis, late>>
    BY <1>3 DEF ScanEnd
  <2>2. CASE ses[c].left = {}
    <3>1. Owed(pc[c], ses[c]) = {}
      BY <2>1, <2>2 DEF Owed
    <3>2. Goto(c, "idle", EmptySession)
      BY <1>3, <2>2 DEF ScanEnd, Done
    <3> QED
      BY <1>1, <2>1, <3>1, <3>2, EmptySessionOK, QuietStep DEF Labels
  <2>3. CASE ses[c].left # {}
    <3>1. Goto(c, "delete_key", ses[c])
      BY <1>3, <2>3 DEF ScanEnd
    <3>2. Owed(pc[c], ses[c]) = Owed("delete_key", ses[c])
      BY <2>1, <2>3 DEF Owed
    <3>3. SessionOK("delete_key", ses[c])
      BY DEF SessionOK
    <3> QED
      BY <1>1, <2>1, <3>1, <3>2, <3>3, QuietStep DEF Labels
  <2> QED
    BY <2>2, <2>3
<1> QED
  BY <1>2, <1>3

-------------------------------------------------------------------------------
(***************************************************************************)
(* Steps that write Redis.                                                 *)
(***************************************************************************)
\* A reader caches the row it read: late when the row has changed since.
LEMMA GetSetStep ==
  ASSUME IInv, NEW c \in Clients, GetSet(c)
  PROVE  IInv'
<1> DEFINE p == ses[c].product
           v == ses[c].value
<1>1. /\ TypeOK /\ ses[c] \in Session /\ SessionOK(pc[c], ses[c])
      /\ pc[c] = "get_set"
  BY DEF IInv, TypeOK, GetSet
<1>2. p \in Products /\ v \in Nat \ {0} /\ Owed(pc[c], ses[c]) = {}
  BY <1>1, OwesNothing DEF SessionOK, Session
<1>3. /\ entry' = [entry EXCEPT ![p] = v]
      /\ late' = IF v = version[p] THEN late \ {p} ELSE late \cup {p}
      /\ Goto(c, "idle", EmptySession)
      /\ UNCHANGED <<version, active, listing>>
  BY DEF GetSet, Done, rows
<1>4. /\ pc' \in [Clients -> Labels] /\ ses' \in [Clients -> Session]
      /\ \A x \in Clients : SessionOK(pc'[x], ses'[x])
      /\ \A x \in Clients : x # c => pc'[x] = pc[x] /\ ses'[x] = ses[x]
  BY <1>3, EmptySessionOK, SessionMoves DEF Labels
<1> HIDE DEF p, v
<1>5. TypeOK'
  BY <1>1, <1>2, <1>3, <1>4 DEF TypeOK
<1>6. StaleExplained'
  <2> SUFFICES ASSUME NEW key \in StaleKeys', key \notin late'
               PROVE  \E x \in Clients : key \in Pending(x)'
    BY DEF StaleExplained
  <2>1. key # p
    <3>1. ASSUME key = p PROVE FALSE
      <4>1. v = version[p]
        BY <1>3, <3>1
      <4>2. key \notin Pages
        BY <1>2, <3>1, CacheAssumption
      <4>3. entry'[key] = version'[key]
        BY <1>1, <1>2, <1>3, <3>1, <4>1 DEF TypeOK
      <4> QED
        BY <4>2, <4>3 DEF StaleKeys
    <3> QED
      BY <3>1
  <2>2. key \in StaleKeys
    BY <1>1, <1>2, <1>3, <2>1 DEF StaleKeys, NewListing, Total, Listed, TypeOK
  <2>3. key \notin late
    BY <1>3, <2>1
  <2>4. PICK x \in Clients : key \in Pending(x)
    BY <2>2, <2>3 DEF IInv, StaleExplained
  <2>5. x # c
    BY <1>2, <2>4, PendingIsOwed
  <2> QED
    BY <1>4, <2>4, <2>5, PendingIsOwed
<1> QED
  BY <1>4, <1>5, <1>6 DEF IInv

\* A listing is cached: a stale one only while an invalidation is owed.
LEMMA ListSetStep ==
  ASSUME IInv, NEW c \in Clients, ListSet(c)
  PROVE  IInv'
<1> DEFINE k   == ses[c].page
           new == [total |-> ses[c].total, items |-> ses[c].items]
<1>1. /\ TypeOK /\ ses[c] \in Session /\ SessionOK(pc[c], ses[c])
      /\ pc[c] = "list_set"
  BY DEF IInv, TypeOK, ListSet
<1>2. k \in Pages /\ new \in Listing /\ Owed(pc[c], ses[c]) = {}
  BY <1>1, OwesNothing DEF SessionOK, Session, Listing
<1>3. /\ listing' = [listing EXCEPT ![k] = new]
      /\ late' = IF new = NewListing THEN late \ {k} ELSE late \cup {k}
      /\ Goto(c, "idle", EmptySession)
      /\ UNCHANGED <<version, active, entry>>
  BY DEF ListSet, Done, rows
<1>4. /\ pc' \in [Clients -> Labels] /\ ses' \in [Clients -> Session]
      /\ \A x \in Clients : SessionOK(pc'[x], ses'[x])
      /\ \A x \in Clients : x # c => pc'[x] = pc[x] /\ ses'[x] = ses[x]
  BY <1>3, EmptySessionOK, SessionMoves DEF Labels
<1> HIDE DEF k, new
<1>5. TypeOK'
  BY <1>1, <1>2, <1>3, <1>4 DEF TypeOK
<1>6. NewListing' = NewListing
  BY <1>3 DEF NewListing, Total, Listed
<1>7. StaleExplained'
  <2> SUFFICES ASSUME NEW key \in StaleKeys', key \notin late'
               PROVE  \E x \in Clients : key \in Pending(x)'
    BY DEF StaleExplained
  <2>1. key # k
    <3>1. ASSUME key = k PROVE FALSE
      <4>1. new = NewListing
        BY <1>3, <3>1
      <4>2. key \notin Products
        BY <1>2, <3>1, CacheAssumption
      <4>3. listing'[key] = NewListing'
        BY <1>1, <1>2, <1>3, <1>6, <3>1, <4>1 DEF TypeOK
      <4> QED
        BY <4>2, <4>3 DEF StaleKeys
    <3> QED
      BY <3>1
  <2>2. key \in StaleKeys
    BY <1>1, <1>2, <1>3, <1>6, <2>1 DEF StaleKeys, TypeOK
  <2>3. key \notin late
    BY <1>3, <2>1
  <2>4. PICK x \in Clients : key \in Pending(x)
    BY <2>2, <2>3 DEF IInv, StaleExplained
  <2>5. x # c
    BY <1>2, <2>4, PendingIsOwed
  <2> QED
    BY <1>4, <2>4, <2>5, PendingIsOwed
<1> QED
  BY <1>4, <1>5, <1>7 DEF IInv

\* An entry is deleted: its key is not stale any more.
LEMMA EntryDropped ==
  ASSUME IInv, NEW p \in Products,
         entry' = [entry EXCEPT ![p] = None], late' = late \ {p},
         UNCHANGED <<rows, listing>>,
         pc' \in [Clients -> Labels], ses' \in [Clients -> Session],
         \A x \in Clients : SessionOK(pc'[x], ses'[x]),
         \A x \in Clients :
            Owed(pc[x], ses[x]) \subseteq Owed(pc'[x], ses'[x]) \cup {p}
  PROVE  IInv'
<1>1. UNCHANGED <<version, active, listing>> /\ TypeOK
  BY DEF rows, IInv
<1>2. TypeOK'
  BY <1>1 DEF TypeOK
<1>3. StaleExplained'
  <2> SUFFICES ASSUME NEW key \in StaleKeys'
               PROVE  key \in late' \/ \E x \in Clients : key \in Pending(x)'
    BY DEF StaleExplained
  <2>1. p \notin Pages
    BY CacheAssumption
  <2>2. key # p
    BY <1>1, <2>1 DEF StaleKeys, TypeOK
  <2>3. key \in StaleKeys
    BY <1>1, <2>2 DEF StaleKeys, NewListing, Total, Listed, TypeOK
  <2>4. CASE key \in late
    BY <2>2, <2>4
  <2>5. CASE key \notin late
    BY <2>2, <2>3, <2>5, PendingIsOwed DEF IInv, StaleExplained
  <2> QED
    BY <2>4, <2>5
<1> QED
  BY <1>2, <1>3 DEF IInv

\* An invalidation removes the product's key, one key after the other.
LEMMA DeleteKeyStep ==
  ASSUME IInv, NEW c \in Clients, NEW p \in Products, DeleteKey(c, p)
  PROVE  IInv'
<1> DEFINE s == [ses[c] EXCEPT !.left = @ \ {p}]
<1>1. /\ pc[c] = "delete_key"
      /\ entry' = [entry EXCEPT ![p] = None] /\ late' = late \ {p}
      /\ Goto(c, "scan_start", s)
      /\ UNCHANGED <<rows, listing>>
  BY DEF DeleteKey
<1>2. ses[c] \in Session
  BY DEF IInv, TypeOK
<1>3. s \in Session /\ s.left = ses[c].left \ {p}
  BY <1>2 DEF Session
<1> HIDE DEF s
<1>4. SessionOK("scan_start", s)
  BY DEF SessionOK
<1>5. /\ pc' \in [Clients -> Labels] /\ ses' \in [Clients -> Session]
      /\ \A x \in Clients : SessionOK(pc'[x], ses'[x])
      /\ pc'[c] = "scan_start" /\ ses'[c] = s
      /\ \A x \in Clients : x # c => pc'[x] = pc[x] /\ ses'[x] = ses[x]
  BY <1>1, <1>3, <1>4, SessionMoves DEF Labels
<1>6. Owed(pc[c], ses[c]) \subseteq Owed("scan_start", s) \cup {p}
  BY <1>1, <1>3 DEF Owed
<1>7. \A x \in Clients :
         Owed(pc[x], ses[x]) \subseteq Owed(pc'[x], ses'[x]) \cup {p}
  BY <1>5, <1>6
<1> QED
  BY <1>1, <1>5, <1>7, EntryDropped

\* Listings are deleted: their keys are not stale any more, and no SCAN owes
\* them.
LEMMA ListingsDropped ==
  ASSUME IInv, NEW B \in SUBSET Pages,
         listing' = [k \in Pages |-> IF k \in B THEN None ELSE listing[k]],
         late' = late \ B, ses' = Dropped(ses, B),
         UNCHANGED <<rows, entry, pc>>
  PROVE  IInv'
<1>1. UNCHANGED <<version, active, entry, pc>> /\ TypeOK
  BY DEF rows, IInv
<1>2. ASSUME NEW x \in Clients
      PROVE  /\ ses'[x] = [ses[x] EXCEPT !.todo = @ \ B]
             /\ ses[x] \in Session
             /\ ses'[x] \in Session
             /\ ses'[x].left = ses[x].left
             /\ ses'[x].todo = ses[x].todo \ B
             /\ ses'[x].product = ses[x].product
             /\ ses'[x].page = ses[x].page
             /\ ses'[x].value = ses[x].value
  <2>1. ses[x] \in Session /\ ses'[x] = [ses[x] EXCEPT !.todo = @ \ B]
    BY <1>1 DEF TypeOK, Dropped
  <2> QED
    BY <2>1 DEF Session
<1>3. ses' \in [Clients -> Session]
  BY <1>2 DEF Dropped
<1>4. \A x \in Clients : SessionOK(pc'[x], ses'[x])
  <2>1. ASSUME NEW x \in Clients PROVE SessionOK(pc'[x], ses'[x])
    <3>1. SessionOK(pc[x], ses[x]) /\ pc'[x] = pc[x]
      BY <1>1 DEF IInv
    <3> QED
      BY <1>2, <3>1 DEF SessionOK
  <2> QED
    BY <2>1
<1>5. ASSUME NEW x \in Clients
      PROVE  Owed(pc[x], ses[x]) \subseteq Owed(pc'[x], ses'[x]) \cup B
  BY <1>1, <1>2 DEF Owed
<1>6. TypeOK'
  BY <1>1, <1>3 DEF TypeOK
<1>7. StaleExplained'
  <2> SUFFICES ASSUME NEW key \in StaleKeys'
               PROVE  key \in late' \/ \E x \in Clients : key \in Pending(x)'
    BY DEF StaleExplained
  <2>1. B \cap Products = {}
    BY CacheAssumption
  <2>2. key \notin B /\ key \in StaleKeys
    BY <1>1, <2>1 DEF StaleKeys, NewListing, Total, Listed, TypeOK
  <2>3. CASE key \in late
    BY <2>2, <2>3
  <2>4. CASE key \notin late
    <3>1. PICK x \in Clients : key \in Pending(x)
      BY <2>2, <2>4 DEF IInv, StaleExplained
    <3> QED
      BY <1>5, <2>2, <3>1, PendingIsOwed
  <2> QED
    BY <2>3, <2>4
<1> QED
  BY <1>4, <1>6, <1>7 DEF IInv

\* An entry whose time to live is over is no longer stale.
LEMMA ExpiryStep ==
  ASSUME IInv,
         \/ \E p \in Products : EntryExpires(p)
         \/ \E k \in Pages : ListingExpires(k)
  PROVE  IInv'
<1>1. ASSUME NEW p \in Products, EntryExpires(p) PROVE IInv'
  <2>1. /\ entry' = [entry EXCEPT ![p] = None] /\ late' = late \ {p}
        /\ UNCHANGED <<rows, listing>> /\ UNCHANGED <<pc, ses>>
    BY <1>1 DEF EntryExpires
  <2>2. /\ pc' \in [Clients -> Labels] /\ ses' \in [Clients -> Session]
        /\ \A x \in Clients : SessionOK(pc'[x], ses'[x])
    BY <2>1 DEF IInv, TypeOK
  <2> QED
    BY <2>1, <2>2, EntryDropped
<1>2. ASSUME NEW k \in Pages, ListingExpires(k) PROVE IInv'
  <2>1. listing' = [x \in Pages |-> IF x \in {k} THEN None ELSE listing[x]]
    BY <1>2 DEF ListingExpires, IInv, TypeOK
  <2> QED
    BY <1>2, <2>1, ListingsDropped DEF ListingExpires
<1> QED
  BY <1>1, <1>2

-------------------------------------------------------------------------------
(***************************************************************************)
(* The writers.  What a commit makes stale, its request goes on to delete. *)
(***************************************************************************)
LEMMA CommitStep ==
  ASSUME IInv, NEW c \in Clients, NEW P \in SUBSET Products,
         NEW label \in {"delete_key", "scan_start"}, Commit(c, P, label),
         active' \in [Products -> BOOLEAN],
         label = "scan_start" => \A p \in P : version[p] = 0
  PROVE  IInv'
<1> DEFINE s == [EmptySession EXCEPT !.left = IF label = "delete_key" THEN P ELSE {}]
<1>1. /\ pc[c] = "idle" /\ Goto(c, label, s)
      /\ version' = [p \in Products |->
                        IF p \in P THEN version[p] + 1 ELSE version[p]]
      /\ UNCHANGED <<entry, listing, late>>
  BY DEF Commit, redis
<1>2. /\ s \in Session
      /\ s.left = IF label = "delete_key" THEN P ELSE {}
  BY EmptySessionOK DEF Session
<1> HIDE DEF s
<1>3. SessionOK(label, s)
  BY DEF SessionOK
<1>4. /\ pc' \in [Clients -> Labels] /\ ses' \in [Clients -> Session]
      /\ \A x \in Clients : SessionOK(pc'[x], ses'[x])
      /\ pc'[c] = label /\ ses'[c] = s
      /\ \A x \in Clients : x # c => pc'[x] = pc[x] /\ ses'[x] = ses[x]
  BY <1>1, <1>2, <1>3, SessionMoves DEF Labels
<1>5. TypeOK /\ Owed(pc[c], ses[c]) = {}
  BY <1>1, OwesNothing DEF IInv
<1>6. version' \in [Products -> Nat]
  BY <1>1, <1>5 DEF TypeOK
<1>7. TypeOK'
  BY <1>1, <1>4, <1>5, <1>6 DEF TypeOK
<1>8. StaleExplained'
  <2> SUFFICES ASSUME NEW key \in StaleKeys'
               PROVE  key \in late' \/ \E x \in Clients : key \in Pending(x)'
    BY DEF StaleExplained
  <2>1. key \in Owed(label, s) => key \in Pending(c)'
    BY <1>4, PendingIsOwed
  <2>2. CASE key \in Pages
    <3>1. key \in Owed(label, s)
      BY <2>2 DEF Owed
    <3> QED
      BY <2>1, <3>1
  <2>3. CASE key \in P /\ label = "delete_key"
    <3>1. key \in Owed(label, s)
      BY <1>2, <2>3 DEF Owed
    <3> QED
      BY <2>1, <3>1
  <2>4. CASE key \notin Pages /\ ~(key \in P /\ label = "delete_key")
    <3>1. key \in Products /\ entry[key] \notin {None, version'[key]}
      BY <1>1, <2>4 DEF StaleKeys
    <3>2. entry[key] # version[key]
      <4>1. CASE key \in P
        <5>1. version[key] = 0
          BY <2>4, <4>1
        <5> QED
          BY <1>5, <3>1, <5>1 DEF TypeOK
      <4>2. CASE key \notin P
        BY <1>1, <3>1, <4>2
      <4> QED
        BY <4>1, <4>2
    <3>3. key \in StaleKeys
      BY <3>1, <3>2 DEF StaleKeys
    <3>4. CASE key \in late
      BY <1>1, <3>4
    <3>5. CASE key \notin late
      <4>1. PICK x \in Clients : key \in Pending(x)
        BY <3>3, <3>5 DEF IInv, StaleExplained
      <4>2. x # c
        BY <1>5, <4>1, PendingIsOwed
      <4> QED
        BY <1>4, <4>1, <4>2, PendingIsOwed
    <3> QED
      BY <3>4, <3>5
  <2> QED
    BY <2>2, <2>3, <2>4
<1> QED
  BY <1>4, <1>7, <1>8 DEF IInv

\* A writer commits, and owes the invalidation of what it made stale.
LEMMA WriteStep ==
  ASSUME IInv, NEW c \in Clients, Write(c)
  PROVE  IInv'
<1>1. active \in [Products -> BOOLEAN]
  BY DEF IInv, TypeOK
<1>2. ASSUME NEW p \in Products, CreateProduct(c, p) PROVE IInv'
  BY <1>1, <1>2, CommitStep DEF CreateProduct
<1>3. ASSUME NEW p \in Products, DeleteProduct(c, p) PROVE IInv'
  BY <1>1, <1>3, CommitStep DEF DeleteProduct
<1>4. ASSUME NEW p \in Products, NEW isActive \in BOOLEAN,
             UpdateProduct(c, p, isActive)
      PROVE  IInv'
  <2>1. /\ Commit(c, {p}, "delete_key")
        /\ active' = [active EXCEPT ![p] = isActive]
    BY <1>4 DEF UpdateProduct
  <2>2. active' \in [Products -> BOOLEAN]
    BY <1>1, <2>1
  <2> QED
    BY <2>1, <2>2, CommitStep
<1>5. ASSUME NEW P \in SUBSET Products, MoveStock(c, P) PROVE IInv'
  BY <1>1, <1>5, CommitStep DEF MoveStock
<1> QED
  BY <1>2, <1>3, <1>4, <1>5 DEF Write

-------------------------------------------------------------------------------
\* The cache starts empty.
LEMMA InitIInv ==
  ASSUME Init
  PROVE  IInv
<1>1. TypeOK
  BY EmptySessionOK DEF Init, TypeOK, Labels
<1>2. \A c \in Clients : SessionOK(pc[c], ses[c])
  BY EmptySessionOK DEF Init
<1>3. StaleExplained
  BY DEF Init, StaleExplained, StaleKeys
<1> QED
  BY <1>1, <1>2, <1>3 DEF IInv

\* Every step of the cache and its clients keeps the invariant.
LEMMA NextIInv ==
  ASSUME IInv, [Next]_vars
  PROVE  IInv'
<1>1. ASSUME NEW c \in Clients, Read(c) PROVE IInv'
  BY <1>1, ReadSteps, GetSetStep, ListSetStep DEF Read
<1>2. ASSUME NEW c \in Clients, Invalidate(c) PROVE IInv'
  <2>1. ASSUME NEW B \in SUBSET Pages, ScanBatch(c, B) PROVE IInv'
    BY <2>1, ListingsDropped DEF ScanBatch
  <2> QED
    BY <1>2, <2>1, DeleteKeyStep, ScanSteps DEF Invalidate
<1>3. CASE UNCHANGED vars
  <2>1. UNCHANGED <<version, active, entry, listing, pc, ses, late>>
    BY <1>3 DEF vars, rows, redis
  <2>2. TypeOK' /\ \A c \in Clients : SessionOK(pc'[c], ses'[c])
    BY <2>1 DEF IInv, TypeOK
  <2>3. StaleKeys' = StaleKeys
    BY <2>1 DEF StaleKeys, NewListing, Total, Listed
  <2>4. \A c \in Clients : Pending(c)' = Pending(c)
    BY <2>1, PendingIsOwed
  <2>5. StaleExplained'
    BY <2>1, <2>3, <2>4 DEF IInv, StaleExplained
  <2> QED
    BY <2>2, <2>5 DEF IInv
<1> QED
  BY <1>1, <1>2, <1>3, WriteStep, CrashStep, ExpiryStep DEF Next

\* The inductive invariant holds of every reachable state.
THEOREM Invariance == Spec => []IInv
<1>1. Init => IInv
  BY InitIInv
<1>2. IInv /\ [Next]_vars => IInv'
  BY NextIInv
<1> QED
  BY <1>1, <1>2, PTL DEF Spec

\* Redis only ever holds entries of rows that exist and listings that count
\* products; every session keeps its type.
THEOREM TypeCorrect == Spec => []TypeOK
<1>1. IInv => TypeOK
  BY DEF IInv
<1> QED
  BY <1>1, Invariance, PTL

\* Every writer of products invalidates what it changed: what is stale in
\* Redis is about to be deleted, was set by a reader that had been overtaken,
\* or is what a crash left behind.
THEOREM StaleSafe == Spec => []StaleExplained
<1>1. IInv => StaleExplained
  BY DEF IInv
<1> QED
  BY <1>1, Invariance, PTL

===============================================================================

# Order management backend: TLA+ models and proofs

This directory models the FastAPI / PostgreSQL / Redis / Celery backend of this
repository. TLC checks the models on small instances, TLAPS proves the main
safety properties for every instance.

    tlc -config serial.cfg MCShop        # one run; all runs are listed below
    tlapm ShopProofs.tla                 # the proofs
    tlapm SerialProofs.tla               # likewise for every *Proofs module

## The system

One API process serves many requests concurrently (asyncio). Each request has
one SQLAlchemy session and one PostgreSQL transaction at READ COMMITTED; Celery
workers have synchronous sessions of the same kind. Requests share the tables,
the row locks of PostgreSQL and the keys of Redis, and nothing else.

| component | source | state | operations | what makes it correct |
|---|---|---|---|---|
| order state machine | `models/order.py`, `services/order_state.py` | `orders.status` | `assert_valid_transition` | every change of a status is in the table |
| orders | `endpoints/orders.py` | `orders`, `order_items`, `products.stock` | checkout, cancel, status update | no overselling, stock conserved, an order is the cart it came from at the current prices, every request is answered |
| payments | `endpoints/payments.py` | `payments`, `orders.status` | pay, retry | one charge per order, bounded retries, payment and confirmation together |
| cart | `endpoints/cart.py` | `cart_items` | add, update, remove, clear | a row per product, what was bought or removed stays out, never more in an order than there is stock |
| catalog | `endpoints/products.py` | `products` | create, update, soft delete, list, get | owner's edits only; stale writes do not break stock |
| product cache | `services/cache.py` | Redis keys | read-through, set with TTL, invalidate | stale entries are explained and temporary |
| authentication | `endpoints/auth.py`, `core/security.py` | `users`, `carts`, `refresh_tokens` | register, login, refresh, logout | a rotated or revoked token stays dead |
| scheduled cleanup | `tasks/cleanup_tasks.py`, `celery_app.py` | orders, tokens | cancel stale orders, delete expired tokens | cancels like a cancellation; tables do not grow forever |
| rate limiter | `core/rate_limit.py` | Redis counters | INCR + EXPIRE | at most the limit per minute besides requests that come in late, nobody within it refused, counters do not pile up |
| background tasks | `tasks/*.py`, `celery_app.py` | Celery queue, mails, invoice files | publish, take, send or write, retry, acknowledge | say only what was committed, run again after a worker died, end |
| users, schemas, configuration | `endpoints/users.py`, `schemas/`, `config.py` | profile columns | single-row reads and writes | nothing that several steps could break |

Interactions: a checkout reads the cart and the products, locks the products,
writes orders, stock and cart, then invalidates cache keys. Cancellation and
product updates write the same stock. Payments, cancellations, status updates
and the stale-order task write the same `orders.status`. A payment that commits
publishes tasks; workers take them and never write the tables. Hard behaviours are
the windows between a request's statements, deadlocks between row locks, a
crash or a lost client in the middle of a request, the gateway's charge outside
the transaction, retries, invalidation and publication after the commit, lost
answers of the SMTP server, redelivery, and Redis commands that are not atomic. `PROJECT.json`
lists each hazard at its line with the properties that would catch it.

## Modules

| module | models |
|---|---|
| `OrderState` | statuses, `ALLOWED_TRANSITIONS`, `assert_valid_transition` |
| `Database` | the tables and the session (identity map) of each request; `EXTENDS OrderState` |
| `OrdersApi`, `PaymentsApi`, `CartApi`, `ProductsApi` | one action per statement of each handler; each `EXTENDS Database` |
| `Shop` | all handlers concurrently on the one database, crashes, `Next`, `Spec`, `FairSpec` |
| `Inventory` | the abstract store that checkout and cancellation promise |
| `ShopProperties` | the properties of `Shop`, and the mapping from `Shop` to `Inventory` |
| `MCShop` | constants of the small instances, symmetry |
| `ShopProofs` | theorems about `Shop`, whatever the interleaving |
| `SerialProofs` | theorems about `Shop` when requests run one at a time |
| `SumTheorems` | what a sum over a finite set is, for `Conservation` |
| `TaskQueue` | publication, broker, workers, the mail and invoice tasks; `EXTENDS Database` |
| `Fulfilment` | `Shop` and `TaskQueue` composed: which commit publishes which tasks; the properties of both |
| `MCFulfilment` | `Fulfilment` with the constants of `MCShop` |
| `FulfilmentProofs` | theorems about `Fulfilment` |
| `RateLimit` | the counters of one client on one route, with their properties |
| `RateLimitProofs` | theorems about `RateLimit` |
| `ProductCache` | Redis read-through and invalidation, with its properties |
| `ProductCacheProofs` | theorems about `ProductCache` |
| `Tokens` | accounts and refresh tokens, with their properties |
| `TokensProofs` | theorems about `Tokens` |

### How state and actions correspond to the code

A request is a slot `r \in Requests`. `pc[r]` is the statement it will run next,
`ses[r]` what its session has loaded. A handler of the code is a chain of
actions: `create_order` is `CreateOrderReadCart` (SELECT of the cart),
`CreateOrderReadProducts` (the SELECT that `selectinload` issues), `LockRow`
(FOR UPDATE, a row at a time) and `CreateOrderCommit` or `CreateOrderReject`.
`status`, `owner`, `qty`, `unit` are the columns of `orders` and `order_items`;
`payment`, `cart`, `stock`, `price`, `active` those of the other tables. `qty = 0`
in a cart means that there is no row, and `gen` stands for the row's primary key,
so that deleting a row and inserting another one is noticed.

What decides most outcomes is how SQLAlchemy and PostgreSQL behave, which is
modelled from how the code uses them:

* an object already in the identity map is not refreshed by a later SELECT,
  `with_for_update()` included, because `populate_existing` is not asked for;
* a flush writes the columns whose value changed, as absolute values
  (`Flushed`); an UPDATE whose row is gone is an error (`*Conflict` actions), a
  DELETE whose row is gone is not;
* a uniqueness conflict is an error that rolls the transaction back;
* a flush and the commit right after it are one step, since its rows are
  invisible until then. A checkout's and a cancellation's row locks on products
  are steps of their own, because they can wait and deadlock;
* a rollback, by error, deadlock, crash or a client that goes away, undoes the
  transaction and nothing else: the gateway's answer stays.

`Fulfilment` runs every action of `Shop` unchanged; the step of a payment that
commits also fills the request's `outbox`, which the request publishes one
`.delay` at a time (`Publish`), or loses (`PublishLost`), before it takes the next
call. A worker holds one message (`running`), runs it (`MailSent`, `MailFails`,
`InvoiceWritten`, `InvoiceFails`) and acknowledges it in a step of its own
(`Ack`), because `task_acks_late` is set: a worker that dies before (`WorkerDies`)
has its message delivered again, while a pool process that is killed or exceeds
`task_time_limit` (`ChildDies`) has it acknowledged, as
`task_reject_on_worker_lost` is not set. `MailFails` leaves open whether the server
accepted the mail. The broker's visibility timeout (an hour) is longer than
`task_time_limit`, so a message is not delivered twice while a worker runs it; the
countdown of a retry and that timeout only mean that messages come in any order.
The queue is a set, and two messages may have the same content (the task of an
earlier payment that was redelivered, and that of a later one): the broker tells
them apart by their delivery, the model by `copy` (`New` takes one that nobody
has). Without it, two such messages would merge into one and a task be lost; the
type invariant of the proofs is what showed it.

In `RateLimit` the clock reading, the INCR and the EXPIRE of a request are three
steps (`Arrive`, `Incr*`, `SetExpiry`); `Tick` advances the clock and the times to
live of all keys together. `win` is the window a request computed, which may be
over when it is counted. `accepted` counts every request that is let through, in
the window that the clock shows when it is, and `held` the requests that were in
flight when a window began.

Left out because no property depends on it: formatting and totals, pagination
and search, read-only endpoints of orders and payments, the card token (the
gateway answers either way), `_get_or_create_cart`'s creation branch
(registration creates the cart), what a mail or an invoice says, and in `Shop` the cache invalidation, which
`ProductCache` models on its own with a product row reduced to its version.

`visited`, `late`, `parent`, `login` and `contended`, in `TaskQueue` `doubts` and
`failed`, in `RateLimit` `accepted`, `held`, `refused` and `leaked` are history variables: no
action's guard reads them. `published` numbers the messages, `deaths` and `made`
also serve as bounds.

Operators whose comment begins "Mutant of" are not part of a model: each is the
named operator with a plausible bug, kept to show that a property notices it.
`PROJECT.json` pairs them.

## Runs

All runs set `CHECK_DEADLOCK FALSE`: clients may stop sending requests, and the
ids of new rows are bounded, so a state without successor is no error. A request
that is stuck is one, and `RequestsFinish` is about it.

| run | module | checks | instance |
|---|---|---|---|
| `serial` | MCShop | `TypeOK`, `NoDoubleCharge`, `RetryLimit`, `LegalTransitions` | every handler, one request at a time, 1 product, 2 orders, customer and admin |
| `serial_checkout` | MCShop | `Conservation`, `OrderMatchesCart`, `PriceAtPurchase`, `InventoryRefined` | checkout, cancel, cart and price changes, crashes, 1 request, 2 products, quantities 1 and 2 |
| `concurrent_orders` | MCShop | `PipelineOrder`, `PaidWasConfirmed`, `RetriesBounded` | everything that writes an order, 2 requests, crashes |
| `concurrent_stock` | MCShop | `StockNonNegative`, `ConfirmedWasCharged`, `DeletedRowsStay` | everything but status and price updates, 2 requests, crashes |
| `row_locks` | MCShop | `RequestsFinish` | two checkouts of two products, cancellation, product delete |
| `product_cache` | ProductCache | `TypeOK`, `StaleExplained`, `StaleIsTemporary` | 2 requests, 2 products, a listing, crashes |
| `refresh_tokens` | Tokens | `TypeOK`, `RotatedIsDead`, `OneTokenPerLogin`, `NeverUsableAgain`, `RowsAreDeleted` | 2 requests, 3 tokens, expiry, cleanup, crashes |
| `task_queue` | MCFulfilment | `TasksTyped`, `NoticeIsTrue`, `MailsExplained`, `TasksEnd`, `PaidIsAnnounced` | two payments of an order at a time, 1 worker, lost publications, SMTP errors, crashes |
| `rate_limit` | RateLimit | `TypeOK`, `LimitKept`, `RefusalsEarned`, `LeaksExplained`, `CountersVanish` | 2 requests at a time, limit 2, two windows, crashes |

Three runs expect a violation. In each, TLC finds a behaviour of the code that
contradicts a sentence in the repository (quoted in `PROJECT.json`):

| run | property | what the trace shows |
|---|---|---|
| `checkout_race` | `NoOversell` | two checkouts of the last unit both succeed: the second waits for the row lock, then compares the stock it loaded before |
| `transition_race` | `LegalTransitions` | of two payments of one order that overlap, one is approved and confirms the order; the other, which loaded the order before, is declined and turns ORDER_CONFIRMED into PAYMENT_FAILED |
| `stale_leak` | `Conservation` | the stale-order task cancels an order and does not restock it |

Some disagreements of the same kind have no run of their own. With `cancel_order`
among the handlers of `transition_race`, longer behaviours violate `LegalTransitions`
too: a payment that loaded the order before it was cancelled takes it from CANCELLED
to ORDER_CONFIRMED. `RetryLimit` is violated when two payments of one order overlap: both compare the `retry_count`
they loaded, so the gateway declines more often than the limit (order.py:26 speaks
of a limit "enforced in the payments endpoint"). And `update_order_status` accepts
PENDING -> PAYMENT_SUCCESS -> ORDER_CONFIRMED, so that an administrator confirms
an order nobody paid for, though its docstring (orders.py:122) names the shipping
pipeline only; `ConfirmedWasCharged` is therefore checked without that handler. The
README of the repository calls the rate limit "sliding-window"; the code, and its
docstring, count in fixed windows, so that twice the limit fits around the end of
a minute. The docstring also allows for "a rare race" that "just lets one extra
request through" (rate_limit.py:12-13). The race is that of a request that computed its
window before the minute changed and is counted after: it goes through on the older
counter, or on one made anew after that counter expired, besides the limit of the
new minute. There can be as many extra requests as were in flight at that moment,
in `rate_limit` two of them: with limit 2, `accepted` reaches 4 in one minute. `LimitKept`
says that there are never more, and that the gap between INCR and EXPIRE adds none.

The properties of `ShopProperties` are in two groups. The first holds for every
interleaving. The second holds when requests run one at a time (`serial`,
`serial_checkout`), and parts of it are lost under concurrency, as the runs above that expect
a violation show; `OrderMatchesCart` and `PriceAtPurchase` are lost the same way when a
configuration like `checkout_race` runs two requests on one cart, or a checkout
beside a price update.

### Bounds

* `Requests`: every race found needs two requests. Two also give every pair of
  handlers; the proofs cover any number.
* `OrderIds`, `TokenIds`: primary keys that can be drawn. Two orders of one product
  compete for its stock; three tokens are a chain of two rotations, or two
  successors of one token.
* `MAX_RETRIES` is 3 in the code and 1 or 2 here: the check is the same, and the
  limit is reached with fewer steps. `MaxCharges` (answers of the gateway per
  order) is compared before a request reads the order, so that overlapping payments
  exceed it. In the runs that check a limit of retries or charges (`serial`,
  `concurrent_orders`) it is larger than `MAX_RETRIES`, so that the limit is exceeded if
  it can be. In `transition_race` and `task_queue` it is 1: two payments of an order
  are answered only when they overlap.
* `MaxCartRows`, `MaxLineQty`: how often a cart row is inserted anew, and how large
  its quantity gets. `MaxLineQty` stops an `add_item` halfway, so the liveness run
  leaves `add_item` out.
* `MaxStock`: two cancellations of one order that race put its units back twice,
  so stock has no natural bound; a cancellation that would exceed the bound is
  not started.
* `MaxVersion`: commits per product in `ProductCache`; a second commit while
  the first one's invalidation runs is within it.
* `MAX_RETRIES` = 2 and one order in `task_queue`: two payments overlap, and either
  may be declined, before or after the other one is approved, so that a failure mail
  and a confirmation are on their way together and arrive in either order. `MAIL_RETRIES` is 3 in the
  code and 1 here: one lost answer and the last retry both occur. `MaxDeaths`
  bounds crashes of workers and their pool processes together; one suffices for a
  redelivery before or after the effect of the task.
* One address in `refresh_tokens`: that the successor of a token belongs to the same
  user (`RotatedIsDead`) is then true of itself, and it is the proof that covers it.
* `Limit` = `Minute` = 2, `MaxWindow` = 1, `MaxMade` = 4: two windows, in each up to
  twice as many requests as the limit, and a third window in which the counters of
  the second one expire and late requests are counted. Two requests at a time can
  be between their INCR and EXPIRE in different windows. The proofs cover any limit,
  any length of the window and any number of requests.
* Order ids and request slots are symmetric in the safety runs. Liveness runs
  declare no symmetry.

### Fairness

* `Shop!FairSpec`: strong fairness of each request's next statement. The event
  loop resumes every coroutine whose answer arrived, PostgreSQL serves lock
  waiters in order and its deadlock detector cancels one of a cycle. Weak fairness
  is not enough: a lock can be free and taken again infinitely often by others
  while a request waits. Nothing forces a request to be sent, or a crash.
* `ProductCache!FairSpec`: a time to live passes. Requests need not go on.
* `Fulfilment!FairFulfilSpec`: weak fairness of publishing (the request is running)
  and of each worker's next step. Workers are restarted by whoever runs them; that
  they do not crash forever is `MaxDeaths`. Nothing forces a payment, and a task
  may fail at every attempt.
* `RateLimit!FairSpec`: the clock goes on, and Redis answers an EXPIRE unless it or
  the request fails.
* `Tokens!FairSpec`: tokens expire, and Celery beat runs the daily cleanup.

## Proofs

Every invariant and every action property of the passing runs is a theorem, for
every value of the constants that satisfies their assumptions: any number of
users, products, orders, clients, workers and concurrent requests, and every
interleaving. Where a theorem has further hypotheses they are stated in it and
listed below. None of these properties is inductive; what follows names, for each
module, the invariant that is.

### Any interleaving: `ShopProofs`

| theorem | states | hypothesis |
|---|---|---|
| `TypeCorrect` | `Spec => []TypeOK` | |
| `StockSafe` | `Spec => []StockNonNegative` | |
| `PipelineSafe` | `Spec => []PipelineOrder` | |
| `PaymentSafe` | `Spec => []PaidWasConfirmed` | |
| `RetriesSafe` | `Spec => []RetriesBounded` | |
| `DeletedRowsSafe` | `Spec => DeletedRowsStay` | |
| `ChargedSafe` | `Spec => []ConfirmedWasCharged` | no `update_order_status` |

A commit writes what its session loaded earlier, so whether it is harmless
depends on what sessions hold. The inductive invariant `IInv` therefore says,
besides the types and the properties, what each session knows (`SessionOK`): a
loaded stock is not negative; an order it loaded exists, and the status it loaded
is in the order's history `visited`; a loaded payment that is about to be
incremented is below the limit; a target status is written only from a status
visited before. `Invariance` proves `Spec => []IInv` with one lemma per handler,
under it one step per conjunct that the handler can disturb; the other theorems
follow from it by PTL. `DeletedRowsSafe` is about steps: every handler that writes a
cart compares the row's key with the one it loaded (`SameRow`) or inserts a row with
a new key. `ChargedSafe` adds `ChargedInv`: a session about to record an approval has
a charge behind it, and no session is about to set a status by hand. Its
hypothesis is needed, since `update_order_status` confirms unpaid orders (see Runs),
and the run makes it, too.

### One request at a time: `SerialProofs`

The second group of `ShopProperties` is lost when requests interleave, as the runs
that expect a violation show. `OneAtATime` says that there is one request slot, as in
`serial` and `serial_checkout`.

| theorem | states | hypotheses besides `OneAtATime` |
|---|---|---|
| `TransitionsLegal` | `Spec => LegalTransitions` | |
| `CartIsOrdered` | `Spec => OrderMatchesCart` | |
| `PriceIsCurrent` | `Spec => PriceAtPurchase` | |
| `NeverChargedTwice` | `Spec => []NoDoubleCharge` | no crash |
| `DeclinesLimited` | `Spec => []RetryLimit` | no crash |
| `InventoryKept` | `Spec => InventoryRefined` | `OnlyCheckouts` |
| `UnitsConserved` | `Spec => []Conservation` | `OnlyCheckouts`, finitely many orders |
| `NothingOversold` | `Spec => []NoOversell` | `OnlyCheckouts`, finitely many orders |

* `FreshInv` (theorem `AlwaysFresh`): what a session has loaded is still what the
  tables hold, and the checks it made still hold. This is what a single request
  has over concurrent ones; the races listed under Runs start from states that violate it.
* `MoneyInv`: an order is charged once at most; when it is, its status is one that
  cannot be paid for, or the request that got the answer is about to write one; and
  the gateway has declined as often as `retry_count` says, but for the answer that is
  about to be written. A crash in between breaks it, because the answer stays and
  the record is rolled back: hence the hypothesis, which `serial` makes, too.
* `OnlyCheckouts` excludes the other writers of stock and of an order's end:
  `update_product` with a stock, `update_order_status` (which can cancel) and the
  stale-order task, neither of which restocks (`stale_leak`). Crashes are allowed.
  `StoreInv` says that every order has items, so that `Inventory` sees a checkout
  as one step; `InventoryKept` maps every step to `Place`, `Release` or a stutter.
* `UnitsConserved` needs sums over any finite set, and the sum of the community
  modules is a fold defined by CHOOSE and recursion, for which the prover has no
  induction. `SumTheorems` goes around it: the sum of `f` over `S` is the number of the
  boxes in `{<<x, i>> : x \in S, i < f[x]}` (`SumIsCount`), by taking the smallest
  subset for which it is not, and counting follows from `FiniteSetTheorems`
  (`OneTermChanges`). `Balanced` states `Conservation` of the boxes; a step of `Inventory`
  changes one term.

### Tokens: `TokensProofs`

| theorem | states |
|---|---|
| `TypeCorrect` | `Spec => []TypeOK` |
| `RotationSafe` | `Spec => []RotatedIsDead` |
| `NeverRevived` | `Spec => NeverUsableAgain` |
| `OneTokenEach` | `Spec => []OneTokenPerLogin` |

Its `IInv` says that the token a request loaded was issued, to the user it goes on
with; that the id it drew has not been issued and nobody else drew it
(`DistinctNew`), without which a new token could overwrite an older one; and that
a token with a successor is revoked or has lost its row (`RotatedRevoked`): a
token that was rotated after another request had loaded it is covered because
revocation is only ever undone by deleting the row.

`OneTokenPerLogin` does not follow from that. `OneInv` speaks of the tokens that were
neither revoked nor deleted, expired or not (`Live`), because a rotation that read a
token before it expired still goes through: an uncontended login has one of them at
most (`OneLive`); the token that a rotation has read is still live (`StillLive`); and
two requests that hold tokens of one login have contended for it (`Exclusive`).

### The rate limiter: `RateLimitProofs`

For every limit, length of the window and finite number of concurrent requests:

| theorem | states |
|---|---|
| `TypeCorrect` | `Spec => []TypeOK` |
| `LimitSafe` | `Spec => []LimitKept` |
| `RefusalsSafe` | `Spec => []RefusalsEarned` |
| `LeaksSafe` | `Spec => []LeaksExplained` |

`LimitKept` holds because a counter does not vanish while its window lasts: an
EXPIRE is sent after the window has begun and gives the key a whole window's time
(`OutlivesWindow`). Of the clock's window, `CountedWhileItLasts` says that the requests
let through so far, the stragglers that may still be let through on older counters
(`Straggling`) and the one whose EXPIRE of this window's counter is outstanding
(`Ahead`) are together at most what the counter has counted, and at most the limit,
plus `held` each time. A straggler that is let through leaves the sum as it is; a
request of this window adds one to both sides. There is at most one such EXPIRE, since
only the request that created the key sends it (`OneExpires`). When a window begins,
nobody was let through in it (`NoneBeforehand`), and all its stragglers are in `held`.
`RefusalsEarned` needs that the counter and the
requests that will still increment it never exceed those that arrived
(`CountedOnce`, with the cardinality lemmas of `FiniteSetTheorems`).

### The product cache: `ProductCacheProofs`

| theorem | states |
|---|---|
| `TypeCorrect` | `Spec => []TypeOK` |
| `StaleSafe` | `Spec => []StaleExplained` |

For any number of clients, pages and commits and any finite set of products.
`StaleExplained` is nearly inductive: what is missing is `SessionOK`, that only a
request that is invalidating has anything left to delete, so that one that ends owes
nothing, and that readers cache only rows that exist. `Owed` is the set of keys a client
has still to delete, read off its own session. A commit makes only keys stale that
its client owes from then on (`CommitStep`); a DELETE takes a key from both sets; a
stale value is set only by a reader in `late`; expiry and crashes are the other cases.

### Background tasks: `FulfilmentProofs`

| theorem | states |
|---|---|
| `QueueTyped` | `FulfilSpec => []TasksTyped` |
| `NoticesTrue` | `FulfilSpec => []NoticeIsTrue` |
| `MailsCounted` | `FulfilSpec => []MailsExplained` |

For any number of requests, orders, retries and crashes and finitely many workers
(the run has one worker: two exceed its time, and these proofs cover them). Every
step of `FulfilSpec` is a step of `Shop` or leaves it alone (`ShopStep`), so the `IInv` of
`ShopProofs` holds here as well.

* `TypesInv`: the types, a finite queue, and that a message is in one place, which
  `NewOK` gives: of the copies `0..n` one is not among `n` messages on their way.
* `TruthInv`: what an outbox, the queue or a worker has to tell has happened
  (`Earned`). A payment that is no duplicate commits in the very step that fills
  the outbox (`PaymentCommits`, `AnnouncedOK`), and `visited` only grows
  (`VisitedGrows`).
* `CountInv`: mails, plus messages that wait, plus workers that run, are at most what
  was published or doubted, per order and kind. Taking a message moves it, a mail
  takes its place, and a step that does both mail and repeat is a doubt.

### What is only model-checked

Liveness: `RequestsFinish`, `StaleIsTemporary`, `RowsAreDeleted`, `TasksEnd`,
`PaidIsAnnounced`, `CountersVanish`. Their proofs need ENABLED of fair actions, which
the prover does not have. The three runs that expect a violation are
counterexamples, and need no proof.

## Not modelled

* `_get_or_create_cart`'s creation branch: registration creates the cart, so only an
  account inserted by hand meets it; the unique constraint on `carts.user_id`
  decides a race, and the loser's request fails. As a further handler of `Tokens`
  it makes the run four times as large and shows nothing but that error.
* The `decrement_stock` task: it changes no state, and nothing enqueues it (the
  low-stock log the repository's README mentions is therefore never written).
* Categories and users' profiles: one statement each, which no other handler reads.
* Access tokens and passwords: checks without state; roles are guards of the
  modelled actions.
* Read-only endpoints of orders, payments and carts, schemas, configuration,
  migrations, CORS and error formatting: nothing of more than one step.
* With `EMAIL_ENABLED` false, the default, mails are only logged: `MailSent` has that
  branch, `task_queue` checks the other one, where something can go wrong.

## Plan

Done: inventory, `Shop` with its components, `ProductCache`, `Tokens`, `TaskQueue`
composed with `Shop`, `RateLimit`; theorems for every invariant and action property of
the passing runs. Left, in this order:

1. For each race of the runs that expect a violation, the part of the property that
   survives it: which orders keep `LegalTransitions` and `NoDoubleCharge` when requests
   overlap on others only (`FreshInv` per order instead of per process).
2. `Conservation` with the restocking races counted by a history variable, for any
   interleaving.
3. An abstract specification of the task queue (at-least-once delivery) that
   `TaskQueue` implements.

# Verification of Eve

Eve is a Django storefront in front of a Saleor shop. This directory holds TLA+
models of the parts of `src/Eve` whose correctness depends on the order in which
things happen, TLC configurations that check them on small instances, and TLAPS
proofs of the most important results for instances of any size.

- `tlc -config CheckoutSafety.cfg MCCheckout` runs one check; the table under
  *Runs* gives the module of each configuration.
- `tlapm CheckoutProofs.tla`, and likewise every other `...Proofs.tla`, checks proofs.
- `PROJECT.json` lists components, runs, the source lines of every definition,
  the mutants that show that each property can fail, the findings, the hazards
  and the theorems.

## The system

| Component | State | Operations | Talks to |
|---|---|---|---|
| Checkout, `payments/services/checkout.py`, `saleor_checkout.py` | `CheckoutAttempt` journal and `Order` rows (PostgreSQL), one lease per user (Redis) | `place_order_once` | Saleor (`checkoutCreate`, `checkoutComplete`), cart |
| Reconciliation, `reconcile_orders.py` | the same rows | hourly pass with `--fix` | Saleor (recent orders) |
| Webhook inbox, `payments/views.py`, `payments/tasks.py` | `WebhookEvent` and `Order` rows, the `webhooks` queue | receive, process, recover, retention | Saleor, Celery |
| Checkout views, `payments/views.py`, `api/v1/views.py` | idempotency key in the session | GET, POST | checkout, cart |
| Cart, `ecommerce/services/cart_service.py` | one document per user (MongoDB) | add, set, remove, clear, read, retention | catalogue for the product added |
| Catalogue, `ecommerce/services/catalogue.py`, `tasks.py` | `products_cache` (MongoDB), negative cache and refresh leases (Redis) | product page, list, scheduled refresh | Saleor |
| Saleor client, `saleor_client.py` | circuit breaker: failures, open, was-open (Redis) | one call with retries, count, open, close | Saleor, Redis |
| Webhook signatures, `saleor_webhooks.py` | key document and refresh lease (Redis) | verify, refresh | Saleor; `loadtest_seed` |
| API sessions, `api/tokens.py`, `api/models.py` | `RefreshToken` rows, `Profile.token_version` | sign in, rotate, detect reuse, revoke | accounts |
| Rate limit, `core/throttling.py`, `TrustedProxyMiddleware` | a counter per view, address and window (Redis) | add, increment, refuse | Redis |
| Login, `accounts/services/lockout.py` | a counter per account (Redis) | count, lock, notify, clear | Redis |
| Accounts, `accounts/views.py`, `forms.py`, `tasks.py` | `User`, `Profile` rows, signed links | register, send mail, verify | Celery |
| Privacy: `purge_user`, `export_user`, contact form, `purge_expired_data` | every row of a user, cart, `ContactMessage`, `PrivacyActionLog` | erase, export, write, retain | PostgreSQL, MongoDB |
| The rest: other middleware, checks, logging, monitoring, admin, settings, deployment, load test | none that decides anything across requests | | |

Web requests run in gunicorn workers and background tasks in Celery workers, so
any two operations above interleave, and any of them can stop half-way. There is
no `ATOMIC_REQUESTS`: a view is many separate statements. Redis is a cache that
evicts, MongoDB is updated one document at a time, and a Saleor mutation whose
answer is lost may or may not have happened.

What makes each part correct, and what is hard about it:

- **Checkout**: one idempotency key buys at most one order; what was bought
  becomes local; what the customer is told is so. Hard: lost answers, crashes
  between Saleor and PostgreSQL, reconciliation beside a live request, a lease
  that lapses.
- **Inbox**: the local order follows the order in Saleor; no event is lost.
  Hard: duplicates, overtaking, events before their order, a lost broker or
  worker, a full recovery batch.
- **Views**: what is in the cart is bought once, and what was not bought stays.
  Hard: two tabs, the way back after an uncertain answer, reconciliation that books
  before the request does, the cart read before and emptied after the lease.
- **Cart**: additions are not lost, a product has one line, quantities and the
  number of lines are bounded. Hard: additions made of several updates.
- **Catalogue**: a listed product is served, an unknown one is not asked for
  again and again, an outage is told and survived. Hard: readers without the
  lease, a lease that is shorter than a slow Saleor, backends failing in the middle
  of a request.
- **Saleor client**: a mutation is carried out once, the circuit opens for
  consecutive failures only, no outage is remembered for ever. Hard: counters of
  all workers in separate cache commands, answers that are lost.
- **Webhook signatures**: a rotation of keys loses no event, no old key document
  replaces a newer one. Hard: many workers that refresh at once, a lease without a
  fence, Redis or Saleor failing half-way, the load test's own key.
- **API sessions**: one good token per sign-in, an ended session stays ended,
  honest devices stay signed in. Hard: rotations that overlap each other or a
  revocation, lost answers.
- **Rate limit**: a client gets no more than the limit past one counter. Hard:
  whose request it is behind proxies, add and increment in separate commands, keys
  that go in between.
- **Login**: one notification per lock, bounded guesses. Hard: two entry points
  that count in separate commands, answers that are lost.
- **Accounts**: one account per address, verified stays verified, the mail
  arrives. Hard: two requests at once, a broker that refuses.
- **Privacy**: erasure leaves nothing and is logged, an export is complete. Hard:
  two databases, requests of the user beside the command, a command that dies.

## Modules

| Module | Models |
|---|---|
| `PurchaseOnce` | what checkout and reconciliation promise together: a key buys one order, which is booked once |
| `Checkout` | `place_order_once` and `reconcile_orders`, one action per database, cache or Saleor access |
| `CheckoutProofs` | the theorems about `Checkout` |
| `OrderInbox` | reception, processing, recovery and retention of webhook events |
| `OrderInboxProofs` | the theorems about `OrderInbox` |
| `AtomicCart` | the cart as the user thinks of it: a quantity per product |
| `Cart` | `cart_service.py`, one action per MongoDB operation |
| `CartProofs` | the theorems about `Cart`, and that it implements `AtomicCart` |
| `Storefront` | the HTML and the API front of checkout and the cart behind it, over the steps of `place_order_once` that others overtake, with reconciliation beside them |
| `StorefrontProofs` | the theorems about `Storefront` |
| `Catalogue` | `get_product`, `list_products`, and what their clients are told |
| `CatalogueProofs` | the theorems about `Catalogue` |
| `SaleorClient` | `saleor_graphql` with its attempts and the circuit breaker, one action per cache command |
| `Keyring` | `verify_saleor_signature`, the cached keys and their refresh |
| `RateLimit` | the attempt limit, one action per cache command, and the client address it counts for |
| `Login` | the account lockout around the two entry points that take a password |
| `Sessions` | the token endpoints of the API, one action per statement |
| `SessionsProofs` | the theorems about `Sessions` |
| `Registration` | registration, profile and verification mail under one address |
| `Erasure` | `purge_user`, `export_user`, contact form and retention beside requests of the user |
| `ServicePartsProofs` | the theorems about `SaleorClient`, `Keyring`, `RateLimit`, `Login`, `Registration` and `Erasure` |
| `ServicesProofs` | the theorems about the composition in `MCServices`, from those about its parts |
| `MC...` | values of the constants that a configuration cannot write, and symmetry; `MCServices` also puts the seven modules `SaleorClient` to `Erasure` under one specification |

A definition whose comment starts with "Mutant of" is a wrong version of the
next definition, as a bug would write it. No specification uses it; it serves to
show that a property notices the bug.

### Checkout

`Enter` is `cache.add` of the lease, `Look` the search for an existing order and
the check of the lines, `OpenAttempt`/`Reopen` the `get_or_create` of the journal
row and the decision by its state, `CreateCheckout` the Saleor mutation,
`SaveCreated` and `SaveCompleting` the saves around it, `SendComplete` the moment
`checkoutComplete` leaves, `Completed` and `GiveUp` the ways it ends for the
request, `SaveUnknown` and `SaveFailed` what the journal then says, `Record` the
transaction that books the order, `Release` and `DeleteLease` the two cache calls
at the end. `Abandoned` is a crash or an exception nobody catches, at any of
these places. On Saleor's side a sent mutation succeeds (`SaleorCompletes`) or
fails (`SaleorRefuses`) at any later time, whether the request still waits or not.

A pass of reconciliation fetches the newest `First` orders (`Fetch`), computes
what is missing locally (`Diff`), reports or skips attempts in flight (`Sweep`)
and books one order after the other (`Repair`); an `IntegrityError` ends it.
`Age` is the grace period of an attempt running out.

A Saleor order is named by the checkout it was made of. Lines, amounts and
addresses are not modelled; whether a cart has usable lines is a choice of `Look`.

### OrderInbox

`Receive` is the webhook view after its checks; `Publish` the task put on the
queue, or not. `Process` is the whole transaction of `process_webhook_event`
under its row locks; `Ack` follows it as a separate step, because tasks are
acknowledged late, and `Redeliver` puts an unacknowledged task back. `Drop` is a
task whose retries are used up. `Recover` republishes the oldest `Batch` pending
events, `Purge` deletes settled ones. `CreateOrder` stands for checkout or
reconciliation making an order local.

### Storefront

One user, a `front` per behaviour. The user fills and empties the cart whenever he
likes (`FillCart`, `EmptyCart`), also while an order is being placed. `Get` and
`SaveIssued` are the checkout page: the key is made by the view and reaches the
session with the response. `Post` or `ApiPost`, `Check`, `ReadCart`, `Enter`,
`Place`, `Create`, `Receive`, `Record`, `ClearCart` and `SavePopped` are the POST,
in the order of the code. From `Place` to `Record` they are `place_order_once` as
far as others get a word in: the look at the journal, the checkout made in Saleor,
the answer to its completion, and the transaction with the row, which is an
`IntegrityError` where reconciliation has booked the order meanwhile.
`SaleorBuys` carries a completion out when Saleor gets to it, whoever waits.
`MarkUnknown` and `Reconcile` are the pass of reconciliation, which books any order
without a row, also beside the request that is about to. A lease that lapses under
its holder is left to `Checkout`.

A cart is a set of units, each put in once. The API's client keeps one key from the
moment it fills an empty cart until the next, and sends it again as it likes.
`meant`, `late`, `met` and `unanswered` are history variables: for which key a unit
was put in, whether a POST was under way then, which keys' POSTs overlapped, and
which keys may have bought without a POST of theirs coming to its end.

### Cart

`Bump`, `Push`, `Probe`, `Create`, `PushAgain` and `Clamp` are the MongoDB calls
of `add_to_cart`; `SetQuantity`, `Remove`, `Clear` and `View` take one call each.
`Purge` is retention, and stands for the erasure of the user. `KeepsPromise` maps
the document to `AtomicCart`: an addition takes effect with its increment or its
push, and a quantity over the ceiling counts as the ceiling, because a clamp is
on its way.

### Catalogue

A reader asks for a product (`get_product`) or for `Listing` (`list_products`)
and walks through the same steps: negative cache, fresh copies, lease, Saleor or
waiting, release, storing. The lease is given back by a get (`Release`) and a
delete (`Delete`), and any lease may run out at any time (`Expire`): it is for 15
seconds, and three attempts at a Saleor that does not answer take some 42.
`trouble`, `had` and `outlived` are history variables: which backends were out of
reach during the request, whether there was a copy when it came, and which readers
ask Saleor although their lease has gone. `Status`, `Flagged` and `Shown` are what
`ProductViewSet` and the pages make of the result; the properties are about these.
The scheduled task that is to refresh the cache is no action: see *Seen beside the
runs*.

### SaleorClient

A call is one execution of `saleor_graphql`. `Begin` looks whether the circuit is
open, `Send` is one attempt, `Receive` what becomes of it (data, an error of
GraphQL, a failure before or after Saleor acted: one answered with a 502 may have
been carried out, too). A failed call makes the cache commands `Count` (add),
`Incr`, `Trip`, `Mark` and `Reset`, a successful one `Clear`, `Recover` and `Close`;
any other call's command may come between any two. `CooldownEnds`, `FailuresLapse`
and `MarkLapses` are the keys' timeouts. An unreachable cache skips the commands, as
the code's `except` does, and so does the `ValueError` of `Incr` for a counter that
has gone since the add.

`streak` remembers the failures counted since a success; `stale` that a success did
not get its delete through; `void` the calls on their way to open the circuit
against a success, one that came after their count or one that was kept out of it.

### Keyring

A worker verifies an event in at most two rounds: `Look` (cache), `Lease`,
`Fetch`, `Store`, `Release` and `Delete` for the one that refreshes, `Await` for the
others, and `Check`, which accepts, refuses or begins the round with
`force_refresh`. Documents are numbered and each shares a key with its predecessor,
so an event signed just before a rotation still verifies, and one signed after it
needs the refresh. `LeaseLapses` frees the lease of a dead worker, `LeaseLost` takes
it from a live one at any step: seven seconds are for the connection and each read,
not for the request, and Redis may evict the key. `outlived` remembers who refreshes
without the lease, or was begun beside somebody who does. `InstallLoadTestKey` is
`loadtest_seed`.

### RateLimit

`Arrivals` are the ways a request of a client comes in: directly; through a proxy
that writes `X-Real-IP`; or through one or two that append to `X-Forwarded-For` and
pass `X-Real-IP` on as the client sent it, which is what `deploy/nginx.conf` does.
`RemoteAddr` is the address `TrustedProxyMiddleware` finds, and `Disguise` says
whether what the client wrote itself takes part in it. `Post` is `cache.add` and
`Increment` is `cache.incr`, which finds the counter, or raises `ValueError` because
it has gone, after which the request counts as the first. `AnswerIsLost` lets a
counted request through. `CounterGoes` is the end of a window, or an eviction. A
view has counters of its own.

### Login

`Try` is an attempt that the limiter let through, at either entry point. `CheckLock`,
`Verdict`, `Add`, `IncrementFails`, `Notify` and `ClearFailures` are the lockout's
cache commands around `authenticate`, whose answer is a choice. `LockoutEnds` is the
timeout.

### Sessions

`SignIn`, `Sign`, `Open` and `Reply` are the token view; `Present`, `Save`,
`Issue`, `Sign` and `Reply` a rotation: the read, the save of `used_at`, the new
row, the access token, the answer that may be lost. `Revoke` begins a logout, and
`Bump` and `RetireAll` are the two statements of `revoke_all_tokens`. Which
devices met trouble, which revocations had company and which families were
rotated twice at once are history variables.

### Registration

`Submit` is the form with its check of the address, `Insert` the row under its
unique index, `FindProfile` and `MakeProfile` the `get_or_create` of the profile,
which every view does that needs one, `SendMail` the task or the broker's
refusal, `Mail` and `MailFails` a run of the task, `Verify` a visit to the link.

### Erasure

PostgreSQL's rows, MongoDB's cart and the contact messages of one user. The rows
are the profile, the orders, and, under the name "attempt", the checkout attempts
and refresh tokens, which are deleted with the user and never exported; `AddRow` is
a checkout or a sign-in that adds one. `Gather`,
`CommitPurge` and `DropCarts` are `purge_user`: what its transaction deletes, the
commit with the log entry (an `IntegrityError` if a row came in between), the
other database. `Take` is a query of `export_user`; `owed` is what has been there
since it began and it has not read yet. `PurgeMessages` and `PurgeCarts` are the
nightly pass. Requests of the user (`Arrive` to `Depart`) hold on to a user that
may be gone by the time they write.

## Runs

Passing runs:

| Configuration (module) | Question | Bounds |
|---|---|---|
| `CheckoutSafety` (MCCheckout) | Do journal, order table and Saleor agree, does a key buy once whatever the interleaving, is an order that Eve has not booked shown as uncertain, and do checkout and reconciliation implement `PurchaseOnce`? | 2 requests, 2 keys of one user, 3 checkouts of which 1 from outside, 1 pass at a time that sees 2 orders, 1 fault |
| `CheckoutLive` (MCCheckout) | Is every order booked, every attempt settled and every lease given back? | 1 key, 2 checkouts, 1 fault |
| `Inbox` (MCOrderInbox) | Does the local order stay on the path of Saleor's order, does every event settle and every payment arrive? | payment, refund and cancellation of one order, 2 workers, 2 copies of each task, recovery batches of 2, 2 faults |
| `Storefront` (MCStorefront) | When is something bought twice, and when is something thrown away unsold? Only for the reasons `SoldAgainForAReason` and `ClearedIsBought` name | a browser with 2 tabs or an API client with 2 requests at a time, 2 keys, 2 units put in at any time, 1 lost answer or crash |
| `CartSafety` (MCCart) | Are lines unique and bounded, and is every step a step of `AtomicCart`? | 2 requests, 3 products, 2 lines, ceiling 2, 1 crash |
| `Catalogue` (MCCatalogue) | One reader at Saleor at a time but for those whose lease has run out, no false alarm, what is cached survives an outage, a wrong "not found" passes | 2 readers, a product page and the list, 2 products, 1 of them withdrawn and listed again, 1 fault: an outage of Saleor, Redis or MongoDB, or a dead reader |
| `Services` (MCServices) | Seven parts, each by itself: breaker, keys, limiter, login, sessions, registration, privacy. What each promises is listed below | a query and a mutation at a time, threshold 2, 3 attempts, 2 troubles; 2 workers, 2 documents, 1 mishap; 2 POSTs at once to one view, from 2 addresses directly or through one proxy, limit 2, 1 fault; 2 attempts to sign in at once, threshold 3, 1 fault; 2 devices, 2 requests, 3 tokens, 1 revocation of all; 2 names of one address, 2 tabs, 1 retry, 2 troubles; 1 request of the user, 1 loss |

Two requests are enough for the interleavings of interest: the lease admits one
request per user, so a third can only meet the same states as the second. Three
checkouts allow one key to buy twice if it could and an order from outside to push
one out of the window. Two units are one that is bought and one that is put in
beside it, and two keys what one of them can be bought with twice. Three events are
all the transitions an order has beyond the pending state; four or more products or
lines repeat what two lines and a third product show (full, not full, in the cart,
not in the cart). A query and a mutation, two workers, two attempts, two tabs are
the pairs whose cache commands or statements interleave; a threshold of 2 or 3 lets
both of them cross it, and three tokens are a sign-in, a rotation and one more of
either. One mishap of the keys is enough for whoever is waiting to meet it at any
step; what two do to safety is in `ServicePartsProofs`, for which their number is
any, as that of the views and proxies of the limiter is. The parts of `Services`
share no variable, and a behaviour belongs to one of them, so their states add up
and do not multiply. Constants of the code (99, 20, 50, 5 minutes) are small numbers
or the mere passing of time.

Runs that refute a statement of the repository:

| Configuration | Statement | What happens |
|---|---|---|
| `CheckoutRace` | reconciliation "marks its attempt completed" (BACKGROUND_JOBS.md) | the waiting request writes UNKNOWN over COMPLETED, for good |
| `CheckoutLapse` | "can never produce two orders" (checkout.py) | the lease lapses, two retries of a failed attempt both buy |
| `InboxRefundLost` | "a broker failure loses nothing" (DATA_MODEL.md) | the refund is processed before the recovered payment and rejected for good |
| `StorefrontRetry` | "Repeated submissions reuse the same idempotency identity" (SECURITY_MEASURES.md) | with one tab and no answer lost, reconciliation books the order first, the request ends in a 500 that leaves the cart full, and the way back to the page has a new key that buys it again |
| `CartAdds` | "cannot lose each other's writes" (cart_service.py) | the second of two first additions is dropped |

What `Services` asks of its parts: of the breaker, that a mutation is carried out
once (`CarriedOutOnce`) and that the circuit opens on consecutive failures only; of
the keys, `CacheNeverGoesBack` and `RefusedForAReason`; of the limiter,
`AddressBounded`; of login, `NotifiedOnce` and `GuessesBounded`; of sessions,
`GoodTokens` (`OneGoodToken`, `CalmKeepsSession`) and `SessionsEnd`
(`EndedStaysEnded`, `ReuseEnds`, `RevocationSignsOut`); of accounts, `AccountsStand`
(`OneAccountPerAddress`, `VerifiedStays`); of privacy, `CommandsKeepTheirWord`
(`PurgeLeavesNothing`, `ExportIsComplete`). `TroublesPass` is the liveness of four
of them: `CallersRecover`, `DeliveriesGetIn`, `LinkArrives` and `LeftoversExpire`.
Likewise `BooksAgree` of `Checkout` is `RowsAreReal`, `CompletedIsBooked` and
`AnswersAreTrue`, and `LocalInStep` of `OrderInbox` is `LocalIsBehind` and
`ProcessedIsApplied`.

`CHECK_DEADLOCK FALSE` appears only in the configurations of `Storefront`, where
with the units and keys of the bounds used up nothing is left to do, and in
`Services`, where the same holds of an erased user.

### Seen beside the runs

The models show more than the runs ask. Most of the following is seen by changing
a bound or dropping a condition; none has a run of its own:

- `EventsSettle` fails when `Matched` is smaller than `Orders` and `Batch` is no
  larger than the number of events of the other orders: rows that never settle
  fill every batch of the recovery.
- `OneOrderPerCart`, refuted by `StorefrontRetry` for one tab with reconciliation
  beside it, fails in more ways, and `SoldAgainForAReason` has them all: two tabs
  whose POSTs overlap, the second of which reads the cart before the first empties
  it; a POST whose answer is lost or whose worker dies, after which the page has a
  new key; and an API client that refills an emptied cart while an old POST is still
  under way.
- What is put into the cart while a checkout is under way is thrown away by
  `clear_cart` at its end (views.py:93, api/v1/views.py:316), bought or not. So is
  what was put in after an attempt without an answer that is retried, once
  reconciliation has booked it in between. And an answer "already placed" leaves a
  cart full that has been bought.
- A request that dies between `Bump` and `Clamp` leaves a line of the cart over
  `MAX_ITEM_QUANTITY` at rest.
- A reader of the catalogue that waits in vain for the holder of the lease puts a
  product that exists into the negative cache (`Follow`, then `Missing`).
- In an outage of Saleor with nothing cached, the holder of the list's lease
  reports the outage and the reader beside it an empty, healthy list (`Follow`).
- `OneGoodToken` without its condition fails for two rotations of one token that
  overlap: both read it unused, and the session has two good successors.
  API.md:64 calls refresh tokens "single use"; the run shows that nothing but
  such an overlap breaks it.
- `CalmKeepsSession` needs devices that get their answers: one whose answer to a
  rotation is lost presents the old token again, and that ends its session, as
  reuse detection intends.
- `RevocationSignsOut` needs a revocation that runs alone: a rotation beside it
  may add a token after it.
- `PurgeLeavesNothing` needs a purge beside which no request runs, and a purge
  that dies after its commit cannot be repeated, since the user it asks for is
  gone (SECURITY_OPERATIONS.md:202-206 describes the erasure as one step).
  `LeftoversExpire` shows that retention gets to what is left.
- The list of products is cached product by product and any fresh copy makes the
  list (catalogue.py:153): after a crash in the loop it is the part that is fresh.
- Readers under a Saleor that takes longer than the lease's 15 seconds do ask
  together, each with a lease of its own, and the delete of one whose lease runs out
  after the get removes the next reader's (core/cache_lock.py).
- The circuit's "opened" and "closed" log lines do not alternate: a call that was
  sent before the circuit opened may succeed after it and log that it is closed.
- The log's "opened after %d consecutive failures" (saleor_client.py:109) is untrue
  when a success falls between the incr (103) and the set (105), or when its delete
  of the counter does not reach Redis.
- A fetch of keys that is slower than its lease, or whose lease is evicted
  (docker-compose.yml:90), writes an older document over a newer one
  (saleor_webhooks.py:54-64: nothing compares them). The next event that does not
  verify forces a refresh.
- Behind `deploy/nginx.conf` a client chooses the window its requests count in: the
  file passes on a client's own `X-Real-IP`, which the middleware prefers
  (middleware.py:176-179), although the comment in nginx.conf:26 says that what it
  sets "overwrites any client-supplied value", which is not so of the
  `X-Forwarded-For` it appends to either. `AddressBounded` does not count such
  requests (`Disguise`). An entry of the chain that is no address leaves the proxy's
  own, and so counts for everybody behind it.
- Requests that find no cache, lose the answer of `cache.incr`, or meet its
  `ValueError` after the window's end are let through and not counted in any window.
- An export has no checkout attempts and no refresh tokens, although
  export_user.py:13 has it output "all personal data held" of the user and
  SECURITY_OPERATIONS.md:209-212 all held personal data. `ExportIsComplete` is about
  the kinds of data that are read at all.
- `refresh_catalogue` imports names from `.views` that are not there
  (ecommerce/tasks.py:21), so that every run of it ends with an ImportError;
  BACKGROUND_JOBS.md:37 has it refresh the cache every five minutes. What the
  catalogue shows holds without it.

### Bounds

`MaxFaults`: how many faults a behaviour has. `MaxCopies`: copies of a task in the
broker. `MaxMishaps`, `MaxLimiterFaults`, `MaxLoginFaults`, `MaxTrouble`,
`MaxLosses`: faults, under the names they have in the services. `MaxDocument`,
`MaxTokens`, `MaxVersion`: rotations, rows and revocations of a behaviour.
`MaxUnits`: how much is put into a cart. `Keys` of `Storefront`, `Checkouts`: names
that are used up. `First`, `Batch`, the `MAX_...` of `Cart`: constants of the code
with small values. `Asked`, `Operations`, `Changing`, `Fragile`, `Fronts`, `Views`:
which of the possible things happen in a run.

### Fairness

- A request or a worker that can take its next step takes it (WF on
  `RequestStep`, `Process`, `Ack`, `ReaderStep`): gunicorn and Celery kill what
  hangs, and a crash is an action of its own. Nobody is obliged to send a
  request.
- Timeouts pass (WF on `Expire`, on `Age` of `Checkout` and on `Forget`): they
  belong to Redis and to the clock.
- Celery Beat runs recovery, reconciliation and retention again and again (WF on
  `PassStep`, `Recover`, `PurgeMessages`, `PurgeCarts`): `CELERY_BEAT_SCHEDULE`.
- A queued task is taken in the end although the workers are busy with others in
  between (SF on `Take`): the queue is first in, first out.
- An order in Saleor becomes local (WF on `CreateOrder`): what `CheckoutLive`
  shows of reconciliation.
- Saleor delivers what it emitted and outages end (WF on `Receive`, `Recover` of
  `Catalogue`): assumptions about the outside, without which no promise of
  arrival makes sense.
- In `Services`: calls go on and keep coming, the cooldown passes and troubles end
  (`CallersRecover`); workers go on, outages end, leases of the dead lapse and
  Saleor redelivers (`DeliveriesGetIn`); requests and mail tasks go on, and the
  owner of an account keeps asking for a link (`LinkArrives`); a request ends, the
  nightly pass runs and carts age (`LeftoversExpire`).

`CheckoutLive` has a window `First` that no order falls out of before a pass sees
it; the code has the same limit, 100 orders an hour.

## Proofs

All theorems hold for sets of requests, keys, users, checkouts, orders, events,
workers, readers, products, calls, attempts, devices, carts, addresses, names and
bounds of any size; their assumptions are the `ASSUME`s of the modules (types of
the constants, null values outside the sets they are added to, and finitely many
requests where something counts them). A theorem that needs more says so in its
statement: `~LeaseMayLapse` of `Checkout` is the only hypothesis. Every invariant
and every action property that a passing run checks is the property of a theorem.

**CheckoutProofs.** The type invariant needs, beside `TypeOK`, that a request
beyond `Enter` has a key and that one beyond `CreateCheckout` has a checkout
(`TypeInv`). `BookInv` adds what holds even when leases lapse: a checkout that a
request has in hand was made for its key, what is sent or placed was made, what a
pass still has to repair was placed, a row with a key is an order of that key, a
completed attempt has a row, an answer "order" has a row. From it follows
`BooksAgree`.

`LeaseInv` adds what only holds while no lease vanishes under its holder, which
the theorems have as hypothesis `~LeaseMayLapse`: a request that works on a key
holds the lease of its user (`LeaseHeld`), the journal says of each state what
may have been sent (`JournalOK`), and a checkout that is sent or placed for a key
is the one journalled for it (`CommittedIsJournalled`). `OneOrderPerKey` alone is
not inductive: that a second checkout is not completed follows from the journal
row, and that the row is right from the lease. From `LeaseInv` follow
`OneOrderPerKey`, `FailedSafely`, `MissingOrdersAreShown`,
`JournalledCheckoutIsFinal` and, step by step,
that `Checkout` implements `PurchaseOnce`. `CheckoutLapse` shows that the
hypothesis is needed.

**OrderInboxProofs.** `InboxInv` says that the order in Saleor is at a status
reachable from the local one and from that of every event emitted, and that an
event marked processed is reachable to the local one. The two halves of
`LocalInStep` are parts of it, and `NeverRegresses` follows from the step
lemma, since processing only takes allowed transitions.

**CatalogueProofs.** `BusyInv` says that a request in progress has a page and knows
every outage there is; `AlarmInv` that whoever gives up on Saleor met one;
`CopyInv` that what MongoDB held at the beginning it still holds. `NoFalseAlarm`
and `KnownIsServed` follow; neither is inductive, since both are about requests
that have ended. `SingleFlight` follows from `LeaseHeld`, that whoever asks Saleor
for a page has its lease or has outlived it; leases may run out under anybody.

**CartProofs.** `CartInv` adds to the properties of the run that a request under way
has a product and that a line counts at least one, and states one line per product
without counting (`OneLine`: two lines of a product are the same line). What the
steps do to the document is said once, in lemmas: an update in place keeps the
lines' products, a push adds one line at the end of a product that had none, a
removal takes the lines of one product out and keeps the others in their order.
`CeilingIsKept` follows since only an increment takes a line over the ceiling, and
its request goes on to clamp it. For the refinement each update of the document is
shown to be one operation of `AtomicCart` on the quantities, or none: the increment
and the push are the addition, a probe that finds the product and a clamp are
nothing, since the mapping already counts a line over the ceiling as the ceiling.

**StorefrontProofs.** `KeysInv` holds for every user: a request inside
`place_order_once` has the lease (`Working`), a key asks Saleor once and its attempt
tells (`BuysOnce`, `Asking`), so a key never buys anything twice, whatever tabs,
clients, losses and crashes there are (`KeyAlwaysBuysOnce`). That what is in the
*cart* is bought once does not follow from it and is not true (`StorefrontRetry`);
what is true has two more invariants. `Reasons` says that of what a key has bought
or asked for the cart holds something only while a POST of the key is at it, or the
key is `unanswered`, and that what two POSTs want to buy both, they read at the same
time (`Met`); `Client` that an API client buys with the key a unit was meant for,
unless it was put in late. `SoldAgainOnlyForAReason` follows. `Thrown` says that what
a POST has read is the cart but for what was put in or taken out since, and that a
purchase without a row has a POST at it or none that will answer;
`OnlyLateIsThrownAway` follows. Most steps can only take away from what these
invariants are about, and `CalmStep` says so once for all of them; the lemmas per
action are about the others (`FillCart`, `Submit`, `ReadCart`, `Create`).

**SessionsProofs.** `Room` bounds the rows by those there are and those the
requests at work may add. `OneRotation` says, of a family that no two rotations
overlapped in, which request is at work, which row is good, and that between
marking the old row and making the new one there is none; `OneGoodToken` is not
inductive without it. `RowsAge` (used stays used, expired stays expired) makes
`EndedStaysEnded` a fact about one step. `RevocationSignsOut` needs `Alone`: a
revocation that nothing ran beside and that raised the version has no access token
of the new version to fear. `CalmKeepsSession` needs that no two devices have rows
of one family between them (`Apart`), so that only a device itself can end its
session, and `Fine`, which follows its one request through a rotation.

**ServicePartsProofs**, part by part:

- *SaleorClient*: `SentOK` bounds, by where a call is, what it has sent and
  what Saleor can have carried out, from which `CarriedOutOnce` follows. `CountOK`
  says that unless a success failed to delete the counter it never exceeds the
  streak of failed calls, and that a call about to open the circuit, which no
  success got in the way of, has a whole streak before it.
- *Keyring*: `FlightInv`: whoever is between Saleor and the cache has the lease and
  is alone, or has outlived it; and who has not outlived it brings nothing older
  than what is cached. With it `CacheNeverGoesBack` is a fact about one step.
  `UndisturbedInv`: a request that nothing has happened to works for a current key
  and ends its second round with the current document.
- *RateLimit*: `WindowInv`: admitted requests are counted hits, and what counts for
  a client counts at its address. The latter is `TheClientIsFound`, a lemma about
  `RemoteAddr` for every way a request can arrive that is not a `Disguise`.
- *Login*: `GuessesBounded` is inductive by itself, once the set of evaluated
  attempts is known to be finite. The notification needs `NoticeInv`, which ties it
  to the value of the counter.
- *Registration*: `OneName`, that two registered names are one, is inductive
  because the index refuses the second; `VerifiedStays` follows step by step, and
  both are `AccountsStand`.
- *Erasure*: `QuietInv`: after a good purge beside which nobody was served,
  nobody is who could make a cart. `ExportInv`: at each of its queries the export
  owes no more than the queries ahead will read and the attempts, which none reads.
  Together they give `CommandsKeepTheirWord`.

**ServicesProofs.** The composition of `MCServices` implements the seven
specifications it is made of, since each of its steps is a step of one part that
leaves the variables of the others alone (`ServicesAreTheirParts`). What
`ServicePartsProofs` and `SessionsProofs` show of the parts then holds of the
specification that the run checks.

**Model-checked only.** Every liveness property (the prover has no fairness):
those of `CheckoutLive`, `EventsSettle` and `PaymentArrives` of `Inbox`,
`KeepsServing` and `TroublesPass`; and the refutations, which are counterexamples.
No module uses recursive operators.

## Not modelled

Serialisers, error shapes, templates, logging, health checks, start-up checks,
the admin's listings, deployment and load test have no state that two operations
share. Signatures and password hashing belong to libraries, and so do the
throttles of `api/throttling.py`. Settings appear as constants and timeouts. In
the modelled parts these are left out: prices, names, addresses and payloads; HTTP
codes beyond those of `Status`; the e-mail verification gate and the
`CHECKOUT_ENABLED` switch, which only refuse; the limits of 20 and 50 listed
products; the second factor of staff, which is part of the verdict on an attempt.

What a client writes into `X-Real-IP`, or as junk into the chain, behind a proxy that
passes it on is modelled (`Arrivals` of `RateLimit`), and `AddressBounded` makes no
promise about such a request, because the code keeps none: it is counted for the
address it names, or for the proxy.

`Storefront` leaves the lapse of a checkout lease under its holder to `Checkout`,
whose theorems about a key have its absence as their hypothesis. `Sessions` makes no
promise for two rotations of one token that overlap, nor `PurgeLeavesNothing` for a
request that is being served when the carts are deleted, nor
`OverTheCeilingIsTransient` after a crash: the code has no defence there, and *Seen
beside the runs* says what happens.

## Plan

A new module gets one passing run that asks all its questions at once; runs that
refute a statement stay few, one for each part of the system that needs it.

Done, in this order: `PurchaseOnce`, `Checkout`, `CheckoutProofs`, `OrderInbox`,
`OrderInboxProofs`, `AtomicCart`, `Cart`, `Storefront`, `Catalogue`, `SaleorClient`,
`Keyring`, `RateLimit`, `Login`, `Sessions`, `Registration`, `Erasure`, the proofs
about all of them, and those about the composition of the services.

What would extend the project:

1. `Catalogue` with a measure of how complete the list is, and `Storefront` with a
   lease that lapses under its holder.
2. A composition of `Checkout` and `OrderInbox` over one `Order` table, and of
   `Checkout` over `SaleorClient`, whose breaker would add refusals before the
   journal's first save.
3. `Storefront` over `PurchaseOnce` as a refinement, for any number of users.
4. A bound on how many lines a cart keeps over the ceiling, and on how long, in
   terms of the requests that died.

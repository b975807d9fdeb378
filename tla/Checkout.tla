------------------------------ MODULE Checkout ------------------------------
(***************************************************************************)
(* payments/services/checkout.py: place_order_once, run by concurrent web  *)
(* requests, and payments/management/commands/reconcile_orders.py, run by  *)
(* Celery, over the state they share: the per-user cache lease, the        *)
(* CheckoutAttempt journal and the Order table in PostgreSQL, and the      *)
(* checkouts and orders that Saleor holds.                                 *)
(*                                                                         *)
(* A Saleor order is named by the Saleor checkout it was completed from,   *)
(* so one set of identifiers serves both.  A key is the scoped key: hashed *)
(* with the user id, it belongs to one user (checkout.py:22-34).           *)
(***************************************************************************)
EXTENDS Naturals, Sequences, FiniteSets

CONSTANTS
  Requests,      \* web requests that may be inside place_order_once at once
  Reconcilers,   \* reconcile_orders passes that may run at once
  Users,
  Keys,          \* scoped idempotency keys
  OwnerOf,       \* the user each key is scoped to
  Checkouts,     \* Saleor checkout ids (and the ids of orders made of them)
  Outside,       \* the ones of orders placed in Saleor without Eve
  First,         \* --first: how many recent Saleor orders one pass compares
  LeaseMayLapse, \* may a lease vanish under its holder (TTL or eviction)?
  MaxFaults,     \* bound: crashes and unhandled exceptions in a behaviour
  NoCheckout, NoKey, NoRow, Unmade, Free, Orphan

ASSUME NamesAreDistinct ==
  /\ NoCheckout \notin Checkouts
  /\ NoKey \notin Keys /\ NoRow \notin Keys /\ Unmade \notin Keys
  /\ NoKey # NoRow /\ NoKey # Unmade
  /\ Free \notin Requests /\ Orphan \notin Requests /\ Free # Orphan

ASSUME ConstantsTyped ==
  /\ OwnerOf \in [Keys -> Users]
  /\ Outside \subseteq Checkouts
  /\ First \in Nat /\ MaxFaults \in Nat
  /\ LeaseMayLapse \in BOOLEAN

VARIABLES
  pc,       \* where each request is
  key,      \* the idempotency key it was called with
  co,       \* the checkout id Saleor answered it with
  answer,   \* what place_order_once returned or raised
  lease,    \* "checkout:user:<pk>" -> the request whose token it holds
  state,    \* CheckoutAttempt.state, "absent" when there is no row
  ckout,    \* CheckoutAttempt.saleor_checkout_id
  aged,     \* updated_at < now - CHECKOUT_RECOVERY_GRACE_SECONDS
  rows,     \* Order rows: saleor_order_id -> idempotency_key
  made,     \* Saleor checkouts: id -> eve_idempotency_key metadata
  sending,  \* checkoutComplete mutations Saleor has not answered
  placed,   \* Saleor orders, oldest first
  rpc,      \* where each reconciliation pass is
  todo,     \* the Saleor orders it has fetched and still has to handle
  faults

request == <<pc, key, co, answer>>
journal == <<state, ckout, aged>>
saleor  == <<made, sending, placed>>
pass    == <<rpc, todo>>
vars    == <<request, lease, journal, rows, saleor, pass, faults>>

States == {"absent", "started", "checkout_created", "completing",
           "completed", "failed", "unknown"}

\* The places of place_order_once where control waits for PostgreSQL, the
\* cache or Saleor; "complete" is before checkoutComplete is sent and
\* "awaiting" is after it.
Steps == {"look", "open", "reopen", "create", "fail", "journal",
          "completing", "complete", "awaiting", "unsure", "record"}
Exits == {"release", "delete"}

Placed == {placed[i] : i \in 1 .. Len(placed)}

TypeOK ==
  /\ pc \in [Requests -> {"idle"} \cup Steps \cup Exits]
  /\ key \in [Requests -> Keys \cup {NoKey}]
  /\ co \in [Requests -> Checkouts \cup {NoCheckout}]
  /\ answer \in [Requests -> {"none", "order", "refused", "error"}]
  /\ lease \in [Users -> Requests \cup {Free, Orphan}]
  /\ state \in [Keys -> States]
  /\ ckout \in [Keys -> Checkouts \cup {NoCheckout}]
  /\ aged \in [Keys -> BOOLEAN]
  /\ rows \in [Checkouts -> Keys \cup {NoKey, NoRow}]
  /\ made \in [Checkouts -> Keys \cup {NoKey, Unmade}]
  /\ sending \subseteq Checkouts
  /\ placed \in Seq(Checkouts)
  /\ rpc \in [Reconcilers -> {"idle", "diff", "sweep", "repair"}]
  /\ todo \in [Reconcilers -> SUBSET Checkouts]
  /\ faults \in Nat

Init ==
  /\ pc = [r \in Requests |-> "idle"]
  /\ key = [r \in Requests |-> NoKey]
  /\ co = [r \in Requests |-> NoCheckout]
  /\ answer = [r \in Requests |-> "none"]
  /\ lease = [u \in Users |-> Free]
  /\ state = [k \in Keys |-> "absent"]
  /\ ckout = [k \in Keys |-> NoCheckout]
  /\ aged = [k \in Keys |-> FALSE]
  /\ rows = [c \in Checkouts |-> NoRow]
  /\ made = [c \in Checkouts |-> Unmade]
  /\ sending = {}
  /\ placed = <<>>
  /\ rpc = [x \in Reconcilers |-> "idle"]
  /\ todo = [x \in Reconcilers |-> {}]
  /\ faults = 0

-----------------------------------------------------------------------------
(* What the requests do *)

Goto(r, step) ==
  /\ pc' = [pc EXCEPT ![r] = step]
  /\ UNCHANGED <<key, co, answer>>

\* Leave the body of the with statement, returning or raising.
Answer(r, a) ==
  /\ pc' = [pc EXCEPT ![r] = "release"]
  /\ answer' = [answer EXCEPT ![r] = a]
  /\ co' = [co EXCEPT ![r] = NoCheckout]
  /\ UNCHANGED key

\* attempt.save(): updated_at has auto_now, so the grace period starts again.
Save(k, s) ==
  /\ state' = [state EXCEPT ![k] = s]
  /\ aged' = [aged EXCEPT ![k] = FALSE]

HasRow(k) == \E c \in Checkouts : rows[c] = k

\* cache.add of the user's lease; whoever does not get it is refused at once.
Enter(r, k) ==
  /\ pc[r] = "idle"
  /\ lease[OwnerOf[k]] = Free
  /\ lease' = [lease EXCEPT ![OwnerOf[k]] = r]
  /\ pc' = [pc EXCEPT ![r] = "look"]
  /\ key' = [key EXCEPT ![r] = k]
  /\ co' = [co EXCEPT ![r] = NoCheckout]
  /\ answer' = [answer EXCEPT ![r] = "none"]
  /\ UNCHANGED <<journal, rows, saleor, pass, faults>>

\* Is there an order for this key already?  If not, build_lines accepts the
\* cart or raises CheckoutError; the contents of the cart are abstracted.
Look(r) ==
  /\ pc[r] = "look"
  /\ \/ HasRow(key[r]) /\ Answer(r, "order")
     \/ ~HasRow(key[r]) /\ Answer(r, "error")
     \/ ~HasRow(key[r]) /\ Goto(r, "open")
  /\ UNCHANGED <<lease, journal, rows, saleor, pass, faults>>

\* Mutant of OpenAttempt: an attempt of unknown outcome is retried like a
\* failed one, its checkout id cleared or not.
OpenAttemptRetriesUnknown(r) ==
  /\ pc[r] = "open"
  /\ \/ state[key[r]] = "absent" /\ Save(key[r], "started") /\ Goto(r, "create")
     \/ /\ state[key[r]] \in {"failed", "unknown"}
        /\ Goto(r, "reopen") /\ UNCHANGED <<state, aged>>
     \/ /\ state[key[r]] \notin {"absent", "failed", "unknown"}
        /\ Answer(r, "refused") /\ UNCHANGED <<state, aged>>
  /\ UNCHANGED <<lease, ckout, rows, saleor, pass, faults>>

\* CheckoutAttempt.get_or_create, and what an existing attempt lets happen.
\* The caller's attempt is the one read here; saves name their fields.
OpenAttempt(r) ==
  LET k == key[r] IN
  /\ pc[r] = "open"
  /\ \/ /\ state[k] = "absent"
        /\ Save(k, "started")
        /\ Goto(r, "create")
     \/ /\ state[k] = "completed"
        /\ Answer(r, IF HasRow(k) THEN "order" ELSE "refused")
        /\ UNCHANGED <<state, aged>>
     \/ /\ state[k] = "failed" /\ ckout[k] = NoCheckout
        /\ Goto(r, "reopen")
        /\ UNCHANGED <<state, aged>>
     \/ /\ state[k] \notin {"absent", "completed"}
        /\ ~(state[k] = "failed" /\ ckout[k] = NoCheckout)
        /\ Answer(r, "refused")
        /\ UNCHANGED <<state, aged>>
  /\ UNCHANGED <<lease, ckout, rows, saleor, pass, faults>>

\* A safely failed attempt starts again under the same key.
Reopen(r) ==
  /\ pc[r] = "reopen"
  /\ Save(key[r], "started")
  /\ Goto(r, "create")
  /\ UNCHANGED <<lease, ckout, rows, saleor, pass, faults>>

Created(r, c) ==
  /\ co' = [co EXCEPT ![r] = c]
  /\ pc' = [pc EXCEPT ![r] = "journal"]
  /\ UNCHANGED <<key, answer>>

\* Mutant of CreateCheckout: the metadata with the key is left out.
CreateCheckoutUntagged(r) ==
  /\ pc[r] = "create"
  /\ \/ \E c \in Checkouts \ Outside :
          made[c] = Unmade /\ made' = [made EXCEPT ![c] = NoKey] /\ Created(r, c)
     \/ Goto(r, "fail") /\ UNCHANGED made
  /\ UNCHANGED <<lease, journal, rows, sending, placed, pass, faults>>

\* checkoutCreate: Saleor makes a checkout and its answer arrives or is lost
\* (CheckoutError), or Saleor makes nothing (CheckoutError).
CreateCheckout(r) ==
  /\ pc[r] = "create"
  /\ \/ \E c \in Checkouts \ Outside :
          /\ made[c] = Unmade
          /\ made' = [made EXCEPT ![c] = key[r]]
          /\ \/ Created(r, c)
             \/ Goto(r, "fail")
     \/ Goto(r, "fail") /\ UNCHANGED made
  /\ UNCHANGED <<lease, journal, rows, sending, placed, pass, faults>>

SaveFailed(r) ==
  /\ pc[r] = "fail"
  /\ Save(key[r], "failed")
  /\ Answer(r, "error")
  /\ UNCHANGED <<lease, ckout, rows, saleor, pass, faults>>

\* Mutant of SaveCreated: the key is saved in the place of the checkout id.
SaveCreatedSwapped(r) ==
  /\ pc[r] = "journal"
  /\ ckout' = [ckout EXCEPT ![key[r]] = key[r]]
  /\ Save(key[r], "checkout_created")
  /\ Goto(r, "completing")
  /\ UNCHANGED <<lease, rows, saleor, pass, faults>>

SaveCreated(r) ==
  /\ pc[r] = "journal"
  /\ ckout' = [ckout EXCEPT ![key[r]] = co[r]]
  /\ Save(key[r], "checkout_created")
  /\ Goto(r, "completing")
  /\ UNCHANGED <<lease, rows, saleor, pass, faults>>

SaveCompleting(r) ==
  /\ pc[r] = "completing"
  /\ Save(key[r], "completing")
  /\ Goto(r, "complete")
  /\ UNCHANGED <<lease, ckout, rows, saleor, pass, faults>>

\* checkoutComplete leaves Eve; from here Saleor may make the order.
SendComplete(r) ==
  /\ pc[r] = "complete"
  /\ sending' = sending \cup {co[r]}
  /\ Goto(r, "awaiting")
  /\ UNCHANGED <<lease, journal, rows, made, placed, pass, faults>>

\* Mutant of Completed: any answer is taken for an order.
CompletedUnchecked(r) ==
  /\ pc[r] = "awaiting"
  /\ Goto(r, "record")
  /\ UNCHANGED <<lease, journal, rows, saleor, pass, faults>>

\* Saleor's answer with the order arrives, ...
Completed(r) ==
  /\ pc[r] = "awaiting"
  /\ co[r] \in Placed
  /\ Goto(r, "record")
  /\ UNCHANGED <<lease, journal, rows, saleor, pass, faults>>

\* ... or an error does, or nothing in time, whatever Saleor does or did.
GiveUp(r) ==
  /\ pc[r] = "awaiting"
  /\ Goto(r, "unsure")
  /\ UNCHANGED <<lease, journal, rows, saleor, pass, faults>>

\* Mutant of SaveUnknown: a completion error is taken for a failure.
SaveUnknownAsFailed(r) ==
  /\ pc[r] = "unsure"
  /\ Save(key[r], "failed")
  /\ Answer(r, "error")
  /\ UNCHANGED <<lease, ckout, rows, saleor, pass, faults>>

SaveUnknown(r) ==
  /\ pc[r] = "unsure"
  /\ Save(key[r], "unknown")
  /\ Answer(r, "error")
  /\ UNCHANGED <<lease, ckout, rows, saleor, pass, faults>>

\* Order.objects.create: both of its identifiers are unique, NULL keys apart.
CanInsert(c, k) == rows[c] = NoRow /\ (k \in Keys => ~HasRow(k))

\* The order and the end of the attempt in one transaction; a row that
\* collides raises IntegrityError and neither is written.
Record(r) ==
  /\ pc[r] = "record"
  /\ \/ /\ CanInsert(co[r], key[r])
        /\ rows' = [rows EXCEPT ![co[r]] = key[r]]
        /\ Save(key[r], "completed")
        /\ Answer(r, "order")
     \/ /\ ~CanInsert(co[r], key[r])
        /\ Answer(r, "error")
        /\ UNCHANGED <<rows, state, aged>>
  /\ UNCHANGED <<lease, ckout, saleor, pass, faults>>

\* The finally clause of cache_lease: get and compare, then delete, apart.
Release(r) ==
  /\ pc[r] = "release"
  /\ Goto(r, IF lease[OwnerOf[key[r]]] = r THEN "delete" ELSE "idle")
  /\ UNCHANGED <<lease, journal, rows, saleor, pass, faults>>

DeleteLease(r) ==
  /\ pc[r] = "delete"
  /\ lease' = [lease EXCEPT ![OwnerOf[key[r]]] = Free]
  /\ Goto(r, "idle")
  /\ UNCHANGED <<journal, rows, saleor, pass, faults>>

-----------------------------------------------------------------------------
(* What can go wrong with them *)

Abandoned(r) ==
  [u \in Users |-> IF lease[u] = r THEN Orphan ELSE lease[u]]

\* The worker dies, or the cache fails in the finally clause, which swallows
\* that: the lease stays until its TTL, with a token nobody will present.
Crash(r) ==
  /\ faults < MaxFaults
  /\ pc[r] # "idle"
  /\ faults' = faults + 1
  /\ lease' = Abandoned(r)
  /\ pc' = [pc EXCEPT ![r] = "idle"]
  /\ co' = [co EXCEPT ![r] = NoCheckout]
  /\ UNCHANGED <<key, answer>>
  /\ UNCHANGED <<journal, rows, saleor, pass>>

\* An exception the code does not catch (a database error, a malformed Saleor
\* answer): the lease is released and the journal stays as it was.
Raise(r) ==
  /\ faults < MaxFaults
  /\ pc[r] \in Steps
  /\ faults' = faults + 1
  /\ Answer(r, "error")
  /\ UNCHANGED <<lease, journal, rows, saleor, pass>>

\* Mutant of Expire: the lease is added without a timeout.
ExpireNever(u) ==
  /\ lease[u] # Free /\ LeaseMayLapse
  /\ lease' = [lease EXCEPT ![u] = Free]
  /\ UNCHANGED <<request, journal, rows, saleor, pass, faults>>

\* CHECKOUT_LEASE_SECONDS pass.  A live request is out in less, unless
\* LeaseMayLapse: nothing bounds a request to 60 seconds, and the cache runs
\* with volatile-lru, which may evict any key that has a TTL.
Expire(u) ==
  /\ lease[u] # Free
  /\ LeaseMayLapse \/ lease[u] = Orphan
  /\ lease' = [lease EXCEPT ![u] = Free]
  /\ UNCHANGED <<request, journal, rows, saleor, pass, faults>>

\* CHECKOUT_RECOVERY_GRACE_SECONDS pass since the last save of an attempt.
Age(k) ==
  /\ state[k] # "absent" /\ ~aged[k]
  /\ aged' = [aged EXCEPT ![k] = TRUE]
  /\ UNCHANGED <<request, lease, state, ckout, rows, saleor, pass, faults>>

-----------------------------------------------------------------------------
(* What Saleor does *)

SaleorCompletes(c) ==
  /\ c \in sending
  /\ sending' = sending \ {c}
  /\ placed' = Append(placed, c)
  /\ UNCHANGED <<request, lease, journal, rows, made, pass, faults>>

SaleorRefuses(c) ==
  /\ c \in sending
  /\ sending' = sending \ {c}
  /\ UNCHANGED <<request, lease, journal, rows, made, placed, pass, faults>>

\* A customer or the shop places an order without Eve.
OutsideOrder(c) ==
  /\ c \in Outside /\ made[c] = Unmade
  /\ made' = [made EXCEPT ![c] = NoKey]
  /\ placed' = Append(placed, c)
  /\ UNCHANGED <<request, lease, journal, rows, sending, pass, faults>>

-----------------------------------------------------------------------------
(* What a reconciliation pass does *)

RGoto(x, step) == rpc' = [rpc EXCEPT ![x] = step]

\* Mutant of Fetch: the window is one order short.
FetchOneShort(x) ==
  /\ rpc[x] = "idle"
  /\ todo' = [todo EXCEPT ![x] =
       {placed[i] : i \in {j \in 1 .. Len(placed) : j + First > Len(placed) + 1}}]
  /\ RGoto(x, "diff")
  /\ UNCHANGED <<request, lease, journal, rows, saleor, faults>>

\* The newest First orders; when Saleor cannot be asked the pass ends here.
Fetch(x) ==
  /\ rpc[x] = "idle"
  /\ todo' = [todo EXCEPT ![x] =
       {placed[i] : i \in {j \in 1 .. Len(placed) : j + First > Len(placed)}}]
  /\ RGoto(x, "diff")
  /\ UNCHANGED <<request, lease, journal, rows, saleor, faults>>

Diff(x) ==
  /\ rpc[x] = "diff"
  /\ todo' = [todo EXCEPT ![x] = {c \in @ : rows[c] = NoRow}]
  /\ RGoto(x, "sweep")
  /\ UNCHANGED <<request, lease, journal, rows, saleor, faults>>

InFlight == {"started", "checkout_created", "completing"}

\* Mutant of Sweep: attempts that never reached Saleor are passed over.
SweepSent(x) ==
  /\ rpc[x] = "sweep"
  /\ state' = [k \in Keys |-> IF aged[k] /\ state[k] = "completing"
                              THEN "unknown" ELSE state[k]]
  /\ RGoto(x, IF todo[x] = {} THEN "idle" ELSE "repair")
  /\ UNCHANGED <<request, lease, ckout, aged, rows, saleor, todo, faults>>

\* One UPDATE; it does not go through save() and leaves updated_at alone.
Sweep(x) ==
  /\ rpc[x] = "sweep"
  /\ state' = [k \in Keys |-> IF aged[k] /\ state[k] \in InFlight
                              THEN "unknown" ELSE state[k]]
  /\ RGoto(x, IF todo[x] = {} THEN "idle" ELSE "repair")
  /\ UNCHANGED <<request, lease, ckout, aged, rows, saleor, todo, faults>>

\* Mutant of Uncertain: an unknown outcome does not count.
UncertainInFlight == {k \in Keys : state[k] \in InFlight}

\* The attempts the metrics count as uncertain...
Uncertain == {k \in Keys : state[k] \in InFlight \cup {"unknown"}}

\* ... and the payment history tells their user of.
ReconciliationPending(u) == \E k \in Uncertain : OwnerOf[k] = u

\* The missing orders are handled newest first, as Saleor listed them.
IsNext(x, c) ==
  \E i \in 1 .. Len(placed) :
    /\ placed[i] = c /\ c \in todo[x]
    /\ \A j \in i + 1 .. Len(placed) : placed[j] \notin todo[x]

Handled(x, c) ==
  /\ todo' = [todo EXCEPT ![x] = @ \ {c}]
  /\ RGoto(x, IF todo[x] = {c} THEN "idle" ELSE "repair")

\* With --fix: the order's attempt is found by its key; an order that has no
\* attempt is matched to a user by e-mail, or to nobody and left alone.  The
\* attempt is read before the transaction, but only its existence matters.
Repair(x, c) ==
  LET k == made[c]
      attempted == k \in Keys /\ state[k] # "absent"
      rowKey == IF attempted THEN k ELSE NoKey
  IN
  /\ rpc[x] = "repair" /\ IsNext(x, c)
  /\ \/ /\ CanInsert(c, rowKey)
        /\ rows' = [rows EXCEPT ![c] = rowKey]
        /\ IF attempted THEN Save(k, "completed") ELSE UNCHANGED <<state, aged>>
        /\ Handled(x, c)
     \/ /\ ~attempted
        /\ Handled(x, c)
        /\ UNCHANGED <<rows, state, aged>>
     \/ /\ ~CanInsert(c, rowKey)
        /\ todo' = [todo EXCEPT ![x] = {}]
        /\ RGoto(x, "idle")
        /\ UNCHANGED <<rows, state, aged>>
  /\ UNCHANGED <<request, lease, ckout, saleor, faults>>

\* The Celery worker dies in a pass; what it committed stays.
PassDies(x) ==
  /\ faults < MaxFaults
  /\ rpc[x] # "idle"
  /\ faults' = faults + 1
  /\ RGoto(x, "idle")
  /\ todo' = [todo EXCEPT ![x] = {}]
  /\ UNCHANGED <<request, lease, journal, rows, saleor>>

-----------------------------------------------------------------------------

RequestStep(r) ==
  \/ Look(r) \/ OpenAttempt(r) \/ Reopen(r) \/ CreateCheckout(r)
  \/ SaveFailed(r) \/ SaveCreated(r) \/ SaveCompleting(r) \/ SendComplete(r)
  \/ Completed(r) \/ GiveUp(r) \/ SaveUnknown(r) \/ Record(r)
  \/ Release(r) \/ DeleteLease(r)

PassStep(x) ==
  \/ Fetch(x) \/ Diff(x) \/ Sweep(x)
  \/ \E c \in Checkouts : Repair(x, c)

Next ==
  \/ \E r \in Requests, k \in Keys : Enter(r, k)
  \/ \E r \in Requests : RequestStep(r) \/ Crash(r) \/ Raise(r)
  \/ \E u \in Users : Expire(u)
  \/ \E k \in Keys : Age(k)
  \/ \E c \in Checkouts : SaleorCompletes(c) \/ SaleorRefuses(c) \/ OutsideOrder(c)
  \/ \E x \in Reconcilers : PassStep(x) \/ PassDies(x)

Spec == Init /\ [][Next]_vars

\* Running requests go on, leases run out, time passes, and Beat starts a
\* pass again and again: each of them is fair.  Nothing is asked of Saleor
\* or of the customers.
FairSpec ==
  /\ Spec
  /\ \A r \in Requests : WF_vars(RequestStep(r))
  /\ \A u \in Users : WF_vars(Expire(u))
  /\ \A k \in Keys : WF_vars(Age(k))
  /\ \A x \in Reconcilers : WF_vars(PassStep(x))

-----------------------------------------------------------------------------
(* Properties *)

\* Orders Saleor has made of this checkout, or still may.
Committed(c) == c \in sending \/ c \in Placed

\* "A double submit, a lost response, or a crash mid-flight can never produce
\* two orders" (checkout.py:3-6): Saleor is never asked to complete, and never
\* completes, two checkouts that carry the same idempotency key.
OneOrderPerKey ==
  \A c, d \in Checkouts :
    Committed(c) /\ Committed(d) /\ made[c] = made[d] /\ made[c] \in Keys => c = d

\* "Failed safely" (models.py:62), the only state place_order_once retries:
\* such an attempt has no order in Saleor and none under way.
FailedSafely ==
  \A k \in Keys : state[k] = "failed" =>
    \A c \in Checkouts : made[c] = k => ~Committed(c)

\* An Order row with a key is the Saleor order made for that same key: neither
\* a request nor a reconciliation pass books an order on another attempt.
RowsAreReal ==
  \A c \in Checkouts : rows[c] \in Keys => c \in Placed /\ made[c] = rows[c]

\* A completed attempt has its Order row: the two are written in one
\* transaction, whoever writes them (checkout.py:129, reconcile_orders.py:126).
CompletedIsBooked == \A k \in Keys : state[k] = "completed" => HasRow(k)

\* Whoever is told that the order was placed has an Order row for its key.
AnswersAreTrue == \A r \in Requests : answer[r] = "order" => HasRow(key[r])

\* The books of Eve agree with each other, with Saleor and with what customers
\* are told, whoever writes them and in whatever order (checkout.py:129-157,
\* reconcile_orders.py:103-155), also when leases lapse.
BooksAgree == RowsAreReal /\ CompletedIsBooked /\ AnswersAreTrue

\* "The same idempotency key cannot create another Saleor checkout"
\* (BACKGROUND_JOBS.md:60): a journalled checkout id is never replaced, even
\* after Saleor refused to complete it.
JournalledCheckoutIsFinal ==
  [][\A k \in Keys : ckout[k] # NoCheckout => ckout'[k] = ckout[k]]_vars

\* "Creates a missing local Order, and marks its attempt completed in one
\* PostgreSQL transaction" (BACKGROUND_JOBS.md:62-64): an attempt whose order
\* is booked is completed, so it is not reported as uncertain any more.
BookedIsCompleted == \A k \in Keys : HasRow(k) => state[k] = "completed"

\* The promise: what a key bought in Saleor and what is booked under it.
bought == [k \in Keys |-> {c \in Placed : made[c] = k}]
booked == [k \in Keys |-> {c \in Checkouts : rows[c] = k}]

Promise == INSTANCE PurchaseOnce WITH Orders <- Checkouts

\* With leases that hold, checkout and reconciliation together keep it:
\* a key buys at most once and what it bought is booked under that key.
KeepsPromise == Promise!Spec

\* Every order that Saleor makes for an Eve checkout gets an Order row, though
\* its request lost the answer, failed or died (reconcile_orders.py:1-6).
OrdersAreBooked ==
  \A c \in Checkouts : (c \in Placed /\ made[c] \in Keys) ~> (rows[c] # NoRow)

\* No attempt stays in flight for ever: it is completed, it fails safely, or
\* it is marked unknown and counted in the checkout_reconciliation alert.
AttemptsSettle == \A k \in Keys : (state[k] \in InFlight) ~> (state[k] \notin InFlight)

\* The customer is not left in the dark: while Saleor has made an order for one
\* of a user's keys and the shop has no row of it, the user's payment history says
\* that a checkout is being reconciled, and checkout_uncertain counts it.
MissingOrdersAreShown ==
  \A u \in Users :
    (\E c \in Placed : made[c] \in Keys /\ OwnerOf[made[c]] = u /\ rows[c] = NoRow)
      => ReconciliationPending(u)

\* Nobody is locked out of checkout: a lease whose holder died comes back.
LeaseComesBack == \A u \in Users : (lease[u] # Free) ~> (lease[u] = Free)

=============================================================================

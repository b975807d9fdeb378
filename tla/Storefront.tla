----------------------------- MODULE Storefront -----------------------------
(***************************************************************************)
(* The two fronts of checkout for one user: payments/views.py              *)
(* checkout_view, whose idempotency key lives in the session, and          *)
(* api/v1/views.py CheckoutView, whose key the client chooses.  Both read  *)
(* the cart, call place_order_once and then empty the cart, in steps that  *)
(* other requests of the same user, his changes of the cart and            *)
(* reconcile_orders overtake.                                              *)
(*                                                                         *)
(* Of place_order_once this module keeps the steps between which others    *)
(* get a word in: the look at the journal, the checkout made in Saleor,    *)
(* its completion, and the row.  Module Checkout has the rest of it, and   *)
(* the case of a lease that lapses under its holder, which is left out     *)
(* here.  A cart is a set of units, each put in once.                      *)
(***************************************************************************)
EXTENDS Naturals

CONSTANTS
  Requests,
  Fronts,      \* "html", a browser; "api", a client with a key per filling of the cart
  Keys,        \* what uuid4 gives to checkout_view, or the client, in a behaviour
  MaxUnits,    \* bound: how much is put into the cart
  MaxFaults,   \* bound: checkoutComplete answers lost and requests that die, together
  NoKey, Free, Orphan

Units == 1 .. MaxUnits

ASSUME ConstantsTyped ==
  /\ Fronts \subseteq {"html", "api"}
  /\ MaxUnits \in Nat /\ MaxFaults \in Nat
  /\ NoKey \notin Keys
  /\ {Free, Orphan} \cap Requests = {} /\ Free # Orphan

VARIABLES
  front,     \* the one this user buys through
  cart,      \* what is in it in MongoDB
  filled,    \* how much was ever put in
  session,   \* request.session["checkout_idempotency_key"], or the key the client keeps
  fresh,     \* keys nobody has taken yet
  pc,        \* where each request is
  key,       \* the key it works with
  seen,      \* what it read of the cart
  lease,     \* the user's checkout lease
  attempt,   \* the journal, per key
  asked,     \* what each key's checkoutComplete, not carried out yet, would buy
  bought,    \* how often each key bought each unit in Saleor
  booked,    \* whether its Order row exists
  faults,    \* how much went wrong
  \* What the properties remember:
  meant,      \* the key the client kept when a unit was put in
  late,       \* units put in while a POST was under way
  met,        \* the pairs of keys whose POSTs overlapped
  unanswered  \* keys that may have bought, of which no POST came to its end

basket == <<front, cart, filled, meant, late>>
browser == <<session, fresh>>
request == <<pc, key, seen>>
journal == <<attempt, booked>>
saleor == <<asked, bought>>
vars == <<basket, browser, request, lease, journal, saleor, faults, met, unanswered>>

Steps == {"idle", "issued", "check", "cart", "enter", "place", "create", "wait",
          "record", "won", "save"}

TypeOK ==
  /\ front \in Fronts /\ cart \subseteq 1 .. filled /\ filled \in 0 .. MaxUnits
  /\ session \in Keys \cup {NoKey} /\ fresh \subseteq Keys
  /\ pc \in [Requests -> Steps]
  /\ key \in [Requests -> Keys \cup {NoKey}]
  /\ seen \in [Requests -> SUBSET Units]
  /\ lease \in Requests \cup {Free, Orphan}
  /\ attempt \in [Keys -> {"none", "failed", "open", "unknown", "completed"}]
  /\ asked \in [Keys -> SUBSET Units]
  /\ bought \in [Keys -> [Units -> Nat]]
  /\ booked \in [Keys -> BOOLEAN]
  /\ faults \in 0 .. MaxFaults
  /\ meant \in [Units -> Keys \cup {NoKey}]
  /\ late \subseteq 1 .. filled
  /\ met \subseteq SUBSET Keys
  /\ unanswered \subseteq Keys

Init ==
  /\ front \in Fronts /\ cart = {} /\ filled = 0
  /\ session = NoKey /\ fresh = Keys
  /\ pc = [r \in Requests |-> "idle"]
  /\ key = [r \in Requests |-> NoKey]
  /\ seen = [r \in Requests |-> {}]
  /\ lease = Free
  /\ attempt = [k \in Keys |-> "none"]
  /\ asked = [k \in Keys |-> {}]
  /\ bought = [k \in Keys |-> [u \in Units |-> 0]]
  /\ booked = [k \in Keys |-> FALSE]
  /\ faults = 0
  /\ meant = [u \in Units |-> NoKey]
  /\ late = {} /\ met = {} /\ unanswered = {}

\* A POST of checkout that the server has not finished.
UnderWay(r) == pc[r] \notin {"idle", "issued"}

-----------------------------------------------------------------------------
(* The cart *)

\* The user puts something in, whatever else is going on.  The API client takes
\* a new key when the cart was empty.
FillCart ==
  /\ filled < MaxUnits
  /\ filled' = filled + 1
  /\ cart' = cart \cup {filled + 1}
  /\ IF front = "api" /\ cart = {}
       THEN \E k \in fresh : session' = k /\ fresh' = fresh \ {k}
       ELSE UNCHANGED browser
  /\ meant' = [meant EXCEPT ![filled + 1] = session']
  /\ late' = IF \E r \in Requests : UnderWay(r) THEN late \cup {filled + 1} ELSE late
  /\ UNCHANGED <<front, request, lease, journal, saleor, faults, met, unanswered>>

\* He takes things out or empties it, or its retention does.
EmptyCart ==
  /\ cart # {}
  /\ \E rest \in SUBSET cart : rest # cart /\ cart' = rest
  /\ UNCHANGED <<front, filled, meant, late, browser, request, lease, journal, saleor,
                 faults, met, unanswered>>

-----------------------------------------------------------------------------
(* Requests *)

Goto(r, step) ==
  /\ pc' = [pc EXCEPT ![r] = step]
  /\ UNCHANGED <<key, seen>>

Done(r) ==
  /\ pc' = [pc EXCEPT ![r] = "idle"]
  /\ key' = [key EXCEPT ![r] = NoKey]
  /\ seen' = [seen EXCEPT ![r] = {}]

\* Mutant of Refuse: the view goes on as if there were an order.
RefuseNot(r) == Goto(r, "won")

\* None, CheckoutError or an exception: the view returns at once, and the cart stays.
Refuse(r) == Done(r)

\* GET: every visit to the checkout page takes a new key.
Get(r) ==
  /\ front = "html" /\ pc[r] = "idle"
  /\ \E k \in fresh :
       /\ fresh' = fresh \ {k}
       /\ key' = [key EXCEPT ![r] = k]
  /\ pc' = [pc EXCEPT ![r] = "issued"]
  /\ UNCHANGED <<basket, session, seen, lease, journal, saleor, faults, met, unanswered>>

\* The session is written back, whole, with the response.
SaveIssued(r) ==
  /\ pc[r] = "issued"
  /\ session' = key[r]
  /\ Done(r)
  /\ UNCHANGED <<basket, fresh, lease, journal, saleor, faults, met, unanswered>>

\* A POST takes the key of this moment; it meets those that are under way.
Submit(r) ==
  /\ pc[r] = "idle" /\ session # NoKey
  /\ pc' = [pc EXCEPT ![r] = "check"]
  /\ key' = [key EXCEPT ![r] = session]
  /\ met' = met \cup {{session, key[s]} : s \in {t \in Requests : UnderWay(t)}}
  /\ UNCHANGED <<basket, browser, seen, lease, journal, saleor, faults, unanswered>>

\* POST of the form.  (Without a key in the session it only redirects.)
Post(r) == front = "html" /\ Submit(r)

\* POST to the API, sent again by the client whenever it likes.
ApiPost(r) == front = "api" /\ cart # {} /\ Submit(r)

\* An order of this key is answered with at once, and nothing else is done.
Check(r) ==
  /\ pc[r] = "check"
  /\ IF booked[key[r]] THEN Done(r) ELSE Goto(r, "cart")
  /\ UNCHANGED <<basket, browser, lease, journal, saleor, faults, met, unanswered>>

\* get_cart is evaluated before place_order_once is entered.
ReadCart(r) ==
  /\ pc[r] = "cart"
  /\ seen' = [seen EXCEPT ![r] = cart]
  /\ pc' = [pc EXCEPT ![r] = "enter"]
  /\ UNCHANGED <<basket, browser, key, lease, journal, saleor, faults, met, unanswered>>

\* Refused by another's lease, or because Redis cannot be reached.
Enter(r) ==
  /\ pc[r] = "enter"
  /\ \/ lease = Free /\ lease' = r /\ Goto(r, "place")
     \/ Refuse(r) /\ UNCHANGED lease
  /\ UNCHANGED <<basket, browser, journal, saleor, faults, met, unanswered>>

-----------------------------------------------------------------------------
(* place_order_once, under the lease *)

GiveBack(r) == lease' = IF lease = r THEN Free ELSE lease

\* Mutant of MayTry: the attempt of the key is not looked at.
MayTryAgain(k) == ~booked[k]

\* No order of this key, and no attempt that went past the making of its checkout.
MayTry(k) == ~booked[k] /\ attempt[k] \in {"none", "failed"}

\* The order there is; None for an attempt under way or of unknown outcome, or
\* CheckoutError for an empty cart; or an attempt of its own.
Place(r) ==
  LET k == key[r] IN
  /\ pc[r] = "place"
  /\ \/ booked[k] /\ Goto(r, "won") /\ GiveBack(r) /\ UNCHANGED journal
     \/ ~booked[k] /\ (seen[r] = {} \/ ~MayTry(k))
          /\ Refuse(r) /\ GiveBack(r) /\ UNCHANGED journal
     \/ /\ MayTry(k) /\ seen[r] # {}
        /\ attempt' = [attempt EXCEPT ![k] = "open"]
        /\ Goto(r, "create")
        /\ UNCHANGED <<lease, booked>>
  /\ UNCHANGED <<basket, browser, saleor, faults, met, unanswered>>

\* create_checkout fails, and the key may be tried again; or the checkout is
\* made and its completion sent.
Create(r) ==
  LET k == key[r] IN
  /\ pc[r] = "create"
  /\ \/ /\ attempt' = [attempt EXCEPT ![k] = "failed"]
        /\ Refuse(r) /\ GiveBack(r) /\ UNCHANGED asked
     \/ /\ asked' = [asked EXCEPT ![k] = seen[r]]
        /\ Goto(r, "wait") /\ UNCHANGED <<attempt, lease>>
  /\ UNCHANGED <<basket, browser, booked, bought, faults, met, unanswered>>

\* Saleor carries a completion out when it gets to it: while the request waits,
\* or after it has given up or died.
SaleorBuys(k) ==
  /\ asked[k] # {}
  /\ bought' = [bought EXCEPT ![k] =
                  [u \in Units |-> bought[k][u] + (IF u \in asked[k] THEN 1 ELSE 0)]]
  /\ asked' = [asked EXCEPT ![k] = {}]
  /\ UNCHANGED <<basket, browser, request, lease, journal, faults, met, unanswered>>

\* The answer: the order; a refusal, after which nothing is made; or none that
\* arrives.  The last two are CheckoutError, and the outcome is unknown.
Receive(r) ==
  LET k == key[r] IN
  /\ pc[r] = "wait"
  /\ \/ asked[k] = {} /\ Goto(r, "record")
          /\ UNCHANGED <<attempt, asked, lease, faults, unanswered>>
     \/ /\ asked[k] # {} /\ asked' = [asked EXCEPT ![k] = {}]
        /\ attempt' = [attempt EXCEPT ![k] = "unknown"]
        /\ Refuse(r) /\ GiveBack(r) /\ UNCHANGED <<faults, unanswered>>
     \/ /\ faults < MaxFaults /\ faults' = faults + 1
        /\ attempt' = [attempt EXCEPT ![k] = "unknown"]
        /\ unanswered' = unanswered \cup {k}
        /\ Refuse(r) /\ GiveBack(r) /\ UNCHANGED asked
  /\ UNCHANGED <<basket, browser, booked, bought, met>>

\* The row and the journal in one transaction.  IntegrityError where
\* reconcile_orders has booked the order meanwhile: a 500, and the cart stays.
Record(r) ==
  LET k == key[r] IN
  /\ pc[r] = "record"
  /\ IF booked[k]
       THEN /\ unanswered' = unanswered \cup {k}
            /\ Refuse(r) /\ UNCHANGED journal
       ELSE /\ booked' = [booked EXCEPT ![k] = TRUE]
            /\ attempt' = [attempt EXCEPT ![k] = "completed"]
            /\ Goto(r, "won") /\ UNCHANGED unanswered
  /\ GiveBack(r)
  /\ UNCHANGED <<basket, browser, saleor, faults, met>>

-----------------------------------------------------------------------------

\* clear_cart empties whatever the cart holds by now.
ClearCart(r) ==
  /\ pc[r] = "won"
  /\ cart' = {}
  /\ IF front = "html" THEN Goto(r, "save") ELSE Done(r)
  /\ UNCHANGED <<front, filled, meant, late, browser, lease, journal, saleor, faults, met,
                 unanswered>>

\* Mutant of SavePopped: pop leaves what it was called with, not nothing.
SavePoppedCart(r) ==
  /\ pc[r] = "save"
  /\ session' = seen[r]
  /\ Done(r)
  /\ UNCHANGED <<basket, fresh, lease, journal, saleor, faults, met, unanswered>>

\* The session without the key is written back with the response.
SavePopped(r) ==
  /\ pc[r] = "save"
  /\ session' = NoKey
  /\ Done(r)
  /\ UNCHANGED <<basket, fresh, lease, journal, saleor, faults, met, unanswered>>

\* The web worker dies, and leaves everything as it is.
Crash(r) ==
  /\ pc[r] # "idle" /\ faults < MaxFaults
  /\ faults' = faults + 1
  /\ Done(r)
  /\ lease' = IF lease = r THEN Orphan ELSE lease
  /\ unanswered' = IF pc[r] \in {"wait", "record", "won"}
                     THEN unanswered \cup {key[r]} ELSE unanswered
  /\ UNCHANGED <<basket, browser, journal, saleor, met>>

Expire ==
  /\ lease = Orphan
  /\ lease' = Free
  /\ UNCHANGED <<basket, browser, request, journal, saleor, faults, met, unanswered>>

\* reconcile_orders: an attempt that came to no end in time is of unknown outcome.
MarkUnknown(k) ==
  /\ attempt[k] = "open"
  /\ attempt' = [attempt EXCEPT ![k] = "unknown"]
  /\ UNCHANGED <<basket, browser, request, lease, booked, saleor, faults, met, unanswered>>

\* reconcile_orders books any order of Saleor's without a row, whatever its
\* attempt says and whoever is at work on it, and leaves the cart as it is.
Reconcile(k) ==
  /\ ~booked[k] /\ \E u \in Units : bought[k][u] > 0
  /\ booked' = [booked EXCEPT ![k] = TRUE]
  /\ attempt' = [attempt EXCEPT ![k] = "completed"]
  /\ UNCHANGED <<basket, browser, request, lease, saleor, faults, met, unanswered>>

-----------------------------------------------------------------------------

RequestStep(r) ==
  \/ SaveIssued(r) \/ Check(r) \/ ReadCart(r) \/ Enter(r) \/ Place(r) \/ Create(r)
  \/ Receive(r) \/ Record(r) \/ ClearCart(r) \/ SavePopped(r)

Next ==
  \/ FillCart \/ EmptyCart \/ Expire
  \/ \E r \in Requests :
       Get(r) \/ Post(r) \/ ApiPost(r) \/ RequestStep(r) \/ Crash(r)
  \/ \E k \in Keys : SaleorBuys(k) \/ MarkUnknown(k) \/ Reconcile(k)

Spec == Init /\ [][Next]_vars

-----------------------------------------------------------------------------
(* Properties *)

Sold(u) == \E k \in Keys : bought[k][u] > 0

\* "Makes double-submits collapse into one order" (DATA_MODEL.md:371-372) and
\* "repeated submissions reuse the same idempotency identity"
\* (SECURITY_MEASURES.md:90): what the user put into the cart once is bought
\* once, however often it is submitted.  (It is not: see the next one for when.)
OneOrderPerCart ==
  \A u \in Units : \A j, k \in Keys :
    /\ bought[k][u] <= 1
    /\ bought[j][u] > 0 /\ bought[k][u] > 0 => j = k

\* What a cart can be bought twice by, and nothing else can: no key buys anything
\* twice; and two keys buy the same thing only where the POSTs of the two
\* overlapped, or those of one left a purchase without an answer (it was lost,
\* its worker died, or reconcile_orders came before its row).  An API client is
\* not even then charged twice for what it put in while no POST was under way.
SoldAgainForAReason ==
  \A u \in Units : \A j, k \in Keys :
    /\ bought[k][u] <= 1
    /\ bought[j][u] > 0 /\ bought[k][u] > 0 /\ j # k =>
         /\ {j, k} \cap unanswered # {} \/ {j, k} \in met
         /\ front = "api" => u \in late

\* What a request on its way to empty the cart throws away unsold (views.py:93,
\* api/v1/views.py:316): only what was put in while a POST was under way; unless
\* it answers a retry with an order that an earlier POST of its key, which got no
\* answer, left to reconcile_orders.
ClearedIsBought ==
  \A r \in Requests :
    pc[r] = "won" =>
      \/ key[r] \in unanswered
      \/ \A u \in cart : Sold(u) \/ u \in late

=============================================================================

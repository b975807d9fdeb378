-------------------------------- MODULE Cart --------------------------------
(***************************************************************************)
(* ecommerce/services/cart_service.py: the cart document of one user in    *)
(* MongoDB, and the web and API requests of that user that change it.      *)
(* MongoDB applies one update to one document atomically; a request that   *)
(* makes several of them can be overtaken between any two.                 *)
(*                                                                         *)
(* Prices, names and thumbnails of a line are display data and left out.   *)
(***************************************************************************)
EXTENDS Naturals, Sequences, FiniteSets

CONSTANTS
  Requests,
  Products,
  Operations,            \* the ones that are called: "add", "set", ...
  MAX_ITEM_QUANTITY,
  MAX_REQUEST_QUANTITY,
  MAX_CART_ITEMS,
  MaxFaults,             \* bound: requests that die half-way
  NoProduct

ASSUME ConstantsTyped ==
  /\ MAX_REQUEST_QUANTITY \in Nat \ {0}
  /\ MAX_ITEM_QUANTITY \in Nat /\ MAX_REQUEST_QUANTITY <= MAX_ITEM_QUANTITY
  /\ MAX_CART_ITEMS \in Nat \ {0}
  /\ MaxFaults \in Nat
  /\ NoProduct \notin Products

VARIABLES
  exists,    \* is there a cart document?
  items,     \* its items
  pc,        \* which update of add_to_cart a request makes next
  product,   \* what it adds
  amount,    \* and how many of it
  due,       \* history: what the additions answered with success come to
  faults

document == <<exists, items>>
request == <<pc, product, amount>>
vars == <<document, request, due, faults>>

Quantities == 1 .. MAX_REQUEST_QUANTITY
Line == [product_id : Products, quantity : Nat]

TypeOK ==
  /\ exists \in BOOLEAN
  /\ items \in Seq(Line)
  /\ pc \in [Requests -> {"idle", "bump", "push", "probe", "create", "again", "clamp"}]
  /\ product \in [Requests -> Products \cup {NoProduct}]
  /\ amount \in [Requests -> Quantities]
  /\ due \in [Products -> 0 .. MAX_ITEM_QUANTITY]
  /\ faults \in Nat

Init ==
  /\ exists = FALSE
  /\ items = <<>>
  /\ pc = [r \in Requests |-> "idle"]
  /\ product = [r \in Requests |-> NoProduct]
  /\ amount = [r \in Requests |-> 1]
  /\ due = [p \in Products |-> 0]
  /\ faults = 0

-----------------------------------------------------------------------------
(* The document *)

Lines(p) == {i \in 1 .. Len(items) : items[i].product_id = p}
Has(p) == Lines(p) # {}

\* "items.$" is the first line that matched the query.
First(p) == CHOOSE i \in Lines(p) : \A j \in Lines(p) : i <= j

\* Mutant of AtMost: no ceiling.
AtMostAny(n) == n

AtMost(n) == IF n > MAX_ITEM_QUANTITY THEN MAX_ITEM_QUANTITY ELSE n

\* Mutant of CanPush: the filter on the product is left out of the push.
CanPushAgain(p) == exists /\ Len(items) < MAX_CART_ITEMS

\* Mutant of CanPush: the size of the cart is checked by the read only.
CanPushBeyond(p) == exists /\ ~Has(p)

\* The query of push_item: the cart, without the product, with room in it.
CanPush(p) == exists /\ ~Has(p) /\ Len(items) < MAX_CART_ITEMS

PushItem(r) ==
  items' = IF CanPush(product[r])
           THEN Append(items, [product_id |-> product[r], quantity |-> amount[r]])
           ELSE items

-----------------------------------------------------------------------------
(* add_to_cart *)

Goto(r, step) ==
  /\ pc' = [pc EXCEPT ![r] = step]
  /\ UNCHANGED <<product, amount>>

\* The call returns; an addition that returns is one the user counts on.
Return(r) ==
  /\ Goto(r, "idle")
  /\ due' = [due EXCEPT ![product[r]] = AtMost(@ + amount[r])]

Call(r, p, q) ==
  /\ pc[r] = "idle" /\ "add" \in Operations
  /\ pc' = [pc EXCEPT ![r] = "bump"]
  /\ product' = [product EXCEPT ![r] = p]
  /\ amount' = [amount EXCEPT ![r] = q]
  /\ UNCHANGED <<document, due, faults>>

\* $inc of the line, if there is one.
Bump(r) ==
  /\ pc[r] = "bump"
  /\ IF Has(product[r])
     THEN /\ items' = [items EXCEPT ![First(product[r])].quantity = @ + amount[r]]
          /\ Goto(r, "clamp")
     ELSE Goto(r, "push") /\ UNCHANGED items
  /\ UNCHANGED <<exists, due, faults>>

Push(r) ==
  /\ pc[r] = "push"
  /\ PushItem(r)
  /\ IF CanPush(product[r])
     THEN Return(r) ELSE Goto(r, "probe") /\ UNCHANGED due
  /\ UNCHANGED <<exists, faults>>

\* One read tells the three reasons of a failed push apart: no cart, a full one
\* (CartFullError), or a concurrent request that pushed the product first.
Probe(r) ==
  /\ pc[r] = "probe"
  /\ \/ ~exists /\ Goto(r, "create") /\ UNCHANGED due
     \/ exists /\ Len(items) >= MAX_CART_ITEMS /\ Goto(r, "idle") /\ UNCHANGED due
     \/ exists /\ Len(items) < MAX_CART_ITEMS /\ Return(r)
  /\ UNCHANGED <<document, faults>>

\* get_cart: read, or an upsert that writes only when there is no document.
Create(r) ==
  /\ pc[r] = "create"
  /\ exists' = TRUE
  /\ Goto(r, "again")
  /\ UNCHANGED <<items, due, faults>>

\* The push is repeated, and what it came to is not looked at.
PushAgain(r) ==
  /\ pc[r] = "again"
  /\ PushItem(r)
  /\ Return(r)
  /\ UNCHANGED <<exists, faults>>

\* Mutant of Clamp: the quantity is left as the increment made it.
ClampNever(r) ==
  /\ pc[r] = "clamp"
  /\ Return(r)
  /\ UNCHANGED <<document, faults>>

\* The array filter: every line of the product that is over the ceiling.
Clamp(r) ==
  /\ pc[r] = "clamp"
  /\ items' = [i \in 1 .. Len(items) |->
       IF i \in Lines(product[r])
       THEN [items[i] EXCEPT !.quantity = AtMost(@)] ELSE items[i]]
  /\ Return(r)
  /\ UNCHANGED <<exists, faults>>

-----------------------------------------------------------------------------
(* The operations that are one update each.  A cart view creates a missing *)
(* document; reading an existing one changes nothing.                      *)

Atomic(r, op) ==
  /\ pc[r] = "idle" /\ op \in Operations
  /\ UNCHANGED <<request, faults>>

View(r) ==
  /\ Atomic(r, "view") /\ ~exists
  /\ exists' = TRUE
  /\ UNCHANGED <<items, due>>

SetQuantity(r, p, q) ==
  /\ Atomic(r, "set") /\ Has(p)
  /\ items' = [items EXCEPT ![First(p)].quantity = q]
  /\ due' = [due EXCEPT ![p] = q]
  /\ UNCHANGED exists

\* $pull: the other lines keep their order.
Remove(r, p) ==
  /\ Atomic(r, "remove") /\ exists
  /\ \E n \in 0 .. Len(items) : \E from \in [1 .. n -> 1 .. Len(items)] :
       /\ \A i, j \in 1 .. n : i < j => from[i] < from[j]
       /\ {from[i] : i \in 1 .. n} = (1 .. Len(items)) \ Lines(p)
       /\ items' = [i \in 1 .. n |-> items[from[i]]]
  /\ due' = [due EXCEPT ![p] = 0]
  /\ UNCHANGED exists

Clear(r) ==
  /\ Atomic(r, "clear")
  /\ exists' = TRUE
  /\ items' = <<>>
  /\ due' = [p \in Products |-> 0]

\* The request dies: its further updates are never made.
Crash(r) ==
  /\ pc[r] # "idle" /\ faults < MaxFaults
  /\ faults' = faults + 1
  /\ Goto(r, "idle")
  /\ UNCHANGED <<document, due>>

\* purge_expired_data deletes an abandoned cart, purge_user anyone's.
Purge ==
  /\ exists /\ "purge" \in Operations
  /\ exists' = FALSE
  /\ items' = <<>>
  /\ due' = [p \in Products |-> 0]
  /\ UNCHANGED <<request, faults>>

-----------------------------------------------------------------------------

Next ==
  \/ \E r \in Requests :
       \/ Bump(r) \/ Push(r) \/ Probe(r) \/ Create(r) \/ PushAgain(r) \/ Clamp(r)
       \/ View(r) \/ Clear(r) \/ Crash(r)
       \/ \E p \in Products :
            \/ Remove(r, p)
            \/ \E q \in Quantities : Call(r, p, q) \/ SetQuantity(r, p, q)
  \/ Purge

Spec == Init /\ [][Next]_vars

-----------------------------------------------------------------------------
(* Properties *)

\* The $ne guard of the push: concurrent first additions of a product never
\* make two lines of it, which would split its quantity and escape the $inc.
OneLinePerProduct == \A p \in Products : Cardinality(Lines(p)) <= 1

\* A quantity over the ceiling, which checkout would refuse, lasts only until
\* the request that caused it makes its second update, or died before it.
OverTheCeilingIsTransient ==
  \A i \in 1 .. Len(items) :
    items[i].quantity > MAX_ITEM_QUANTITY =>
      \/ faults > 0
      \/ \E r \in Requests : pc[r] = "clamp" /\ product[r] = items[i].product_id

\* The cart as its owner sees it.
quantity ==
  [p \in Products |-> IF Has(p) THEN AtMost(items[First(p)].quantity) ELSE 0]

Promise == INSTANCE AtomicCart WITH
  MaxQuantity <- MAX_ITEM_QUANTITY, MaxRequest <- MAX_REQUEST_QUANTITY,
  MaxItems <- MAX_CART_ITEMS

\* Every single update is one of the whole operations, whatever the others do.
KeepsPromise == Promise!Spec

\* "Concurrent requests from the same user cannot lose each other's writes"
\* (cart_service.py:4-5): the cart holds what the additions that were answered
\* with success come to.
AdditionsCount ==
  (\A r \in Requests : pc[r] = "idle") => quantity = due

=============================================================================

---------------------------- MODULE PurchaseOnce ----------------------------
(***************************************************************************)
(* What checkout promises a customer: one idempotency key buys at most one *)
(* order, and an order that was bought is booked locally, once, under the  *)
(* key that bought it.  Module Checkout implements this.                   *)
(***************************************************************************)
CONSTANTS Keys, Orders

VARIABLES
  bought,   \* the orders Saleor made for each key
  booked    \* the local Order rows of each key

TypeOK ==
  /\ bought \in [Keys -> SUBSET Orders]
  /\ booked \in [Keys -> SUBSET Orders]

Init ==
  /\ bought = [k \in Keys |-> {}]
  /\ booked = [k \in Keys |-> {}]

\* The key is spent.
Buy(k, o) ==
  /\ bought[k] = {}
  /\ bought' = [bought EXCEPT ![k] = {o}]
  /\ UNCHANGED booked

Book(k, o) ==
  /\ o \in bought[k] /\ booked[k] = {}
  /\ booked' = [booked EXCEPT ![k] = {o}]
  /\ UNCHANGED bought

Next == \E k \in Keys, o \in Orders : Buy(k, o) \/ Book(k, o)

Spec == Init /\ [][Next]_<<bought, booked>>

\* Every purchase is booked in the end, by the request or by reconciliation.
FairSpec ==
  /\ Spec
  /\ \A k \in Keys : WF_<<bought, booked>>(\E o \in Orders : Book(k, o))

=============================================================================

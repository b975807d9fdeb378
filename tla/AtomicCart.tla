----------------------------- MODULE AtomicCart -----------------------------
(***************************************************************************)
(* What the cart of one user promises: a quantity per product, at most     *)
(* MaxItems products at a time, changed only by whole operations.  Module  *)
(* Cart implements this with several MongoDB updates per request.          *)
(***************************************************************************)
EXTENDS Naturals, FiniteSets

CONSTANTS Products, MaxQuantity, MaxRequest, MaxItems

VARIABLE quantity   \* 0: not in the cart

Content == {p \in Products : quantity[p] > 0}

AtMost(n) == IF n > MaxQuantity THEN MaxQuantity ELSE n

Init == quantity = [p \in Products |-> 0]

Add(p, q) ==
  /\ p \in Content \/ Cardinality(Content) < MaxItems
  /\ quantity' = [quantity EXCEPT ![p] = AtMost(@ + q)]

Set(p, q) ==
  /\ p \in Content
  /\ quantity' = [quantity EXCEPT ![p] = q]

Remove(p) == quantity' = [quantity EXCEPT ![p] = 0]

Clear == quantity' = [p \in Products |-> 0]

Next ==
  \/ \E p \in Products, q \in 1 .. MaxRequest : Add(p, q) \/ Set(p, q)
  \/ \E p \in Products : Remove(p)
  \/ Clear

Spec == Init /\ [][Next]_quantity

=============================================================================

----------------------------- MODULE MCCheckout -----------------------------
(* Checkout on small instances: one user with two keys (two tabs, or a      *)
(* retry under a fresh key), requests that race, and reconciliation.        *)
EXTENDS Checkout, TLC

CONSTANTS r1, r2, k1, k2, c1, c2, c3, u1

MCOwnerOf == [k \in Keys |-> u1]

\* Requests, keys of the one user and checkouts inside Eve are
\* interchangeable: sound for the runs that check no liveness property.
Symmetric ==
  Permutations(Requests) \cup Permutations(Keys)
    \cup Permutations(Checkouts \ Outside)
=============================================================================

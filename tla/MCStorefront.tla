---------------------------- MODULE MCStorefront ----------------------------
(* Storefront on small instances: a browser with two tabs, or an API client  *)
(* with two requests at a time, that lose an answer or die.                  *)
EXTENDS Storefront, TLC

CONSTANTS r1, r2, k1, k2, k3

MCSymmetry == Permutations({r1, r2}) \cup Permutations(Keys)
=============================================================================

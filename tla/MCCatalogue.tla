----------------------------- MODULE MCCatalogue -----------------------------
(* Catalogue on a small instance: a product page and the list of products.   *)
EXTENDS Catalogue, TLC

CONSTANTS r1, r2, p1, p2
=============================================================================

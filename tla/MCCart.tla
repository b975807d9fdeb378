------------------------------- MODULE MCCart -------------------------------
(* Cart on small instances: two requests, one product more than fit.        *)
EXTENDS Cart, TLC

CONSTANTS r1, r2, p1, p2, p3

Symmetric == Permutations(Requests) \cup Permutations(Products)
=============================================================================

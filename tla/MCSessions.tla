------------------------------ MODULE MCSessions -----------------------------
(* Instances of Sessions for TLC.                                           *)
EXTENDS Sessions, TLC

CONSTANTS t1, t2, t3, r1, r2

\* Jtis are drawn at random and requests are alike.
Symmetric == Permutations(Tokens) \cup Permutations(Requests)
==============================================================================

------------------------------ MODULE NatSums ------------------------------
(***************************************************************************)
(* Sums of a Nat-valued function over a prefix 1..n.  The contracts keep   *)
(* one pooled token balance against many tasks or stakes: the sum is the   *)
(* other side of that equation.  It is a recursive function, so that a     *)
(* module that holds theorems may use it.                                  *)
(***************************************************************************)
EXTENDS Naturals

(* The k-th summand; an index outside the function's domain adds nothing.  *)
Summand(a, k) == IF k \in DOMAIN a THEN a[k] ELSE 0

(* a[1] + ... + a[n].                                                      *)
SumTo(a, n) ==
  LET s[k \in Nat] == IF k = 0 THEN 0 ELSE s[k - 1] + Summand(a, k)
  IN  s[n]

=============================================================================

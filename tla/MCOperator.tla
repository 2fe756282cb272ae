----------------------------- MODULE MCOperator -----------------------------
(* Operator on small instances; each cfg picks the events, failures and      *)
(* informer lag it asks about.                                               *)
EXTENDS Operator, TLC

CONSTANTS p1, p2

PodSymmetry == Permutations({p1, p2})
=============================================================================

------------------------------ MODULE MCTenancy ------------------------------
(* Values for Tenancy.cfg: a connection of ann's and one that may be ann's  *)
(* too, or bob's.                                                           *)
EXTENDS Tenancy

CONSTANTS c1, c2, ann, bob

MCKeys == [c \in {c1, c2} |-> IF c = c1 THEN {ann} ELSE {ann, bob}]
=============================================================================

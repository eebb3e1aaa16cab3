---------------------------- MODULE MCIntegrate ----------------------------
(* Tickets are alike. *)
EXTENDS Integrate, TLC
Tickets == Permutations(Ticket)
=============================================================================

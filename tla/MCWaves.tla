------------------------------ MODULE MCWaves ------------------------------
(* Boards small enough to enumerate: Inside are the issues that may belong  *)
(* to the milestone, the others stay outside it; Archivable may be archived. *)
EXTENDS Waves

CONSTANTS Inside, Archivable

MCInit ==
    /\ Init
    /\ member \in {Inside, Inside \ Archivable}
    /\ archived \subseteq Archivable

MCSpec == MCInit /\ [][Next]_vars
MCFairSpec == MCSpec /\ WF_vars(Run)
=============================================================================

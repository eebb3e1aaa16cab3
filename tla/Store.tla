------------------------------- MODULE Store -------------------------------
(***************************************************************************)
(* A database file from its first opening on: the commands of SubIssues    *)
(* run in processes that have come through `migrations::run`, while others *)
(* are still at it.                                                        *)
(***************************************************************************)
EXTENDS SubIssues

CONSTANTS Process, Note, Body, Late, File
VARIABLES ledger, tables, notes, memory, commits, pc, saw, held, snap, found, folded, written

opening == <<ledger, tables, notes, memory, commits, pc, saw, held, snap, found, folded, written>>

Opening == INSTANCE Migrations

ASSUME StoreAssumption == Opening!MigrationConstants

StoreInit == Init /\ Opening!Init

\* No job is served before the store has been opened.
StoreNext ==
    \/ Opening!Next /\ UNCHANGED vars
    \/ (\E p \in Process : pc[p] = "open") /\ Next /\ UNCHANGED opening

StoreSpec == StoreInit /\ [][StoreNext]_<<vars, opening>>

\* The old build's notes, as Migrations states it.
OldNotesAreKept == Opening!OldNotesAreKept
FoldedOnce == Opening!FoldedOnce
OpenedIsCurrent == Opening!OpenedIsCurrent
NobodyFails == Opening!NobodyFails
=============================================================================

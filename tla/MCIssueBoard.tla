---------------------------- MODULE MCIssueBoard ----------------------------
(* Sessions on a small board: each in a process of its own (the CLI, or one *)
(* local TUI per process), or all in the one process of cliband.            *)
EXTENDS IssueBoard

OwnProcess == [s \in Session |-> s]
OneProcess == [s \in Session |-> CHOOSE p \in Process : TRUE]

\* The commands that write only the columns they are about.
Agents == {"create", "mv", "amend", "casEdit", "sweep"}

EveryTui == TuiCommands
ArchiveAndLog == {"archive", "amend"}
=============================================================================

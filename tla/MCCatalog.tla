----------------------------- MODULE MCCatalog -----------------------------
(* What users ask: a milestone "m" or "n" to file issues under and to rename, *)
(* two labels, relations to issue 1, notes and log entries.                  *)
EXTENDS Catalog

Plain == [milestone |-> None, tag |-> <<>>, untag |-> <<>>, blocks |-> <<>>,
          blockedBy |-> <<>>, related |-> <<>>, unrelate |-> <<>>]

Edit == [op |-> "edit", text |-> FALSE, cas |-> FALSE] @@ Plain

IssueCommands ==
    {[op |-> "cp"],
     [op |-> "add"] @@ [Plain EXCEPT !.milestone = "m", !.tag = <<"a">>, !.blockedBy = <<1>>],
     [op |-> "import",
      lines |-> <<[Plain EXCEPT !.tag = <<"b">>], [Plain EXCEPT !.milestone = "n"]>>],
     [Edit EXCEPT !.text = TRUE, !.cas = TRUE],
     [Edit EXCEPT !.milestone = "m", !.related = <<2>>],
     [Edit EXCEPT !.tag = <<"b">>, !.cas = TRUE, !.blocks = <<2>>],
     [Edit EXCEPT !.untag = <<"a">>, !.unrelate = <<2>>]}

LabelCommands == {[op |-> "labelAdd", label |-> "b"], [op |-> "labelRm", label |-> "a"]}

MilestoneCommands ==
    {[op |-> "milestoneAdd", milestone |-> "n"],
     [op |-> "milestoneAdd", milestone |-> "m"],
     [op |-> "rename", milestone |-> "m", to |-> "n"],
     [op |-> "describe", milestone |-> "m", carry |-> TRUE],
     [op |-> "describe", milestone |-> "m", carry |-> FALSE],
     [op |-> "cancel", milestone |-> "m"],
     [op |-> "reopen", milestone |-> "m"],
     [op |-> "log", milestone |-> "m"]}

ProjectCommands ==
    {[op |-> "note"], [op |-> "projectArchive", archived |-> TRUE],
     [op |-> "projectEdit", cas |-> TRUE], [op |-> "projectEdit", cas |-> FALSE]}

AllCommands == IssueCommands \cup LabelCommands \cup MilestoneCommands \cup ProjectCommands

Symmetry == Permutations(Process)
=============================================================================

------------------------------ MODULE MCStore ------------------------------
(* Files that earlier builds left, for Store.                              *)
EXTENDS Store, Sequences, TLC

head(l, x) == [k |-> "head", level |-> l, name |-> x]
fence(c, n, b) == [k |-> "fence", mark |-> c, len |-> n, bare |-> b]
text == [k |-> "text"]

Bodies == [n1 |-> <<head(2, "Spec"), text>>,
           n2 |-> <<fence("tilde", 3, FALSE), fence("tick", 3, TRUE), head(2, "Notes"), fence("tilde", 4, TRUE)>>,
           n3 |-> <<head(3, "n1")>>]

\* No section; one, without notes; a `## Notes` quoted in a code block, then a real one
\* that another section follows.
Outlines == <<
    <<text>>,
    <<text, head(2, "Spec"), text>>,
    <<head(2, "Spec"), fence("tick", 4, FALSE), head(2, "Notes"), fence("tick", 3, TRUE),
      fence("tick", 4, TRUE), head(2, "Notes"), head(3, "old"), head(2, "Tail"), text>> >>

core == {"schema_migrations", "projects", "milestones", "labels", "issues",
         "issues_labels", "activity_log_entries", "issue_relation"}
File0(l, t, n, m) == [ledger |-> l, tables |-> t, notes |-> n, memory |-> m]
\* A fresh file, one of each build that is known, one of none, and one of a build to come.
Files ==
    {File0({}, {}, <<>>, <<>>)}
    \cup {File0(l, core, <<>>, <<text>>) :
            l \in {{"legacy"}, {"current"}, {"unknown", "current"}, {"legacy", "newer"}}}
    \cup {File0({"legacy", "superseded"}, core \cup {"notes"}, n, Outlines[i]) :
            n \in {<<>>, <<"n2", "n1">>}, i \in DOMAIN Outlines}

\* Neither issues nor processes are told apart.
Symmetry == Permutations(Issue) \cup Permutations(Process)
=============================================================================

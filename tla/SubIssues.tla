----------------------------- MODULE SubIssues -----------------------------
(***************************************************************************)
(* parent_id of the issues of one project. `issues::create`, `promote` and *)
(* `issue edit --parent` validate and write it inside one IMMEDIATE        *)
(* transaction; every command that reads a row outside one and writes the  *)
(* whole row back (`archive`, the TUI's edits) writes the parent_id it     *)
(* read, validated again when it is written.                               *)
(***************************************************************************)
CONSTANTS
    Issue,      \* issues that exist sooner or later
    Nil,        \* NULL
    Writer      \* sessions that run full-row writers

ASSUME NilIsNoIssue == Nil \notin Issue

VARIABLES
    live,       \* issues created so far
    parent,     \* issue -> parent_id
    target,     \* writer -> the issue it read, Nil when it runs nothing
    seen        \* writer -> the parent_id it read

vars == <<live, parent, target, seen>>

Init ==
    /\ live = {}
    /\ parent = [i \in Issue |-> Nil]
    /\ target = [w \in Writer |-> Nil]
    /\ seen = [w \in Writer |-> Nil]

\* Slips, of which some property must tell ValidParent: the parent is not looked up;
\* its own parent is not looked at.
ValidUnknown(p) == p = Nil \/ parent[p] = Nil
ValidNested(p) == p = Nil \/ p \in live

\* validate_depth_limit: the parent exists and has no parent itself.
ValidParent(p) == p = Nil \/ (p \in live /\ parent[p] = Nil)

\* `issue add [--parent p]`.
Create(i, p) ==
    /\ i \notin live /\ ValidParent(p)
    /\ live' = live \cup {i}
    /\ parent' = [parent EXCEPT ![i] = p]
    /\ UNCHANGED <<target, seen>>

\* `issue promote`: a step of p's plan becomes an issue, under p with --as
\* sub-issue, beside it with --as related.
Promote(i, p) ==
    /\ i \notin live /\ p \in live
    /\ live' = live \cup {i}
    /\ \/ parent[p] = Nil /\ parent' = [parent EXCEPT ![i] = p]
       \/ parent' = [parent EXCEPT ![i] = Nil]
    /\ UNCHANGED <<target, seen>>

\* `issue edit --parent p`, `issue edit --clear-parent`: the CLI refuses i itself.
SetParent(i, p) ==
    /\ i \in live /\ p # i /\ ValidParent(p)
    /\ parent' = [parent EXCEPT ![i] = p]
    /\ UNCHANGED <<live, target, seen>>

\* A full-row writer reads the row of i ...
ReadRow(w, i) ==
    /\ target[w] = Nil /\ i \in live
    /\ target' = [target EXCEPT ![w] = i]
    /\ seen' = [seen EXCEPT ![w] = parent[i]]
    /\ UNCHANGED <<live, parent>>

\* ... and writes it back, unless its parent has become invalid.
WriteRow(w) ==
    /\ target[w] # Nil
    /\ parent' = IF ValidParent(seen[w]) THEN [parent EXCEPT ![target[w]] = seen[w]]
                 ELSE parent
    /\ target' = [target EXCEPT ![w] = Nil]
    /\ seen' = [seen EXCEPT ![w] = Nil]
    /\ UNCHANGED live

Next ==
    \/ \E i \in Issue : \E p \in Issue \cup {Nil} : Create(i, p) \/ SetParent(i, p)
    \/ \E i, p \in Issue : Promote(i, p)
    \/ \E w \in Writer : WriteRow(w) \/ \E i \in Issue : ReadRow(w, i)

Spec == Init /\ [][Next]_vars

(***************************************************************************)
(* Properties                                                              *)
(***************************************************************************)
TypeOK ==
    /\ live \subseteq Issue
    /\ parent \in [Issue -> live \cup {Nil}]
    /\ target \in [Writer -> live \cup {Nil}]
    /\ seen \in [Writer -> live \cup {Nil}]

\* Nobody is its own ancestor: no set of issues whose parents are all in the set.
\* The issues of a cycle would be under no top-level issue at all.
NoParentCycle == ~ \E S \in SUBSET Issue : S # {} /\ \A i \in S : parent[i] \in S

\* Maximum depth is 2: a parent has no parent.
DepthIsTwo == \A i \in Issue : parent[i] # Nil => parent[parent[i]] = Nil
=============================================================================

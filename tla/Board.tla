------------------------------- MODULE Board -------------------------------
(***************************************************************************)
(* What a project's issues promise whoever works on them: every command    *)
(* happens at one instant, to the issue as it then is, and changes nothing *)
(* but what it was asked to change. IssueBoard shows when the code keeps   *)
(* the promise. Column positions and updated_at are left out.              *)
(***************************************************************************)
EXTENDS Naturals, Sequences

CONSTANTS
    Status,     \* board columns
    Done,       \* the column that completes an issue
    Entry       \* what may be written into a description: log lines, ticks, ...

VARIABLE issue  \* what users see of the issues, by number

Seen == [status: Status, completed: BOOLEAN, archived: BOOLEAN, text: SUBSET Entry]

Init == issue \in Seq({r \in Seen : r.completed => r.status = Done})

\* A new issue takes the next number.
Create(st) ==
    issue' = Append(issue, [status |-> st, completed |-> FALSE, archived |-> FALSE,
                            text |-> {}])

Move(i, st) ==
    issue' = [issue EXCEPT ![i].status = st, ![i].completed = (st = Done)]

SetArchived(i, b) == issue' = [issue EXCEPT ![i].archived = b]

\* Old done issues leave the board together.
Sweep(S) ==
    /\ \A i \in S : issue[i].status = Done
    /\ issue' = [i \in DOMAIN issue |->
                    IF i \in S THEN [issue[i] EXCEPT !.archived = TRUE] ELSE issue[i]]

Amend(i, e) == issue' = [issue EXCEPT ![i].text = @ \cup {e}]

\* A user replaces the whole description, and nothing but the description.
Rewrite(i, T) == issue' = [issue EXCEPT ![i].text = T]

Next ==
    \/ \E st \in Status : Create(st)
    \/ \E S \in SUBSET DOMAIN issue : Sweep(S)
    \/ \E i \in DOMAIN issue :
        \/ \E st \in Status : Move(i, st)
        \/ \E b \in BOOLEAN : SetArchived(i, b)
        \/ \E e \in Entry : Amend(i, e)
        \/ \E T \in SUBSET Entry : Rewrite(i, T)

Spec == Init /\ [][Next]_issue
=============================================================================

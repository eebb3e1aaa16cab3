------------------------------ MODULE Integrate ------------------------------
(***************************************************************************)
(* cliban-flow after `ticket start`: the agents of a milestone's tickets   *)
(* commit, sync and hand over (ready); one orchestrator integrates,        *)
(* abandons and finishes; a person commits to main. Every git and every    *)
(* cliban call is a process of its own, so tips move between a guard and   *)
(* what it admits.                                                         *)
(*                                                                         *)
(* A commit is an index of `commits`; its tree is the set of commits whose *)
(* own change is in it, so a three-way merge of two trees is their union.  *)
(* MaxCommits bounds the commits, MaxMishaps the commands of the           *)
(* orchestrator that are killed and the tickets it abandons, together. A   *)
(* milestone all of whose tickets were abandoned is not started again.     *)
(***************************************************************************)
EXTENDS Naturals, Sequences, FiniteSets

CONSTANTS Ticket, None, MaxCommits, MaxMishaps

ASSUME IntegrateConstants ==
    /\ None \notin Ticket \union {"main", "milestone"}
    /\ Ticket \intersect {"main", "milestone"} = {}
    /\ {MaxCommits, MaxMishaps} \subseteq Nat

VARIABLES
    commits,    \* [past: commits reachable, tree, ticket: the Ticket: trailer, on: the branch]
    head,       \* branch -> tip, 0 when there is no such branch
    wt,         \* branch -> its worktree: "none", "clean", "merging" or "staged"
    mergeHead,  \* ticket -> MERGE_HEAD of its worktree
    staged,     \* the tree in the index of the milestone's worktree
    \* the board
    status,
    ready,      \* ticket -> the <<tip, milestone tip>> of its last ready line
    discarded,  \* tickets with a "work discarded:" line
    \* the running commands
    pc,         \* agent of a ticket -> where its command stands
    orch,       \* the orchestrator: [pc, on, ttip]
    \* history and bounds
    landed,     \* ticket -> the tip its last integrate was about when it said done
    mishaps

git == <<commits, head, wt, mergeHead, staged>>
board == <<status, ready, discarded>>
scripts == <<pc, orch>>
vars == <<git, board, scripts, landed, mishaps>>

Branch == Ticket \union {"main", "milestone"}
Columns == {"todo", "in-progress", "in-review", "done"}
Idle == [pc |-> "idle", on |-> None, ttip |-> 0]

-----------------------------------------------------------------------------
(***************************************************************************)
(* git                                                                     *)
(***************************************************************************)
Past(b) == commits[head[b]].past
Tree(b) == commits[head[b]].tree
HaveBranch(b) == head[b] # 0

\* is_ancestor: strict ancestry, never a trial merge.
IsAncestor(a, b) == head[a] \in Past(b)

\* A commit on b with the given further parents and, beside theirs, the given changes.
\* `own` says whether the commit has a change of its own.
CommitOn(b, parents, tree, own, ticket) ==
    LET n == Len(commits) + 1 IN
    /\ n <= MaxCommits
    /\ commits' = Append(commits,
           [past |-> {n} \union Past(b) \union UNION {commits[p].past : p \in parents},
            tree |-> tree \union (IF own THEN {n} ELSE {}), ticket |-> ticket, on |-> b])
    /\ head' = [head EXCEPT ![b] = n]

\* load_ticket_worktree: checked out somewhere, no merge in progress, nothing uncommitted.
WorktreeReady(t) == wt[t] = "clean"

\* `git log -1 --grep '^Ticket: '`: the last integration on the milestone.
LastVerified ==
    LET found == {c \in Past("milestone") : commits[c].ticket # None}
    IN  IF found = {} THEN 0 ELSE CHOOSE c \in found : \A d \in found : d <= c

Init ==
    /\ commits = <<[past |-> {1}, tree |-> {1}, ticket |-> None, on |-> "main"]>>
    /\ head = [b \in Branch |-> IF b = "main" THEN 1 ELSE 0]
    /\ wt = [b \in Branch |-> IF b = "main" THEN "clean" ELSE "none"]
    /\ mergeHead = [t \in Ticket |-> 0] /\ staged = {}
    /\ status = [t \in Ticket |-> "todo"]
    /\ ready = [t \in Ticket |-> <<0, 0>>] /\ discarded = {}
    /\ pc = [t \in Ticket |-> "idle"] /\ orch = Idle
    /\ landed = [t \in Ticket |-> 0]
    /\ mishaps = 0

-----------------------------------------------------------------------------
(***************************************************************************)
(* Worktrees are made                                                      *)
(***************************************************************************)
\* milestone start: adopt the branch that outlived its worktree, or create it off main;
\* a worktree that is there already is only reported.
MilestoneStart ==
    /\ orch = Idle /\ wt["milestone"] = "none" /\ discarded # Ticket
    /\ wt' = [wt EXCEPT !["milestone"] = "clean"]
    /\ head' = [head EXCEPT !["milestone"] = IF @ = 0 THEN head["main"] ELSE @]
    /\ UNCHANGED <<commits, mergeHead, staged, board, scripts, landed, mishaps>>

\* ticket start as a whole (TicketStart has its steps): also for a ticket that was
\* abandoned, whose log keeps the line.
TicketStarts(t) ==
    /\ HaveBranch("milestone") /\ wt["milestone"] # "none"
    /\ status[t] # "done" /\ wt[t] = "none" /\ pc[t] = "idle" /\ orch.on # t
    /\ status' = [status EXCEPT ![t] = "in-progress"]
    /\ head' = [head EXCEPT ![t] = IF @ = 0 THEN head["milestone"] ELSE @]
    /\ wt' = [wt EXCEPT ![t] = "clean"]
    /\ UNCHANGED <<commits, mergeHead, staged, ready, discarded, scripts, landed, mishaps>>

-----------------------------------------------------------------------------
(***************************************************************************)
(* What the agent of a ticket does itself; it runs one command at a time   *)
(* and may go on working after it has handed over                          *)
(***************************************************************************)
\* A commit of an edit, or of a resolved conflict.
Commit(t) ==
    /\ pc[t] = "idle" /\ wt[t] \in {"clean", "merging"}
    /\ LET other == IF wt[t] = "merging" THEN {mergeHead[t]} ELSE {}
       IN  CommitOn(t, other, Tree(t) \union UNION {commits[c].tree : c \in other}, TRUE, None)
    /\ wt' = [wt EXCEPT ![t] = "clean"]
    /\ mergeHead' = [mergeHead EXCEPT ![t] = 0]
    /\ UNCHANGED <<staged, board, scripts, landed, mishaps>>

-----------------------------------------------------------------------------
(***************************************************************************)
(* ticket sync                                                             *)
(***************************************************************************)
Goto(t, from, to) == pc[t] = from /\ pc' = [pc EXCEPT ![t] = to]

\* The agents' own branches do not meet but on the milestone: one is in a command at a time.
Begin(t, to) == (\A u \in Ticket : pc[u] = "idle") /\ Goto(t, "idle", to)

\* The guards; a branch that has the tip is only reported.
SyncGuards(t) ==
    /\ Begin(t, "merge")
    /\ HaveBranch("milestone") /\ HaveBranch(t) /\ WorktreeReady(t)
    /\ ~IsAncestor("milestone", t)
    /\ UNCHANGED <<git, board, orch, landed, mishaps>>

\* `git merge refs/heads/<milestone>`, whatever its tip is by now: fast-forward, a
\* merge commit, or a conflict that is left in progress for the agent.
SyncMerge(t) ==
    /\ Goto(t, "merge", "idle")
    /\ \/ /\ wt[t] = "clean" /\ HaveBranch("milestone")
          /\ \/ /\ IsAncestor(t, "milestone")
                /\ head' = [head EXCEPT ![t] = head["milestone"]]
                /\ UNCHANGED <<commits, wt, mergeHead>>
             \/ /\ ~IsAncestor(t, "milestone")
                /\ CommitOn(t, {head["milestone"]}, Tree(t) \union Tree("milestone"), FALSE, None)
                /\ UNCHANGED <<wt, mergeHead>>
             \/ /\ ~IsAncestor(t, "milestone")
                /\ wt' = [wt EXCEPT ![t] = "merging"]
                /\ mergeHead' = [mergeHead EXCEPT ![t] = head["milestone"]]
                /\ UNCHANGED <<commits, head>>
       \/ /\ wt[t] # "clean" \/ ~HaveBranch("milestone")    \* git refuses
          /\ UNCHANGED <<commits, head, wt, mergeHead>>
    /\ UNCHANGED <<staged, board, orch, landed, mishaps>>

-----------------------------------------------------------------------------
(***************************************************************************)
(* ticket ready                                                            *)
(***************************************************************************)
ReadyLoad(t) ==
    /\ Begin(t, IF status[t] = "in-review" THEN "again" ELSE "gate")
    /\ HaveBranch(t) /\ WorktreeReady(t) /\ status[t] # "done"
    /\ UNCHANGED <<git, board, orch, landed, mishaps>>

\* What the board holds for the ticket when ready reads it: the plan section is there and
\* has no open item; a review accepted, or the orchestrator waived it, anywhere in the
\* activity section; and one that did so since the last ready line names the tip.
Evidence == [planned : BOOLEAN, accepted : BOOLEAN, named : BOOLEAN]

\* The tip contains the milestone's and has commits past it. In review already: nothing
\* is left to do for the recorded detail, and another tip needs evidence of its own.
ReadyGate(t, e) ==
    /\ pc[t] \in {"gate", "again"}
    /\ LET recorded == ready[t] = <<head[t], head["milestone"]>>
           admitted == /\ HaveBranch("milestone") /\ HaveBranch(t) /\ WorktreeReady(t)
                       /\ IsAncestor("milestone", t) /\ Past(t) \ Past("milestone") # {}
                       /\ e.planned /\ e.accepted
                       /\ pc[t] = "again" => ~recorded /\ e.named
       IN  pc' = [pc EXCEPT ![t] = IF admitted THEN "move" ELSE "idle"]
    /\ UNCHANGED <<git, board, orch, landed, mishaps>>

\* `issue mv in-review --note`, then the same line again; no look at the status it leaves.
ReadyMove(t) ==
    /\ Goto(t, "move", "idle")
    /\ status' = [status EXCEPT ![t] = "in-review"]
    /\ ready' = [ready EXCEPT ![t] = <<head[t], head["milestone"]>>]
    /\ UNCHANGED <<git, discarded, orch, landed, mishaps>>

-----------------------------------------------------------------------------
(***************************************************************************)
(* ticket integrate                                                        *)
(***************************************************************************)
Orchestrate(from, to) == orch.pc = from /\ orch' = [orch EXCEPT !.pc = to]

\* A refusal ends the command; so does its last step.
Refuse(from) == orch.pc = from /\ orch' = Idle

\* In review, both branches there, nothing uncommitted; the tips are read.
IntegrateLoad(t) ==
    /\ orch = Idle /\ status[t] = "in-review"
    /\ HaveBranch("milestone") /\ HaveBranch(t) /\ WorktreeReady(t)
    /\ orch' = [pc |-> "gate", on |-> t, ttip |-> head[t]]
    /\ UNCHANGED <<git, board, pc, landed, mishaps>>

\* Slip: the ticket's branch need not contain the milestone's tip.
IntegrateGateLax ==
    /\ orch.pc = "gate"
    /\ LET admitted == IsAncestor("main", "milestone") /\ wt["milestone"] = "clean" IN
       \/ admitted /\ Orchestrate("gate", "squash")
       \/ ~admitted /\ Refuse("gate")
    /\ UNCHANGED <<git, board, pc, landed, mishaps>>

\* No main drift, strict ancestry, a clean milestone worktree: by branch name, a while
\* after the tips were read.
IntegrateGate ==
    /\ orch.pc = "gate"
    /\ LET admitted == /\ IsAncestor("main", "milestone")
                       /\ IsAncestor("milestone", orch.on)
                       /\ wt["milestone"] = "clean"
       IN  \/ admitted /\ Orchestrate("gate", "squash")
           \/ ~admitted /\ Refuse("gate")
    /\ UNCHANGED <<git, board, pc, landed, mishaps>>

\* `merge --squash` of the branch as it is now stages the union of both trees.
IntegrateSquash ==
    /\ Orchestrate("squash", "commit")
    /\ staged' = Tree("milestone") \union Tree(orch.on)
    /\ wt' = [wt EXCEPT !["milestone"] = "staged"]
    /\ UNCHANGED <<commits, head, mergeHead, board, pc, landed, mishaps>>

\* Slip: the message lacks its Ticket: paragraph.
IntegrateCommitBare ==
    /\ Orchestrate("commit", "recheck")
    /\ CommitOn("milestone", {}, staged, FALSE, None)
    /\ staged' = {} /\ wt' = [wt EXCEPT !["milestone"] = "clean"]
    /\ UNCHANGED <<mergeHead, board, pc, landed, mishaps>>

\* git has nothing to commit when the squash changes nothing.
IntegrateCommit ==
    /\ orch.pc = "commit"
    /\ \/ /\ staged # Tree("milestone") /\ Orchestrate("commit", "recheck")
          /\ CommitOn("milestone", {}, staged, FALSE, orch.on)
       \/ /\ staged = Tree("milestone") /\ Refuse("commit")
          /\ UNCHANGED <<commits, head>>
    /\ staged' = {} /\ wt' = [wt EXCEPT !["milestone"] = "clean"]
    /\ UNCHANGED <<mergeHead, board, pc, landed, mishaps>>

\* Slip: the tip is not looked at again.
IntegrateRecheckNot ==
    /\ Orchestrate("recheck", "done")
    /\ UNCHANGED <<git, board, pc, landed, mishaps>>

\* The branch must not have moved since the tips were read.
IntegrateRecheck ==
    /\ orch.pc = "recheck"
    /\ \/ head[orch.on] = orch.ttip /\ Orchestrate("recheck", "done")
       \/ head[orch.on] # orch.ttip /\ Refuse("recheck")
    /\ UNCHANGED <<git, board, pc, landed, mishaps>>

IntegrateDone ==
    /\ Orchestrate("done", "remove")
    /\ status' = [status EXCEPT ![orch.on] = "done"]
    /\ landed' = [landed EXCEPT ![orch.on] = orch.ttip]
    /\ UNCHANGED <<git, ready, discarded, pc, mishaps>>

\* git removes only a clean worktree; the branch is retained.
IntegrateRemove ==
    /\ Refuse("remove")
    /\ wt' = [wt EXCEPT ![orch.on] = IF @ = "clean" THEN "none" ELSE @]
    /\ UNCHANGED <<commits, head, mergeHead, staged, board, pc, landed, mishaps>>

-----------------------------------------------------------------------------
(***************************************************************************)
(* ticket abandon, and milestone abandon as a loop over it                 *)
(***************************************************************************)
AbandonRemove(t) ==
    /\ orch = Idle /\ mishaps < MaxMishaps
    /\ orch' = [Idle EXCEPT !.pc = "delete", !.on = t]
    /\ wt' = [wt EXCEPT ![t] = IF @ = "clean" THEN "none" ELSE @]
    /\ mishaps' = mishaps + 1
    /\ UNCHANGED <<commits, head, mergeHead, staged, board, pc, landed>>

\* Only a branch that is checked out nowhere goes.
AbandonDelete ==
    /\ Orchestrate("delete", "discard")
    /\ head' = [head EXCEPT ![orch.on] = IF wt[orch.on] = "none" THEN 0 ELSE @]
    /\ UNCHANGED <<commits, wt, mergeHead, staged, board, pc, landed, mishaps>>

AbandonLog ==
    /\ Refuse("discard")
    /\ discarded' = discarded \union {orch.on}
    /\ UNCHANGED <<git, status, ready, pc, landed, mishaps>>

\* Its worktree and branch go as a ticket's do, once the loop has been over every ticket.
AbandonMilestone ==
    /\ orch = Idle /\ discarded = Ticket /\ HaveBranch("milestone")
    /\ LET left == IF wt["milestone"] = "clean" THEN "none" ELSE wt["milestone"]
       IN  /\ wt' = [wt EXCEPT !["milestone"] = left]
           /\ head' = [head EXCEPT !["milestone"] = IF left = "none" THEN 0 ELSE @]
    /\ UNCHANGED <<commits, mergeHead, staged, board, scripts, landed, mishaps>>

-----------------------------------------------------------------------------
(***************************************************************************)
(* milestone finish                                                        *)
(***************************************************************************)
Unsettled == {t \in Ticket : status[t] # "done" /\ t \notin discarded}

\* Slip: tickets in review count as settled.
FinishListReviewed ==
    /\ orch = Idle /\ \A t \in Unsettled : status[t] = "in-review"
    /\ orch' = [Idle EXCEPT !.pc = "verify"]
    /\ UNCHANGED <<git, board, pc, landed, mishaps>>

FinishList ==
    /\ orch = Idle /\ Unsettled = {}
    /\ orch' = [Idle EXCEPT !.pc = "verify"]
    /\ UNCHANGED <<git, board, pc, landed, mishaps>>

\* main has not drifted, and nothing was committed after the last integration.
FinishVerify ==
    /\ orch.pc = "verify"
    /\ LET admitted == /\ HaveBranch("milestone") /\ IsAncestor("main", "milestone")
                       /\ head["milestone"] \in {head["main"], LastVerified}
       IN  \/ /\ admitted /\ orch.pc = "verify"
              /\ orch' = [orch EXCEPT !.pc = "forward"]
           \/ ~admitted /\ Refuse("verify")
    /\ UNCHANGED <<git, board, pc, landed, mishaps>>

\* `merge --ff-only` of the branch as it is now, in the primary checkout.
FinishForward ==
    /\ Refuse("forward")
    /\ head' = [head EXCEPT !["main"] = IF IsAncestor("main", "milestone")
                                        THEN head["milestone"] ELSE @]
    /\ UNCHANGED <<commits, wt, mergeHead, staged, board, pc, landed, mishaps>>

-----------------------------------------------------------------------------
(***************************************************************************)
(* The person, and mishaps                                                 *)
(***************************************************************************)
MainDrifts ==
    /\ CommitOn("main", {}, Tree("main"), TRUE, None)
    /\ UNCHANGED <<wt, mergeHead, staged, board, scripts, landed, mishaps>>

\* A dispatched agent merges main in the milestone's worktree, as the refusals ask.
MergeMain ==
    /\ orch = Idle /\ HaveBranch("milestone") /\ wt["milestone"] = "clean"
    /\ ~IsAncestor("main", "milestone")
    /\ IF IsAncestor("milestone", "main")
       THEN head' = [head EXCEPT !["milestone"] = head["main"]] /\ UNCHANGED commits
       ELSE CommitOn("milestone", {head["main"]}, Tree("milestone") \union Tree("main"),
                     FALSE, None)
    /\ UNCHANGED <<wt, mergeHead, staged, board, scripts, landed, mishaps>>

KillOrchestrator ==
    /\ mishaps < MaxMishaps /\ mishaps' = mishaps + 1
    /\ orch # Idle /\ orch' = Idle
    /\ UNCHANGED <<git, board, pc, landed>>

\* A squash left staged is inspected and thrown away.
ResetMilestone ==
    /\ wt["milestone"] = "staged" /\ orch = Idle
    /\ wt' = [wt EXCEPT !["milestone"] = "clean"] /\ staged' = {}
    /\ UNCHANGED <<commits, head, mergeHead, board, scripts, landed, mishaps>>

-----------------------------------------------------------------------------
Sync(t) == SyncGuards(t) \/ SyncMerge(t)
Ready(t) ==
    \/ ReadyLoad(t) \/ ReadyMove(t) \/ \E e \in Evidence : ReadyGate(t, e)
IntegrateSteps ==
    \/ IntegrateGate \/ IntegrateSquash \/ IntegrateCommit
    \/ IntegrateRecheck \/ IntegrateDone \/ IntegrateRemove
AbandonSteps == AbandonDelete \/ AbandonLog \/ AbandonMilestone
FinishSteps == FinishVerify \/ FinishForward

AgentNext(t) ==
    \/ Commit(t) \/ Sync(t) \/ Ready(t)

OrchestratorNext ==
    \/ MilestoneStart
    \/ \E t \in Ticket : TicketStarts(t) \/ IntegrateLoad(t) \/ AbandonRemove(t)
    \/ IntegrateSteps \/ AbandonSteps \/ FinishList \/ FinishSteps

Next ==
    \/ \E t \in Ticket : AgentNext(t)
    \/ OrchestratorNext
    \/ MainDrifts \/ MergeMain \/ KillOrchestrator \/ ResetMilestone

Spec == Init /\ [][Next]_vars
(***************************************************************************)
(* Properties                                                              *)
(***************************************************************************)
Commits == 1..Len(commits)
Tips == 0..Len(commits)

TypeOK ==
    /\ \A c \in Commits : /\ c \in commits[c].past /\ commits[c].past \subseteq 1..c
                          /\ commits[c].tree \subseteq 1..c
                          /\ commits[c].ticket \in Ticket \union {None}
                          /\ commits[c].on \in Branch
    /\ head \in [Branch -> Tips] /\ mergeHead \in [Ticket -> Tips]
    /\ wt \in [Branch -> {"none", "clean", "merging", "staged"}]
    /\ staged \subseteq Commits
    /\ status \in [Ticket -> Columns]
    /\ ready \in [Ticket -> Tips \X Tips]
    /\ discarded \subseteq Ticket /\ landed \in [Ticket -> Tips]
    /\ orch.on \in Ticket \union {None} /\ orch.ttip \in Tips

\* Tickets that integrate has moved to done.
Settled == {t \in Ticket : landed[t] # 0}

Squashes(t) == {c \in Commits : commits[c].ticket = t}

\* A ticket that integrate has moved to done is on the milestone with exactly the tree
\* of the tip its gate admitted, however its agent and the milestone moved in between:
\* the squash goes by branch name, and only the look after the commit can tell.
DoneAsGated ==
    \A t \in Ticket : status[t] = "done" =>
        \E c \in Squashes(t) : commits[c].tree = commits[landed[t]].tree

\* Whatever is on the milestone of the work of a ticket that was not given up is found by
\* its Ticket: trailer: the survey and finish read nothing else after a crash.
RecoverySeesAll ==
    HaveBranch("milestone") =>
        \A c \in Tree("milestone") : commits[c].on \in Ticket \ discarded =>
            Squashes(commits[c].on) \intersect Past("milestone") # {}

\* main gets the squash of a ticket only when the ticket was done or was given up.
MainHoldsSettled ==
    \A c \in Past("main") : commits[c].ticket # None =>
        commits[c].ticket \in Settled \union discarded

\* Not so: what lands is what was handed over, built and tested. `ticket sync`, or a late
\* commit, moves a branch that is in review, and integrate does not compare its tip with
\* the recorded one.
LandsReadyTip == \A t \in Settled : landed[t] = ready[t][1]

\* Not so: a ticket that integrate has moved to done stays done. A `ready` that read the
\* status before moves it back.
DoneStays == \A t \in Settled : status[t] = "done"
=============================================================================

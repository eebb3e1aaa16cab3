---------------------------- MODULE TicketStart ----------------------------
(***************************************************************************)
(* `cliban-flow ticket start` on one ticket, run by several dispatchers:   *)
(* read the board, look for a worktree, claim, move to in-progress, add    *)
(* the worktree; when that fails, put status and claim back from what was  *)
(* read at the start. Every `cliban` and every `git` call is a process of  *)
(* its own. The claim and release commands are those of Claims.            *)
(* MaxFaults bounds the git and board calls that fail for no modelled      *)
(* reason (disk full, a busy database), those of the undo included.        *)
(* A killed script is one that takes no further step, at any point.        *)
(***************************************************************************)
EXTENDS Claims

CONSTANTS MaxFaults

ASSUME StartConstants == MaxFaults \in Nat

VARIABLES
    status,     \* the ticket's column
    branch,     \* git: the ticket's branch exists
    worktree,   \* git: a worktree has it checked out
    phase,      \* dispatcher -> where its shell script stands
    issueStatus, issueClaimedBy,    \* ISSUE_STATUS, ISSUE_CLAIMED_BY
    found,      \* worktree_for_branch found one
    moveTo,     \* the argument of the running `issue mv`
    faults

shell == <<phase, issueStatus, issueClaimedBy, found, moveTo>>
world == <<status, branch, worktree, faults>>
startVars == <<claimVars, shell, world>>

TicketColumns == {"backlog", "in-progress"}
Phases == {"idle", "show", "find", "path", "claim", "claiming", "mv", "mvWrite", "fork", "add",
           "adopt", "undo", "undoWrite", "release", "releasing", "started", "refused",
           "warned"}     \* refused, after saying that the claim could not be released

Init ==
    /\ ClaimInit
    /\ status \in TicketColumns
    /\ branch \in BOOLEAN /\ worktree = FALSE
    /\ phase = [d \in Session |-> "idle"]
    /\ issueStatus = [d \in Session |-> "backlog"]
    /\ issueClaimedBy = [d \in Session |-> Nobody]
    /\ found = [d \in Session |-> FALSE]
    /\ moveTo = [d \in Session |-> "backlog"]
    /\ faults = 0

Goto(d, from, to) == phase[d] = from /\ phase' = [phase EXCEPT ![d] = to]

\* load_issue: `issue show --json` reads the row, then in another job the claim.
LoadStatus(d) ==
    /\ Goto(d, "idle", "show")
    /\ issueStatus' = [issueStatus EXCEPT ![d] = status]
    /\ UNCHANGED <<claimVars, world, issueClaimedBy, found, moveTo>>

LoadClaim(d) ==
    /\ Goto(d, "show", "find")
    /\ issueClaimedBy' = [issueClaimedBy EXCEPT ![d] = holder]
    /\ UNCHANGED <<claimVars, world, issueStatus, found, moveTo>>

FindWorktree(d) ==
    /\ Goto(d, "find", IF worktree THEN "claim" ELSE "path")
    /\ found' = [found EXCEPT ![d] = worktree]
    /\ UNCHANGED <<claimVars, world, issueStatus, issueClaimedBy, moveTo>>

\* Something that stands where the worktree belongs is left alone.
CheckPath(d) ==
    /\ Goto(d, "path", IF worktree THEN "refused" ELSE "claim")
    /\ UNCHANGED <<claimVars, world, issueStatus, issueClaimedBy, found, moveTo>>

(***************************************************************************)
(* start_ticket_on_board                                                   *)
(***************************************************************************)
StartClaim(d) ==
    /\ Goto(d, "claim", "claiming") /\ BeginClaim(d)
    /\ UNCHANGED <<world, issueStatus, issueClaimedBy, found, moveTo>>

\* Slip: only a granted claim is waited for.
ClaimedGranted(d) ==
    /\ claimPc[d] = "idle" /\ exit[d] = "ok" /\ Goto(d, "claiming", "mv")
    /\ moveTo' = [moveTo EXCEPT ![d] = "in-progress"]
    /\ UNCHANGED <<claimVars, world, issueStatus, issueClaimedBy, found>>

Claimed(d) ==
    /\ claimPc[d] = "idle"
    /\ Goto(d, "claiming", IF exit[d] = "ok" THEN "mv" ELSE "refused")
    /\ moveTo' = [moveTo EXCEPT ![d] = "in-progress"]
    /\ UNCHANGED <<claimVars, world, issueStatus, issueClaimedBy, found>>

Fault == faults < MaxFaults /\ faults' = faults + 1

\* `issue mv`: nothing to do when the row already has the status; else an UPDATE.
Move(d, from, write, next) ==
    /\ Goto(d, from, IF status = moveTo[d] THEN next ELSE write)
    /\ UNCHANGED <<claimVars, world, issueStatus, issueClaimedBy, found, moveTo>>

MoveWrite(d, write, next) ==
    /\ Goto(d, write, next)
    /\ status' = moveTo[d]
    /\ UNCHANGED <<claimVars, issueStatus, issueClaimedBy, found, moveTo,
                   branch, worktree, faults>>

StartMove(d) ==
    \/ Move(d, "mv", "mvWrite", "fork")
    \/ MoveWrite(d, "mvWrite", "fork")

\* rollback_ticket_start restores the status only if START_STATUS_CHANGED, and
\* releases only if START_NEW_CLAIM.
RollBack(d, from) ==
    /\ Goto(d, from, IF issueStatus[d] # "in-progress" THEN "undo"
                     ELSE IF issueClaimedBy[d] = Nobody THEN "release" ELSE "refused")
    /\ moveTo' = [moveTo EXCEPT ![d] = issueStatus[d]]
    /\ UNCHANGED <<claimVars, issueStatus, issueClaimedBy, found>>

MoveFails(d) ==
    /\ Fault /\ (RollBack(d, "mv") \/ RollBack(d, "mvWrite"))
    /\ UNCHANGED <<status, branch, worktree>>

(***************************************************************************)
(* The worktree                                                            *)
(***************************************************************************)
\* A worktree found before the claim is handed out; else have_branch decides
\* between creating the branch and adopting it.
Fork(d) ==
    /\ Goto(d, "fork", IF found[d] THEN "started" ELSE IF branch THEN "adopt" ELSE "add")
    /\ UNCHANGED <<claimVars, world, issueStatus, issueClaimedBy, found, moveTo>>

\* Slips: the worktree is added on a detached head; it is added with --force.
AddDetached(d) ==
    /\ phase[d] \in {"add", "adopt"} /\ ~ worktree
    /\ phase' = [phase EXCEPT ![d] = "started"]
    /\ worktree' = TRUE
    /\ UNCHANGED <<claimVars, status, branch, faults, issueStatus, issueClaimedBy,
                   found, moveTo>>

AddForced(d) ==
    /\ phase[d] \in {"add", "adopt"}
    /\ phase' = [phase EXCEPT ![d] = "started"]
    /\ branch' = TRUE /\ worktree' = TRUE
    /\ UNCHANGED <<claimVars, status, faults, issueStatus, issueClaimedBy, found, moveTo>>

AddWorktree(d) ==
    /\ \/ phase[d] = "add" /\ ~ branch
       \/ phase[d] = "adopt" /\ branch /\ ~ worktree
    /\ phase' = [phase EXCEPT ![d] = "started"]
    /\ branch' = TRUE /\ worktree' = TRUE
    /\ UNCHANGED <<claimVars, status, faults, issueStatus, issueClaimedBy, found, moveTo>>

\* git refuses a branch that exists, or one that is checked out elsewhere.
GitRefuses(d) ==
    /\ \/ branch /\ RollBack(d, "add")
       \/ worktree /\ RollBack(d, "adopt")
    /\ UNCHANGED world

\* git creates the branch before it checks it out, so a failing add may leave it.
GitFails(d) ==
    /\ Fault
    /\ \/ /\ RollBack(d, "add") /\ ~ branch
          /\ branch' \in BOOLEAN
       \/ /\ RollBack(d, "adopt") /\ UNCHANGED branch
    /\ UNCHANGED <<status, worktree>>

(***************************************************************************)
(* rollback_ticket_start                                                   *)
(***************************************************************************)
\* Slip: the claim is kept.
AfterUndoKeep(d) == "refused"

AfterUndo(d) == IF issueClaimedBy[d] = Nobody THEN "release" ELSE "refused"

UndoMove(d) ==
    \/ Move(d, "undo", "undoWrite", AfterUndo(d))
    \/ MoveWrite(d, "undoWrite", AfterUndo(d))

UndoClaim(d) ==
    /\ Goto(d, "release", "releasing") /\ BeginRelease(d)
    /\ UNCHANGED <<world, issueStatus, issueClaimedBy, found, moveTo>>

Undone(d) ==
    /\ claimPc[d] = "idle" /\ Goto(d, "releasing", "refused")
    /\ UNCHANGED <<claimVars, world, issueStatus, issueClaimedBy, found, moveTo>>

\* The undo goes on after a call of its own that fails: it warns.
UndoFails(d) ==
    /\ Fault
    /\ \/ Goto(d, "undo", AfterUndo(d)) \/ Goto(d, "undoWrite", AfterUndo(d))
       \/ Goto(d, "release", "warned")
    /\ UNCHANGED <<claimVars, status, branch, worktree, issueStatus, issueClaimedBy,
                   found, moveTo>>

CommandRuns(d) == ClaimStep(d) /\ UNCHANGED <<shell, world>>

Step(d) ==
    \/ LoadClaim(d) \/ FindWorktree(d) \/ CheckPath(d)
    \/ StartClaim(d) \/ Claimed(d) \/ StartMove(d)
    \/ Fork(d) \/ AddWorktree(d) \/ GitRefuses(d)
    \/ UndoMove(d) \/ UndoClaim(d) \/ Undone(d) \/ CommandRuns(d)

Next == \E d \in Session : LoadStatus(d) \/ Step(d) \/ MoveFails(d) \/ GitFails(d)
                            \/ UndoFails(d)

Spec == Init /\ [][Next]_startVars

\* A script that was started goes on to its end.
FairSpec == Spec /\ \A d \in Session : WF_startVars(Step(d))

(***************************************************************************)
(* Properties                                                              *)
(***************************************************************************)
TypeOK ==
    /\ ClaimTypeOK
    /\ status \in TicketColumns
    /\ branch \in BOOLEAN /\ worktree \in BOOLEAN /\ (worktree => branch)
    /\ phase \in [Session -> Phases]
    /\ issueStatus \in [Session -> TicketColumns]
    /\ issueClaimedBy \in [Session -> Actor \cup {Nobody}]
    /\ found \in [Session -> BOOLEAN]
    /\ moveTo \in [Session -> TicketColumns]
    /\ faults \in 0..MaxFaults

Started == {d \in Session : phase[d] = "started"}

\* Claims prevent duplicate work: one worktree is handed to one actor.
OneActorPerWorktree == \A d, e \in Started : Name[d] = Name[e]

\* git lets one of several starts create the worktree: of the dispatchers that saw
\* none when they looked, one at most comes back with it, whatever became of the claim.
CreatedOnce == \A d, e \in Started : ~ found[d] /\ ~ found[e] => d = e

\* A start that was refused after it took a free claim has given it back, or has said
\* that it could not.
NoStrandedClaim ==
    \A d \in Session :
        phase[d] = "refused" /\ issueClaimedBy[d] = Nobody => holder # Name[d]

\* A start that was begun ends, with a worktree or refused.
EveryStartEnds == \A d \in Session : phase[d] = "show" ~> phase[d] \in {"started", "refused", "warned"}
=============================================================================

-------------------------- MODULE Sessions_proofs --------------------------
(***************************************************************************)
(* Proofs about those who work on one board side by side.                  *)
(*                                                                         *)
(* First the dispatchers of TicketStart and the claim commands they run    *)
(* (Claims), for every number of dispatchers, sessions, actors and faults, *)
(* and for every choice of the sessions that pass --force.                 *)
(*                                                                         *)
(* Then a session of the TUI while others write (TuiApp), for every board, *)
(* every set of columns and milestones, every depth of the stack of undo   *)
(* and every number of writes.                                             *)
(***************************************************************************)
EXTENDS TicketStart, TuiApp, SequenceTheorems, FiniteSetTheorems, WellFoundedInduction, TLAPS

(***************************************************************************)
(* The claim commands                                                      *)
(***************************************************************************)
\* Whoever is recorded as the holder throughout a command is the holder now.
SteadyIsHolder == \A s \in Session : steady[s] \in {Nobody, holder}

\* Nobody comes to the upsert over a claim that was there all along, except by force.
UpsertIsAllowed ==
    \A s \in Session : claimPc[s] = "upsert" /\ s \notin Forcing =>
        steady[s] \in {Nobody, Name[s]}

IInv == ClaimTypeOK /\ SteadyIsHolder /\ UpsertIsAllowed

-----------------------------------------------------------------------------
LEMMA InitInv == ClaimInit => IInv
BY ClaimConstants
   DEF ClaimInit, IInv, ClaimTypeOK, ClaimPC, SteadyIsHolder, UpsertIsAllowed

\* A command begins: what it finds is steady so far.
LEMMA BeginKeepsInv ==
    ASSUME IInv, NEW s \in Session, NEW step \in {"look", "unlook"}, Begin(s, step)
    PROVE  IInv'
<1>1. ClaimTypeOK'
  BY ClaimConstants DEF IInv, Begin, ClaimTypeOK, ClaimPC
<1>2. SteadyIsHolder'
  BY DEF IInv, Begin, SteadyIsHolder, ClaimTypeOK
<1>3. UpsertIsAllowed'
  BY DEF IInv, Begin, UpsertIsAllowed, ClaimTypeOK
<1> QED
  BY <1>1, <1>2, <1>3 DEF IInv

\* The row changes hands: what was steady stays so, or is no longer recorded.
LEMMA HandKeepsInv ==
    ASSUME IInv, NEW s \in Session, NEW a \in Actor \cup {Nobody},
           Hand(a), End(s, "ok"),
           asked' = asked, existing' \in [Session -> Actor \cup {Nobody}]
    PROVE  IInv'
<1>1. \A t \in Session : steady'[t] \in {Nobody, a} /\ steady'[t] \in {Nobody, steady[t]}
  BY DEF Hand
<1>2. ClaimTypeOK'
  BY ClaimConstants DEF IInv, Hand, End, ClaimTypeOK, ClaimPC
<1>3. SteadyIsHolder'
  BY <1>1 DEF SteadyIsHolder, Hand
<1>4. UpsertIsAllowed'
  BY <1>1 DEF IInv, UpsertIsAllowed, End, ClaimTypeOK
<1> QED
  BY <1>2, <1>3, <1>4 DEF IInv

LEMMA StepKeepsInv == IInv /\ [ClaimNext]_claimVars => IInv'
<1> SUFFICES ASSUME IInv, [ClaimNext]_claimVars PROVE IInv'
  OBVIOUS
<1>1. ASSUME NEW s \in Session, BeginClaim(s) \/ BeginRelease(s) PROVE IInv'
  BY <1>1, BeginKeepsInv DEF BeginClaim, BeginRelease
<1>2. ASSUME NEW s \in Session, LookOwn(s) \/ LookRefused(s) PROVE IInv'
  <2>1. ClaimTypeOK'
    BY <1>2 DEF IInv, LookOwn, LookRefused, End, ClaimTypeOK, ClaimPC
  <2>2. SteadyIsHolder'
    BY <1>2 DEF IInv, LookOwn, LookRefused, SteadyIsHolder
  <2>3. UpsertIsAllowed'
    BY <1>2 DEF IInv, LookOwn, LookRefused, End, UpsertIsAllowed, ClaimTypeOK
  <2> QED
    BY <2>1, <2>2, <2>3 DEF IInv
<1>3. ASSUME NEW s \in Session, LookFree(s) PROVE IInv'
  <2>1. ClaimTypeOK'
    BY <1>3 DEF IInv, LookFree, ClaimTypeOK, ClaimPC
  <2>2. SteadyIsHolder'
    BY <1>3 DEF IInv, LookFree, SteadyIsHolder
  <2>3. UpsertIsAllowed'
    <3>1. s \notin Forcing => steady[s] = Nobody
      BY <1>3 DEF IInv, LookFree, SteadyIsHolder
    <3> QED
      BY <1>3, <3>1 DEF IInv, LookFree, UpsertIsAllowed, ClaimTypeOK
  <2> QED
    BY <2>1, <2>2, <2>3 DEF IInv
<1>4. ASSUME NEW s \in Session, Upsert(s) PROVE IInv'
  <2>1. Name[s] \in Actor \cup {Nobody} /\ Hand(Name[s]) /\ End(s, "ok")
    BY <1>4, ClaimConstants DEF Upsert
  <2>2. /\ asked' = asked
        /\ existing' \in [Session -> Actor \cup {Nobody}]
    BY <1>4 DEF Upsert, IInv, ClaimTypeOK
  <2> QED
    BY <2>1, <2>2, HandKeepsInv
<1>5. ASSUME NEW s \in Session, LookHolder(s) PROVE IInv'
  <2>1. ClaimTypeOK'
    BY <1>5 DEF IInv, LookHolder, ClaimTypeOK, ClaimPC
  <2>2. SteadyIsHolder'
    BY <1>5 DEF IInv, LookHolder, SteadyIsHolder
  <2>3. UpsertIsAllowed'
    BY <1>5 DEF IInv, LookHolder, UpsertIsAllowed, ClaimTypeOK
  <2> QED
    BY <2>1, <2>2, <2>3 DEF IInv
<1>6. ASSUME NEW s \in Session, DeleteClaim(s) PROVE IInv'
  <2>1. Hand(Nobody) /\ End(s, "ok") /\ asked' = asked
    BY <1>6 DEF DeleteClaim
  <2>2. existing' \in [Session -> Actor \cup {Nobody}]
    BY <1>6 DEF DeleteClaim, IInv, ClaimTypeOK
  <2> QED
    BY <2>1, <2>2, HandKeepsInv
<1>7. CASE UNCHANGED claimVars
  BY <1>7 DEF claimVars, IInv, ClaimTypeOK, SteadyIsHolder, UpsertIsAllowed
<1> QED
  BY <1>1, <1>2, <1>3, <1>4, <1>5, <1>6, <1>7 DEF ClaimNext, ClaimStep

-----------------------------------------------------------------------------
\* The claim of the issue is an actor's or nobody's, and commands are where claims.rs
\* has a statement.
THEOREM ClaimTypeCorrect == ClaimSpec => []ClaimTypeOK
<1>1. IInv => ClaimTypeOK
  BY DEF IInv
<1> QED
  BY <1>1, InitInv, StepKeepsInv, PTL DEF ClaimSpec

\* However many sessions claim, release and force: a claim that stays from before
\* another session's `claim` began is never overwritten by it without --force.
THEOREM SettledClaims == ClaimSpec => SettledClaimsHold
<1> DEFINE A == \A s \in Session : Upsert(s) /\ s \notin Forcing =>
                    steady[s] \in {Nobody, Name[s]}
<1>1. IInv => A
  BY DEF IInv, UpsertIsAllowed, Upsert
<1>2. IInv /\ [ClaimNext]_claimVars => [A]_claimVars
  BY <1>1
<1> QED
  BY <1>2, InitInv, StepKeepsInv, PTL DEF ClaimSpec, SettledClaimsHold

-----------------------------------------------------------------------------
\* A dispatcher's steps are, to the claim, steps of a session that claims and
\* releases, or none.
LEMMA StartStepIsClaimStep == [Next]_startVars => [ClaimNext]_claimVars
<1> SUFFICES ASSUME [Next]_startVars PROVE [ClaimNext]_claimVars
  OBVIOUS
<1>1. ASSUME NEW d \in Session, StartClaim(d) \/ UndoClaim(d) PROVE ClaimNext
  BY <1>1 DEF StartClaim, UndoClaim, ClaimNext
<1>2. ASSUME NEW d \in Session, CommandRuns(d) PROVE ClaimNext
  BY <1>2 DEF CommandRuns, ClaimNext
<1>3. ASSUME NEW d \in Session,
             \/ LoadStatus(d) \/ LoadClaim(d) \/ FindWorktree(d) \/ CheckPath(d)
             \/ Claimed(d) \/ StartMove(d) \/ Fork(d) \/ AddWorktree(d)
             \/ GitRefuses(d) \/ UndoMove(d) \/ Undone(d) \/ MoveFails(d) \/ GitFails(d)
             \/ UndoFails(d)
      PROVE  UNCHANGED claimVars
  BY <1>3 DEF LoadStatus, LoadClaim, FindWorktree, CheckPath, Claimed, StartMove, Move,
              MoveWrite, Fork, AddWorktree, GitRefuses, RollBack, UndoMove, Undone,
              MoveFails, GitFails, UndoFails
<1>4. CASE UNCHANGED startVars
  BY <1>4 DEF startVars
<1> QED
  BY <1>1, <1>2, <1>3, <1>4 DEF Next, Step

\* Dispatchers that start a ticket are sessions of Claims: what is proved of those
\* (SettledClaims) holds of every `ticket start`.
THEOREM StartsAreClaims == Spec => ClaimSpec
<1>1. Init => ClaimInit
  BY DEF Init
<1> QED
  BY <1>1, StartStepIsClaimStep, PTL DEF Spec, ClaimSpec

-----------------------------------------------------------------------------
\* What the shell scripts hold has its type.
ShellTypeOK ==
    /\ phase \in [Session -> Phases]
    /\ issueStatus \in [Session -> TicketColumns]
    /\ issueClaimedBy \in [Session -> Actor \cup {Nobody}]
    /\ found \in [Session -> BOOLEAN]
    /\ moveTo \in [Session -> TicketColumns]

WorldTypeOK ==
    /\ status \in TicketColumns
    /\ branch \in BOOLEAN /\ worktree \in BOOLEAN /\ (worktree => branch)
    /\ faults \in 0..MaxFaults

LEMMA ShellStep == TypeOK /\ [Next]_startVars => ShellTypeOK'
<1> SUFFICES ASSUME TypeOK, [Next]_startVars PROVE ShellTypeOK'
  OBVIOUS
<1> USE DEF TypeOK, ShellTypeOK, Phases
<1>1. ASSUME NEW d \in Session, LoadStatus(d) PROVE ShellTypeOK'
  BY <1>1 DEF LoadStatus, Goto
<1>2. ASSUME NEW d \in Session, LoadClaim(d) PROVE ShellTypeOK'
  BY <1>2 DEF LoadClaim, Goto, ClaimTypeOK
<1>3. ASSUME NEW d \in Session, FindWorktree(d) PROVE ShellTypeOK'
  BY <1>3 DEF FindWorktree, Goto
<1>4. ASSUME NEW d \in Session, CheckPath(d) \/ StartClaim(d) \/ Fork(d)
      PROVE  ShellTypeOK'
  BY <1>4 DEF CheckPath, StartClaim, Fork, Goto
<1>5. ASSUME NEW d \in Session, Claimed(d) PROVE ShellTypeOK'
  BY <1>5 DEF Claimed, Goto, TicketColumns
<1>6. ASSUME NEW d \in Session, StartMove(d) PROVE ShellTypeOK'
  BY <1>6 DEF StartMove, Move, MoveWrite, Goto
<1>7. ASSUME NEW d \in Session, AddWorktree(d) PROVE ShellTypeOK'
  BY <1>7 DEF AddWorktree
<1>8. ASSUME NEW d \in Session, NEW from, RollBack(d, from) PROVE ShellTypeOK'
  BY <1>8 DEF RollBack, Goto
<1>9. ASSUME NEW d \in Session, MoveFails(d) \/ GitRefuses(d) \/ GitFails(d)
      PROVE  ShellTypeOK'
  BY <1>9, <1>8 DEF MoveFails, GitRefuses, GitFails
<1>10. ASSUME NEW d \in Session, UndoMove(d) PROVE ShellTypeOK'
  BY <1>10 DEF UndoMove, Move, MoveWrite, AfterUndo, Goto
<1>11. ASSUME NEW d \in Session, UndoClaim(d) \/ Undone(d) \/ UndoFails(d) PROVE ShellTypeOK'
  BY <1>11 DEF UndoClaim, Undone, UndoFails, AfterUndo, Goto
<1>12. ASSUME NEW d \in Session, CommandRuns(d) PROVE ShellTypeOK'
  BY <1>12 DEF CommandRuns, shell
<1>13. CASE UNCHANGED startVars
  BY <1>13 DEF startVars, shell
<1> QED
  BY <1>1, <1>2, <1>3, <1>4, <1>5, <1>6, <1>7, <1>9, <1>10, <1>11, <1>12, <1>13
     DEF Next, Step

LEMMA WorldStep == TypeOK /\ [Next]_startVars => WorldTypeOK'
<1> SUFFICES ASSUME TypeOK, [Next]_startVars PROVE WorldTypeOK'
  OBVIOUS
<1> USE DEF TypeOK, WorldTypeOK
<1>1. ASSUME NEW d \in Session,
             \/ LoadStatus(d) \/ LoadClaim(d) \/ FindWorktree(d) \/ CheckPath(d)
             \/ StartClaim(d) \/ Claimed(d) \/ Fork(d) \/ GitRefuses(d)
             \/ UndoClaim(d) \/ Undone(d) \/ CommandRuns(d)
      PROVE  WorldTypeOK'
  BY <1>1 DEF LoadStatus, LoadClaim, FindWorktree, CheckPath, StartClaim, Claimed, Fork,
              GitRefuses, UndoClaim, Undone, CommandRuns, world
<1>3. ASSUME NEW d \in Session, StartMove(d) \/ UndoMove(d) PROVE WorldTypeOK'
  BY <1>3 DEF StartMove, UndoMove, Move, MoveWrite, world
<1>4. ASSUME NEW d \in Session, AddWorktree(d) PROVE WorldTypeOK'
  BY <1>4 DEF AddWorktree
<1>5. ASSUME NEW d \in Session, MoveFails(d) \/ GitFails(d) \/ UndoFails(d) PROVE WorldTypeOK'
  BY <1>5, StartConstants DEF MoveFails, GitFails, UndoFails, Fault
<1>6. CASE UNCHANGED startVars
  BY <1>6 DEF startVars, world
<1> QED
  BY <1>1, <1>3, <1>4, <1>5, <1>6 DEF Next, Step

LEMMA InitType == Init => TypeOK
<1> SUFFICES ASSUME Init PROVE TypeOK
  OBVIOUS
<1>1. ClaimTypeOK
  BY InitInv DEF Init, IInv
<1> QED
  <2>1. ShellTypeOK
    BY DEF Init, ShellTypeOK, TicketColumns, Phases
  <2>2. WorldTypeOK
    <3>1. status \in TicketColumns /\ faults \in 0..MaxFaults
      BY StartConstants DEF Init
    <3>2. branch \in BOOLEAN /\ worktree \in BOOLEAN /\ (worktree => branch)
      BY Zenon DEF Init
    <3> QED
      BY <3>1, <3>2, Zenon DEF WorldTypeOK
  <2> QED
    BY <1>1, <2>1, <2>2 DEF TypeOK, ShellTypeOK, WorldTypeOK

LEMMA StartTypeStep ==
    IInv /\ TypeOK /\ [Next]_startVars => IInv' /\ TypeOK'
<1> SUFFICES ASSUME IInv, TypeOK, [Next]_startVars PROVE IInv' /\ TypeOK'
  OBVIOUS
<1>1. IInv'
  BY StartStepIsClaimStep, StepKeepsInv
<1>2. ClaimTypeOK'
  BY <1>1 DEF IInv
<1> QED
  <2>1. ShellTypeOK' /\ WorldTypeOK'
    BY ShellStep, WorldStep
  <2> QED
    BY <1>1, <1>2, <2>1 DEF TypeOK, ShellTypeOK, WorldTypeOK

\* The dispatchers' variables have their types, and a worktree has its branch.
THEOREM StartTypeCorrect == Spec => []TypeOK
<1>1. Init => IInv /\ TypeOK
  BY InitInv, InitType DEF Init
<1> QED
  BY <1>1, StartTypeStep, PTL DEF Spec

-----------------------------------------------------------------------------
\* The worktree that a start reports as new is there.
NewIsThere == \A d \in Started : ~ found[d] => worktree

\* A step after which no dispatcher has started that had not before.
LEMMA NobodyStarts ==
    ASSUME CreatedOnce, NewIsThere, Started' \subseteq Started, worktree' = worktree,
           \A d \in Started : found'[d] = found[d]
    PROVE  CreatedOnce' /\ NewIsThere'
BY DEF CreatedOnce, NewIsThere

LEMMA CreatedStep ==
    TypeOK /\ CreatedOnce /\ NewIsThere /\ [Next]_startVars => CreatedOnce' /\ NewIsThere'
<1> SUFFICES ASSUME TypeOK, CreatedOnce, NewIsThere, [Next]_startVars
             PROVE  CreatedOnce' /\ NewIsThere'
  OBVIOUS
<1>0. phase \in [Session -> Phases] /\ found \in [Session -> BOOLEAN]
  BY DEF TypeOK
<1> DEFINE Quiet == /\ Started' \subseteq Started /\ worktree' = worktree
                    /\ \A d \in Started : found'[d] = found[d]
<1>1. ASSUME NEW d \in Session,
             \/ LoadStatus(d) \/ LoadClaim(d) \/ CheckPath(d) \/ StartClaim(d)
             \/ Claimed(d) \/ UndoClaim(d) \/ Undone(d) \/ UndoFails(d)
      PROVE  Quiet
  BY <1>0, <1>1 DEF LoadStatus, LoadClaim, CheckPath, StartClaim, Claimed,
              UndoClaim, Undone, UndoFails, AfterUndo, Goto, world, Started
<1>2. ASSUME NEW d \in Session, FindWorktree(d) PROVE Quiet
  BY <1>0, <1>2 DEF FindWorktree, Goto, world, Started
<1>3. ASSUME NEW d \in Session, StartMove(d) \/ UndoMove(d) PROVE Quiet
  BY <1>0, <1>3 DEF StartMove, UndoMove, Move, MoveWrite, AfterUndo, Goto, world, Started
<1>4. ASSUME NEW d \in Session, MoveFails(d) \/ GitRefuses(d) \/ GitFails(d) PROVE Quiet
  <2>1. PICK from \in {"mv", "mvWrite", "add", "adopt"} : RollBack(d, from)
    BY <1>4 DEF MoveFails, GitRefuses, GitFails
  <2>2. Started' \subseteq Started /\ found' = found
    BY <1>0, <2>1 DEF RollBack, Goto, Started
  <2>3. worktree' = worktree
    BY <1>4 DEF MoveFails, GitRefuses, GitFails, world
  <2> QED
    BY <2>2, <2>3
<1>5. ASSUME NEW d \in Session, CommandRuns(d) PROVE Quiet
  BY <1>5 DEF CommandRuns, shell, world, Started
<1>6. ASSUME NEW d \in Session, Fork(d) PROVE CreatedOnce' /\ NewIsThere'
  <2>1. Started' \subseteq Started \cup {e \in Session : found[e]}
    BY <1>0, <1>6 DEF Fork, Goto, Started
  <2>2. found' = found /\ worktree' = worktree
    BY <1>6 DEF Fork, world
  <2> QED
    BY <2>1, <2>2 DEF CreatedOnce, NewIsThere
<1>7. ASSUME NEW d \in Session, AddWorktree(d) PROVE CreatedOnce' /\ NewIsThere'
  <2>1. ~ worktree
    BY <1>7 DEF AddWorktree, TypeOK
  <2>2. \A e \in Started : found[e]
    BY <2>1 DEF NewIsThere
  <2>3. Started' \subseteq Started \cup {d} /\ found' = found /\ worktree'
    BY <1>0, <1>7 DEF AddWorktree, Started
  <2> QED
    BY <2>2, <2>3 DEF CreatedOnce, NewIsThere
<1>8. CASE UNCHANGED startVars
  BY <1>8 DEF startVars, shell, world, CreatedOnce, NewIsThere, Started
<1> QED
  BY <1>1, <1>2, <1>3, <1>4, <1>5, <1>6, <1>7, <1>8, NobodyStarts DEF Next, Step

\* Among any number of dispatchers, of those that saw no worktree one at most is told
\* that it created the worktree.
THEOREM WorktreeCreatedOnce == Spec => []CreatedOnce
<1>1. Init => IInv /\ TypeOK
  BY InitInv, InitType DEF Init
<1>2. Init => CreatedOnce /\ NewIsThere
  BY DEF Init, CreatedOnce, NewIsThere, Started
<1> QED
  BY <1>1, <1>2, StartTypeStep, CreatedStep, PTL DEF Spec

-----------------------------------------------------------------------------
\* A session's claim command runs only while its dispatcher waits for it.
Waiting ==
    \A d \in Session :
        /\ phase[d] = "claiming" => claimPc[d] \in {"idle", "look", "upsert"}
        /\ phase[d] = "releasing" => claimPc[d] \in {"idle", "unlook", "delete"}
        /\ phase[d] \notin {"claiming", "releasing"} => claimPc[d] = "idle"

\* Where a dispatcher may stand whose actor holds the claim.
MayHold(d) ==
    \/ phase[d] \in {"mv", "mvWrite", "fork", "add", "adopt", "undo", "undoWrite",
                     "release", "started"}
    \/ phase[d] = "claiming" /\ (claimPc[d] = "idle" => exit[d] = "ok")
    \/ phase[d] = "releasing" /\ claimPc[d] # "idle"
    \/ phase[d] = "refused" /\ issueClaimedBy[d] # Nobody
    \/ phase[d] = "warned"

HolderMay == \A d \in Session : holder = Name[d] => MayHold(d)

ClaimInv == Waiting /\ HolderMay

\* Every dispatcher is an actor of its own.
OwnActors == \A d, e \in Session : Name[d] = Name[e] => d = e

\* What a step of the claim command of d may do to the claim.
LEMMA CommandKeepsClaimInv ==
    ASSUME TypeOK, ClaimInv, OwnActors, NEW d \in Session, CommandRuns(d)
    PROVE  ClaimInv'
<1>0. /\ phase \in [Session -> Phases] /\ phase' = phase
      /\ claimPc \in [Session -> ClaimPC] /\ exit \in [Session -> {"ok", "error"}]
      /\ issueClaimedBy' = issueClaimedBy
      /\ Name \in [Session -> Actor] /\ Nobody \notin Actor
  BY ClaimConstants DEF TypeOK, ClaimTypeOK, CommandRuns, shell
<1>1. CASE LookOwn(d)
  BY <1>0, <1>1 DEF LookOwn, End, ClaimInv, Waiting, HolderMay, MayHold
<1>2. CASE LookRefused(d)
  BY <1>0, <1>2 DEF LookRefused, End, ClaimInv, Waiting, HolderMay, MayHold
<1>3. CASE LookFree(d)
  BY <1>0, <1>3 DEF LookFree, ClaimInv, Waiting, HolderMay, MayHold
<1>4. CASE Upsert(d)
  <2>1. phase[d] = "claiming" /\ claimPc' = [claimPc EXCEPT ![d] = "idle"] /\ exit'[d] = "ok"
    BY <1>0, <1>4 DEF Upsert, End, ClaimInv, Waiting
  <2>2. \A e \in Session : holder' = Name[e] => e = d
    BY <1>4 DEF Upsert, Hand, OwnActors
  <2>3. Waiting'
    BY <1>0, <2>1 DEF ClaimInv, Waiting
  <2>4. HolderMay'
    BY <1>0, <2>1, <2>2 DEF HolderMay, MayHold
  <2> QED
    BY <2>3, <2>4 DEF ClaimInv
<1>5. CASE LookHolder(d)
  BY <1>0, <1>5 DEF LookHolder, ClaimInv, Waiting, HolderMay, MayHold
<1>6. CASE DeleteClaim(d)
  <2>1. holder' = Nobody /\ claimPc' = [claimPc EXCEPT ![d] = "idle"]
    BY <1>6 DEF DeleteClaim, Hand, End
  <2>2. HolderMay'
    BY <1>0, <2>1 DEF HolderMay
  <2>3. Waiting'
    BY <1>0, <1>6, <2>1 DEF DeleteClaim, ClaimInv, Waiting
  <2> QED
    BY <2>2, <2>3 DEF ClaimInv
<1> QED
  BY <1>1, <1>2, <1>3, <1>4, <1>5, <1>6 DEF CommandRuns, ClaimStep

LEMMA ClaimInvStep ==
    ASSUME OwnActors
    PROVE  TypeOK /\ ClaimInv /\ [Next]_startVars => ClaimInv'
<1> SUFFICES ASSUME TypeOK, ClaimInv, [Next]_startVars PROVE ClaimInv'
  OBVIOUS
<1>0. /\ phase \in [Session -> Phases]
      /\ claimPc \in [Session -> ClaimPC] /\ exit \in [Session -> {"ok", "error"}]
  BY DEF TypeOK, ClaimTypeOK
<1> USE DEF ClaimInv, Waiting, HolderMay, MayHold, Goto
<1>1. ASSUME NEW d \in Session, LoadStatus(d) \/ FindWorktree(d) \/ CheckPath(d)
      PROVE  ClaimInv'
  BY <1>0, <1>1 DEF LoadStatus, FindWorktree, CheckPath, claimVars
<1>2. ASSUME NEW d \in Session, LoadClaim(d) PROVE ClaimInv'
  BY <1>0, <1>2 DEF LoadClaim, claimVars
<1>3. ASSUME NEW d \in Session, StartClaim(d) PROVE ClaimInv'
  BY <1>0, <1>3 DEF StartClaim, BeginClaim, Begin
<1>4. ASSUME NEW d \in Session, Claimed(d) PROVE ClaimInv'
  BY <1>0, <1>4 DEF Claimed, claimVars
<1>5. ASSUME NEW d \in Session, StartMove(d) PROVE ClaimInv'
  BY <1>0, <1>5 DEF StartMove, Move, MoveWrite, claimVars
<1>6. ASSUME NEW d \in Session, Fork(d) \/ AddWorktree(d) PROVE ClaimInv'
  BY <1>0, <1>6 DEF Fork, AddWorktree, claimVars
<1>7. ASSUME NEW d \in Session, GitRefuses(d) \/ GitFails(d) \/ MoveFails(d)
      PROVE  ClaimInv'
  <2>1. PICK from \in {"mv", "mvWrite", "add", "adopt"} : RollBack(d, from)
    BY <1>7 DEF MoveFails, GitRefuses, GitFails
  <2> QED
    BY <1>0, <2>1 DEF RollBack, claimVars
<1>8. ASSUME NEW d \in Session, UndoMove(d) PROVE ClaimInv'
  BY <1>0, <1>8 DEF UndoMove, Move, MoveWrite, AfterUndo, claimVars
<1>9. ASSUME NEW d \in Session, UndoClaim(d) PROVE ClaimInv'
  BY <1>0, <1>9 DEF UndoClaim, BeginRelease, Begin
<1>10. ASSUME NEW d \in Session, Undone(d) \/ UndoFails(d) PROVE ClaimInv'
  BY <1>0, <1>10 DEF Undone, UndoFails, AfterUndo, claimVars
<1>11. ASSUME NEW d \in Session, CommandRuns(d) PROVE ClaimInv'
  BY <1>11, CommandKeepsClaimInv
<1>12. CASE UNCHANGED startVars
  BY <1>12 DEF startVars, shell, claimVars
<1> QED
  BY <1>1, <1>2, <1>3, <1>4, <1>5, <1>6, <1>7, <1>8, <1>9, <1>10, <1>11, <1>12
     DEF Next, Step

\* Whatever fails and whoever else starts the ticket: a refused start that found the
\* ticket unclaimed leaves no claim of its own behind, unless it has warned that it does.
THEOREM RefusedGivesBack ==
    ASSUME OwnActors
    PROVE  Spec => []NoStrandedClaim
<1>1. Init => IInv /\ TypeOK
  BY InitInv, InitType DEF Init
<1>2. Init => ClaimInv
  BY ClaimConstants DEF Init, ClaimInit, ClaimInv, Waiting, HolderMay, MayHold
<1>3. TypeOK /\ ClaimInv /\ [Next]_startVars => ClaimInv'
  BY ClaimInvStep
<1>4. ClaimInv => NoStrandedClaim
  BY DEF ClaimInv, HolderMay, MayHold, NoStrandedClaim
<1> QED
  BY <1>1, <1>2, <1>3, <1>4, StartTypeStep, PTL DEF Spec

-----------------------------------------------------------------------------
(***************************************************************************)
(* The commands on the database.                                           *)
(***************************************************************************)
\* A set of naturals that has an element has a least one.
LEMMA LeastIs ==
    ASSUME NEW S \in SUBSET Nat, S # {}
    PROVE  /\ Min(S) \in S
           /\ \A y \in S : Min(S) <= y
<1>1. PICK x \in S : \A y \in S : ~(<<y, x>> \in OpToRel(<, Nat))
  BY NatLessThanWellFounded, WFMin
<1>2. \A y \in S : x <= y
  <2> TAKE y \in S
  <2>1. x \in Nat /\ y \in Nat
    OBVIOUS
  <2>2. <<y, x>> \in Nat \X Nat /\ <<y, x>>[1] = y /\ <<y, x>>[2] = x
    BY <2>1
  <2>3. ~(y < x)
    <3>1. SUFFICES ASSUME y < x PROVE <<y, x>> \in OpToRel(<, Nat)
      BY <1>1
    <3> QED
      BY <3>1, <2>2 DEF OpToRel
  <2> QED
    BY <2>1, <2>3
<1> QED
  BY <1>2 DEF Min

\* Integers indexed by the cards have a bound: at the least number of cards without one, the
\* last card and the bound of the others would make one.
LEMMA CardsAreBounded ==
    ASSUME NEW n \in Nat, NEW f \in [1..n -> Int]
    PROVE  \E b \in Nat : \A k \in 1..n : f[k] <= b
<1> DEFINE Bound(m, b) == \A k \in 1..m : f[k] <= b
           T == {m \in 0..n : \A b \in Nat : ~Bound(m, b)}
<1>1. SUFFICES ASSUME T # {} PROVE FALSE
  <2>1. n \notin T
    BY <1>1
  <2> QED
    BY <2>1
<1> DEFINE m == Min(T)
<1>2. m \in T /\ \A x \in T : m <= x
  <2>1. T \in SUBSET Nat
    OBVIOUS
  <2> HIDE DEF T
  <2> QED
    BY <1>1, <2>1, LeastIs
<1>3. m # 0
  <2>1. Bound(0, 0)
    OBVIOUS
  <2> QED
    BY <1>2, <2>1
<1>4. m - 1 \in 0..n /\ m - 1 \notin T /\ m \in 1..n
  <2> HIDE DEF Bound
  <2> QED
    BY <1>2, <1>3
<1>5. PICK b \in Nat : Bound(m - 1, b)
  BY <1>4
<1>6. f[m] \in Int
  BY <1>4
<1>7. PICK c \in Nat : b <= c /\ f[m] <= c
  <2>1. ASSUME NEW v \in Int PROVE \E c \in Nat : b <= c /\ v <= c
    <3>1. CASE v <= b
      <4>1. b \in Nat /\ b <= b /\ v <= b
        BY <3>1
      <4> QED
        BY <4>1
    <3>2. CASE ~(v <= b)
      <4>1. v \in Nat /\ b <= v /\ v <= v
        BY <3>2
      <4> QED
        BY <4>1
    <3> QED
      BY <3>1, <3>2
  <2> QED
    BY <1>6, <2>1
<1>8. Bound(m, c)
  <2> SUFFICES ASSUME NEW k \in 1..m PROVE f[k] <= c
    OBVIOUS
  <2>1. CASE k = m
    BY <2>1, <1>7
  <2>2. CASE k \in 1..(m - 1)
    <3>1. f[k] <= b
      BY <1>5, <2>2
    <3>2. f[k] \in Int
      BY <1>4
    <3> QED
      BY <3>1, <3>2, <1>7
  <2> QED
    BY <2>1, <2>2, <1>4
<1> QED
  <2> HIDE DEF Bound
  <2> QED
    BY <1>2, <1>8

\* A set of integers with a bound that has an element has a greatest one.
LEMMA GreatestIs ==
    ASSUME NEW S \in SUBSET Int, S # {}, NEW b \in Int, \A y \in S : y <= b
    PROVE  /\ Max(S) \in S
           /\ \A y \in S : y <= Max(S)
<1> DEFINE T == {b - x : x \in S}
<1>1. \A x \in S : b - x \in Nat
  OBVIOUS
<1>2. T \in SUBSET Nat /\ T # {}
  BY <1>1
<1> DEFINE t == Min(T)
<1>3. t \in T /\ \A u \in T : t <= u
  <2> HIDE DEF T
  <2> QED
    BY <1>2, LeastIs
<1>4. PICK x \in S : t = b - x
  BY <1>3
<1>5. \A y \in S : b - x <= b - y
  BY <1>3, <1>4
<1>6. ASSUME NEW y \in S PROVE x >= y
  BY <1>1, <1>5
<1>7. \A y \in S : Max(S) >= y
  BY <1>6 DEF Max
<1>8. Max(S) \in S
  BY <1>6 DEF Max
<1> QED
  BY <1>7, <1>8

Present(d) == {k \in Cards : d.cards[k] # None}

LEMMA Rows ==
    ASSUME NEW d \in Database, NEW k \in Present(d)
    PROVE  k \in Cards /\ d.cards[k] \in CardRow /\ d.cards[k] # None
BY DEF Present, Database

\* Where a card goes at the end of a column is below all that are in it.
LEMMA PlacesHaveAMax ==
    ASSUME TuiConstants, NEW d \in Database, NEW p, NEW st
    PROVE  /\ Max(Places(d, p, st)) \in Int
           /\ \A x \in Places(d, p, st) : x \in Int /\ x <= Max(Places(d, p, st))
<1> DEFINE f == [k \in 1..MaxCards |-> IF d.cards[k] # None THEN d.cards[k].pos ELSE 0]
           S == Places(d, p, st)
<1>1. MaxCards \in Nat /\ Cards = 1..MaxCards
  BY DEF TuiConstants, Cards
<1>2. \A k \in Cards : d.cards[k] # None => d.cards[k].pos \in Int
  BY Rows DEF Present, CardRow
<1>3. f \in [1..MaxCards -> Int]
  BY <1>1, <1>2
<1>4. PICK b \in Nat : \A k \in 1..MaxCards : f[k] <= b
  <2> HIDE DEF f
  <2> QED
    BY <1>1, <1>3, CardsAreBounded
<1>5. \A x \in S : x \in Int /\ x <= b
  BY <1>1, <1>2, <1>4 DEF Places
<1>6. S \in SUBSET Int /\ 0 \in S
  BY <1>5 DEF Places
<1>7. Max(S) \in S /\ \A y \in S : y <= Max(S)
  <2> HIDE DEF S
  <2> QED
    BY <1>5, <1>6, GreatestIs
<1> QED
  BY <1>5, <1>7
-----------------------------------------------------------------------------
Put(d, k, r) == [d EXCEPT !.cards[k] = r]

LEMMA RowReplaced ==
    ASSUME TuiConstants, NEW d \in Database, NEW k \in Cards, NEW r \in CardRow
    PROVE  /\ Put(d, k, r) \in Database /\ Present(Put(d, k, r)) = Present(d) \cup {k}
           /\ k \in Present(d) => Present(Put(d, k, r)) = Present(d)
           /\ Put(d, k, r).cards[k] = r
           /\ \A j \in Cards \ {k} : Put(d, k, r).cards[j] = d.cards[j]
           /\ Put(d, k, r).stones = d.stones
<1>1. d.cards \in [Cards -> CardRow \cup {None}]
  BY DEF Database
<1>2. /\ Put(d, k, r) \in Database
      /\ Put(d, k, r).cards = [d.cards EXCEPT ![k] = r] /\ Put(d, k, r).stones = d.stones
  BY <1>1 DEF Database, Put
<1>3. /\ Put(d, k, r).cards[k] = r
      /\ \A j \in Cards \ {k} : Put(d, k, r).cards[j] = d.cards[j]
  BY <1>1, <1>2
<1>4. r # None
  BY DEF TuiConstants
<1>5. Present(Put(d, k, r)) = Present(d) \cup {k}
  BY <1>3, <1>4 DEF Present
<1> QED
  BY <1>2, <1>3, <1>5

LEMMA WrittenRow ==
    ASSUME TuiConstants, own \in Nat, others \in Nat, NEW d \in Database, NEW k \in Present(d)
    PROVE  /\ Written(d, k) \in Database /\ Present(Written(d, k)) = Present(d)
           /\ \A j \in Cards \ {k} : Written(d, k).cards[j] = d.cards[j]
           /\ \E x \in Nat : Written(d, k).cards[k] = [d.cards[k] EXCEPT !.at = x]
           /\ Written(d, k).stones = d.stones
<1> DEFINE x == IF d.cards[k].stone = None \/ d.cards[k].archived THEN 0 ELSE Now
           r == [d.cards[k] EXCEPT !.at = x]
<1>1. x \in Nat
  BY DEF Now
<1>2. k \in Cards /\ d.cards[k] \in CardRow
  BY Rows
<1>3. r \in CardRow
  <2> HIDE DEF x
  <2> QED
    BY <1>1, <1>2 DEF CardRow
<1>4. Written(d, k) = Put(d, k, r)
  BY DEF Written, Put
<1> HIDE DEF r
<1>5. /\ Written(d, k) \in Database /\ Present(Written(d, k)) = Present(d) \cup {k}
      /\ Written(d, k).cards[k] = r
      /\ \A j \in Cards \ {k} : Written(d, k).cards[j] = d.cards[j]
      /\ Written(d, k).stones = d.stones
  BY <1>2, <1>3, <1>4, RowReplaced
<1> QED
  BY <1>1, <1>5 DEF r

\* One card changes, and of it nothing but what the command is about.
LEMMA MovedRow ==
    ASSUME TuiConstants, own \in Nat, others \in Nat,
           NEW d \in Database, NEW k \in Present(d), NEW st \in Status
    PROVE  /\ Moved(d, k, st) \in Database /\ Present(Moved(d, k, st)) = Present(d)
           /\ \A j \in Cards \ {k} : Moved(d, k, st).cards[j] = d.cards[j]
           /\ Moved(d, k, st).cards[k].status = st
           /\ Moved(d, k, st).cards[k].pos = 1 + Max(Places(d, d.cards[k].project, st))
           /\ \A f \in {"project", "archived", "stone"} :
                  Moved(d, k, st).cards[k][f] = d.cards[k][f]
<1> DEFINE pos == 1 + Max(Places(d, d.cards[k].project, st))
           r == [d.cards[k] EXCEPT !.status = st, !.pos = pos]
           e == [d EXCEPT !.cards[k].status = st, !.cards[k].pos = pos]
<1>1. pos \in Int
  BY PlacesHaveAMax
<1>2. k \in Cards /\ d.cards[k] \in CardRow
  BY Rows
<1> HIDE DEF pos
<1>3. /\ r \in CardRow /\ r.status = st /\ r.pos = pos
      /\ \A f \in {"project", "archived", "stone"} : r[f] = d.cards[k][f]
  BY <1>1, <1>2 DEF CardRow
<1>4. e = Put(d, k, r)
  BY <1>2 DEF Database, CardRow, Put
<1> HIDE DEF r, e
<1>5. /\ e \in Database /\ Present(e) = Present(d)
      /\ e.cards[k] = r
      /\ \A j \in Cards \ {k} : e.cards[j] = d.cards[j]
  BY <1>2, <1>3, <1>4, RowReplaced
<1>6. Moved(d, k, st) = Written(e, k)
  BY DEF Moved, e, pos
<1>7. /\ Written(e, k) \in Database /\ Present(Written(e, k)) = Present(e)
      /\ \A j \in Cards \ {k} : Written(e, k).cards[j] = e.cards[j]
  BY <1>5, WrittenRow
<1>8. PICK x \in Nat : Written(e, k).cards[k] = [r EXCEPT !.at = x]
  BY <1>5, WrittenRow
<1>9. /\ Written(e, k).cards[k].status = st /\ Written(e, k).cards[k].pos = pos
      /\ \A f \in {"project", "archived", "stone"} : Written(e, k).cards[k][f] = d.cards[k][f]
  BY <1>3, <1>8 DEF CardRow
<1> QED
  BY <1>5, <1>6, <1>7, <1>9 DEF pos

LEMMA ArchivedRow ==
    ASSUME TuiConstants, own \in Nat, others \in Nat,
           NEW d \in Database, NEW k \in Present(d), NEW b \in BOOLEAN
    PROVE  /\ Archived(d, k, b) \in Database /\ Present(Archived(d, k, b)) = Present(d)
           /\ \A j \in Cards \ {k} : Archived(d, k, b).cards[j] = d.cards[j]
           /\ Archived(d, k, b).cards[k].archived = b
           /\ Archived(d, k, b).cards[k].status = d.cards[k].status
<1> DEFINE r == [d.cards[k] EXCEPT !.archived = b]
           e == [d EXCEPT !.cards[k].archived = b]
<1>2. k \in Cards /\ d.cards[k] \in CardRow
  BY Rows
<1>3. r \in CardRow /\ r.archived = b /\ r.status = d.cards[k].status
  BY <1>2 DEF CardRow
<1>4. e = Put(d, k, r)
  BY <1>2 DEF Database, CardRow, Put
<1> HIDE DEF r, e
<1>5. /\ e \in Database /\ Present(e) = Present(d)
      /\ e.cards[k] = r
      /\ \A j \in Cards \ {k} : e.cards[j] = d.cards[j]
  BY <1>2, <1>3, <1>4, RowReplaced
<1>6. Archived(d, k, b) = Written(e, k)
  BY DEF Archived, e
<1>7. /\ Written(e, k) \in Database /\ Present(Written(e, k)) = Present(e)
      /\ \A j \in Cards \ {k} : Written(e, k).cards[j] = e.cards[j]
  BY <1>5, WrittenRow
<1>8. PICK x \in Nat : Written(e, k).cards[k] = [r EXCEPT !.at = x]
  BY <1>5, WrittenRow
<1>9. Written(e, k).cards[k].archived = b /\ Written(e, k).cards[k].status = d.cards[k].status
  BY <1>3, <1>8 DEF CardRow
<1> QED
  BY <1>5, <1>6, <1>7, <1>9

LEMMA SwappedRows ==
    ASSUME TuiConstants, own \in Nat, others \in Nat,
           NEW d \in Database, NEW j \in Present(d), NEW k \in Present(d)
    PROVE  /\ Swapped(d, j, k) \in Database /\ Present(Swapped(d, j, k)) = Present(d)
           /\ \A i \in Cards \ {j, k} : Swapped(d, j, k).cards[i] = d.cards[i]
           /\ \A i \in Present(d), f \in {"project", "status", "archived", "stone"} :
                  Swapped(d, j, k).cards[i][f] = d.cards[i][f]
           /\ j # k => Swapped(d, j, k).cards[j].pos = d.cards[k].pos
           /\ Swapped(d, j, k).cards[k].pos = d.cards[j].pos
<1> DEFINE p == [d.cards[j] EXCEPT !.pos = d.cards[k].pos]
           c == Put(d, j, p)
           q == [c.cards[k] EXCEPT !.pos = d.cards[j].pos]
           e == [c EXCEPT !.cards[k] = q]
<1>1. /\ j \in Cards /\ k \in Cards
      /\ \A i \in Present(d) : i \in Cards /\ d.cards[i] \in CardRow /\ d.cards[i].pos \in Int
  BY Rows DEF CardRow
<1>2. /\ p \in CardRow /\ p.pos = d.cards[k].pos
      /\ \A f \in {"project", "status", "archived", "stone"} : p[f] = d.cards[j][f]
  BY <1>1 DEF CardRow
<1> HIDE DEF p
<1>3. /\ c \in Database /\ Present(c) = Present(d) /\ c.cards[j] = p
      /\ \A i \in Cards \ {j} : c.cards[i] = d.cards[i]
  BY <1>1, <1>2, RowReplaced
<1>4. e = [d EXCEPT !.cards[j].pos = d.cards[k].pos, !.cards[k].pos = d.cards[j].pos]
  BY <1>1 DEF p, Put
<1> HIDE DEF c
<1>5. c.cards[k] \in CardRow
  BY <1>3, Rows
<1>6. /\ q \in CardRow /\ q.pos = d.cards[j].pos
      /\ \A f \in {"project", "status", "archived", "stone"} : q[f] = c.cards[k][f]
  BY <1>1, <1>5 DEF CardRow
<1> HIDE DEF q
<1>17. e = Put(c, k, q)
  BY DEF Put
<1> HIDE DEF e
<1>7. /\ e \in Database /\ Present(e) = Present(d) /\ e.cards[k] = q
      /\ \A i \in Cards \ {k} : e.cards[i] = c.cards[i]
  <2>1. c \in Database /\ k \in Cards /\ k \in Present(c) /\ q \in CardRow
    BY <1>1, <1>3, <1>6
  <2>2. /\ e \in Database /\ Present(e) = Present(c) /\ e.cards[k] = q
        /\ \A i \in Cards \ {k} : e.cards[i] = c.cards[i]
    BY <2>1, <1>17, RowReplaced
  <2> QED
    BY <2>2, <1>3
<1>8. /\ \A i \in Present(d), f \in {"project", "status", "archived", "stone"} :
              e.cards[i][f] = d.cards[i][f]
      /\ j # k => e.cards[j].pos = d.cards[k].pos
      /\ e.cards[k].pos = d.cards[j].pos
      /\ \A i \in Cards \ {j, k} : e.cards[i] = d.cards[i]
  <2>1. \A i \in Cards \ {j, k} : e.cards[i] = d.cards[i]
    BY <1>3, <1>7
  <2>2. \A f \in {"project", "status", "archived", "stone"} : e.cards[k][f] = d.cards[k][f]
    <3>1. CASE j = k
      BY <3>1, <1>2, <1>3, <1>6, <1>7
    <3>2. CASE j # k
      BY <3>2, <1>1, <1>3, <1>6, <1>7
    <3> QED
      BY <3>1, <3>2
  <2>3. \A f \in {"project", "status", "archived", "stone"} : e.cards[j][f] = d.cards[j][f]
    BY <2>2, <1>1, <1>2, <1>3, <1>7
  <2>4. j # k => e.cards[j].pos = d.cards[k].pos
    BY <1>1, <1>2, <1>3, <1>7
  <2>5. e.cards[k].pos = d.cards[j].pos
    BY <1>6, <1>7
  <2> QED
    BY <1>1, <2>1, <2>2, <2>3, <2>4, <2>5
<1>9. Swapped(d, j, k) = Written(Written(e, j), k)
  BY <1>4 DEF Swapped
<1> DEFINE v == Written(e, j)
           w == Written(v, k)
<1>10. /\ v \in Database /\ Present(v) = Present(d)
       /\ \A i \in Cards \ {j} : v.cards[i] = e.cards[i]
       /\ \E x \in Nat : v.cards[j] = [e.cards[j] EXCEPT !.at = x]
  BY <1>7, WrittenRow
<1> HIDE DEF v
<1>11. /\ w \in Database /\ Present(w) = Present(d)
       /\ \A i \in Cards \ {k} : w.cards[i] = v.cards[i]
       /\ \E x \in Nat : w.cards[k] = [v.cards[k] EXCEPT !.at = x]
  BY <1>10, WrittenRow
<1> HIDE DEF w
<1>12. \A i \in Present(d), f \in {"project", "status", "archived", "stone", "pos"} :
          w.cards[i][f] = e.cards[i][f]
  <2> SUFFICES ASSUME NEW i \in Present(d),
                      NEW f \in {"project", "status", "archived", "stone", "pos"}
               PROVE  w.cards[i][f] = e.cards[i][f]
    OBVIOUS
  <2>1. v.cards[i][f] = e.cards[i][f]
    <3>1. CASE i = j
      <4>1. e.cards[j] \in CardRow
        BY <1>7, Rows
      <4> QED
        BY <3>1, <4>1, <1>10 DEF CardRow
    <3>2. CASE i # j
      BY <3>2, <1>1, <1>10
    <3> QED
      BY <3>1, <3>2
  <2>2. w.cards[i][f] = v.cards[i][f]
    <3>1. CASE i = k
      <4>1. v.cards[k] \in CardRow
        BY <1>10, Rows
      <4> QED
        BY <3>1, <4>1, <1>11 DEF CardRow
    <3>2. CASE i # k
      BY <3>2, <1>1, <1>11
    <3> QED
      BY <3>1, <3>2
  <2> QED
    BY <2>1, <2>2
<1>13. Swapped(d, j, k) = w
  BY <1>9 DEF v, w
<1>14. \A i \in Cards \ {j, k} : w.cards[i] = d.cards[i]
  BY <1>8, <1>10, <1>11
<1>15. w.cards[k].pos = d.cards[j].pos /\ (j # k => w.cards[j].pos = d.cards[k].pos)
  BY <1>8, <1>12
<1>16. \A i \in Present(d), f \in {"project", "status", "archived", "stone"} :
           w.cards[i][f] = d.cards[i][f]
  BY <1>8, <1>12
<1> QED
  BY <1>11, <1>13, <1>14, <1>15, <1>16
\* A step that leaves every card in its column, and on the board or off it.
Steady(d, e) ==
    /\ e \in Database /\ Present(d) \subseteq Present(e)
    /\ \A k \in Present(d) : /\ e.cards[k].status = d.cards[k].status
                             /\ e.cards[k].archived = d.cards[k].archived

LEMMA SteadyOnes ==
    ASSUME TuiConstants, own \in Nat, others \in Nat, NEW d \in Database
    PROVE  /\ Steady(d, d)
           /\ \A p \in Project, b \in BOOLEAN : Steady(d, Filed(d, p, b))
           /\ \A n \in Nat : Steady(d, [d EXCEPT !.log = n])
           /\ \A m \in Milestone, r \in StoneRow : Steady(d, [d EXCEPT !.stones[m] = r])
           /\ \A m \in Milestone, st \in {"open", "completed", "cancelled"} :
                  Restated(d, m, st) # None => Steady(d, Restated(d, m, st))
<1>1. ASSUME NEW e, e \in Database, e.cards = d.cards PROVE Steady(d, e)
  BY <1>1 DEF Steady, Present
<1>2. ASSUME NEW p \in Project, NEW b \in BOOLEAN PROVE Steady(d, Filed(d, p, b))
  <2>1. Filed(d, p, b) \in Database /\ Filed(d, p, b).cards = d.cards
    BY DEF Filed, Database
  <2> QED
    BY <1>1, <2>1
<1>3. ASSUME NEW n \in Nat PROVE Steady(d, [d EXCEPT !.log = n])
  <2> DEFINE e == [d EXCEPT !.log = n]
  <2>1. e \in Database /\ e.cards = d.cards
    BY DEF Database
  <2> HIDE DEF e
  <2>2. Steady(d, e)
    BY <1>1, <2>1
  <2> QED
    BY <2>2 DEF e
<1>4. ASSUME NEW m \in Milestone, NEW r \in StoneRow PROVE Steady(d, [d EXCEPT !.stones[m] = r])
  <2> DEFINE e == [d EXCEPT !.stones[m] = r]
  <2>1. e \in Database /\ e.cards = d.cards
    BY DEF Database
  <2> HIDE DEF e
  <2>2. Steady(d, e)
    BY <1>1, <2>1
  <2> QED
    BY <2>2 DEF e
<1>5. ASSUME NEW m \in Milestone, NEW st \in {"open", "completed", "cancelled"},
             Restated(d, m, st) # None
      PROVE  Steady(d, Restated(d, m, st))
  <2> DEFINE r == [status |-> st, at |-> Now]
  <2>1. r \in StoneRow
    BY DEF StoneRow, Now
  <2>2. Restated(d, m, st) = [d EXCEPT !.stones[m] = r]
    BY <1>5 DEF Restated
  <2> HIDE DEF r
  <2> QED
    BY <1>4, <2>1, <2>2
<1> QED
  BY <1>1, <1>2, <1>3, <1>4, <1>5

LEMMA TaggedSteady ==
    ASSUME TuiConstants, own \in Nat, others \in Nat,
           NEW d \in Database, NEW k \in Present(d), NEW name
    PROVE  Steady(d, Tagged(d, k, name))
<1> DEFINE n == Existing(d, d.cards[k].project, name)
           r == [d.cards[k] EXCEPT !.stone = n]
           e == [d EXCEPT !.cards[k].stone = n]
<1>1. n \in ToSet(Names) \cup {None}
  BY DEF Existing
<1>2. k \in Cards /\ d.cards[k] \in CardRow
  BY Rows
<1> HIDE DEF n
<1>3. r \in CardRow /\ r.archived = d.cards[k].archived /\ r.status = d.cards[k].status
  BY <1>1, <1>2 DEF CardRow
<1>4. e = Put(d, k, r)
  BY <1>2 DEF Database, CardRow, Put
<1> HIDE DEF r, e
<1>5. /\ e \in Database /\ Present(e) = Present(d)
      /\ e.cards[k] = r
      /\ \A j \in Cards \ {k} : e.cards[j] = d.cards[j]
  BY <1>2, <1>3, <1>4, RowReplaced
<1>6. Tagged(d, k, name) = Written(e, k)
  BY DEF Tagged, e, n
<1>7. /\ Written(e, k) \in Database /\ Present(Written(e, k)) = Present(e)
      /\ \A j \in Cards \ {k} : Written(e, k).cards[j] = e.cards[j]
  BY <1>5, WrittenRow
<1>8. PICK x \in Nat : Written(e, k).cards[k] = [r EXCEPT !.at = x]
  BY <1>5, WrittenRow
<1>9. /\ Written(e, k).cards[k].archived = d.cards[k].archived
      /\ Written(e, k).cards[k].status = d.cards[k].status
  BY <1>3, <1>8 DEF CardRow
<1> QED
  BY <1>5, <1>6, <1>7, <1>9 DEF Steady, Present

LEMMA TextSteady ==
    ASSUME TuiConstants, own \in Nat, others \in Nat,
           NEW d \in Database, NEW k \in Present(d), NEW x \in {"ours", "theirs", None}
    PROVE  LET e == [d EXCEPT !.cards[k].text = x] IN
           /\ Steady(d, e) /\ k \in Present(e) /\ Steady(d, Written(e, k))
<1> DEFINE r == [d.cards[k] EXCEPT !.text = x]
           e == [d EXCEPT !.cards[k].text = x]
<1>2. k \in Cards /\ d.cards[k] \in CardRow
  BY Rows
<1>3. r \in CardRow /\ r.archived = d.cards[k].archived /\ r.status = d.cards[k].status
  BY <1>2 DEF CardRow
<1>4. e = Put(d, k, r)
  BY <1>2 DEF Database, CardRow, Put
<1> HIDE DEF r, e
<1>5. /\ e \in Database /\ Present(e) = Present(d)
      /\ e.cards[k] = r
      /\ \A j \in Cards \ {k} : e.cards[j] = d.cards[j]
  BY <1>2, <1>3, <1>4, RowReplaced
<1>6. Steady(d, e) /\ k \in Present(e)
  BY <1>3, <1>5 DEF Steady, Present
<1>7. /\ Written(e, k) \in Database /\ Present(Written(e, k)) = Present(e)
      /\ \A j \in Cards \ {k} : Written(e, k).cards[j] = e.cards[j]
  BY <1>5, WrittenRow
<1>8. PICK t \in Nat : Written(e, k).cards[k] = [r EXCEPT !.at = t]
  BY <1>5, WrittenRow
<1>9. /\ Written(e, k).cards[k].archived = d.cards[k].archived
      /\ Written(e, k).cards[k].status = d.cards[k].status
  BY <1>3, <1>8 DEF CardRow
<1>10. Steady(d, Written(e, k))
  BY <1>5, <1>7, <1>9 DEF Steady, Present
<1> QED
  BY <1>6, <1>10 DEF e

LEMMA SteadyTwice ==
    ASSUME NEW d, NEW e, NEW f, Steady(d, e), Steady(e, f)
    PROVE  Steady(d, f)
BY DEF Steady

\* A save moves the card of the buffer if its status was changed, and no other.
LEMMA SavedRow ==
    ASSUME TuiConstants, own \in Nat, others \in Nat,
           NEW d \in Database, NEW k \in Present(d), NEW b \in CardRow
    PROVE  LET e == Saved(d, k, b) IN
           /\ e \in Database /\ Present(d) \subseteq Present(e)
           /\ \A j \in Present(d) : e.cards[j].archived = d.cards[j].archived
           /\ \A j \in Present(d) : j # k \/ b.status = d.cards[k].status
                                      => e.cards[j].status = d.cards[j].status
<1> DEFINE moved == IF b.status # d.cards[k].status THEN Moved(d, k, b.status) ELSE d
           e == [moved EXCEPT !.cards[k].text = b.text]
           f == Tagged(e, k, b.stone)
<1>1. b.status \in Status /\ b.text \in {"ours", "theirs", None}
  BY DEF CardRow
<1>2. /\ moved \in Database /\ Present(moved) = Present(d)
      /\ \A j \in Present(d) : moved.cards[j].archived = d.cards[j].archived
      /\ \A j \in Present(d) : j # k \/ b.status = d.cards[k].status
                                 => moved.cards[j].status = d.cards[j].status
  BY <1>1, MovedRow DEF Present
<1> HIDE DEF moved
<1>3. Steady(moved, e) /\ k \in Present(e)
  BY <1>1, <1>2, TextSteady
<1> HIDE DEF e
<1>4. e \in Database
  BY <1>3 DEF Steady
<1>5. Steady(e, f)
  BY <1>3, <1>4, TaggedSteady
<1> HIDE DEF f
<1>6. Steady(moved, f)
  BY <1>3, <1>5, SteadyTwice
<1>7. Saved(d, k, b) = f
  BY DEF Saved, f, e, moved
<1> QED
  BY <1>2, <1>6, <1>7 DEF Steady

LEMMA RenamedSteady ==
    ASSUME TuiConstants, own \in Nat, others \in Nat,
           NEW d \in Database, NEW m \in Milestone, NEW n \in ToSet(Names),
           Renamed(d, m, n) # None
    PROVE  Steady(d, Renamed(d, m, n))
<1> DEFINE s == [[d.stones EXCEPT ![m] = None]
                     EXCEPT ![<<m[1], n>>] = [d.stones[m] EXCEPT !.at = Now]]
           c == [k \in Cards |-> IF d.cards[k] # None /\ d.cards[k].project = m[1]
                                    /\ d.cards[k].stone = m[2]
                                 THEN [d.cards[k] EXCEPT !.stone = n] ELSE d.cards[k]]
           e == [d EXCEPT !.stones = s, !.cards = c]
<1>1. Renamed(d, m, n) = e /\ d.stones[m] # None
  BY DEF Renamed
<1>2. Now \in Nat
  BY DEF Now
<1>3. <<m[1], n>> \in Milestone
  BY DEF Milestone
<1>4. d.stones \in [Milestone -> StoneRow \cup {None}] /\ d.cards \in [Cards -> CardRow \cup {None}]
  BY DEF Database
<1>5. [d.stones[m] EXCEPT !.at = Now] \in StoneRow
  <2>1. d.stones[m] \in StoneRow
    BY <1>1, <1>4
  <2> QED
    BY <1>2, <2>1 DEF StoneRow
<1>6. s \in [Milestone -> StoneRow \cup {None}]
  BY <1>3, <1>4, <1>5
<1>7. \A k \in Cards : d.cards[k] # None =>
          /\ c[k] \in CardRow /\ c[k] # None
          /\ c[k].status = d.cards[k].status /\ c[k].archived = d.cards[k].archived
  <2> SUFFICES ASSUME NEW k \in Cards, d.cards[k] # None
               PROVE  /\ c[k] \in CardRow /\ c[k] # None
                      /\ c[k].status = d.cards[k].status /\ c[k].archived = d.cards[k].archived
    OBVIOUS
  <2>1. d.cards[k] \in CardRow
    BY <1>4
  <2> DEFINE r == [d.cards[k] EXCEPT !.stone = n]
  <2>2. r \in CardRow /\ r.status = d.cards[k].status /\ r.archived = d.cards[k].archived
    BY <2>1 DEF CardRow
  <2>3. c[k] \in {r, d.cards[k]}
    BY <2>1
  <2>4. None \notin CardRow
    BY DEF TuiConstants
  <2> HIDE DEF r, c
  <2> QED
    BY <2>1, <2>2, <2>3, <2>4
<1>8. c \in [Cards -> CardRow \cup {None}]
  <2>1. \A k \in Cards : c[k] \in CardRow \cup {None}
    <3>1. \A k \in Cards : d.cards[k] = None => c[k] = None
      OBVIOUS
    <3> HIDE DEF c
    <3> QED
      BY <1>7, <3>1
  <2> QED
    BY <2>1
<1> HIDE DEF s, c
<1>9. e \in Database /\ e.cards = c
  BY <1>6, <1>8 DEF Database
<1> QED
  BY <1>1, <1>7, <1>9 DEF Steady, Present

LEMMA CreatedSteady ==
    ASSUME TuiConstants, own \in Nat, others \in Nat,
           NEW d \in Database, NEW k \in Cards \ Present(d),
           NEW p \in Project, NEW st \in Status, NEW stone \in ToSet(Names) \cup {None}
    PROVE  LET e == [d EXCEPT !.cards[k] = [Card(p, st, stone)
                                              EXCEPT !.pos = 1 + Max(Places(d, p, st))]]
           IN Steady(d, Written(e, k))
<1> DEFINE r == [Card(p, st, stone) EXCEPT !.pos = 1 + Max(Places(d, p, st))]
           e == [d EXCEPT !.cards[k] = r]
<1>1. 1 + Max(Places(d, p, st)) \in Int
  BY PlacesHaveAMax
<1>2. r \in CardRow
  BY <1>1 DEF Card, CardRow
<1> HIDE DEF r
<1>6. e = Put(d, k, r)
  BY DEF Put
<1> HIDE DEF e
<1>3. /\ e \in Database /\ Present(e) = Present(d) \cup {k}
      /\ \A j \in Cards \ {k} : e.cards[j] = d.cards[j]
  BY <1>2, <1>6, RowReplaced
<1>4. /\ Written(e, k) \in Database /\ Present(Written(e, k)) = Present(e)
      /\ \A j \in Cards \ {k} : Written(e, k).cards[j] = e.cards[j]
  BY <1>3, WrittenRow
<1>5. Steady(d, Written(e, k))
  BY <1>3, <1>4 DEF Steady, Present
<1> QED
  BY <1>5 DEF e, r
-----------------------------------------------------------------------------
(***************************************************************************)
(* The past of a card: the columns it was in, and whether it was on the    *)
(* board, before and after each change on the stack of undo.               *)
(***************************************************************************)
OnBoard(c) == IF c.archived THEN "off" ELSE "on"

\* What a change does to card k that is at st, and on the board or off.
ChangeOf(op, k, st, st2, on, on2) ==
    /\ IF op.op = "move" /\ op.key = k THEN st = op.from /\ st2 = op.to ELSE st2 = st
    /\ IF op.op = "archive" /\ op.key = k THEN on = "on" /\ on2 = "off" ELSE on2 = on

Past(f, g, k, s, b, c) ==
    /\ f[1] = b.status /\ f[Len(s) + 1] = c.status
    /\ g[1] = OnBoard(b) /\ g[Len(s) + 1] = OnBoard(c)
    /\ \A i \in 1..Len(s) : ChangeOf(s[i], k, f[i], f[i + 1], g[i], g[i + 1])

HasPast(k, s, b, c) ==
    \E f \in [Nat -> Status], g \in [Nat -> {"on", "off"}] : Past(f, g, k, s, b, c)

Changes(op, k, c, e) == ChangeOf(op, k, c.status, e.status, OnBoard(c), OnBoard(e))

LEMMA PastPushed ==
    ASSUME NEW O, NEW s \in Seq(O), NEW op \in O, NEW k, NEW b, NEW c, NEW e,
           HasPast(k, s, b, c), Changes(op, k, c, e), e.status \in Status
    PROVE  HasPast(k, Append(s, op), b, e)
<1>1. PICK f \in [Nat -> Status], g \in [Nat -> {"on", "off"}] : Past(f, g, k, s, b, c)
  BY DEF HasPast
<1> DEFINE n == Len(s)
           t == Append(s, op)
           f2 == [f EXCEPT ![n + 2] = e.status]
           g2 == [g EXCEPT ![n + 2] = OnBoard(e)]
<1>2. /\ n \in Nat /\ Len(t) = n + 1 /\ t[n + 1] = op
      /\ \A i \in 1..n : t[i] = s[i]
  OBVIOUS
<1>3. f2 \in [Nat -> Status] /\ g2 \in [Nat -> {"on", "off"}]
  BY <1>2 DEF OnBoard
<1>4. /\ \A i \in 1..(n + 1) : f2[i] = f[i] /\ g2[i] = g[i]
      /\ f2[n + 2] = e.status /\ g2[n + 2] = OnBoard(e)
  BY <1>2
<1> HIDE DEF t, f2, g2
<1>5. Past(f2, g2, k, t, b, e)
  <2>1. ASSUME NEW i \in 1..Len(t)
        PROVE  ChangeOf(t[i], k, f2[i], f2[i + 1], g2[i], g2[i + 1])
    <3>1. CASE i \in 1..n
      <4>1. /\ t[i] = s[i] /\ f2[i] = f[i] /\ g2[i] = g[i]
            /\ f2[i + 1] = f[i + 1] /\ g2[i + 1] = g[i + 1]
        BY <3>1, <1>2, <1>4
      <4>2. ChangeOf(s[i], k, f[i], f[i + 1], g[i], g[i + 1])
        BY <1>1, <3>1 DEF Past
      <4> QED
        BY <4>1, <4>2
    <3>2. CASE i = n + 1
      <4>1. /\ t[i] = op /\ f2[i] = c.status /\ g2[i] = OnBoard(c)
            /\ f2[i + 1] = e.status /\ g2[i + 1] = OnBoard(e)
        BY <3>2, <1>1, <1>2, <1>4 DEF Past
      <4> QED
        BY <4>1 DEF Changes
    <3> QED
      BY <3>1, <3>2, <1>2
  <2>2. f2[1] = b.status /\ g2[1] = OnBoard(b)
    BY <1>1, <1>2, <1>4 DEF Past
  <2>3. f2[Len(t) + 1] = e.status /\ g2[Len(t) + 1] = OnBoard(e)
    BY <1>2, <1>4
  <2> QED
    BY <2>1, <2>2, <2>3 DEF Past
<1> QED
  BY <1>3, <1>5 DEF HasPast, t

\* The oldest change is forgotten: the card is below the stack what it was after it.
LEMMA PastDropped ==
    ASSUME NEW O, NEW s \in Seq(O), s # <<>>, NEW k, NEW b, NEW c, NEW e,
           HasPast(k, s, b, c),
           \A st, on : ChangeOf(s[1], k, b.status, st, OnBoard(b), on)
                          => st = e.status /\ on = OnBoard(e)
    PROVE  HasPast(k, Tail(s), e, c)
<1>1. PICK f \in [Nat -> Status], g \in [Nat -> {"on", "off"}] : Past(f, g, k, s, b, c)
  BY DEF HasPast
<1> DEFINE n == Len(s)
           t == Tail(s)
           f2 == [i \in Nat |-> f[i + 1]]
           g2 == [i \in Nat |-> g[i + 1]]
<1>2. /\ n \in Nat /\ n # 0 /\ Len(t) = n - 1
      /\ \A i \in 1..(n - 1) : t[i] = s[i + 1]
  OBVIOUS
<1>3. f2 \in [Nat -> Status] /\ g2 \in [Nat -> {"on", "off"}]
  OBVIOUS
<1>4. \A i \in Nat : f2[i] = f[i + 1] /\ g2[i] = g[i + 1]
  OBVIOUS
<1> HIDE DEF t, f2, g2
<1>5. f2[1] = e.status /\ g2[1] = OnBoard(e)
  <2>1. 1 \in 1..n
    BY <1>2
  <2>2. ChangeOf(s[1], k, f[1], f[1 + 1], g[1], g[1 + 1])
    BY <1>1, <2>1 DEF Past
  <2>3. ChangeOf(s[1], k, b.status, f2[1], OnBoard(b), g2[1])
    BY <2>2, <1>1, <1>4 DEF Past
  <2> QED
    BY <2>3
<1>6. Past(f2, g2, k, t, e, c)
  <2>1. ASSUME NEW i \in 1..Len(t)
        PROVE  ChangeOf(t[i], k, f2[i], f2[i + 1], g2[i], g2[i + 1])
    <3>1. i \in Nat /\ i + 1 \in 1..n /\ t[i] = s[i + 1]
      BY <1>2
    <3>2. ChangeOf(s[i + 1], k, f[i + 1], f[(i + 1) + 1], g[i + 1], g[(i + 1) + 1])
      BY <3>1, <1>1 DEF Past
    <3> QED
      BY <3>1, <3>2, <1>4
  <2>2. Len(t) + 1 \in Nat /\ (Len(t) + 1) + 1 = n + 1
    BY <1>2
  <2>3. f2[Len(t) + 1] = c.status /\ g2[Len(t) + 1] = OnBoard(c)
    BY <2>2, <1>1, <1>4 DEF Past
  <2> QED
    BY <1>5, <2>1, <2>3 DEF Past
<1> QED
  BY <1>3, <1>6 DEF HasPast, t

\* The newest change is undone: the card is what it was before it.
LEMMA PastPopped ==
    ASSUME NEW O, NEW s \in Seq(O), s # <<>>, NEW k, NEW b, NEW c, NEW e,
           HasPast(k, s, b, c),
           \A st, on : ChangeOf(Last(s), k, st, c.status, on, OnBoard(c))
                          => st = e.status /\ on = OnBoard(e)
    PROVE  HasPast(k, Front(s), b, e)
<1>1. PICK f \in [Nat -> Status], g \in [Nat -> {"on", "off"}] : Past(f, g, k, s, b, c)
  BY DEF HasPast
<1> DEFINE n == Len(s)
           t == Front(s)
<1>2. /\ n \in Nat /\ n # 0 /\ Len(t) = n - 1 /\ Last(s) = s[n]
      /\ \A i \in 1..(n - 1) : t[i] = s[i]
  <2>1. n \in Nat /\ n # 0 /\ n - 1 \in 0..n
    OBVIOUS
  <2>2. t = SubSeq(s, 1, n - 1) /\ Last(s) = s[n]
    BY DEF Front, Last
  <2> HIDE DEF n, t
  <2>3. Len(t) = n - 1 /\ \A i \in 1..(n - 1) : t[i] = s[i]
    <3>1. 1 \in Int /\ n - 1 \in Int /\ \A i \in 1..(n - 1) : s[i] \in O
      BY <2>1 DEF n
    <3>2. /\ Len(t) = IF 1 <= n - 1 THEN (n - 1) - 1 + 1 ELSE 0
          /\ \A i \in 1..((n - 1) - 1 + 1) : t[i] = s[1 + i - 1]
      BY <2>2, <3>1, SubSeqProperties
    <3>3. (n - 1) - 1 + 1 = n - 1 /\ \A i \in 1..(n - 1) : 1 + i - 1 = i
      BY <2>1
    <3> QED
      BY <2>1, <3>2, <3>3
  <2> QED
    BY <2>1, <2>2, <2>3
<1> HIDE DEF t
<1>3. f[n] = e.status /\ g[n] = OnBoard(e)
  <2>1. n \in 1..n
    BY <1>2
  <2>2. ChangeOf(s[n], k, f[n], f[n + 1], g[n], g[n + 1])
    BY <1>1, <2>1 DEF Past
  <2>3. ChangeOf(Last(s), k, f[n], c.status, g[n], OnBoard(c))
    BY <2>2, <1>1, <1>2 DEF Past
  <2> QED
    BY <2>3
<1>4. Past(f, g, k, t, b, e)
  <2>1. ASSUME NEW i \in 1..Len(t)
        PROVE  ChangeOf(t[i], k, f[i], f[i + 1], g[i], g[i + 1])
    <3>1. i \in 1..n /\ t[i] = s[i]
      BY <1>2
    <3>2. ChangeOf(s[i], k, f[i], f[i + 1], g[i], g[i + 1])
      BY <3>1, <1>1 DEF Past
    <3> QED
      BY <3>1, <3>2
  <2>2. Len(t) + 1 = n
    BY <1>2
  <2> QED
    BY <2>1, <2>2, <1>1, <1>3 DEF Past
<1> QED
  BY <1>4 DEF HasPast, t

\* Where nothing changes up to a place, it is there what it was at first.
LEMMA Unchanging ==
    ASSUME NEW S, NEW f \in [Nat -> S], NEW m \in Nat \ {0},
           \A i \in 1..(m - 1) : f[i + 1] = f[i]
    PROVE  f[m] = f[1]
<1> DEFINE T == {i \in 1..m : f[i] # f[1]}
<1>1. SUFFICES ASSUME T # {} PROVE FALSE
  <2>1. m \in 1..m /\ m \notin T
    BY <1>1
  <2> QED
    BY <2>1
<1> DEFINE x == Min(T)
<1>2. x \in T /\ \A y \in T : x <= y
  <2>1. T \in SUBSET Nat
    OBVIOUS
  <2> HIDE DEF T
  <2> QED
    BY <1>1, <2>1, LeastIs
<1> HIDE DEF x
<1>3. x \in 1..m /\ x # 1
  BY <1>2
<1>4. x - 1 \in 1..(m - 1) /\ x - 1 \in 1..m /\ (x - 1) + 1 = x
  BY <1>3
<1>5. f[x - 1] = f[1]
  <2>1. x - 1 \notin T
    <3>1. ~(x <= x - 1)
      BY <1>3
    <3> HIDE DEF T
    <3> QED
      BY <1>2, <3>1
  <2> QED
    BY <1>4, <2>1
<1>6. f[x] = f[x - 1]
  BY <1>4
<1> QED
  BY <1>2, <1>5, <1>6

\* What undoing the whole stack would give a card is what its past began with.
LEMMA PastRestores ==
    ASSUME NEW O, undo \in Seq(O), NEW k, base[k] \in CardRow, db.cards[k] \in CardRow,
           HasPast(k, undo, base[k], db.cards[k])
    PROVE  /\ Unwound(k).status = base[k].status
           /\ Unwound(k).archived = base[k].archived
<1> DEFINE n == Len(undo)
           moves == {i \in DOMAIN undo : undo[i].op = "move" /\ undo[i].key = k}
           offs == {i \in DOMAIN undo : undo[i].op = "archive" /\ undo[i].key = k}
<1>1. PICK f \in [Nat -> Status], g \in [Nat -> {"on", "off"}] :
          Past(f, g, k, undo, base[k], db.cards[k])
  BY DEF HasPast
<1>2. n \in Nat /\ DOMAIN undo = 1..n
  OBVIOUS
<1>3. /\ f[1] = base[k].status /\ f[n + 1] = db.cards[k].status
      /\ g[1] = OnBoard(base[k]) /\ g[n + 1] = OnBoard(db.cards[k])
      /\ \A i \in 1..n : ChangeOf(undo[i], k, f[i], f[i + 1], g[i], g[i + 1])
  BY <1>1 DEF Past
<1>4. \A i \in 1..n : /\ i \notin moves => f[i + 1] = f[i]
                      /\ i \in moves => f[i] = undo[i].from
                      /\ i \notin offs => g[i + 1] = g[i]
                      /\ i \in offs => g[i] = "on"
  BY <1>2, <1>3 DEF ChangeOf
<1>5. moves \in SUBSET Nat /\ offs \in SUBSET Nat /\ moves \subseteq 1..n /\ offs \subseteq 1..n
  BY <1>2
<1>6. /\ moves = {} => Unwound(k).status = db.cards[k].status
      /\ moves # {} => Unwound(k).status = undo[Min(moves)].from
  BY DEF Unwound
<1>12. Unwound(k).archived = (db.cards[k].archived /\ ~(offs # {}))
  BY DEF Unwound
<1> HIDE DEF moves, offs
<1>7. ASSUME moves = {} PROVE Unwound(k).status = base[k].status
  <2>1. f[n + 1] = f[1]
    <3>1. n + 1 \in Nat \ {0} /\ \A i \in 1..((n + 1) - 1) : f[i + 1] = f[i]
      BY <1>2, <1>4, <1>7
    <3> QED
      BY <3>1, Unchanging
  <2> QED
    BY <2>1, <1>3, <1>6, <1>7
<1>8. ASSUME moves # {} PROVE Unwound(k).status = base[k].status
  <2>1. Min(moves) \in moves /\ \A y \in moves : Min(moves) <= y
    BY <1>5, <1>8, LeastIs
  <2>2. Min(moves) \in 1..n /\ Min(moves) \in Nat \ {0}
    <3>1. Min(moves) \in 1..n
      BY <2>1, <1>5
    <3> HIDE DEF n
    <3>2. \A i \in 1..n : i \in Nat \ {0}
      BY <1>2
    <3> QED
      BY <3>1, <3>2
  <2>3. \A i \in 1..(Min(moves) - 1) : f[i + 1] = f[i]
    <3> SUFFICES ASSUME NEW i \in 1..(Min(moves) - 1) PROVE f[i + 1] = f[i]
      OBVIOUS
    <3>1. i \in 1..n /\ ~(Min(moves) <= i)
      BY <2>2
    <3> QED
      BY <3>1, <2>1, <1>4
  <2>4. f[Min(moves)] = f[1]
    BY <2>2, <2>3, Unchanging
  <2>5. f[Min(moves)] = undo[Min(moves)].from
    BY <2>1, <2>2, <1>4
  <2> QED
    BY <2>4, <2>5, <1>3, <1>6, <1>8
<1>9. Unwound(k).status = base[k].status
  BY <1>7, <1>8
<1>10. ASSUME offs = {} PROVE Unwound(k).archived = base[k].archived
  <2>1. g[n + 1] = g[1]
    <3>1. n + 1 \in Nat \ {0} /\ \A i \in 1..((n + 1) - 1) : g[i + 1] = g[i]
      BY <1>2, <1>4, <1>10
    <3> QED
      BY <3>1, Unchanging
  <2>2. db.cards[k].archived \in BOOLEAN /\ base[k].archived \in BOOLEAN
    BY DEF CardRow
  <2>3. db.cards[k].archived = base[k].archived
    BY <2>1, <2>2, <1>3 DEF OnBoard
  <2>4. Unwound(k).archived = db.cards[k].archived
    <3>1. (db.cards[k].archived /\ ~(offs # {})) = db.cards[k].archived
      BY <1>10, <2>2
    <3> QED
      BY <3>1, <1>12
  <2> QED
    BY <2>3, <2>4
<1>11. ASSUME offs # {} PROVE Unwound(k).archived = base[k].archived
  <2>1. Min(offs) \in offs /\ \A y \in offs : Min(offs) <= y
    BY <1>5, <1>11, LeastIs
  <2>2. Min(offs) \in 1..n /\ Min(offs) \in Nat \ {0}
    <3>1. Min(offs) \in 1..n
      BY <2>1, <1>5
    <3> HIDE DEF n
    <3>2. \A i \in 1..n : i \in Nat \ {0}
      BY <1>2
    <3> QED
      BY <3>1, <3>2
  <2>3. \A i \in 1..(Min(offs) - 1) : g[i + 1] = g[i]
    <3> SUFFICES ASSUME NEW i \in 1..(Min(offs) - 1) PROVE g[i + 1] = g[i]
      OBVIOUS
    <3>1. i \in 1..n /\ ~(Min(offs) <= i)
      BY <2>2
    <3> QED
      BY <3>1, <2>1, <1>4
  <2>4. g[Min(offs)] = g[1]
    BY <2>2, <2>3, Unchanging
  <2>5. g[Min(offs)] = "on"
    BY <2>1, <2>2, <1>4
  <2>6. base[k].archived \in BOOLEAN
    BY DEF CardRow
  <2>7. base[k].archived = FALSE
    BY <2>4, <2>5, <2>6, <1>3 DEF OnBoard
  <2>8. Unwound(k).archived = FALSE
    <3>1. (db.cards[k].archived /\ ~(offs # {})) = FALSE
      BY <1>11
    <3> QED
      BY <3>1, <1>12
  <2> QED
    BY <2>7, <2>8
<1> QED
  BY <1>9, <1>10, <1>11
-----------------------------------------------------------------------------
(***************************************************************************)
(* The invariant.                                                          *)
(***************************************************************************)
IsFocus(f) == f = [col |-> f.col, idx |-> f.idx] /\ f.col \in Status

\* A milestone is in the scope only with a project.
Scopes == {sc \in [project : Project \cup {None}, milestone : ToSet(Names) \cup {None}] :
              sc.milestone # None => sc.project # None}

\* Modes, buffers and changes are about cards that exist.
ModeOf(P) ==
    [at : {"normal", "activity"}]
    \cup [at : {"move"}, on : Cards \cup {None}]
    \cup [at : {"archive"}, key : P]
    \cup [at : {"detail"}, key : P, blocker : Cards \cup {None}]
    \cup [at : {"new"}, project : Project, status : Status, stone : ToSet(Names) \cup {None}]

EditOf(P) == {None} \cup [key : P, row : CardRow] \cup [stone : Milestone]

OpOf(P) == [op : {"move"}, key : P, from : Status, to : Status]
           \cup [op : {"swap"}, key : P, other : P]
           \cup [op : {"archive"}, key : P]

\* What the session shows of a card that nobody else touched is so.
SeenOK ==
    \A k \in Cards : seen.cards[k] # None =>
        /\ k \in Present(db) /\ seen.cards[k].status \in Status
        /\ seen.cards[k].project \in Project /\ seen.cards[k].pos \in Int
        /\ k \notin touched => /\ ~db.cards[k].archived
                               /\ seen.cards[k].status = db.cards[k].status

\* So a card that the prompt asks about is on the board.
AskedOK == mode.at = "archive" /\ mode.key \notin touched => ~db.cards[mode.key].archived

ViewOK == /\ IsFocus(focus) /\ mode \in ModeOf(Present(db)) /\ scope \in Scopes
          /\ SeenOK /\ AskedOK

DataOK == /\ db \in Database /\ own \in Nat /\ others \in Nat
          /\ edit \in EditOf(Present(db))
          /\ undo \in Seq(OpOf(Present(db))) /\ Len(undo) <= UndoDepth
          /\ touched \subseteq Cards /\ base \in [Cards -> CardRow \cup {None}]

PastOK == \A k \in Cards \ touched :
              /\ k \in Present(db) /\ base[k] \in CardRow
              /\ HasPast(k, undo, base[k], db.cards[k])

TuiInv == ViewOK /\ DataOK /\ PastOK

LEMMA Wider ==
    ASSUME NEW P, NEW Q, P \subseteq Q
    PROVE  /\ ModeOf(P) \subseteq ModeOf(Q) /\ EditOf(P) \subseteq EditOf(Q)
           /\ OpOf(P) \subseteq OpOf(Q) /\ Seq(OpOf(P)) \subseteq Seq(OpOf(Q))
<1>1. OpOf(P) \subseteq OpOf(Q)
  BY DEF OpOf
<1>2. ModeOf(P) \subseteq ModeOf(Q)
  BY DEF ModeOf
<1>3. EditOf(P) \subseteq EditOf(Q)
  BY DEF EditOf
<1>4. ASSUME NEW s \in Seq(OpOf(P)) PROVE s \in Seq(OpOf(Q))
  BY <1>1
<1> QED
  BY <1>1, <1>2, <1>3, <1>4

LEMMA RestoredFocus ==
    ASSUME NEW cards, NEW sc, NEW st \in Status, NEW g \in Restored(cards, sc, st)
    PROVE  IsFocus(g)
BY DEF Restored, IsFocus

LEMMA AutoFocusIs ==
    ASSUME TuiConstants, NEW cards, NEW sc, NEW f, IsFocus(f), NEW g \in AutoFocus(cards, sc, f)
    PROVE  IsFocus(g)
<1>1. CASE g = f
  BY <1>1
<1>2. CASE g = [f EXCEPT !.idx = 0]
  <2>1. g = [col |-> f.col, idx |-> 0]
    BY <1>2 DEF IsFocus
  <2> QED
    BY <2>1 DEF IsFocus
<1>3. CASE Full(cards, sc) # {} /\ g \in Restored(cards, sc, Columns[Min(Full(cards, sc))])
  <2>1. Full(cards, sc) \in SUBSET Nat /\ Full(cards, sc) \subseteq DOMAIN Columns
    BY DEF TuiConstants, Full
  <2>2. Min(Full(cards, sc)) \in DOMAIN Columns
    BY <1>3, <2>1, LeastIs
  <2>3. Columns[Min(Full(cards, sc))] \in Status
    BY <2>2 DEF TuiConstants
  <2> QED
    BY <1>3, <2>3, RestoredFocus
<1> QED
  BY <1>1, <1>2, <1>3 DEF AutoFocus

LEMMA LocatedFocus ==
    ASSUME NEW cards, NEW sc, NEW k, cards[k] # None => cards[k].status \in Status,
           Located(cards, sc, k) # None
    PROVE  IsFocus(Located(cards, sc, k))
BY DEF Located, IsFocus

\* What is loaded of a card, and of which cards.
LEMMA LoadedCards ==
    ASSUME TuiConstants, NEW d \in Database, NEW p, NEW k \in Cards
    PROVE  LET r == Loaded(d, p).cards[k] IN
           /\ r # None <=> k \in Present(d) /\ ~d.cards[k].archived
           /\ r # None => /\ d.cards[k] \in CardRow
                          /\ \A f \in {"project", "status", "pos", "stone"} : r[f] = d.cards[k][f]
<1> DEFINE c == d.cards[k]
           s == [c EXCEPT !.text = None, !.at = 0]
           r == Loaded(d, p).cards[k]
<1>1. r = IF c = None \/ c.archived THEN None ELSE s
  BY DEF Loaded
<1>2. c # None => c \in CardRow
  BY DEF Database
<1> HIDE DEF c, r
<1>3. c \in CardRow => s \in CardRow /\ \A f \in {"project", "status", "pos", "stone"} : s[f] = c[f]
  BY DEF CardRow
<1> HIDE DEF s
<1>4. None \notin CardRow
  BY DEF TuiConstants
<1>5. k \in Present(d) <=> c # None
  BY DEF Present, c
<1>6. r # None <=> k \in Present(d) /\ ~c.archived
  BY <1>1, <1>2, <1>3, <1>4, <1>5
<1>7. r # None => c \in CardRow /\ \A f \in {"project", "status", "pos", "stone"} : r[f] = c[f]
  BY <1>1, <1>2, <1>3
<1> QED
  BY <1>6, <1>7 DEF c, r

LEMMA BlockerType ==
    ASSUME NEW d \in Database, NEW k \in Present(d)
    PROVE  OpenBlocker(d, k) \in Cards \cup {None}
<1>1. d.cards[k].blocker \in Cards \cup {None}
  BY Rows DEF CardRow
<1> QED
  BY <1>1 DEF OpenBlocker

\* After a reload the session shows the board as it is.
LEMMA ReloadOK ==
    ASSUME TuiConstants, db' \in Database, NEW f, IsFocus(f), NEW sc \in Scopes,
           NEW md \in ModeOf(Present(db')), Reload(sc, f, md),
           md.at = "archive" /\ md.key \notin touched' => ~db'.cards[md.key].archived
    PROVE  ViewOK'
<1>1. /\ seen' = Loaded(db', sc.project) /\ scope' = sc
      /\ focus' \in AutoFocus(seen'.cards, sc, f)
      /\ mode' = IF md.at = "detail" THEN [md EXCEPT !.blocker = OpenBlocker(db', md.key)] ELSE md
  BY DEF Reload
<1>2. IsFocus(focus')
  BY <1>1, AutoFocusIs
<1>3. SeenOK'
  <2> SUFFICES ASSUME NEW k \in Cards, seen'.cards[k] # None
               PROVE  /\ k \in Present(db') /\ seen'.cards[k].status \in Status
                      /\ seen'.cards[k].project \in Project /\ seen'.cards[k].pos \in Int
                      /\ ~db'.cards[k].archived
                      /\ seen'.cards[k].status = db'.cards[k].status
    BY DEF SeenOK
  <2>1. /\ k \in Present(db') /\ ~db'.cards[k].archived /\ db'.cards[k] \in CardRow
        /\ \A g \in {"project", "status", "pos", "stone"} : seen'.cards[k][g] = db'.cards[k][g]
    BY <1>1, LoadedCards
  <2>2. /\ db'.cards[k].status \in Status /\ db'.cards[k].project \in Project
        /\ db'.cards[k].pos \in Int
    BY <2>1 DEF CardRow
  <2> QED
    BY <2>1, <2>2
<1>4. mode' \in ModeOf(Present(db')) /\ (mode'.at = "archive" => mode' = md)
  <2>1. CASE md.at = "detail"
    <3>1. md \in [at : {"detail"}, key : Present(db'), blocker : Cards \cup {None}]
      BY <2>1 DEF ModeOf
    <3>2. OpenBlocker(db', md.key) \in Cards \cup {None}
      BY <3>1, BlockerType
    <3>3. /\ mode' \in [at : {"detail"}, key : Present(db'), blocker : Cards \cup {None}]
          /\ mode'.at = "detail"
      BY <1>1, <2>1, <3>1, <3>2
    <3> QED
      BY <3>3 DEF ModeOf
  <2>2. CASE md.at # "detail"
    BY <2>2, <1>1
  <2> QED
    BY <2>1, <2>2
<1>5. AskedOK'
  BY <1>4 DEF AskedOK
<1> QED
  BY <1>1, <1>2, <1>3, <1>4, <1>5 DEF ViewOK
-----------------------------------------------------------------------------
(***************************************************************************)
(* What the steps have in common.                                          *)
(***************************************************************************)
UntouchedKept ==
    /\ db' \in Database /\ Present(db) \subseteq Present(db')
    /\ touched \subseteq touched' /\ touched' \subseteq Cards
    /\ \A k \in Cards \ touched' :
          k \in Present(db) => /\ db'.cards[k].status = db.cards[k].status
                               /\ db'.cards[k].archived = db.cards[k].archived

LEMMA SamePast ==
    ASSUME NEW k, NEW s, NEW b, NEW c, NEW e, HasPast(k, s, b, c),
           e.status = c.status, e.archived = c.archived
    PROVE  HasPast(k, s, b, e)
BY DEF HasPast, Past, OnBoard

LEMMA DataKept ==
    ASSUME TuiInv, UntouchedKept, undo' = undo, base' = base, own' \in Nat, others' \in Nat,
           edit' \in EditOf(Present(db'))
    PROVE  DataOK' /\ PastOK'
<1>1. DataOK'
  <2>1. Seq(OpOf(Present(db))) \subseteq Seq(OpOf(Present(db')))
    BY Wider DEF UntouchedKept
  <2> QED
    BY <2>1 DEF TuiInv, DataOK, UntouchedKept
<1>2. PastOK'
  <2> SUFFICES ASSUME NEW k \in Cards \ touched'
               PROVE  /\ k \in Present(db') /\ base[k] \in CardRow
                      /\ HasPast(k, undo, base[k], db'.cards[k])
    BY DEF PastOK
  <2>1. k \in Cards \ touched
    BY DEF UntouchedKept
  <2>2. k \in Present(db) /\ base[k] \in CardRow /\ HasPast(k, undo, base[k], db.cards[k])
    BY <2>1 DEF TuiInv, PastOK
  <2>3. /\ k \in Present(db') /\ db'.cards[k].status = db.cards[k].status
        /\ db'.cards[k].archived = db.cards[k].archived
    BY <2>2 DEF UntouchedKept
  <2> QED
    BY <2>2, <2>3, SamePast
<1> QED
  BY <1>1, <1>2

LEMMA ViewKept ==
    ASSUME TuiInv, UntouchedKept, UNCHANGED <<seen, focus, mode, scope>>
    PROVE  ViewOK'
<1>1. mode' \in ModeOf(Present(db'))
  <2>1. ModeOf(Present(db)) \subseteq ModeOf(Present(db'))
    BY Wider DEF UntouchedKept
  <2> QED
    BY <2>1 DEF TuiInv, ViewOK
<1>2. SeenOK'
  <2> SUFFICES ASSUME NEW k \in Cards, seen.cards[k] # None
               PROVE  /\ k \in Present(db') /\ seen.cards[k].status \in Status
                      /\ seen.cards[k].project \in Project /\ seen.cards[k].pos \in Int
                      /\ k \notin touched' => /\ ~db'.cards[k].archived
                                              /\ seen.cards[k].status = db'.cards[k].status
    BY DEF SeenOK
  <2> QED
    BY DEF TuiInv, ViewOK, SeenOK, UntouchedKept
<1>3. AskedOK'
  <2> SUFFICES ASSUME mode.at = "archive", mode.key \notin touched'
               PROVE  ~db'.cards[mode.key].archived
    BY DEF AskedOK
  <2>1. mode.key \in Present(db) /\ mode.key \in Cards
    <3>1. mode \in [at : {"archive"}, key : Present(db)]
      BY DEF TuiInv, ViewOK, ModeOf
    <3> QED
      BY <3>1 DEF Present
  <2> QED
    BY <2>1 DEF TuiInv, ViewOK, AskedOK, UntouchedKept
<1> QED
  BY <1>1, <1>2, <1>3 DEF TuiInv, ViewOK

LEMMA SteadyKept ==
    ASSUME TuiInv, Steady(db, db'), touched' = touched
    PROVE  UntouchedKept
BY DEF TuiInv, DataOK, Steady, UntouchedKept

LEMMA StillKeeps ==
    ASSUME TuiConstants, TuiInv, Still, IsFocus(focus'), scope' \in Scopes,
           mode' \in ModeOf(Present(db)),
           mode'.at = "archive" /\ mode'.key \notin touched => ~db.cards[mode'.key].archived
    PROVE  TuiInv'
<1>1. UNCHANGED <<db, seen, undo, edit, over, own, others, touched, base>>
  BY DEF Still, data, counts, history
<1>2. UntouchedKept
  BY <1>1 DEF TuiInv, DataOK, UntouchedKept
<1>3. DataOK' /\ PastOK'
  BY <1>1, <1>2, DataKept DEF TuiInv, DataOK
<1>4. ViewOK'
  BY <1>1 DEF TuiInv, ViewOK, SeenOK, AskedOK
<1> QED
  BY <1>3, <1>4 DEF TuiInv

\* A reload after a write that leaves the untouched cards as they were.
LEMMA ReloadKeeps ==
    ASSUME TuiConstants, TuiInv, UntouchedKept, undo' = undo, base' = base,
           own' \in Nat, others' \in Nat, edit' \in EditOf(Present(db')),
           NEW sc \in Scopes, NEW f, IsFocus(f), NEW md \in ModeOf(Present(db)),
           md = mode \/ md.at # "archive", Reload(sc, f, md)
    PROVE  TuiInv'
<1>1. DataOK' /\ PastOK'
  BY DataKept
<1>2. db' \in Database /\ md \in ModeOf(Present(db'))
  BY Wider DEF UntouchedKept
<1>3. md.at = "archive" /\ md.key \notin touched' => ~db'.cards[md.key].archived
  <2> SUFFICES ASSUME md.at = "archive", md.key \notin touched' PROVE ~db'.cards[md.key].archived
    OBVIOUS
  <2>1. md \in [at : {"archive"}, key : Present(db)] /\ md = mode
    BY DEF ModeOf
  <2>2. md.key \in Present(db) /\ md.key \in Cards
    BY <2>1 DEF Present
  <2> QED
    BY <2>1, <2>2 DEF TuiInv, ViewOK, AskedOK, UntouchedKept
<1>4. ViewOK'
  BY <1>2, <1>3, ReloadOK
<1> QED
  BY <1>1, <1>4 DEF TuiInv

\* A change is pushed on the stack, and its command does it.
LEMMA PushKeepsPast ==
    ASSUME TuiConstants, TuiInv, NEW op \in OpOf(Present(db)), Push(op),
           db' \in Database, Present(db) \subseteq Present(db'),
           \A k \in Cards \ touched : Changes(op, k, db.cards[k], db'.cards[k])
    PROVE  /\ undo' \in Seq(OpOf(Present(db'))) /\ Len(undo') <= UndoDepth
           /\ base' \in [Cards -> CardRow \cup {None}] /\ touched' = touched
           /\ PastOK'
<1> DEFINE O == OpOf(Present(db))
           s == IF Len(undo) = UndoDepth THEN Tail(undo) ELSE undo
           gone == undo[1]
<1>1. undo \in Seq(O) /\ Len(undo) <= UndoDepth /\ UndoDepth \in Nat \ {0}
  BY DEF TuiInv, DataOK, TuiConstants
<1>2. touched' = touched /\ undo' = Append(s, op)
  BY DEF Push, Pushed
<1>3. s \in Seq(O) /\ Len(s) < UndoDepth
  <2> HIDE DEF O
  <2>1. CASE Len(undo) = UndoDepth
    <3>1. undo # <<>>
      BY <2>1, <1>1
    <3>2. Tail(undo) \in Seq(O) /\ Len(Tail(undo)) = Len(undo) - 1
      BY <3>1, <1>1
    <3> QED
      BY <3>2, <2>1, <1>1
  <2>2. CASE Len(undo) # UndoDepth
    <3>1. Len(undo) \in Nat
      BY <1>1
    <3> QED
      BY <3>1, <2>2, <1>1
  <2> QED
    BY <2>1, <2>2
<1>4. undo' \in Seq(OpOf(Present(db'))) /\ Len(undo') <= UndoDepth
  <2>1. Append(s, op) \in Seq(O) /\ Len(Append(s, op)) = Len(s) + 1 /\ Len(s) \in Nat
    <3> HIDE DEF O, s
    <3> QED
      BY <1>3 DEF O
  <2>2. Seq(O) \subseteq Seq(OpOf(Present(db')))
    BY Wider
  <2> HIDE DEF s, O
  <2>3. Len(s) + 1 <= UndoDepth
    BY <2>1, <1>1, <1>3
  <2>4. undo' \in Seq(O) /\ Len(undo') = Len(s) + 1
    BY <2>1, <1>2
  <2> QED
    BY <2>2, <2>3, <2>4
<1>5. /\ base' \in [Cards -> CardRow \cup {None}]
      /\ \A k \in Cards \ touched : base'[k] \in CardRow /\ HasPast(k, s, base'[k], db.cards[k])
  <2>0. /\ base \in [Cards -> CardRow \cup {None}]
        /\ \A k \in Cards \ touched : base[k] \in CardRow /\ HasPast(k, undo, base[k], db.cards[k])
    BY DEF TuiInv, DataOK, PastOK
  <2>1. CASE Len(undo) < UndoDepth
    <3>1. base' = base /\ s = undo
      BY <2>1, <1>1 DEF Push
    <3> QED
      BY <3>1, <2>0
  <2>2. CASE ~(Len(undo) < UndoDepth)
    <3>1. Len(undo) = UndoDepth /\ undo # <<>> /\ s = Tail(undo)
      <4>1. Len(undo) \in Nat
        BY <1>1
      <4> QED
        BY <4>1, <2>2, <1>1
    <3>2. gone \in O
      <4> HIDE DEF O
      <4> QED
        BY <3>1, <1>1
    <3> HIDE DEF gone, s
    <3>3. ASSUME NEW k \in Cards \ touched, base'[k] \in CardRow,
                 \A st, on : ChangeOf(gone, k, base[k].status, st, OnBoard(base[k]), on)
                                => st = base'[k].status /\ on = OnBoard(base'[k])
          PROVE  HasPast(k, s, base'[k], db.cards[k])
      <4>1. HasPast(k, undo, base[k], db.cards[k])
        BY <2>0
      <4> HIDE DEF O
      <4>2. HasPast(k, Tail(undo), base'[k], db.cards[k])
        BY <4>1, <3>1, <3>3, <1>1, PastDropped DEF gone
      <4> QED
        BY <4>2, <3>1
    <3>4. ASSUME NEW k \in Cards \ touched, k # gone.key, base'[k] = base[k]
          PROVE  base'[k] \in CardRow /\ HasPast(k, s, base'[k], db.cards[k])
      BY <3>3, <3>4, <2>0 DEF ChangeOf
    <3>5. gone.key \in Cards
      BY <3>2 DEF OpOf, Present
    <3>6. CASE gone.key \in touched
      <4>1. base' = base
        BY <3>6 DEF Push, gone
      <4> QED
        BY <4>1, <3>4, <3>6, <2>0
    <3>7. CASE gone.key \notin touched
      <4>0. base[gone.key] \in CardRow
        BY <3>5, <3>7, <2>0
      <4>1. CASE gone.op = "move"
        <5> DEFINE r == [base[gone.key] EXCEPT !.status = gone.to]
        <5>1. gone.to \in Status
          BY <4>1, <3>2 DEF OpOf
        <5>2. r \in CardRow /\ r.status = gone.to /\ r.archived = base[gone.key].archived
          BY <4>0, <5>1 DEF CardRow
        <5>3. base' = [base EXCEPT ![gone.key] = r]
          BY <4>1, <3>7, <2>2 DEF Push, gone
        <5> HIDE DEF r
        <5>4. base' \in [Cards -> CardRow \cup {None}] /\ base'[gone.key] = r
          BY <5>2, <5>3, <2>0, <3>5
        <5>5. \A k \in Cards : k # gone.key => base'[k] = base[k]
          BY <5>3, <2>0
        <5>6. HasPast(gone.key, s, base'[gone.key], db.cards[gone.key])
          BY <3>3, <3>5, <3>7, <4>1, <5>2, <5>4 DEF ChangeOf, OnBoard
        <5> QED
          BY <3>4, <5>2, <5>4, <5>5, <5>6
      <4>2. CASE gone.op = "archive"
        <5> DEFINE r == [base[gone.key] EXCEPT !.archived = TRUE]
        <5>2. r \in CardRow /\ r.archived = TRUE /\ r.status = base[gone.key].status
          BY <4>0 DEF CardRow
        <5>3. base' = [base EXCEPT ![gone.key] = r]
          BY <4>2, <3>7, <2>2 DEF Push, gone
        <5> HIDE DEF r
        <5>4. base' \in [Cards -> CardRow \cup {None}] /\ base'[gone.key] = r
          BY <5>2, <5>3, <2>0, <3>5
        <5>5. \A k \in Cards : k # gone.key => base'[k] = base[k]
          BY <5>3, <2>0
        <5>6. HasPast(gone.key, s, base'[gone.key], db.cards[gone.key])
          BY <3>3, <3>5, <3>7, <4>2, <5>2, <5>4 DEF ChangeOf, OnBoard
        <5> QED
          BY <3>4, <5>2, <5>4, <5>5, <5>6
      <4>3. CASE gone.op \notin {"move", "archive"}
        <5>1. base' = base
          BY <4>3, <3>7, <2>2 DEF Push, gone
        <5>2. HasPast(gone.key, s, base'[gone.key], db.cards[gone.key])
          BY <5>1, <3>3, <3>5, <3>7, <4>0, <4>3 DEF ChangeOf
        <5> QED
          BY <5>1, <5>2, <3>4, <2>0
      <4> QED
        BY <4>1, <4>2, <4>3
    <3> QED
      BY <3>6, <3>7
  <2> QED
    BY <2>1, <2>2
<1>6. PastOK'
  <2> SUFFICES ASSUME NEW k \in Cards \ touched
               PROVE  /\ k \in Present(db') /\ base'[k] \in CardRow
                      /\ HasPast(k, undo', base'[k], db'.cards[k])
    BY <1>2 DEF PastOK
  <2>1. k \in Present(db')
    BY DEF TuiInv, PastOK
  <2>2. db'.cards[k].status \in Status
    BY <2>1, Rows DEF CardRow
  <2>3. base'[k] \in CardRow /\ HasPast(k, s, base'[k], db.cards[k])
    BY <1>5
  <2>4. Changes(op, k, db.cards[k], db'.cards[k])
    OBVIOUS
  <2> HIDE DEF O, s
  <2>5. op \in O
    BY DEF O
  <2>6. HasPast(k, Append(s, op), base'[k], db'.cards[k])
    BY <1>3, <2>2, <2>3, <2>4, <2>5, PastPushed
  <2> QED
    BY <2>1, <2>3, <2>6, <1>2
<1> QED
  BY <1>2, <1>4, <1>5, <1>6
-----------------------------------------------------------------------------
(***************************************************************************)
(* The steps, one lemma for each family of keys.                           *)
(***************************************************************************)
LEMMA CardAtIs ==
    ASSUME TuiConstants, NEW cards, NEW sc, NEW f, CardAt(cards, sc, f) # None
    PROVE  LET k == CardAt(cards, sc, f) IN
           /\ k \in Column(cards, sc, f.col) /\ Place(cards, Column(cards, sc, f.col), k) = f.idx
           /\ k \in Cards /\ cards[k] # None /\ cards[k].status = f.col
<1> DEFINE here == {k \in Column(cards, sc, f.col) :
                       Place(cards, Column(cards, sc, f.col), k) = f.idx}
<1>1. CardAt(cards, sc, f) = IF here = {} THEN None ELSE CHOOSE k \in here : TRUE
  BY DEF CardAt
<1>2. CardAt(cards, sc, f) \in here
  <2> HIDE DEF here
  <2> QED
    BY <1>1
<1> QED
  BY <1>2 DEF Column

\* The card that has the cursor exists, and is what it is shown to be unless others touched it.
LEMMA FocusedCard ==
    ASSUME TuiConstants, TuiInv, NEW f, NEW k, k = CardAt(seen.cards, scope, f), k # None
    PROVE  /\ k \in Present(db) /\ seen.cards[k] # None
           /\ seen.cards[k].status = f.col /\ f.col \in Status
           /\ seen.cards[k].project \in Project
           /\ k \notin touched => ~db.cards[k].archived /\ f.col = db.cards[k].status
<1>1. k \in Cards /\ seen.cards[k] # None /\ seen.cards[k].status = f.col
  BY CardAtIs
<1> QED
  BY <1>1 DEF TuiInv, ViewOK, SeenOK

LEMMA StillFocus ==
    ASSUME TuiConstants, TuiInv, Still, IsFocus(focus'), UNCHANGED <<mode, scope>>
    PROVE  TuiInv'
<1>1. scope \in Scopes /\ mode \in ModeOf(Present(db)) /\ AskedOK
  BY DEF TuiInv, ViewOK
<1> QED
  BY <1>1, StillKeeps DEF AskedOK

LEMMA StillMode ==
    ASSUME TuiConstants, TuiInv, NEW md \in ModeOf(Present(db)), Mode(md),
           md.at = "archive" /\ md.key \notin touched => ~db.cards[md.key].archived
    PROVE  TuiInv'
<1>1. scope' \in Scopes /\ IsFocus(focus')
  BY DEF TuiInv, ViewOK, Mode
<1> QED
  BY <1>1, StillKeeps DEF Mode

LEMMA PlainModes ==
    ASSUME NEW P
    PROVE  /\ Normal \in ModeOf(P) /\ Normal.at # "archive"
           /\ [at |-> "activity"] \in ModeOf(P)
BY DEF Normal, ModeOf

LEMMA CursorKeys ==
    ASSUME TuiConstants, TuiInv, FocusSideways \/ FocusColumn \/ FocusAlong
    PROVE  TuiInv'
<1>1. CASE FocusColumn
  <2>1. Still /\ UNCHANGED <<mode, scope>> /\ IsFocus(focus')
    BY <1>1, RestoredFocus DEF FocusColumn, GoTo
  <2> QED
    BY <2>1, StillFocus
<1>2. CASE FocusAlong
  <2>1. Still /\ UNCHANGED <<mode, scope>> /\ \E i : focus' = [focus EXCEPT !.idx = i]
    BY <1>2 DEF FocusAlong
  <2>2. IsFocus(focus')
    BY <2>1 DEF TuiInv, ViewOK, IsFocus
  <2> QED
    BY <2>1, <2>2, StillFocus
<1>3. CASE FocusSideways
  <2> DEFINE here == CHOOSE i \in DOMAIN Columns : Columns[i] = focus.col
             left == {i \in Full(seen.cards, scope) : i < here}
             right == {i \in Full(seen.cards, scope) : i > here}
  <2>1. /\ Still /\ UNCHANGED <<mode, scope>>
        /\ \/ left # {} /\ GoTo(Columns[Max(left)])
           \/ right # {} /\ GoTo(Columns[Min(right)])
    BY <1>3 DEF FocusSideways
  <2>2. /\ left \subseteq DOMAIN Columns /\ right \subseteq DOMAIN Columns
        /\ DOMAIN Columns = 1..Len(Columns) /\ Len(Columns) \in Nat
        /\ \A i \in DOMAIN Columns : Columns[i] \in Status
    BY DEF Full, TuiConstants
  <2> HIDE DEF left, right
  <2>3. left # {} => Columns[Max(left)] \in Status
    <3>1. left \in SUBSET Int /\ Len(Columns) \in Int /\ \A y \in left : y <= Len(Columns)
      BY <2>2
    <3>2. left # {} => Max(left) \in left
      BY <3>1, GreatestIs
    <3> QED
      BY <3>2, <2>2
  <2>4. right # {} => Columns[Min(right)] \in Status
    <3>1. right \in SUBSET Nat
      BY <2>2
    <3> QED
      BY <3>1, <2>2, LeastIs
  <2>5. IsFocus(focus')
    BY <2>1, <2>3, <2>4, RestoredFocus DEF GoTo
  <2> QED
    BY <2>1, <2>5, StillFocus
<1> QED
  BY <1>1, <1>2, <1>3

LEMMA JumpKeeps ==
    ASSUME TuiConstants, TuiInv, NEW k \in Cards, JumpTo(k)
    PROVE  TuiInv'
<1>1. /\ Located(seen.cards, scope, k) # None /\ focus' = Located(seen.cards, scope, k)
      /\ mode' = Normal /\ scope' = scope /\ Still
  BY DEF JumpTo
<1>2. IsFocus(focus')
  BY <1>1, LocatedFocus DEF TuiInv, ViewOK, SeenOK
<1> QED
  BY <1>1, <1>2, PlainModes, StillKeeps DEF TuiInv, ViewOK

LEMMA ModeKeys ==
    ASSUME TuiConstants, TuiInv,
           \/ OpenDetail \/ JumpToBlocker \/ BeginMove \/ ArchiveRequest \/ NewIssue
           \/ OpenActivityPage \/ LeaveActivityPage \/ ActPageSelect \/ FuzzyFind
           \/ \E m \in {"detail", "move", "archive", "new"} : Cancel(m)
    PROVE  TuiInv'
<1>0. /\ db \in Database /\ mode \in ModeOf(Present(db)) /\ scope \in Scopes /\ focus.col \in Status
      /\ Focused # None => /\ Focused \in Present(db) /\ seen.cards[Focused].project \in Project
                           /\ Focused \notin touched => ~db.cards[Focused].archived
  BY FocusedCard DEF TuiInv, ViewOK, DataOK, IsFocus, Focused
<1>1. CASE OpenDetail
  <2>1. /\ Focused # None
        /\ Mode([at |-> "detail", key |-> Focused, blocker |-> OpenBlocker(db, Focused)])
    BY <1>1 DEF OpenDetail
  <2>2. OpenBlocker(db, Focused) \in Cards \cup {None}
    BY <1>0, <2>1, BlockerType
  <2> DEFINE md == [at |-> "detail", key |-> Focused, blocker |-> OpenBlocker(db, Focused)]
  <2>3. md \in ModeOf(Present(db)) /\ md.at # "archive"
    BY <1>0, <2>1, <2>2 DEF ModeOf
  <2> QED
    BY <2>1, <2>3, StillMode
<1>2. CASE JumpToBlocker
  <2>1. mode.at = "detail" /\ mode.blocker # None /\ JumpTo(mode.blocker)
    BY <1>2 DEF JumpToBlocker, Key
  <2>2. mode.blocker \in Cards
    <3>1. mode \in [at : {"detail"}, key : Present(db), blocker : Cards \cup {None}]
      BY <1>0, <2>1 DEF ModeOf
    <3> QED
      BY <3>1, <2>1
  <2> QED
    BY <2>1, <2>2, JumpKeeps
<1>3. CASE BeginMove
  <2> DEFINE md == [at |-> "move", on |-> Focused]
  <2>1. Mode(md)
    BY <1>3 DEF BeginMove
  <2>2. Focused \in Cards \cup {None}
    BY <1>0 DEF Present
  <2>3. md \in ModeOf(Present(db)) /\ md.at # "archive"
    BY <2>2 DEF ModeOf
  <2> QED
    BY <2>1, <2>3, StillMode
<1>4. CASE ArchiveRequest
  <2> DEFINE md == [at |-> "archive", key |-> Focused]
  <2>1. Focused # None /\ Mode(md)
    BY <1>4 DEF ArchiveRequest
  <2>2. md \in ModeOf(Present(db)) /\ md.key = Focused
    BY <1>0, <2>1 DEF ModeOf
  <2> QED
    BY <1>0, <2>1, <2>2, StillMode
<1>5. CASE NewIssue
  <2>1. PICK p \in AnyProject : Mode([at |-> "new", project |-> p,
                                      status |-> focus.col, stone |-> scope.milestone])
    BY <1>5 DEF NewIssue
  <2>2. p \in Project
    <3> DEFINE on == {k \in Cards : seen.cards[k] # None}
    <3>1. on # {} => seen.cards[Min(on)].project \in Project
      <4>1. on \in SUBSET Nat
        BY DEF Cards, TuiConstants
      <4>2. \A k \in on : seen.cards[k].project \in Project
        BY DEF TuiInv, ViewOK, SeenOK
      <4> HIDE DEF on
      <4> QED
        BY <4>1, <4>2, LeastIs
    <3>2. scope.project # None => scope.project \in Project
      BY <1>0 DEF Scopes
    <3>3. p \in IF scope.project # None THEN {scope.project}
                ELSE IF Focused # None THEN {seen.cards[Focused].project}
                ELSE IF on # {} THEN {seen.cards[Min(on)].project} ELSE {}
      BY <2>1 DEF AnyProject
    <3> HIDE DEF on
    <3> QED
      BY <1>0, <3>1, <3>2, <3>3
  <2> DEFINE md == [at |-> "new", project |-> p, status |-> focus.col, stone |-> scope.milestone]
  <2>3. md \in ModeOf(Present(db)) /\ md.at # "archive"
    BY <1>0, <2>2 DEF ModeOf, Scopes
  <2> QED
    BY <2>1, <2>3, StillMode
<1>6. CASE OpenActivityPage
  <2>1. Mode([at |-> "activity"])
    BY <1>6 DEF OpenActivityPage
  <2> QED
    BY <2>1, PlainModes, StillMode
<1>7. CASE LeaveActivityPage \/ \E m \in {"detail", "move", "archive", "new"} : Cancel(m)
  <2>1. Mode(Normal)
    BY <1>7 DEF LeaveActivityPage, Cancel
  <2> QED
    BY <2>1, PlainModes, StillMode
<1>8. CASE ActPageSelect \/ FuzzyFind
  BY <1>8, JumpKeeps DEF ActPageSelect, FuzzyFind
<1> QED
  BY <1>1, <1>2, <1>3, <1>4, <1>5, <1>6, <1>7, <1>8

LEMMA RunDone ==
    ASSUME TuiConstants, NEW d \in Database, NEW sc, NEW f, NEW md, Run(d, sc, f, md)
    PROVE  /\ db' = d /\ Reload(sc, f, md)
           /\ own' = own + 1 /\ UNCHANGED <<edit, others>>
BY DEF Run, TuiConstants

\* A command whose change is on the stack.
LEMMA PushRunKeeps ==
    ASSUME TuiConstants, TuiInv, NEW op \in OpOf(Present(db)), Push(op),
           NEW d \in Database, Present(db) \subseteq Present(d), NEW f, IsFocus(f),
           NEW md \in ModeOf(Present(db)), md.at # "archive", Run(d, scope, f, md),
           \A k \in Cards \ touched : Changes(op, k, db.cards[k], d.cards[k])
    PROVE  TuiInv'
<1>1. /\ db' = d /\ Reload(scope, f, md) /\ own' = own + 1 /\ UNCHANGED <<edit, others>>
  BY RunDone
<1>2. /\ undo' \in Seq(OpOf(Present(db'))) /\ Len(undo') <= UndoDepth
      /\ base' \in [Cards -> CardRow \cup {None}] /\ touched' = touched
      /\ PastOK'
  BY <1>1, PushKeepsPast
<1>3. /\ EditOf(Present(db)) \subseteq EditOf(Present(db'))
      /\ ModeOf(Present(db)) \subseteq ModeOf(Present(db'))
  BY <1>1, Wider
<1>4. DataOK'
  BY <1>1, <1>2, <1>3 DEF TuiInv, DataOK
<1>5. scope \in Scopes
  BY DEF TuiInv, ViewOK
<1>6. ViewOK'
  BY <1>1, <1>3, <1>5, ReloadOK
<1> QED
  BY <1>2, <1>4, <1>6 DEF TuiInv

LEMMA RefusedKeeps ==
    ASSUME TuiInv, UNCHANGED <<data, focus, mode, scope, undo, touched, base, others>>,
           own' \in Nat, edit' \in EditOf(Present(db))
    PROVE  TuiInv'
<1>1. UNCHANGED <<db, seen>>
  BY DEF data
<1>2. UntouchedKept
  BY <1>1 DEF TuiInv, DataOK, UntouchedKept
<1>3. DataOK' /\ PastOK'
  BY <1>1, <1>2, DataKept DEF TuiInv, DataOK
<1>4. ViewOK'
  BY <1>1, <1>2, ViewKept
<1> QED
  BY <1>3, <1>4 DEF TuiInv

\* A command that is not for undoing.
LEMMA RunKeeps ==
    ASSUME TuiConstants, TuiInv, NEW d, d = None \/ Steady(db, d), NEW sc \in Scopes,
           NEW f, IsFocus(f), NEW md, md = mode \/ md = Normal, Run(d, sc, f, md), NoUndo
    PROVE  TuiInv'
<1>0. UNCHANGED <<undo, touched, base, edit, others>> /\ own' = own + 1
  BY DEF NoUndo, history, Run
<1>1. /\ own' \in Nat /\ others' \in Nat /\ edit' \in EditOf(Present(db))
      /\ mode \in ModeOf(Present(db))
  BY <1>0 DEF TuiInv, DataOK, ViewOK
<1>2. CASE d = None
  <2>1. UNCHANGED <<data, focus, mode, scope>>
    BY <1>2 DEF Run
  <2> QED
    BY <2>1, <1>0, <1>1, RefusedKeeps
<1>3. CASE d # None
  <2>1. d \in Database /\ Steady(db, d)
    BY <1>3 DEF Steady
  <2>2. db' = d /\ Reload(sc, f, md)
    BY <1>3, <2>1, RunDone
  <2>3. UntouchedKept
    BY <1>0, <2>1, <2>2, SteadyKept
  <2>4. edit' \in EditOf(Present(db'))
    BY <1>1, <2>3, Wider DEF UntouchedKept
  <2>5. md \in ModeOf(Present(db)) /\ (md = mode \/ md.at # "archive")
    BY <1>1, PlainModes
  <2> QED
    BY <1>0, <1>1, <2>2, <2>3, <2>4, <2>5, ReloadKeeps
<1> QED
  BY <1>2, <1>3

\* A reload alone.
LEMMA ReloadedKeeps ==
    ASSUME TuiConstants, TuiInv, NEW sc \in Scopes, NEW f, IsFocus(f),
           NEW md, md = mode \/ md = Normal, Reload(sc, f, md),
           UNCHANGED <<db, undo, own, others, touched, base>>, edit' \in EditOf(Present(db))
    PROVE  TuiInv'
<1>1. UntouchedKept
  BY DEF TuiInv, DataOK, UntouchedKept
<1>2. own' \in Nat /\ others' \in Nat /\ mode \in ModeOf(Present(db))
  BY DEF TuiInv, DataOK, ViewOK
<1>3. md \in ModeOf(Present(db)) /\ (md = mode \/ md.at # "archive")
  BY <1>2, PlainModes
<1> QED
  BY <1>1, <1>2, <1>3, ReloadKeeps

LEMMA ChangeKeys ==
    ASSUME TuiConstants, TuiInv, (\E st \in Status : MoveTo(st)) \/ MoveIssueDir \/ Archive
    PROVE  TuiInv'
<1>0. /\ db \in Database /\ own \in Nat /\ others \in Nat /\ scope \in Scopes /\ IsFocus(focus)
      /\ mode \in ModeOf(Present(db)) /\ \A k \in Cards \ touched : k \in Present(db)
  BY DEF TuiInv, DataOK, ViewOK, PastOK
<1>1. ASSUME NEW from, NEW to \in Status, NEW f, IsFocus(f), NEW md \in ModeOf(Present(db)),
             md.at # "archive", Focused # None, from = seen.cards[Focused].status,
             Push([op |-> "move", key |-> Focused, from |-> from, to |-> to]),
             Run(Moved(db, Focused, to), scope, f, md)
      PROVE  TuiInv'
  <2> DEFINE op == [op |-> "move", key |-> Focused, from |-> from, to |-> to]
             d == Moved(db, Focused, to)
  <2>1. /\ Focused \in Present(db) /\ from \in Status
        /\ Focused \notin touched => from = db.cards[Focused].status
    BY <1>1, FocusedCard DEF Focused
  <2>2. op \in OpOf(Present(db)) /\ Push(op) /\ Run(d, scope, f, md)
    BY <1>1, <2>1 DEF OpOf
  <2>3. /\ d \in Database /\ Present(d) = Present(db)
        /\ \A j \in Cards \ {Focused} : d.cards[j] = db.cards[j]
        /\ d.cards[Focused].status = to
        /\ d.cards[Focused].archived = db.cards[Focused].archived
    BY <1>0, <2>1, MovedRow
  <2>4. op.op = "move" /\ op.key = Focused /\ op.from = from /\ op.to = to
    OBVIOUS
  <2> HIDE DEF d, op
  <2>5. ASSUME NEW k \in Cards \ touched PROVE Changes(op, k, db.cards[k], d.cards[k])
    <3>1. CASE k = Focused
      BY <3>1, <2>1, <2>3, <2>4 DEF Changes, ChangeOf, OnBoard
    <3>2. CASE k # Focused
      BY <3>2, <2>3, <2>4 DEF Changes, ChangeOf
    <3> QED
      BY <3>1, <3>2
  <2> QED
    BY <1>1, <2>2, <2>3, <2>5, PushRunKeeps
<1>2. ASSUME NEW st \in Status, MoveTo(st) PROVE TuiInv'
  <2>1. CASE Focused = None
    BY <1>2, <2>1, PlainModes, StillMode DEF MoveTo
  <2>2. CASE Focused # None
    BY <1>0, <1>1, <1>2, <2>2, PlainModes DEF MoveTo
  <2> QED
    BY <2>1, <2>2
<1>3. ASSUME NEW step \in {-1, 1}, MoveIssueAcross(step) PROVE TuiInv'
  <2>1. /\ mode.at = "normal" /\ Focused # None
        /\ \E i \in DOMAIN Columns :
              /\ i + step \in DOMAIN Columns
              /\ LET to == Columns[i + step]
                 IN /\ Push([op |-> "move", key |-> Focused, from |-> focus.col, to |-> to])
                    /\ Run(Moved(db, Focused, to), scope, [col |-> to, idx |-> Landing(to)], mode)
    BY <1>3 DEF MoveIssueAcross, Key
  <2>2. PICK to \in Status :
            /\ Push([op |-> "move", key |-> Focused, from |-> focus.col, to |-> to])
            /\ Run(Moved(db, Focused, to), scope, [col |-> to, idx |-> Landing(to)], mode)
    BY <2>1 DEF TuiConstants
  <2>3. focus.col = seen.cards[Focused].status
    BY <2>1, FocusedCard DEF Focused
  <2>4. IsFocus([col |-> to, idx |-> Landing(to)])
    BY DEF IsFocus
  <2> QED
    BY <1>0, <1>1, <2>1, <2>2, <2>3, <2>4
<1>4. ASSUME NEW step \in {-1, 1}, Reorder(step) PROVE TuiInv'
  <2> DEFINE there == [focus EXCEPT !.idx = @ + step]
             other == IF there.idx < 0 THEN None ELSE CardAt(seen.cards, scope, there)
             op == [op |-> "swap", key |-> Focused, other |-> other]
             d == Swapped(db, Focused, other)
  <2>1. /\ mode.at = "normal" /\ Focused # None /\ other # None
        /\ Push(op) /\ Run(d, scope, there, mode)
    BY <1>4 DEF Reorder, Key
  <2>2. IsFocus(there)
    BY <1>0 DEF IsFocus
  <2> HIDE DEF there
  <2>3. Focused \in Present(db) /\ other \in Present(db)
    <3>1. other = CardAt(seen.cards, scope, there)
      BY <2>1
    <3> HIDE DEF other
    <3> QED
      BY <2>1, <3>1, FocusedCard DEF Focused
  <2> HIDE DEF other
  <2>4. op \in OpOf(Present(db)) /\ op.op = "swap"
    BY <2>3 DEF OpOf
  <2>5. /\ d \in Database /\ Present(d) = Present(db)
        /\ \A i \in Present(db) : /\ d.cards[i].status = db.cards[i].status
                                  /\ d.cards[i].archived = db.cards[i].archived
    BY <1>0, <2>3, SwappedRows
  <2> HIDE DEF d, op
  <2>6. ASSUME NEW k \in Cards \ touched PROVE Changes(op, k, db.cards[k], d.cards[k])
    BY <1>0, <2>4, <2>5 DEF Changes, ChangeOf, OnBoard
  <2> QED
    BY <1>0, <2>1, <2>2, <2>4, <2>5, <2>6, PushRunKeeps
<1>5. CASE Archive
  <2> DEFINE op == [op |-> "archive", key |-> mode.key]
             d == Archived(db, mode.key, TRUE)
  <2>1. mode.at = "archive" /\ Push(op) /\ Run(d, scope, focus, Normal)
    BY <1>5 DEF Archive, Key, Confirmed
  <2>2. mode.key \in Present(db)
    <3>1. mode \in [at : {"archive"}, key : Present(db)]
      BY <1>0, <2>1 DEF ModeOf
    <3> QED
      BY <3>1
  <2>3. op \in OpOf(Present(db)) /\ op.op = "archive" /\ op.key = mode.key
    BY <2>2 DEF OpOf
  <2>4. /\ d \in Database /\ Present(d) = Present(db)
        /\ \A j \in Cards \ {mode.key} : d.cards[j] = db.cards[j]
        /\ d.cards[mode.key].archived = TRUE
        /\ d.cards[mode.key].status = db.cards[mode.key].status
    BY <1>0, <2>2, ArchivedRow
  <2>5. mode.key \notin touched => ~db.cards[mode.key].archived
    BY <2>1 DEF TuiInv, ViewOK, AskedOK
  <2> HIDE DEF d, op
  <2>6. ASSUME NEW k \in Cards \ touched PROVE Changes(op, k, db.cards[k], d.cards[k])
    <3>1. CASE k = mode.key
      BY <3>1, <2>3, <2>4, <2>5 DEF Changes, ChangeOf, OnBoard
    <3>2. CASE k # mode.key
      BY <3>2, <2>3, <2>4 DEF Changes, ChangeOf
    <3> QED
      BY <3>1, <3>2
  <2> QED
    BY <1>0, <2>1, <2>3, <2>4, <2>6, PlainModes, PushRunKeeps
<1> QED
  BY <1>2, <1>3, <1>4, <1>5 DEF MoveIssueDir

LEMMA UndoKeeps ==
    ASSUME TuiConstants, TuiInv, Undo
    PROVE  TuiInv'
<1> DEFINE u == Last(undo)
           d == Reversed(db, u)
           O == OpOf(Present(db))
<1>0. /\ db \in Database /\ own \in Nat /\ others \in Nat /\ scope \in Scopes /\ IsFocus(focus)
      /\ mode \in ModeOf(Present(db)) /\ undo \in Seq(O) /\ Len(undo) <= UndoDepth
      /\ edit \in EditOf(Present(db)) /\ UndoDepth \in Nat
  BY DEF TuiInv, DataOK, ViewOK, TuiConstants
<1>1. /\ mode.at = "normal" /\ undo # <<>> /\ undo' = Front(undo)
      /\ Run(d, scope, focus, mode) /\ UNCHANGED <<touched, base>>
  BY DEF Undo, Key, Popped, history
<1>2. u \in O /\ Front(undo) \in Seq(O) /\ Len(Front(undo)) <= UndoDepth
  <2> HIDE DEF O
  <2>1. Len(undo) \in Nat /\ Len(undo) # 0
    BY <1>0, <1>1
  <2>2. u \in O
    BY <1>0, <2>1 DEF Last
  <2>3. /\ Front(undo) = SubSeq(undo, 1, Len(undo) - 1)
        /\ \A i \in 1..(Len(undo) - 1) : undo[i] \in O
    BY <1>0, <2>1 DEF Front
  <2>4. /\ Front(undo) \in Seq(O)
        /\ Len(Front(undo)) = IF 1 <= Len(undo) - 1 THEN (Len(undo) - 1) - 1 + 1 ELSE 0
    BY <2>1, <2>3, SubSeqProperties
  <2> QED
    BY <1>0, <2>1, <2>2, <2>4
<1>3. /\ d \in Database /\ Present(d) = Present(db)
      /\ \A k \in Present(db) : \A st, on :
            ChangeOf(u, k, st, db.cards[k].status, on, OnBoard(db.cards[k]))
               => st = d.cards[k].status /\ on = OnBoard(d.cards[k])
  <2>1. CASE u.op = "move"
    <3>1. u.key \in Present(db) /\ u.from \in Status
      BY <1>2, <2>1 DEF OpOf
    <3>2. d = Moved(db, u.key, u.from)
      BY <2>1 DEF Reversed
    <3> HIDE DEF u, d, O
    <3>3. /\ d \in Database /\ Present(d) = Present(db)
          /\ \A j \in Cards \ {u.key} : d.cards[j] = db.cards[j]
          /\ d.cards[u.key].status = u.from
          /\ d.cards[u.key].archived = db.cards[u.key].archived
      BY <1>0, <3>1, <3>2, MovedRow
    <3>4. ASSUME NEW k \in Present(db), NEW st, NEW on,
                 ChangeOf(u, k, st, db.cards[k].status, on, OnBoard(db.cards[k]))
          PROVE  st = d.cards[k].status /\ on = OnBoard(d.cards[k])
      <4>1. CASE k = u.key
        BY <4>1, <3>3, <3>4, <2>1 DEF ChangeOf, OnBoard
      <4>2. CASE k # u.key
        BY <4>2, <3>3, <3>4 DEF ChangeOf, Present
      <4> QED
        BY <4>1, <4>2
    <3> QED
      BY <3>3, <3>4
  <2>2. CASE u.op = "swap"
    <3>1. u.key \in Present(db) /\ u.other \in Present(db)
      BY <1>2, <2>2 DEF OpOf
    <3>2. d = Swapped(db, u.key, u.other)
      BY <2>2 DEF Reversed
    <3> HIDE DEF u, d, O
    <3>3. /\ d \in Database /\ Present(d) = Present(db)
          /\ \A i \in Present(db) : /\ d.cards[i].status = db.cards[i].status
                                    /\ d.cards[i].archived = db.cards[i].archived
      BY <1>0, <3>1, <3>2, SwappedRows
    <3> QED
      BY <3>3, <2>2 DEF ChangeOf, OnBoard
  <2>3. CASE u.op \notin {"move", "swap"}
    <3>1. u.op = "archive" /\ u.key \in Present(db)
      BY <1>2, <2>3 DEF OpOf
    <3>2. d = Archived(db, u.key, FALSE)
      BY <3>1 DEF Reversed
    <3> HIDE DEF u, d, O
    <3>3. /\ d \in Database /\ Present(d) = Present(db)
          /\ \A j \in Cards \ {u.key} : d.cards[j] = db.cards[j]
          /\ d.cards[u.key].status = db.cards[u.key].status
          /\ d.cards[u.key].archived = FALSE
      <4> DEFINE b == FALSE
      <4>1. b \in BOOLEAN /\ b = FALSE
        OBVIOUS
      <4> HIDE DEF b
      <4>2. d = Archived(db, u.key, b)
        BY <3>2, <4>1
      <4>3. /\ d \in Database /\ Present(d) = Present(db)
            /\ \A j \in Cards \ {u.key} : d.cards[j] = db.cards[j]
            /\ d.cards[u.key].archived = b
            /\ d.cards[u.key].status = db.cards[u.key].status
        BY <1>0, <3>1, <4>1, <4>2, ArchivedRow
      <4> QED
        BY <4>1, <4>3
    <3>4. ASSUME NEW k \in Present(db), NEW st, NEW on,
                 ChangeOf(u, k, st, db.cards[k].status, on, OnBoard(db.cards[k]))
          PROVE  st = d.cards[k].status /\ on = OnBoard(d.cards[k])
      <4>1. CASE k = u.key
        BY <4>1, <3>1, <3>3, <3>4 DEF ChangeOf, OnBoard
      <4>2. CASE k # u.key
        BY <4>2, <3>3, <3>4 DEF ChangeOf, Present
      <4> QED
        BY <4>1, <4>2
    <3> QED
      BY <3>3, <3>4
  <2> QED
    BY <2>1, <2>2, <2>3
<1> HIDE DEF d
<1>4. /\ db' = d /\ Reload(scope, focus, mode) /\ own' = own + 1 /\ UNCHANGED <<edit, others>>
  BY <1>1, <1>3, RunDone
<1>5. PastOK'
  <2> SUFFICES ASSUME NEW k \in Cards \ touched
               PROVE  /\ k \in Present(db') /\ base[k] \in CardRow
                      /\ HasPast(k, Front(undo), base[k], db'.cards[k])
    BY <1>1 DEF PastOK
  <2>1. k \in Present(db) /\ base[k] \in CardRow /\ HasPast(k, undo, base[k], db.cards[k])
    BY DEF TuiInv, PastOK
  <2> HIDE DEF O
  <2>2. \A st, on : ChangeOf(Last(undo), k, st, db.cards[k].status, on, OnBoard(db.cards[k]))
                      => st = d.cards[k].status /\ on = OnBoard(d.cards[k])
    BY <1>3, <2>1
  <2>3. HasPast(k, Front(undo), base[k], d.cards[k])
    BY <1>0, <1>1, <2>1, <2>2, PastPopped
  <2> QED
    BY <1>3, <1>4, <2>1, <2>3
<1>6. DataOK'
  BY <1>0, <1>1, <1>2, <1>3, <1>4 DEF TuiInv, DataOK
<1>7. ViewOK'
  BY <1>0, <1>1, <1>3, <1>4, ReloadOK
<1> QED
  BY <1>5, <1>6, <1>7 DEF TuiInv

LEMMA PlainCommandKeys ==
    ASSUME TuiConstants, TuiInv, TagMilestone \/ MsPageCycleStatus \/ ProjPageArchive
    PROVE  TuiInv'
<1>0. db \in Database /\ own \in Nat /\ others \in Nat /\ scope \in Scopes /\ IsFocus(focus)
  BY DEF TuiInv, DataOK, ViewOK
<1>1. CASE TagMilestone
  <2>1. PICK name : Focused # None /\ Run(Tagged(db, Focused, name), scope, focus, mode) /\ NoUndo
    BY <1>1 DEF TagMilestone
  <2>2. Focused \in Present(db)
    BY <2>1, FocusedCard DEF Focused
  <2>3. Steady(db, Tagged(db, Focused, name))
    BY <1>0, <2>2, TaggedSteady
  <2> QED
    BY <1>0, <2>1, <2>3, RunKeeps
<1>2. CASE MsPageCycleStatus
  <2>1. PICK m \in Milestone : /\ Run(Restated(db, m, NextStatus(seen.stones[m].status)),
                                      scope, focus, mode)
                               /\ NoUndo
    BY <1>2 DEF MsPageCycleStatus, MilestoneRows
  <2> DEFINE st == NextStatus(seen.stones[m].status)
  <2>2. st \in {"open", "completed", "cancelled"}
    BY DEF NextStatus
  <2> HIDE DEF st
  <2>3. Restated(db, m, st) = None \/ Steady(db, Restated(db, m, st))
    BY <1>0, <2>2, SteadyOnes
  <2>4. Run(Restated(db, m, st), scope, focus, mode) /\ NoUndo
    BY <2>1 DEF st
  <2> QED
    BY <1>0, <2>3, <2>4, RunKeeps
<1>3. CASE ProjPageArchive
  <2>1. PICK p \in Project :
          /\ Run(Filed(db, p, p \notin seen.filed),
                 IF (p \notin seen.filed) /\ scope.project = p
                 THEN InProject(scope, None) ELSE scope, focus, mode)
          /\ NoUndo
    BY <1>3 DEF ProjPageArchive
  <2> DEFINE b == p \notin seen.filed
             sc == IF (p \notin seen.filed) /\ scope.project = p
                   THEN InProject(scope, None) ELSE scope
  <2>2. b \in BOOLEAN
    OBVIOUS
  <2>3. sc \in Scopes
    <3>1. scope.project = p => InProject(scope, None) = [project |-> None, milestone |-> None]
      BY DEF InProject, TuiConstants
    <3>2. [project |-> None, milestone |-> None] \in Scopes
      BY DEF Scopes
    <3> QED
      BY <1>0, <3>1, <3>2
  <2>4. Run(Filed(db, p, b), sc, focus, mode) /\ NoUndo
    BY <2>1
  <2> HIDE DEF b, sc
  <2>5. Steady(db, Filed(db, p, b))
    BY <1>0, <2>2, SteadyOnes
  <2> QED
    BY <1>0, <2>3, <2>4, <2>5, RunKeeps
<1> QED
  BY <1>1, <1>2, <1>3

LEMMA EditMilestoneKeeps ==
    ASSUME TuiConstants, TuiInv, NEW m \in Milestone, EditMilestone(m)
    PROVE  TuiInv'
<1>0. /\ own \in Nat /\ scope \in Scopes /\ IsFocus(focus) /\ edit \in EditOf(Present(db))
      /\ UNCHANGED <<undo, own, others, touched, base>>
  BY DEF TuiInv, DataOK, ViewOK, EditMilestone, counts, history
<1>1. [stone |-> m] \in EditOf(Present(db))
  BY DEF EditOf
<1>2. \/ UNCHANGED <<db, edit>> /\ Reload(scope, focus, mode)
      \/ UNCHANGED <<data, focus, mode, scope>> /\ edit' \in {edit, [stone |-> m]}
  BY DEF EditMilestone
<1>3. edit' \in EditOf(Present(db))
  BY <1>0, <1>1, <1>2
<1>4. CASE UNCHANGED <<db, edit>> /\ Reload(scope, focus, mode)
  BY <1>0, <1>3, <1>4, ReloadedKeeps
<1>5. CASE UNCHANGED <<data, focus, mode, scope>>
  BY <1>0, <1>3, <1>5, RefusedKeeps
<1> QED
  BY <1>2, <1>4, <1>5

LEMMA EditKeys ==
    ASSUME TuiConstants, TuiInv, EditCard \/ EditScope \/ MsPageEdit
    PROVE  TuiInv'
<1>0. /\ db \in Database /\ own \in Nat /\ scope \in Scopes /\ IsFocus(focus)
      /\ edit \in EditOf(Present(db))
  BY DEF TuiInv, DataOK, ViewOK
<1>1. CASE EditCard
  <2> DEFINE buffer == [key |-> Focused, row |-> db.cards[Focused]]
  <2>1. /\ Focused # None /\ UNCHANGED <<undo, own, others, touched, base>>
        /\ \/ UNCHANGED <<db, edit>> /\ Reload(scope, focus, mode)
           \/ UNCHANGED <<data, focus, mode, scope>> /\ edit' = buffer
    BY <1>1 DEF EditCard, counts, history
  <2>2. Focused \in Present(db) /\ db.cards[Focused] \in CardRow
    BY <1>0, <2>1, FocusedCard, Rows DEF Focused
  <2>3. buffer \in EditOf(Present(db))
    BY <2>2 DEF EditOf
  <2> HIDE DEF buffer
  <2>4. CASE UNCHANGED <<db, edit>> /\ Reload(scope, focus, mode)
    BY <1>0, <2>1, <2>4, ReloadedKeeps
  <2>5. CASE UNCHANGED <<data, focus, mode, scope>> /\ edit' = buffer
    BY <1>0, <2>1, <2>3, <2>5, RefusedKeeps
  <2> QED
    BY <2>1, <2>4, <2>5
<1>2. CASE EditScope
  <2>1. <<scope.project, scope.milestone>> \in Milestone
    BY <1>0, <1>2 DEF EditScope, Scopes, Milestone
  <2> QED
    BY <1>2, <2>1, EditMilestoneKeeps DEF EditScope
<1>3. CASE MsPageEdit
  BY <1>3, EditMilestoneKeeps DEF MsPageEdit, MilestoneRows
<1> QED
  BY <1>1, <1>2, <1>3

LEMMA EditorKeeps ==
    ASSUME TuiConstants, TuiInv, Editor
    PROVE  TuiInv'
<1>0. /\ db \in Database /\ own \in Nat /\ others \in Nat /\ own + 1 \in Nat
      /\ scope \in Scopes /\ IsFocus(focus)
      /\ edit \in EditOf(Present(db)) /\ touched \subseteq Cards /\ mode \in ModeOf(Present(db))
      /\ \A P : None \in EditOf(P)
  BY DEF TuiInv, DataOK, ViewOK, EditOf
<1>1. CASE SaveIssue
  <2>1. PICK st \in Status :
            /\ db' = Saved(db, edit.key, [edit.row EXCEPT !.status = st])
            /\ touched' = IF st # db.cards[edit.key].status
                          THEN touched \cup {edit.key} ELSE touched
    BY <1>1 DEF SaveIssue
  <2>2. /\ edit # None /\ "key" \in DOMAIN edit /\ Reload(scope, focus, mode) /\ edit' = None
        /\ own' = own + 1 /\ UNCHANGED <<undo, others, base>>
    BY <1>1 DEF SaveIssue, Return
  <2>3. edit.key \in Present(db) /\ edit.row \in CardRow
    <3>1. edit \in [key : Present(db), row : CardRow]
      <4>1. edit \notin [stone : Milestone]
        BY <2>2
      <4> QED
        BY <1>0, <2>2, <4>1 DEF EditOf
    <3> QED
      BY <3>1
  <2> DEFINE b == [edit.row EXCEPT !.status = st]
  <2>4. b \in CardRow /\ b.status = st
    BY <2>3 DEF CardRow
  <2>5. db' = Saved(db, edit.key, b)
    BY <2>1
  <2> HIDE DEF b
  <2>6. /\ db' \in Database /\ Present(db) \subseteq Present(db')
        /\ \A j \in Present(db) : db'.cards[j].archived = db.cards[j].archived
        /\ \A j \in Present(db) : j # edit.key \/ b.status = db.cards[edit.key].status
                                    => db'.cards[j].status = db.cards[j].status
    BY <1>0, <2>3, <2>4, <2>5, SavedRow
  <2>7. edit.key \in Cards
    BY <2>3 DEF Present
  <2>8. touched \subseteq touched' /\ touched' \subseteq Cards
    BY <1>0, <2>1, <2>7
  <2>9. UntouchedKept
    <3> SUFFICES ASSUME NEW k \in Cards \ touched', k \in Present(db)
                 PROVE  db'.cards[k].status = db.cards[k].status
      BY <2>6, <2>8 DEF UntouchedKept
    <3> QED
      BY <2>1, <2>4, <2>6
  <2> QED
    BY <1>0, <2>2, <2>9, ReloadKeeps
<1>4. CASE SaveRefused
  <2>1. PICK st \in Status :
            IF st # db.cards[edit.key].status
            THEN db' = Moved(db, edit.key, st) /\ touched' = touched \cup {edit.key}
            ELSE UNCHANGED <<db, touched>>
    BY <1>4 DEF SaveRefused
  <2>2. /\ edit # None /\ "key" \in DOMAIN edit /\ edit' = None /\ own' = own + 1
        /\ UNCHANGED <<seen, focus, mode, scope, undo, others, base>>
    BY <1>4 DEF SaveRefused, Return, view
  <2>3. edit.key \in Present(db)
    <3>1. edit \notin [stone : Milestone]
      BY <2>2
    <3> QED
      BY <1>0, <2>2, <3>1 DEF EditOf
  <2>4. UntouchedKept
    <3>1. CASE st # db.cards[edit.key].status
      <4>1. db' = Moved(db, edit.key, st) /\ touched' = touched \cup {edit.key}
        BY <2>1, <3>1
      <4>2. edit.key \in Cards
        BY <2>3 DEF Present
      <4> QED
        BY <1>0, <2>3, <4>1, <4>2, MovedRow DEF UntouchedKept
    <3>2. CASE st = db.cards[edit.key].status
      BY <1>0, <2>1, <3>2 DEF UntouchedKept
    <3> QED
      BY <3>1, <3>2
  <2>5. own' \in Nat /\ others' \in Nat /\ edit' \in EditOf(Present(db'))
    BY <1>0, <2>2 DEF EditOf
  <2>6. DataOK' /\ PastOK'
    BY <2>2, <2>4, <2>5, DataKept
  <2>7. ViewOK'
    BY <2>2, <2>4, ViewKept
  <2> QED
    BY <2>6, <2>7 DEF TuiInv
<1>2. CASE SaveMilestone
  <2>1. PICK n \in ToSet(Names) :
          LET d == Renamed(db, edit.stone, n)
          IN IF d = None
             THEN over' = TRUE /\ UNCHANGED <<data, focus, mode, scope>>
             ELSE db' = d /\ Reload(scope, focus, mode) /\ UNCHANGED over
    BY <1>2 DEF SaveMilestone
  <2>2. /\ edit # None /\ "stone" \in DOMAIN edit /\ edit' = None
        /\ own' = own + 1 /\ UNCHANGED <<undo, others, touched, base>>
    BY <1>2 DEF SaveMilestone, Return, history
  <2>3. edit.stone \in Milestone
    <3>1. edit \notin [key : Present(db), row : CardRow]
      BY <2>2
    <3> QED
      BY <1>0, <2>2, <3>1 DEF EditOf
  <2>4. CASE Renamed(db, edit.stone, n) = None
    BY <1>0, <2>1, <2>2, <2>4, RefusedKeeps
  <2>5. CASE Renamed(db, edit.stone, n) # None
    <3>1. db' = Renamed(db, edit.stone, n) /\ Reload(scope, focus, mode)
      BY <2>1, <2>5
    <3>2. Steady(db, db')
      BY <1>0, <2>3, <2>5, <3>1, RenamedSteady
    <3>3. UntouchedKept
      BY <2>2, <3>2, SteadyKept
    <3> QED
      BY <1>0, <2>2, <3>1, <3>3, ReloadKeeps
  <2> QED
    BY <2>4, <2>5
<1>3. CASE LeaveEditor
  BY <1>0, <1>3, ReloadedKeeps DEF LeaveEditor, counts, history
<1> QED
  BY <1>1, <1>2, <1>3, <1>4 DEF Editor

LEMMA CreatedKeeps ==
    ASSUME TuiConstants, TuiInv, NEW d, Steady(db, d), NEW k \in Cards \cup {None}, Created(d, k),
           UNCHANGED touched
    PROVE  TuiInv'
<1> DEFINE shown == Loaded(d, scope.project).cards
           at == IF k = None THEN None ELSE Located(shown, scope, k)
           f == IF at = None THEN focus ELSE at
<1>1. /\ db' = d /\ own' = own + 1 /\ Reload(scope, f, Normal)
      /\ UNCHANGED <<undo, edit, others, base>>
  BY DEF Created
<1>2. IsFocus(f)
  <2>1. IsFocus(focus)
    BY DEF TuiInv, ViewOK
  <2>2. ASSUME k # None, Located(shown, scope, k) # None PROVE IsFocus(Located(shown, scope, k))
    <3>1. k \in Cards /\ d \in Database
      BY <2>2 DEF Steady
    <3>2. shown[k] # None => d.cards[k] \in CardRow /\ shown[k].status = d.cards[k].status
      BY <3>1, LoadedCards
    <3>3. shown[k] # None => shown[k].status \in Status
      BY <3>2 DEF CardRow
    <3> HIDE DEF shown
    <3> QED
      BY <2>2, <3>3, LocatedFocus
  <2> HIDE DEF shown
  <2> QED
    BY <2>1, <2>2
<1> HIDE DEF f
<1>3. UntouchedKept
  BY <1>1, SteadyKept
<1>4. scope \in Scopes /\ own' \in Nat /\ others' \in Nat /\ edit' \in EditOf(Present(db'))
  <2>1. /\ scope \in Scopes /\ own \in Nat /\ others \in Nat /\ edit \in EditOf(Present(db))
    BY DEF TuiInv, ViewOK, DataOK
  <2>2. EditOf(Present(db)) \subseteq EditOf(Present(db'))
    BY <1>3, Wider DEF UntouchedKept
  <2> QED
    BY <1>1, <2>1, <2>2
<1> QED
  BY <1>1, <1>2, <1>3, <1>4, PlainModes, ReloadKeeps

LEMMA CreateKeys ==
    ASSUME TuiConstants, TuiInv, CreateIssue \/ CreateMilestone
    PROVE  TuiInv'
<1>0. db \in Database /\ own \in Nat /\ others \in Nat /\ mode \in ModeOf(Present(db))
  BY DEF TuiInv, DataOK, ViewOK
<1>1. CASE CreateIssue
  <2> DEFINE k == Min(Fresh)
             e == [db EXCEPT !.cards[k] =
                           [Card(mode.project, mode.status, mode.stone)
                              EXCEPT !.pos = 1 + Max(Places(db, mode.project, mode.status))]]
             d == Written(e, k)
  <2>1. /\ mode.at = "new" /\ Fresh # {} /\ UNCHANGED touched
        /\ Created(db, None) \/ Created(d, k)
    BY <1>1 DEF CreateIssue, Key
  <2>2. k \in Cards \ Present(db)
    <3>1. Fresh \in SUBSET Nat /\ Fresh = Cards \ Present(db)
      BY DEF Fresh, Present, Cards, TuiConstants
    <3> QED
      BY <2>1, <3>1, LeastIs
  <2>3. /\ mode.project \in Project /\ mode.status \in Status
        /\ mode.stone \in ToSet(Names) \cup {None}
    <3>1. mode \in [at : {"new"}, project : Project, status : Status,
                    stone : ToSet(Names) \cup {None}]
      BY <1>0, <2>1 DEF ModeOf
    <3> QED
      BY <3>1
  <2> HIDE DEF k
  <2>4. Steady(db, d)
    BY <1>0, <2>2, <2>3, CreatedSteady
  <2>5. Steady(db, db)
    BY <1>0, SteadyOnes
  <2>6. k \in Cards \cup {None}
    BY <2>2
  <2> HIDE DEF d
  <2> QED
    BY <2>1, <2>4, <2>5, <2>6, CreatedKeeps
<1>2. CASE CreateMilestone
  <2>1. PICK m \in Milestone :
            Created(IF db.stones[m] # None THEN db
                    ELSE [db EXCEPT !.stones[m] = [status |-> "open", at |-> Now]], None)
    BY <1>2 DEF CreateMilestone
  <2> DEFINE r == [status |-> "open", at |-> Now]
             d == IF db.stones[m] # None THEN db ELSE [db EXCEPT !.stones[m] = r]
  <2>2. r \in StoneRow
    <3>1. Now \in Nat
      BY <1>0 DEF Now
    <3> QED
      BY <3>1 DEF StoneRow
  <2>3. Created(d, None) /\ UNCHANGED touched
    BY <1>2, <2>1 DEF CreateMilestone
  <2> HIDE DEF r
  <2>4. Steady(db, d)
    BY <1>0, <2>2, SteadyOnes
  <2> HIDE DEF d
  <2> QED
    BY <2>3, <2>4, CreatedKeeps
<1> QED
  BY <1>1, <1>2

LEMMA ScopeKeys ==
    ASSUME TuiConstants, TuiInv, CycleMilestoneFilter \/ MsPageSelect \/ ProjPageSelect
    PROVE  TuiInv'
<1>0. scope \in Scopes /\ IsFocus(focus) /\ edit \in EditOf(Present(db))
  BY DEF TuiInv, DataOK, ViewOK
<1>1. ASSUME NEW sc \in Scopes, SetScope(sc) PROVE TuiInv'
  <2>1. PICK f \in AutoFocus(seen.cards, sc, focus) : Reload(sc, f, Normal)
    BY <1>1 DEF SetScope
  <2>2. IsFocus(f)
    BY <1>0, AutoFocusIs
  <2>3. UNCHANGED <<db, undo, own, others, touched, base, edit>>
    BY <1>1 DEF SetScope, counts, history
  <2> QED
    BY <1>0, <2>1, <2>2, <2>3, ReloadedKeeps
<1>2. CASE CycleMilestoneFilter
  <2>1. PICK n \in ToSet(Names) \cup {None} :
            scope.project # None /\ SetScope([scope EXCEPT !.milestone = n])
    BY <1>2 DEF CycleMilestoneFilter
  <2>2. [scope EXCEPT !.milestone = n] \in Scopes
    BY <1>0, <2>1 DEF Scopes
  <2> QED
    BY <1>1, <2>1, <2>2
<1>3. CASE MsPageSelect
  <2>1. PICK m \in Milestone : SetScope([InProject(scope, m[1]) EXCEPT !.milestone = m[2]])
    BY <1>3 DEF MsPageSelect, MilestoneRows
  <2>2. m[1] \in Project /\ m[2] \in ToSet(Names)
    BY DEF Milestone
  <2>3. [InProject(scope, m[1]) EXCEPT !.milestone = m[2]] \in Scopes
    BY <2>2 DEF InProject, Scopes, TuiConstants
  <2> QED
    BY <1>1, <2>1, <2>3
<1>4. CASE ProjPageSelect
  <2>1. PICK p \in Project : SetScope(InProject(scope, p))
    BY <1>4 DEF ProjPageSelect
  <2>2. InProject(scope, p) \in Scopes
    BY <1>0 DEF InProject, Scopes, TuiConstants
  <2> QED
    BY <1>1, <2>1, <2>2
<1> QED
  BY <1>2, <1>3, <1>4

LEMMA RefreshKeeps ==
    ASSUME TuiConstants, TuiInv, Refresh
    PROVE  TuiInv'
<1>1. scope \in Scopes /\ IsFocus(focus) /\ edit \in EditOf(Present(db))
  BY DEF TuiInv, DataOK, ViewOK
<1> QED
  BY <1>1, ReloadedKeeps DEF Refresh, counts, history

LEMMA OtherKeeps ==
    ASSUME TuiConstants, TuiInv, Other
    PROVE  TuiInv'
<1>0. /\ db \in Database /\ own \in Nat /\ others \in Nat /\ touched \subseteq Cards
      /\ edit \in EditOf(Present(db))
  BY DEF TuiInv, DataOK
<1>1. /\ others' = others + 1 /\ UNCHANGED <<seen, focus, mode, scope, undo, edit, own, base>>
  BY DEF Other, view
<1>2. UntouchedKept
  <2>1. ASSUME NEW k \in Cards \ Fresh, touched' = touched \cup {k},
               NEW d, \/ \E st \in Status : d = Moved(db, k, st)
                      \/ d = Archived(db, k, TRUE)
                      \/ d = Written([db EXCEPT !.cards[k].text = "theirs"], k),
               db' = [d EXCEPT !.log = @ + 1]
        PROVE  UntouchedKept
    <3>1. k \in Present(db)
      BY DEF Present, Fresh
    <3>2. /\ d \in Database /\ Present(db) \subseteq Present(d)
          /\ \A j \in Cards \ touched' :
                j \in Present(db) => /\ d.cards[j].status = db.cards[j].status
                                     /\ d.cards[j].archived = db.cards[j].archived
      <4>1. ASSUME NEW st \in Status, d = Moved(db, k, st)
            PROVE  /\ d \in Database /\ Present(d) = Present(db)
                   /\ \A j \in Cards \ {k} : d.cards[j] = db.cards[j]
        BY <1>0, <3>1, <4>1, MovedRow
      <4>2. ASSUME d = Archived(db, k, TRUE)
            PROVE  /\ d \in Database /\ Present(d) = Present(db)
                   /\ \A j \in Cards \ {k} : d.cards[j] = db.cards[j]
        <5> DEFINE b == TRUE
        <5>1. b \in BOOLEAN
          OBVIOUS
        <5>2. d = Archived(db, k, b)
          BY <4>2
        <5> HIDE DEF b
        <5> QED
          BY <1>0, <3>1, <5>1, <5>2, ArchivedRow
      <4>3. CASE d = Written([db EXCEPT !.cards[k].text = "theirs"], k)
        <5>1. Steady(db, Written([db EXCEPT !.cards[k].text = "theirs"], k))
          BY <1>0, <3>1, TextSteady
        <5> QED
          BY <4>3, <5>1 DEF Steady
      <4> QED
        BY <2>1, <4>1, <4>2, <4>3
    <3>3. Steady(d, db')
      <4>1. d.log \in Nat
        BY <3>2 DEF Database
      <4>2. d.log + 1 \in Nat /\ db' = [d EXCEPT !.log = d.log + 1]
        BY <4>1, <2>1
      <4> QED
        BY <1>0, <3>2, <4>2, SteadyOnes
    <3>4. touched \subseteq touched' /\ touched' \subseteq Cards
      BY <1>0, <2>1
    <3> QED
      BY <3>2, <3>3, <3>4 DEF Steady, UntouchedKept
  <2>2. ASSUME NEW m \in Milestone, NEW n \in ToSet(Names), db' = Renamed(db, m, n), db' # None,
               touched' = touched
        PROVE  UntouchedKept
    <3>1. Steady(db, db')
      BY <1>0, <2>2, RenamedSteady
    <3> QED
      BY <2>2, <3>1, SteadyKept
  <2>3. \/ \E k \in Cards \ Fresh :
              /\ \E d \in {Moved(db, k, st) : st \in Status \ {db.cards[k].status}}
                         \cup {Archived(db, k, TRUE),
                               Written([db EXCEPT !.cards[k].text = "theirs"], k)} :
                    db' = [d EXCEPT !.log = @ + 1]
              /\ touched' = touched \cup {k}
        \/ /\ \E m \in Milestone, n \in ToSet(Names) : db' = Renamed(db, m, n) /\ db' # None
           /\ touched' = touched
    BY DEF Other
  <2> QED
    BY <2>1, <2>2, <2>3
<1>3. edit' \in EditOf(Present(db')) /\ own' \in Nat /\ others' \in Nat
  BY <1>0, <1>1, <1>2, Wider DEF UntouchedKept
<1> QED
  BY <1>1, <1>2, <1>3, DataKept, ViewKept DEF TuiInv
-----------------------------------------------------------------------------
(***************************************************************************)
(* A command of H, J, K or L takes the cursor along.                       *)
(***************************************************************************)
\* No two cards of a column have the same place.
LEMMA PlacesDiffer ==
    ASSUME TuiConstants, NEW cards, NEW S \in SUBSET Cards,
           \A j \in S : cards[j].pos \in Int,
           NEW j \in S, NEW k \in S, Place(cards, S, j) = Place(cards, S, k)
    PROVE  j = k
<1> DEFINE Up(x) == {i \in S : Above(cards, i, x)}
<1>1. IsFiniteSet(S)
  <2>1. IsFiniteSet(Cards)
    BY FS_Interval DEF Cards, TuiConstants
  <2> QED
    BY <2>1, FS_Subset
<1>2. ASSUME NEW x \in S, NEW y \in S, Above(cards, x, y)
      PROVE  Cardinality(Up(x)) # Cardinality(Up(y))
  <2>1. x \notin Up(x) /\ Up(x) \cup {x} \subseteq Up(y)
    <3>1. \A i \in S : i \in Int /\ cards[i].pos \in Int
      BY DEF Cards, TuiConstants
    <3> QED
      BY <1>2, <3>1 DEF Above
  <2>2. IsFiniteSet(Up(x)) /\ IsFiniteSet(Up(y))
    BY <1>1, FS_Subset
  <2> HIDE DEF Up
  <2>3. Cardinality(Up(x) \cup {x}) = Cardinality(Up(x)) + 1
    BY <2>1, <2>2, FS_AddElement
  <2>4. Cardinality(Up(x) \cup {x}) <= Cardinality(Up(y))
    BY <2>1, <2>2, FS_Subset
  <2>5. Cardinality(Up(x)) \in Nat /\ Cardinality(Up(y)) \in Nat
    BY <2>2, FS_CardinalityType
  <2> QED
    BY <2>3, <2>4, <2>5
<1>3. j # k => Above(cards, j, k) \/ Above(cards, k, j)
  <2>1. j \in Int /\ k \in Int /\ cards[j].pos \in Int /\ cards[k].pos \in Int
    BY DEF Cards, TuiConstants
  <2> QED
    BY <2>1 DEF Above
<1>4. Cardinality(Up(j)) = Cardinality(Up(k))
  BY DEF Place
<1> HIDE DEF Up
<1> QED
  BY <1>2, <1>3, <1>4

\* So the card of a place is the one that has it, and the cursor on it stays there.
LEMMA CardOfPlace ==
    ASSUME TuiConstants, NEW cards, NEW sc, NEW f,
           \A j \in Cards : cards[j] # None => cards[j].pos \in Int,
           NEW k \in Column(cards, sc, f.col), Place(cards, Column(cards, sc, f.col), k) = f.idx
    PROVE  CardAt(cards, sc, f) = k /\ AutoFocus(cards, sc, f) = {f}
<1> DEFINE S == Column(cards, sc, f.col)
           here == {j \in S : Place(cards, S, j) = f.idx}
<1>1. S \in SUBSET Cards /\ \A j \in S : cards[j].pos \in Int
  BY DEF Column
<1>2. CardAt(cards, sc, f) = IF here = {} THEN None ELSE CHOOSE j \in here : TRUE
  BY DEF CardAt
<1> HIDE DEF S
<1>3. k \in S /\ k \in here
  BY DEF S
<1>4. \A j \in here : j = k
  BY <1>1, <1>3, PlacesDiffer
<1> HIDE DEF here
<1>5. CardAt(cards, sc, f) = k
  BY <1>2, <1>3, <1>4
<1>6. k # None
  BY <1>1, <1>3 DEF TuiConstants
<1> QED
  BY <1>5, <1>6 DEF AutoFocus

\* The cards of a column, in the scope of a project, as the database has them.
OnColumn(d, sc, st, j) == /\ j \in Present(d) /\ ~d.cards[j].archived /\ d.cards[j].status = st
                          /\ d.cards[j].project = sc.project
                          /\ sc.milestone \in {None, d.cards[j].stone}

LEMMA LoadedColumn ==
    ASSUME TuiConstants, NEW d \in Database, NEW p, NEW sc, NEW st, sc.project # None
    PROVE  LET cards == Loaded(d, p).cards IN
           /\ \A j \in Cards : cards[j] # None => cards[j].pos \in Int
           /\ \A j \in Cards : j \in Column(cards, sc, st) <=> OnColumn(d, sc, st, j)
           /\ \A j \in Column(cards, sc, st) : cards[j].pos = d.cards[j].pos
           /\ Column(cards, sc, st) \subseteq Cards
<1> DEFINE cards == Loaded(d, p).cards
<1>1. \A j \in Cards :
         /\ cards[j] # None <=> j \in Present(d) /\ ~d.cards[j].archived
         /\ cards[j] # None => /\ d.cards[j] \in CardRow
                               /\ cards[j].project = d.cards[j].project
                               /\ cards[j].status = d.cards[j].status
                               /\ cards[j].pos = d.cards[j].pos
                               /\ cards[j].stone = d.cards[j].stone
  BY LoadedCards
<1> HIDE DEF cards
<1>2. \A j \in Cards : cards[j] # None => cards[j].pos \in Int
  BY <1>1 DEF CardRow
<1>3. \A j \in Cards :
         j \in Column(cards, sc, st) <=>
            /\ cards[j] # None /\ cards[j].status = st /\ cards[j].project = sc.project
            /\ sc.milestone \in {None, cards[j].stone}
  BY DEF Column, MatchesScope
<1>4. Column(cards, sc, st) \subseteq Cards
  BY DEF Column
<1> QED
  BY <1>1, <1>2, <1>3, <1>4 DEF cards, OnColumn

LEMMA AcrossFollows ==
    ASSUME TuiConstants, TuiInv, NEW step \in {-1, 1}, MoveIssueAcross(step),
           scope.project # None, seen = Loaded(db, scope.project)
    PROVE  CardAt(seen'.cards, scope', focus') = Focused
<1>0. db \in Database /\ own \in Nat /\ others \in Nat
  BY DEF TuiInv, DataOK
<1>1. PICK i \in DOMAIN Columns :
          /\ Focused # None /\ Columns[i] = focus.col /\ i + step \in DOMAIN Columns
          /\ LET to == Columns[i + step]
             IN Run(Moved(db, Focused, to), scope, [col |-> to, idx |-> Landing(to)], mode)
  BY DEF MoveIssueAcross
<1> DEFINE to == Columns[i + step]
           f == [col |-> to, idx |-> Landing(to)]
           d == Moved(db, Focused, to)
           S == Column(seen.cards, scope, to)
           T == Column(seen'.cards, scope, to)
<1>2. Run(d, scope, f, mode) /\ to \in Status /\ to # focus.col
  <2>1. i \in Int /\ i + step # i
    BY DEF TuiConstants
  <2>2. to # focus.col
    BY <1>1, <2>1 DEF TuiConstants
  <2>3. to \in Status
    BY <1>1 DEF TuiConstants
  <2> QED
    BY <1>1, <2>2, <2>3
<1> HIDE DEF to
<1>3. /\ Focused \in Present(db) /\ Focused \in Cards
      /\ Focused \in Column(seen.cards, scope, focus.col)
  BY <1>1, FocusedCard, CardAtIs DEF Focused
<1>4. /\ d \in Database /\ Present(d) = Present(db)
      /\ \A j \in Cards \ {Focused} : d.cards[j] = db.cards[j]
      /\ d.cards[Focused].status = to
      /\ d.cards[Focused].pos = 1 + Max(Places(db, db.cards[Focused].project, to))
      /\ \A g \in {"project", "archived", "stone"} : d.cards[Focused][g] = db.cards[Focused][g]
  BY <1>0, <1>2, <1>3, MovedRow
<1> DEFINE top == Max(Places(db, db.cards[Focused].project, to))
<1>5. d.cards[Focused].pos = 1 + top
  BY <1>4
<1> HIDE DEF d
<1>6. /\ db' = d /\ seen' = Loaded(d, scope.project) /\ scope' = scope
      /\ focus' \in AutoFocus(seen'.cards, scope, f)
  <2>1. db' = d /\ Reload(scope, f, mode)
    BY <1>2, <1>4, RunDone
  <2> QED
    BY <2>1 DEF Reload
<1>7. /\ \A j \in Cards : j \in S <=> OnColumn(db, scope, to, j)
      /\ S \subseteq Cards
      /\ OnColumn(db, scope, focus.col, Focused)
  BY <1>0, <1>3, LoadedColumn
<1>8. /\ \A j \in Cards : seen'.cards[j] # None => seen'.cards[j].pos \in Int
      /\ \A j \in Cards : j \in T <=> OnColumn(d, scope, to, j)
      /\ \A j \in T : seen'.cards[j].pos = d.cards[j].pos
      /\ T \subseteq Cards
  <2> DEFINE c == Loaded(d, scope.project).cards
  <2>0. d \in Database
    BY <1>4
  <2>1. /\ \A j \in Cards : c[j] # None => c[j].pos \in Int
        /\ \A j \in Cards : j \in Column(c, scope, to) <=> OnColumn(d, scope, to, j)
        /\ \A j \in Column(c, scope, to) : c[j].pos = d.cards[j].pos
        /\ Column(c, scope, to) \subseteq Cards
    BY <2>0, LoadedColumn
  <2>2. seen'.cards = c
    BY <1>6
  <2> HIDE DEF c
  <2> QED
    BY <2>1, <2>2
<1> HIDE DEF S, T
<1>9. Focused \in T /\ Focused \notin S
  <2>1. OnColumn(d, scope, to, Focused) /\ ~OnColumn(db, scope, to, Focused)
    BY <1>2, <1>3, <1>4, <1>7 DEF OnColumn
  <2> QED
    BY <2>1, <1>3, <1>7, <1>8
<1>10. \A j \in Cards : j # Focused => (j \in T <=> j \in S)
  <2>1. \A j \in Cards : j # Focused => (OnColumn(d, scope, to, j) <=> OnColumn(db, scope, to, j))
    BY <1>4 DEF OnColumn
  <2> QED
    BY <2>1, <1>7, <1>8
<1>11. \A j \in S : seen'.cards[j].pos \in Int /\ seen'.cards[j].pos <= top /\ top \in Int
  <2> SUFFICES ASSUME NEW j \in S
               PROVE  seen'.cards[j].pos \in Int /\ seen'.cards[j].pos <= top /\ top \in Int
    OBVIOUS
  <2>1. /\ j \in Cards /\ j \in Present(db) /\ db.cards[j].status = to
        /\ db.cards[j].project = db.cards[Focused].project
    BY <1>7 DEF OnColumn
  <2>2. db.cards[j].pos \in Places(db, db.cards[Focused].project, to)
    BY <2>1 DEF Places, Present
  <2>3. db.cards[j].pos \in Int /\ db.cards[j].pos <= top /\ top \in Int
    BY <1>0, <2>2, PlacesHaveAMax
  <2>4. j # Focused /\ j \in T /\ seen'.cards[j].pos = db.cards[j].pos
    BY <1>4, <1>7, <1>8, <1>9, <1>10, <2>1
  <2> QED
    BY <2>3, <2>4
<1>12. {j \in T : Above(seen'.cards, j, Focused)} = S
  <2>1. seen'.cards[Focused].pos = 1 + top /\ top \in Int
    BY <1>0, <1>5, <1>8, <1>9, PlacesHaveAMax
  <2>2. ~Above(seen'.cards, Focused, Focused)
    BY <1>3, <2>1 DEF Above, Cards, TuiConstants
  <2>3. \A j \in S : Above(seen'.cards, j, Focused)
    BY <1>11, <2>1 DEF Above
  <2> HIDE DEF top
  <2> QED
    BY <1>7, <1>8, <1>9, <1>10, <2>2, <2>3
<1>13. Place(seen'.cards, T, Focused) = f.idx
  <2>1. f.idx = Cardinality(S)
    BY DEF Landing, Shown, S
  <2> QED
    BY <1>12, <2>1 DEF Place
<1>14. f.col = to
  OBVIOUS
<1> HIDE DEF f
<1>15. CardAt(seen'.cards, scope, f) = Focused /\ AutoFocus(seen'.cards, scope, f) = {f}
  BY <1>8, <1>9, <1>13, <1>14, CardOfPlace DEF T
<1> QED
  BY <1>6, <1>15

\* Two cards that change places: the one has as many above it as the other had.
LEMMA SwappedPlaces ==
    ASSUME TuiConstants, NEW S \in SUBSET Cards, NEW c, NEW e,
           \A j \in S : c[j].pos \in Int,
           \A i, j \in S : c[i].pos = c[j].pos => i = j,
           NEW a \in S, NEW b \in S, a # b,
           e[a].pos = c[b].pos, e[b].pos = c[a].pos,
           \A j \in S \ {a, b} : e[j].pos = c[j].pos
    PROVE  Place(e, S, a) = Place(c, S, b)
<1> DEFINE U == {j \in S : Above(e, j, a)}
           V == {j \in S : Above(c, j, b)}
<1>1. IsFiniteSet(V)
  <2>1. IsFiniteSet(Cards)
    BY FS_Interval DEF Cards, TuiConstants
  <2> QED
    BY <2>1, FS_Subset
<1>2. \A j \in S : j \in Int
  BY DEF Cards, TuiConstants
<1>3. a \notin U /\ b \notin V
  BY <1>2 DEF Above
<1>4. \A j \in S \ {a, b} : j \in U <=> j \in V
  BY DEF Above
<1>5. b \in U <=> a \in V
  BY DEF Above
<1> HIDE DEF U, V
<1>6. U \subseteq S /\ V \subseteq S
  BY DEF U, V
<1>7. Cardinality(U) = Cardinality(V)
  <2>1. CASE a \in V
    <3>1. U = (V \ {a}) \cup {b}
      BY <2>1, <1>3, <1>4, <1>5, <1>6
    <3>2. IsFiniteSet(V \ {a}) /\ Cardinality(V \ {a}) = Cardinality(V) - 1
      BY <2>1, <1>1, FS_RemoveElement
    <3>3. b \notin V \ {a}
      BY <1>3
    <3>4. Cardinality((V \ {a}) \cup {b}) = Cardinality(V \ {a}) + 1
      BY <3>2, <3>3, FS_AddElement
    <3>5. Cardinality(V) \in Nat
      BY <1>1, FS_CardinalityType
    <3> QED
      BY <3>1, <3>2, <3>4, <3>5
  <2>2. CASE a \notin V
    <3>1. U = V
      BY <2>2, <1>3, <1>4, <1>5, <1>6
    <3> QED
      BY <3>1
  <2> QED
    BY <2>1, <2>2
<1> QED
  BY <1>7 DEF Place, U, V

LEMMA ReorderFollows ==
    ASSUME TuiConstants, TuiInv, NEW step \in {-1, 1}, Reorder(step), Apart,
           scope.project # None, seen = Loaded(db, scope.project)
    PROVE  CardAt(seen'.cards, scope', focus') = Focused
<1> DEFINE there == [focus EXCEPT !.idx = @ + step]
           other == CardAt(seen.cards, scope, there)
           d == Swapped(db, Focused, other)
           S == Column(seen.cards, scope, focus.col)
           T == Column(seen'.cards, scope, focus.col)
<1>0. db \in Database /\ own \in Nat /\ others \in Nat /\ IsFocus(focus)
  BY DEF TuiInv, ViewOK, DataOK
<1>1. Focused # None /\ other # None /\ Run(d, scope, there, mode)
  BY DEF Reorder
<1>2. there.col = focus.col /\ there.idx = focus.idx + step
  <2>1. focus = [col |-> focus.col, idx |-> focus.idx]
    BY <1>0 DEF IsFocus
  <2> QED
    BY <2>1
<1> HIDE DEF there
<1>3. /\ Focused \in Present(db) /\ Focused \in S /\ Place(seen.cards, S, Focused) = focus.idx
      /\ other \in Present(db) /\ other \in S /\ Place(seen.cards, S, other) = focus.idx + step
  BY <1>1, <1>2, FocusedCard, CardAtIs DEF Focused
<1> HIDE DEF other
<1>4. /\ d \in Database /\ Present(d) = Present(db)
      /\ \A i \in Cards \ {Focused, other} : d.cards[i] = db.cards[i]
      /\ \A i \in Present(db), g \in {"project", "status", "archived", "stone"} :
             d.cards[i][g] = db.cards[i][g]
      /\ Focused # other => d.cards[Focused].pos = db.cards[other].pos
      /\ d.cards[other].pos = db.cards[Focused].pos
  BY <1>0, <1>3, SwappedRows
<1> HIDE DEF d
<1>5. /\ db' = d /\ seen' = Loaded(d, scope.project) /\ scope' = scope
      /\ focus' \in AutoFocus(seen'.cards, scope, there)
  <2>1. db' = d /\ Reload(scope, there, mode)
    BY <1>1, <1>4, RunDone
  <2> QED
    BY <2>1 DEF Reload
<1>6. /\ \A j \in Cards : j \in S <=> OnColumn(db, scope, focus.col, j)
      /\ \A j \in S : seen.cards[j].pos = db.cards[j].pos
      /\ S \subseteq Cards
  BY <1>0, LoadedColumn
<1>7. /\ \A j \in Cards : seen'.cards[j] # None => seen'.cards[j].pos \in Int
      /\ \A j \in Cards : j \in T <=> OnColumn(d, scope, focus.col, j)
      /\ \A j \in T : seen'.cards[j].pos = d.cards[j].pos
      /\ T \subseteq Cards
  <2> DEFINE c == Loaded(d, scope.project).cards
  <2>0. d \in Database
    BY <1>4
  <2>1. /\ \A j \in Cards : c[j] # None => c[j].pos \in Int
        /\ \A j \in Cards : j \in Column(c, scope, focus.col) <=> OnColumn(d, scope, focus.col, j)
        /\ \A j \in Column(c, scope, focus.col) : c[j].pos = d.cards[j].pos
        /\ Column(c, scope, focus.col) \subseteq Cards
    BY <2>0, LoadedColumn
  <2>2. seen'.cards = c
    BY <1>5
  <2> HIDE DEF c
  <2> QED
    BY <2>1, <2>2
<1> HIDE DEF S
<1>8. T = S
  <2>1. \A j \in Cards : OnColumn(d, scope, focus.col, j) <=> OnColumn(db, scope, focus.col, j)
    BY <1>4 DEF OnColumn
  <2> HIDE DEF T
  <2> QED
    BY <2>1, <1>6, <1>7
<1>9. /\ S \in SUBSET Cards
      /\ \A j \in S : seen.cards[j].pos \in Int
      /\ \A i, j \in S : seen.cards[i].pos = seen.cards[j].pos => i = j
  <2>1. \A j \in S : /\ j \in Cards \ Fresh /\ db.cards[j].pos \in Int
                     /\ db.cards[j].project = scope.project /\ db.cards[j].status = focus.col
    <3>1. \A j \in S : j \in Present(db) /\ db.cards[j].project = scope.project
                       /\ db.cards[j].status = focus.col
      BY <1>6 DEF OnColumn
    <3>2. \A j \in Present(db) : j \in Cards \ Fresh /\ db.cards[j].pos \in Int
      BY <1>0, Rows DEF Present, Fresh, CardRow
    <3> QED
      BY <3>1, <3>2
  <2>2. \A i, j \in Cards \ Fresh :
            (j # i /\ db.cards[j].pos = db.cards[i].pos) =>
                <<db.cards[j].project, db.cards[j].status>>
                    # <<db.cards[i].project, db.cards[i].status>>
    BY DEF Apart
  <2>3. \A i, j \in S : db.cards[i].pos = db.cards[j].pos => i = j
    BY <2>1, <2>2
  <2> QED
    BY <2>1, <2>3, <1>6
<1>10. Focused # other
  <2>1. Place(seen.cards, S, Focused) # Place(seen.cards, S, other)
    <3>1. Place(seen.cards, S, Focused) \in Nat
      <4> DEFINE U == {j \in S : Above(seen.cards, j, Focused)}
      <4>1. IsFiniteSet(Cards)
        BY FS_Interval DEF Cards, TuiConstants
      <4>2. U \subseteq Cards
        BY <1>6
      <4>3. Cardinality(U) \in Nat
        BY <4>1, <4>2, FS_Subset, FS_CardinalityType
      <4> QED
        BY <4>3 DEF Place
    <3> QED
      BY <3>1, <1>3
  <2> QED
    BY <2>1
<1>11. Place(seen'.cards, S, Focused) = Place(seen.cards, S, other)
  <2>1. /\ seen'.cards[Focused].pos = seen.cards[other].pos
        /\ seen'.cards[other].pos = seen.cards[Focused].pos
    BY <1>3, <1>4, <1>6, <1>7, <1>8, <1>10
  <2>2. \A j \in S \ {Focused, other} : seen'.cards[j].pos = seen.cards[j].pos
    BY <1>4, <1>6, <1>7, <1>8
  <2> HIDE DEF T
  <2> QED
    BY <2>1, <2>2, <1>3, <1>9, <1>10, SwappedPlaces
<1>12. Focused \in T /\ Place(seen'.cards, T, Focused) = there.idx
  BY <1>2, <1>3, <1>8, <1>11
<1>13. CardAt(seen'.cards, scope, there) = Focused /\ AutoFocus(seen'.cards, scope, there) = {there}
  <2>1. /\ Focused \in Column(seen'.cards, scope, there.col)
        /\ Place(seen'.cards, Column(seen'.cards, scope, there.col), Focused) = there.idx
    BY <1>2, <1>12
  <2>2. \A j \in Cards : seen'.cards[j] # None => seen'.cards[j].pos \in Int
    BY <1>7
  <2> QED
    BY <2>1, <2>2, CardOfPlace
<1> QED
  BY <1>5, <1>13
-----------------------------------------------------------------------------
(***************************************************************************)
(* The session.                                                            *)
(***************************************************************************)
LEMMA TuiInvInit ==
    ASSUME TuiConstants, TuiInit
    PROVE  TuiInv
<1>1. /\ db = [cards |-> FirstCards, stones |-> FirstStones, filed |-> {}, log |-> 0]
      /\ seen = Loaded(db, None) /\ focus = [col |-> Columns[1], idx |-> 0]
      /\ mode = Normal /\ scope = Closed /\ undo = <<>> /\ edit = None
      /\ own = 0 /\ others = 0 /\ touched = Fresh /\ base = FirstCards
  BY DEF TuiInit
<1>2. db \in Database
  <2>1. {} \in SUBSET Project /\ 0 \in Nat
    OBVIOUS
  <2> QED
    BY <1>1, <2>1 DEF Database, TuiConstants
<1>3. IsFocus(focus)
  <2>1. Columns[1] \in Status
    BY DEF TuiConstants
  <2> QED
    BY <1>1, <2>1 DEF IsFocus
<1>4. mode \in ModeOf(Present(db)) /\ mode.at # "archive"
  BY <1>1, PlainModes
<1>5. scope \in Scopes
  BY <1>1 DEF Closed, Scopes
<1>6. SeenOK
  <2> SUFFICES ASSUME NEW k \in Cards, seen.cards[k] # None
               PROVE  /\ k \in Present(db) /\ seen.cards[k].status \in Status
                      /\ seen.cards[k].project \in Project /\ seen.cards[k].pos \in Int
                      /\ ~db.cards[k].archived
                      /\ seen.cards[k].status = db.cards[k].status
    BY DEF SeenOK
  <2>1. /\ k \in Present(db) /\ ~db.cards[k].archived /\ db.cards[k] \in CardRow
        /\ \A g \in {"project", "status", "pos", "stone"} : seen.cards[k][g] = db.cards[k][g]
    BY <1>1, <1>2, LoadedCards
  <2>2. /\ db.cards[k].status \in Status /\ db.cards[k].project \in Project
        /\ db.cards[k].pos \in Int
    BY <2>1 DEF CardRow
  <2> QED
    BY <2>1, <2>2
<1>7. ViewOK
  BY <1>3, <1>4, <1>5, <1>6 DEF ViewOK, AskedOK
<1>8. DataOK
  <2>1. edit \in EditOf(Present(db))
    BY <1>1 DEF EditOf
  <2>2. undo \in Seq(OpOf(Present(db))) /\ Len(undo) <= UndoDepth
    BY <1>1 DEF TuiConstants
  <2>3. touched \subseteq Cards /\ base \in [Cards -> CardRow \cup {None}]
    BY <1>1 DEF Fresh, TuiConstants
  <2> QED
    BY <1>1, <1>2, <2>1, <2>2, <2>3 DEF DataOK
<1>9. PastOK
  <2> SUFFICES ASSUME NEW k \in Cards \ touched
               PROVE  /\ k \in Present(db) /\ base[k] \in CardRow
                      /\ HasPast(k, undo, base[k], db.cards[k])
    BY DEF PastOK
  <2>1. k \in Present(db) /\ base[k] = db.cards[k]
    BY <1>1 DEF Fresh, Present
  <2>2. db.cards[k] \in CardRow
    BY <1>2, <2>1, Rows
  <2> DEFINE f == [i \in Nat |-> db.cards[k].status]
             g == [i \in Nat |-> OnBoard(db.cards[k])]
  <2>3. f \in [Nat -> Status] /\ g \in [Nat -> {"on", "off"}]
    BY <2>2 DEF CardRow, OnBoard
  <2>4. /\ f[1] = db.cards[k].status /\ f[0 + 1] = db.cards[k].status
        /\ g[1] = OnBoard(db.cards[k]) /\ g[0 + 1] = OnBoard(db.cards[k])
    OBVIOUS
  <2> HIDE DEF f, g
  <2>5. Past(f, g, k, undo, base[k], db.cards[k])
    BY <1>1, <2>1, <2>4 DEF Past
  <2> QED
    BY <2>1, <2>2, <2>3, <2>5 DEF HasPast
<1> QED
  BY <1>7, <1>8, <1>9 DEF TuiInv

LEMMA TuiInvStep ==
    ASSUME TuiConstants, TuiInv, [TuiNext]_tuiVars
    PROVE  TuiInv'
<1>1. CASE UNCHANGED tuiVars
  <2>1. Still /\ UNCHANGED <<focus, mode, scope>>
    BY <1>1 DEF tuiVars, view, Still
  <2>2. IsFocus(focus')
    BY <2>1 DEF TuiInv, ViewOK
  <2> QED
    BY <2>1, <2>2, StillFocus
<1>2. CASE NormalKeys \/ PopupKeys \/ MoveKeys \/ ArchiveKeys
  BY <1>2, CursorKeys, ModeKeys, ChangeKeys, UndoKeeps, PlainCommandKeys, EditKeys, ScopeKeys,
     RefreshKeeps
     DEF NormalKeys, Clicks, PopupKeys, MoveKeys, ArchiveKeys
<1>3. CASE FormKeys \/ FuzzyKeys \/ MilestonePageKeys \/ ProjectPageKeys \/ ActivityPageKeys
  BY <1>3, ModeKeys, PlainCommandKeys, EditKeys, CreateKeys, ScopeKeys
     DEF FormKeys, FuzzyKeys, MilestonePageKeys, ProjectPageKeys, ActivityPageKeys
<1>4. CASE Editor \/ Other
  BY <1>4, EditorKeeps, OtherKeeps
<1> QED
  BY <1>1, <1>2, <1>3, <1>4 DEF TuiNext

LEMMA TuiInvHolds ==
    TuiSpec => []TuiInv
<1>1. TuiInit => TuiInv
  BY TuiAssumption, TuiInvInit
<1>2. TuiInv /\ [TuiNext]_tuiVars => TuiInv'
  BY TuiAssumption, TuiInvStep
<1> QED
  BY <1>1, <1>2, PTL DEF TuiSpec

\* Undoing everything on the stack gives each card that nobody else touched back the column and
\* the place on the board or off it that it had below the stack, whatever moves, swaps, archives,
\* undos, saves and forgotten changes came in between (App::apply_undo, push_undo).
THEOREM UndoGivesBack == TuiSpec => []UndoRestores
<1>1. TuiInv => UndoRestores
  <2> SUFFICES ASSUME TuiInv, NEW k \in Cards \ touched
               PROVE  /\ Unwound(k).status = base[k].status
                      /\ Unwound(k).archived = base[k].archived
    BY DEF UndoRestores
  <2>1. /\ k \in Present(db) /\ base[k] \in CardRow /\ HasPast(k, undo, base[k], db.cards[k])
        /\ undo \in Seq(OpOf(Present(db))) /\ db \in Database
    BY DEF TuiInv, PastOK, DataOK
  <2>2. db.cards[k] \in CardRow
    BY <2>1, Rows
  <2> QED
    BY <2>1, <2>2, PastRestores
<1> QED
  BY <1>1, TuiInvHolds, PTL

\* Saying yes to the prompt archives the card it asked about and changes no other, whatever
\* others did to the board while it was open (Mode::ConfirmArchive).
THEOREM TheCardAskedIsArchived == TuiSpec => ArchivesTheCardAsked
<1>1. TuiInv => (mode.at = "archive" /\ db' # db /\ Archive
                   => \A k \in Cards : db'.cards[k] # db.cards[k] => k = mode.key)
  <2> SUFFICES ASSUME TuiInv, mode.at = "archive", Archive,
                      NEW k \in Cards, k # mode.key
               PROVE  db'.cards[k] = db.cards[k]
    OBVIOUS
  <2> DEFINE b == TRUE
             d == Archived(db, mode.key, b)
  <2>1. Run(d, scope, focus, Normal)
    BY DEF Archive, Confirmed
  <2>2. /\ db \in Database /\ own \in Nat /\ others \in Nat /\ b \in BOOLEAN
        /\ mode \in ModeOf(Present(db))
    BY DEF TuiInv, ViewOK, DataOK
  <2>3. mode.key \in Present(db)
    <3>1. mode \in [at : {"archive"}, key : Present(db)]
      BY <2>2 DEF ModeOf
    <3> QED
      BY <3>1
  <2> HIDE DEF b
  <2>4. d \in Database /\ d.cards[k] = db.cards[k]
    BY <2>2, <2>3, TuiAssumption, ArchivedRow
  <2> HIDE DEF d
  <2>5. db' = d
    BY <2>1, <2>4, TuiAssumption, RunDone
  <2> QED
    BY <2>4, <2>5
<1> QED
  BY <1>1, TuiInvHolds, PTL DEF ArchivesTheCardAsked

\* On the board of one project a card that H, J, K or L moves keeps the cursor, as long as the
\* session has seen the board as it is and no two cards of a column share a position (App::
\* move_issue_dir and landing, swap_positions, auto_focus_if_empty).
THEOREM TheCursorFollows == TuiSpec => CursorFollows
<1>1. TuiInv => FollowsWhen(scope.project # None)
  <2> SUFFICES ASSUME TuiInv, MoveIssueDir, scope.project # None,
                      seen = Loaded(db, scope.project), Apart
               PROVE  CardAt(seen'.cards, scope', focus') = Focused
    BY DEF FollowsWhen
  <2>1. PICK step \in {-1, 1} : MoveIssueAcross(step) \/ Reorder(step)
    BY DEF MoveIssueDir
  <2> QED
    BY <2>1, TuiAssumption, AcrossFollows, ReorderFollows
<1> QED
  BY <1>1, TuiInvHolds, PTL DEF CursorFollows
-----------------------------------------------------------------------------
(***************************************************************************)
(* The cursor stays on a card.                                             *)
(***************************************************************************)
FocusIn(cards, sc, f) == f.idx \in 0..Bottom(Column(cards, sc, f.col))

LEMMA PlaceIn ==
    ASSUME TuiConstants, NEW cards, NEW sc, NEW st, NEW k \in Column(cards, sc, st),
           cards[k].pos \in Int
    PROVE  Place(cards, Column(cards, sc, st), k) \in 0..Bottom(Column(cards, sc, st))
<1> DEFINE S == Column(cards, sc, st)
           U == {j \in S : Above(cards, j, k)}
<1>1. IsFiniteSet(S) /\ IsFiniteSet(S \ {k}) /\ Cardinality(S \ {k}) = Cardinality(S) - 1
  <2>1. IsFiniteSet(Cards)
    BY FS_Interval DEF Cards, TuiConstants
  <2>2. S \subseteq Cards
    BY DEF Column
  <2> HIDE DEF S
  <2>3. IsFiniteSet(S)
    BY <2>1, <2>2, FS_Subset
  <2>4. k \in S
    BY DEF S
  <2> QED
    BY <2>3, <2>4, FS_RemoveElement
<1>2. k \notin U
  <2>1. k \in Int
    BY DEF Column, Cards, TuiConstants
  <2> QED
    BY <2>1 DEF Above
<1>3. U \subseteq S \ {k}
  BY <1>2
<1>4. Place(cards, S, k) = Cardinality(U) /\ Bottom(S) = Cardinality(S) - 1
  BY DEF Place, Bottom
<1> HIDE DEF S, U
<1>5. /\ Cardinality(U) <= Cardinality(S \ {k}) /\ Cardinality(U) \in Nat
      /\ Cardinality(S) \in Nat
  BY <1>1, <1>3, FS_Subset, FS_CardinalityType
<1> QED
  BY <1>1, <1>4, <1>5 DEF S

LEMMA AutoFocusIn ==
    ASSUME TuiConstants, NEW cards, \A j \in Cards : cards[j] # None => cards[j].pos \in Int,
           NEW sc, NEW f, NEW g \in AutoFocus(cards, sc, f), IsFocus(g)
    PROVE  FocusIn(cards, sc, g)
<1>1. CASE CardAt(cards, sc, f) # None
  <2>1. g = f
    BY <1>1 DEF AutoFocus
  <2> DEFINE k == CardAt(cards, sc, f)
  <2>2. /\ k \in Column(cards, sc, f.col) /\ Place(cards, Column(cards, sc, f.col), k) = f.idx
        /\ k \in Cards /\ cards[k] # None
    BY <1>1, CardAtIs
  <2> HIDE DEF k
  <2>3. Place(cards, Column(cards, sc, f.col), k) \in 0..Bottom(Column(cards, sc, f.col))
    BY <2>2, PlaceIn
  <2> QED
    BY <2>1, <2>2, <2>3 DEF FocusIn
<1>2. CASE CardAt(cards, sc, f) = None /\ Full(cards, sc) = {}
  <2>1. g.idx = 0
    <3>1. g = [col |-> g.col, idx |-> g.idx] /\ g = [f EXCEPT !.idx = 0]
      BY <1>2 DEF AutoFocus, IsFocus
    <3>2. "idx" \in DOMAIN g /\ DOMAIN g = DOMAIN f
      BY <3>1
    <3> QED
      BY <3>1, <3>2
  <2>2. \E i \in DOMAIN Columns : Columns[i] = g.col
    BY DEF IsFocus, Status, ToSet
  <2>3. Column(cards, sc, g.col) = {}
    BY <1>2, <2>2 DEF Full
  <2> QED
    BY <2>1, <2>3 DEF FocusIn, Bottom
<1>3. CASE CardAt(cards, sc, f) = None /\ Full(cards, sc) # {}
  <2> DEFINE st == Columns[Min(Full(cards, sc))]
  <2>1. g \in [col : {st}, idx : 0..Bottom(Column(cards, sc, st))]
    BY <1>3 DEF AutoFocus, Restored
  <2> HIDE DEF st
  <2>2. g.col = st /\ g.idx \in 0..Bottom(Column(cards, sc, st))
    BY <2>1
  <2>3. Bottom(Column(cards, sc, st)) \in Int
    <3>1. IsFiniteSet(Cards) /\ Column(cards, sc, st) \subseteq Cards
      BY FS_Interval DEF Cards, TuiConstants, Column
    <3>2. Cardinality(Column(cards, sc, st)) \in Nat
      BY <3>1, FS_Subset, FS_CardinalityType
    <3> QED
      BY <3>2 DEF Bottom
  <2> QED
    BY <2>2, <2>3 DEF FocusIn
<1> QED
  BY <1>1, <1>2, <1>3

LEMMA ReloadedIn ==
    ASSUME TuiConstants, TuiInv', NEW sc, NEW f, NEW md, Reload(sc, f, md)
    PROVE  FocusIn(seen'.cards, scope', focus')
<1>1. focus' \in AutoFocus(seen'.cards, sc, f) /\ scope' = sc
  BY DEF Reload
<1>2. /\ \A j \in Cards : seen'.cards[j] # None => seen'.cards[j].pos \in Int
      /\ IsFocus(focus')
  BY DEF TuiInv, ViewOK, SeenOK
<1> QED
  BY <1>1, <1>2, AutoFocusIn

\* The steps that load nothing: the cursor keys, and those that leave the cursor.
LEMMA StaysIn ==
    ASSUME TuiConstants, TuiInv, FocusIn(seen.cards, scope, focus),
           \/ FocusSideways \/ FocusColumn \/ FocusAlong \/ (\E k \in Cards : JumpTo(k))
           \/ \E md : Mode(md)
           \/ UNCHANGED <<seen, focus, scope>>
    PROVE  FocusIn(seen'.cards, scope', focus')
<1>1. CASE UNCHANGED <<seen, focus, scope>>
  BY <1>1
<1>2. CASE \E md : Mode(md)
  BY <1>2 DEF Mode, Still, data
<1>3. CASE FocusSideways \/ FocusColumn
  <2>1. PICK st : GoTo(st) /\ scope' = scope /\ seen' = seen
    BY <1>3 DEF FocusSideways, FocusColumn, Still, data
  <2>2. focus' \in [col : {st}, idx : 0..Bottom(Column(seen.cards, scope, st))]
    BY <2>1 DEF GoTo, Restored
  <2>3. Bottom(Column(seen.cards, scope, st)) \in Int
    <3>1. IsFiniteSet(Cards) /\ Column(seen.cards, scope, st) \subseteq Cards
      BY FS_Interval DEF Cards, TuiConstants, Column
    <3>2. Cardinality(Column(seen.cards, scope, st)) \in Nat
      BY <3>1, FS_Subset, FS_CardinalityType
    <3> QED
      BY <3>2 DEF Bottom
  <2>4. focus'.col = st /\ focus'.idx \in 0..Bottom(Column(seen.cards, scope, st))
    BY <2>2, <2>3
  <2> QED
    BY <2>1, <2>4 DEF FocusIn
<1>4. CASE FocusAlong
  <2>1. /\ \E i \in 0..Bottom(Shown(focus.col)) : focus' = [focus EXCEPT !.idx = i]
        /\ scope' = scope /\ seen' = seen
    BY <1>4 DEF FocusAlong, Still, data
  <2>2. focus = [col |-> focus.col, idx |-> focus.idx]
    BY DEF TuiInv, ViewOK, IsFocus
  <2>3. focus'.col = focus.col /\ focus'.idx \in 0..Bottom(Shown(focus.col))
    BY <2>1, <2>2
  <2>4. Bottom(Shown(focus.col)) \in Int
    <3>1. IsFiniteSet(Cards) /\ Shown(focus.col) \subseteq Cards
      BY FS_Interval DEF Cards, TuiConstants, Column, Shown
    <3>2. Cardinality(Shown(focus.col)) \in Nat
      BY <3>1, FS_Subset, FS_CardinalityType
    <3> QED
      BY <3>2 DEF Bottom
  <2> QED
    BY <2>1, <2>3, <2>4 DEF FocusIn, Shown
<1>5. ASSUME NEW k \in Cards, JumpTo(k) PROVE FocusIn(seen'.cards, scope', focus')
  <2> DEFINE st == seen.cards[k].status
  <2>1. /\ focus' = Located(seen.cards, scope, k) /\ Located(seen.cards, scope, k) # None
        /\ scope' = scope /\ seen' = seen
    BY <1>5 DEF JumpTo, Still, data
  <2>2. /\ seen.cards[k] # None /\ MatchesScope(seen.cards[k], scope)
        /\ focus' = [col |-> st, idx |-> Place(seen.cards, Column(seen.cards, scope, st), k)]
    BY <2>1 DEF Located
  <2>3. k \in Column(seen.cards, scope, st) /\ seen.cards[k].pos \in Int
    BY <2>2 DEF Column, TuiInv, ViewOK, SeenOK
  <2> HIDE DEF st
  <2>4. Place(seen.cards, Column(seen.cards, scope, st), k)
          \in 0..Bottom(Column(seen.cards, scope, st))
    BY <2>3, PlaceIn
  <2> QED
    BY <2>1, <2>2, <2>4 DEF FocusIn
<1> QED
  BY <1>1, <1>2, <1>3, <1>4, <1>5

Loads == \E sc, f, md : Reload(sc, f, md)
Jumps == \E k \in Cards : JumpTo(k)
Stays == \/ FocusSideways \/ FocusColumn \/ FocusAlong \/ Jumps \/ (\E md : Mode(md))
         \/ UNCHANGED <<seen, focus, scope>>

LEMMA RunLoads ==
    ASSUME NEW d, NEW sc, NEW f, NEW md, Run(d, sc, f, md)
    PROVE  Loads \/ Stays
BY DEF Run, Loads, Stays, data

LEMMA LoadsOrStays ==
    ASSUME TuiConstants, TuiInv, [TuiNext]_tuiVars
    PROVE  Loads \/ Stays
<1>1. CASE UNCHANGED tuiVars
  BY <1>1 DEF tuiVars, data, view, Stays
<1>2. CASE \/ FocusSideways \/ FocusColumn \/ FocusAlong
           \/ OpenDetail \/ BeginMove \/ ArchiveRequest \/ NewIssue
           \/ OpenActivityPage \/ LeaveActivityPage \/ ActPageSelect \/ FuzzyFind
           \/ \E m : Cancel(m)
  BY <1>2 DEF Stays, Jumps, OpenDetail, BeginMove, ArchiveRequest, NewIssue, OpenActivityPage,
              LeaveActivityPage, ActPageSelect, FuzzyFind, Cancel
<1>3. CASE JumpToBlocker
  <2>1. mode.at = "detail" /\ mode.blocker # None /\ JumpTo(mode.blocker)
    BY <1>3 DEF JumpToBlocker, Key
  <2>2. mode.blocker \in Cards
    <3>1. mode \in [at : {"detail"}, key : Present(db), blocker : Cards \cup {None}]
      BY <2>1 DEF TuiInv, ViewOK, ModeOf
    <3> QED
      BY <3>1, <2>1
  <2> QED
    BY <2>1, <2>2 DEF Stays, Jumps
<1>4. CASE \/ (\E st : MoveTo(st)) \/ MoveIssueDir \/ Archive \/ Undo
           \/ TagMilestone \/ MsPageCycleStatus \/ ProjPageArchive
  <2>1. (\E md : Mode(md)) \/ (\E d, sc, f, md : Run(d, sc, f, md))
    BY <1>4 DEF MoveTo, MoveIssueDir, MoveIssueAcross, Reorder, Archive, Undo, TagMilestone,
                MsPageCycleStatus, ProjPageArchive
  <2> QED
    BY <2>1, RunLoads DEF Stays
<1>5. CASE \/ EditCard \/ EditScope \/ MsPageEdit \/ Editor \/ CreateIssue \/ CreateMilestone
           \/ CycleMilestoneFilter \/ MsPageSelect \/ ProjPageSelect \/ Refresh
  <2>1. CASE EditCard \/ EditScope \/ MsPageEdit
    BY <2>1 DEF EditCard, EditScope, MsPageEdit, EditMilestone, Loads, Stays, data
  <2>2. CASE Editor
    BY <2>2 DEF Editor, SaveIssue, SaveRefused, SaveMilestone, LeaveEditor, Loads, Stays, data, view
  <2>3. CASE CreateIssue \/ CreateMilestone
    <3>1. \E d, k : Created(d, k)
      BY <2>3 DEF CreateIssue, CreateMilestone
    <3> QED
      BY <3>1 DEF Created, Loads
  <2>4. CASE CycleMilestoneFilter \/ MsPageSelect \/ ProjPageSelect \/ Refresh
    <3>1. Refresh \/ \E sc : SetScope(sc)
      BY <2>4 DEF CycleMilestoneFilter, MsPageSelect, ProjPageSelect
    <3> QED
      BY <3>1 DEF Refresh, SetScope, Loads
  <2> QED
    BY <1>5, <2>1, <2>2, <2>3, <2>4
<1>6. CASE Other
  BY <1>6 DEF Other, view, Stays
<1> QED
  BY <1>1, <1>2, <1>3, <1>4, <1>5, <1>6
     DEF TuiNext, NormalKeys, Clicks, PopupKeys, MoveKeys, ArchiveKeys, FormKeys, FuzzyKeys,
         MilestonePageKeys, ProjectPageKeys, ActivityPageKeys

\* The cursor is on a card, or at the top of an empty column, whatever the user does and others
\* do to the board (App::auto_focus_if_empty, restore_cursor_for, locate_focus_for_key).
THEOREM TheCursorIsOnACard == TuiSpec => []FocusOnACard
<1> DEFINE In == FocusIn(seen.cards, scope, focus)
<1>1. TuiInit => In
  <2> SUFFICES ASSUME TuiInit PROVE focus.idx \in 0..Bottom(Shown(focus.col))
    BY DEF FocusIn, Shown
  <2>1. focus.idx = 0
    BY DEF TuiInit
  <2>2. IsFiniteSet(Cards) /\ Shown(focus.col) \subseteq Cards
    BY TuiAssumption, FS_Interval DEF Cards, TuiConstants, Column, Shown
  <2>3. /\ IsFiniteSet(Shown(focus.col)) /\ Cardinality(Shown(focus.col)) \in Nat
        /\ Shown(focus.col) # {} => Cardinality(Shown(focus.col)) # 0
    BY <2>2, FS_Subset, FS_CardinalityType, FS_EmptySet
  <2> QED
    BY <2>1, <2>3 DEF Bottom
<1>2. TuiInv /\ TuiInv' /\ In /\ [TuiNext]_tuiVars => In'
  <2> SUFFICES ASSUME TuiInv, TuiInv', In, [TuiNext]_tuiVars
               PROVE  FocusIn(seen'.cards, scope', focus')
    OBVIOUS
  <2>1. CASE Loads
    BY <2>1, TuiAssumption, ReloadedIn DEF Loads
  <2>2. CASE Stays
    BY <2>2, TuiAssumption, StaysIn DEF Stays, Jumps
  <2> QED
    BY <2>1, <2>2, TuiAssumption, LoadsOrStays
<1>3. In => FocusOnACard
  BY DEF FocusIn, FocusOnACard, Shown
<1> QED
  BY <1>1, <1>2, <1>3, TuiInvHolds, PTL DEF TuiSpec
=============================================================================

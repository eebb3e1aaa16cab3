-------------------------- MODULE Integrate_proofs --------------------------
(***************************************************************************)
(* Proofs about Integrate for every set of tickets and every number of     *)
(* commits and mishaps.                                                    *)
(***************************************************************************)
EXTENDS Integrate, TLAPS

CommitRecord ==
    [past : SUBSET Nat, tree : SUBSET Nat, ticket : Ticket \union {None}, on : Branch]

-----------------------------------------------------------------------------
(***************************************************************************)
(* The inductive invariant. git: a commit's past is closed and its tree    *)
(* only grows along it.                                                    *)
(***************************************************************************)
HistoryOK ==
    /\ commits \in Seq(CommitRecord)
    /\ \A c \in Commits : \A p \in commits[c].past :
          /\ commits[p].past \subseteq commits[c].past
          /\ commits[p].tree \subseteq commits[c].tree

\* The branches main and milestone have never been at a commit of a ticket, and a
\* ticket's branch is never at another ticket's.
BranchesOK ==
    /\ head["main"] # 0
    /\ wt["milestone"] # "merging"
    /\ \A b \in Branch :
          /\ wt[b] # "none" => head[b] # 0
          /\ head[b] # 0 => commits[head[b]].on \in {b, "main", "milestone"}
    /\ \A b \in {"main", "milestone"} :
          head[b] # 0 => commits[head[b]].on \in {"main", "milestone"}
    /\ \A t \in Ticket :
          /\ wt[t] # "staged"
          /\ wt[t] = "merging" => mergeHead[t] # 0
          /\ mergeHead[t] # 0 => commits[mergeHead[t]].on \in {"main", "milestone"}

\* Unless the milestone is abandoned, no squash has ever left its branch.
SquashesOnMilestone ==
    discarded # Ticket =>
        \A c \in Commits : commits[c].ticket # None =>
            HaveBranch("milestone") /\ c \in Past("milestone")

\* A commit that has work of u in its tree is u's own or has a squash of u in its past.
Found(u, past) == Squashes(u) \intersect past # {}

WorkIsTraced ==
    \A k \in Commits : \A d \in commits[k].tree :
        commits[d].on \in Ticket \ discarded =>
            commits[d].on = commits[k].on \/ Found(commits[d].on, commits[k].past)

\* integrate, as far as it has come: while the branch is where it was when the tips were
\* read, the squash is the branch's tree.
Integrating == {"gate", "squash", "commit", "recheck", "done", "remove"}
Unmoved == head[orch.on] = orch.ttip
StagedTraced ==
    \A d \in staged : commits[d].on \in Ticket \ discarded =>
        commits[d].on = orch.on \/ Found(commits[d].on, Past("milestone"))
SquashedAs(t, tip) == \E c \in Squashes(t) : commits[c].tree = commits[tip].tree

OrchPC == Integrating \union {"idle", "delete", "discard", "verify", "forward"}

IntegrateOK ==
    /\ orch \in [pc : OrchPC, on : Ticket \union {None}, ttip : Nat]
    /\ orch.pc \in Integrating =>
          /\ orch.on \in Ticket /\ head["milestone"] # 0
          /\ orch.ttip # 0 /\ orch.ttip <= head[orch.on]
    /\ orch.pc \in {"delete", "discard"} => orch.on \in Ticket
    /\ orch.pc = "forward" => head["milestone"] # 0
    /\ orch.pc = "squash" =>
          (Unmoved => head["milestone"] \in commits[orch.ttip].past)
    /\ orch.pc = "commit" =>
          /\ Tree("milestone") \subseteq staged
          /\ Unmoved => staged = commits[orch.ttip].tree
          /\ StagedTraced
    /\ orch.pc = "recheck" => (Unmoved => SquashedAs(orch.on, orch.ttip))
    /\ orch.pc = "done" => SquashedAs(orch.on, orch.ttip)

\* What is done has landed; finish goes on only when everything is settled.
SettledOK ==
    /\ \A t \in Ticket : status[t] = "done" => t \in Settled
    /\ orch.pc \in {"verify", "forward"} => Ticket \subseteq Settled \union discarded

IInv ==
    /\ TypeOK /\ HistoryOK /\ BranchesOK /\ SquashesOnMilestone /\ WorkIsTraced
    /\ IntegrateOK /\ SettledOK /\ DoneAsGated /\ MainHoldsSettled

-----------------------------------------------------------------------------
LEMMA Names ==
    /\ Ticket \subseteq Branch /\ "main" \in Branch /\ "milestone" \in Branch
    /\ None \notin Branch /\ "main" \notin Ticket /\ "milestone" \notin Ticket
BY IntegrateConstants DEF Branch

\* What a commit of these makes of the history.
GoodCommit(b, parents, tree, own, ticket) ==
    /\ b \in Branch /\ head[b] # 0
    /\ parents \subseteq Commits /\ tree \subseteq Commits
    /\ own \in BOOLEAN /\ ticket \in Ticket \union {None}
    /\ Tree(b) \subseteq tree /\ \A p \in parents : commits[p].tree \subseteq tree
    /\ \A d \in tree : commits[d].on \in Ticket \ discarded =>
          \/ commits[d].on \in {b, ticket}
          \/ Found(commits[d].on, Past(b))
          \/ \E p \in parents : Found(commits[d].on, commits[p].past)
    /\ ticket # None => b = "milestone"
    /\ CommitOn(b, parents, tree, own, ticket)

LEMMA CommitFacts ==
    ASSUME IInv, NEW b, NEW parents, NEW tree, NEW own, NEW ticket,
           GoodCommit(b, parents, tree, own, ticket)
    PROVE  /\ Len(commits') = Len(commits) + 1 /\ Len(commits) \in Nat
           /\ commits' \in Seq(CommitRecord)
           /\ \A c \in Commits : commits'[c] = commits[c]
           /\ commits'[Len(commits) + 1].past =
                {Len(commits) + 1} \union Past(b) \union UNION {commits[p].past : p \in parents}
           /\ commits'[Len(commits) + 1].tree =
                tree \union (IF own THEN {Len(commits) + 1} ELSE {})
           /\ commits'[Len(commits) + 1].ticket = ticket
           /\ commits'[Len(commits) + 1].on = b
           /\ head' = [head EXCEPT ![b] = Len(commits) + 1]
<1> DEFINE n == Len(commits) + 1
           past == {n} \union Past(b) \union UNION {commits[p].past : p \in parents}
           newTree == tree \union (IF own THEN {n} ELSE {})
           new == [past |-> past, tree |-> newTree, ticket |-> ticket, on |-> b]
<1>1. commits \in Seq(CommitRecord) /\ Len(commits) \in Nat
  BY DEF IInv, HistoryOK
<1>2. commits' = Append(commits, new) /\ head' = [head EXCEPT ![b] = n]
  BY DEF GoodCommit, CommitOn
<1>3. new \in CommitRecord
  <2>1. \A c \in Commits : commits[c].past \subseteq Nat /\ commits[c].tree \subseteq Nat
    <3>1. \A c \in Commits : commits[c] \in CommitRecord
      BY <1>1 DEF Commits
    <3> QED
      BY <3>1 DEF CommitRecord
  <2>2. head[b] \in Commits
    BY <1>1 DEF GoodCommit, IInv, TypeOK, Tips, Commits
  <2>3. past \subseteq Nat
    BY <1>1, <2>1, <2>2 DEF GoodCommit, Past
  <2>4. newTree \subseteq Nat
    <3>1. \A c \in Commits : c \in Nat
      BY <1>1 DEF Commits
    <3>2. tree \subseteq Nat /\ n \in Nat
      BY <1>1, <3>1 DEF GoodCommit
    <3> QED
      BY <3>2
  <2> QED
    BY <2>3, <2>4 DEF CommitRecord, GoodCommit
<1> HIDE DEF new
<1>4. /\ Len(commits') = n /\ commits' \in Seq(CommitRecord)
      /\ \A c \in Commits : commits'[c] = commits[c]
      /\ commits'[n] = new
  BY <1>1, <1>2, <1>3 DEF Commits
<1>5. new.past = past /\ new.tree = newTree /\ new.ticket = ticket /\ new.on = b
  BY DEF new
<1> QED
  BY <1>1, <1>2, <1>4, <1>5

\* The first part of TypeOK.
CommitsOK ==
    \A c \in Commits : /\ c \in commits[c].past /\ commits[c].past \subseteq 1..c
                       /\ commits[c].tree \subseteq 1..c
                       /\ commits[c].ticket \in Ticket \union {None}
                       /\ commits[c].on \in Branch

\* Commits before it stay reachable, and so do the squashes among them.
LEMMA CommitHistory ==
    ASSUME IInv, NEW b, NEW parents, NEW tree, NEW own, NEW ticket,
           GoodCommit(b, parents, tree, own, ticket)
    PROVE  CommitsOK' /\ HistoryOK'
<1> DEFINE n == Len(commits) + 1
<1>1. /\ Len(commits') = n /\ n \in Nat /\ commits' \in Seq(CommitRecord)
      /\ \A c \in Commits : commits'[c] = commits[c]
      /\ commits'[n].past = {n} \union Past(b) \union UNION {commits[p].past : p \in parents}
      /\ commits'[n].tree = tree \union (IF own THEN {n} ELSE {})
      /\ commits'[n].ticket = ticket /\ commits'[n].on = b
  BY CommitFacts
<1>2. /\ Commits = 1..(n - 1) /\ Commits' = Commits \union {n}
      /\ \A c \in Commits : c \in Nat /\ c < n
  BY <1>1 DEF Commits
<1>3. CommitsOK /\ head[b] \in Commits
  BY <1>2 DEF IInv, TypeOK, CommitsOK, GoodCommit, Tips, Commits
<1>4. /\ parents \subseteq Commits /\ tree \subseteq Commits
      /\ Tree(b) \subseteq tree /\ \A p \in parents : commits[p].tree \subseteq tree
      /\ b \in Branch /\ ticket \in Ticket \union {None}
  BY DEF GoodCommit
<1>5. \A c \in Commits : commits[c].past \subseteq Commits /\ commits[c].tree \subseteq Commits
  BY <1>2, <1>3 DEF CommitsOK
<1>6. CommitsOK'
  <2> SUFFICES ASSUME NEW c \in Commits'
               PROVE  /\ c \in commits'[c].past /\ commits'[c].past \subseteq 1..c
                      /\ commits'[c].tree \subseteq 1..c
                      /\ commits'[c].ticket \in Ticket \union {None}
                      /\ commits'[c].on \in Branch
    BY DEF CommitsOK
  <2>1. CASE c \in Commits
    BY <1>1, <1>3, <2>1 DEF CommitsOK
  <2>2. CASE c = n
    <3>1. commits'[n].past \subseteq Commits \union {n}
      BY <1>1, <1>3, <1>4, <1>5 DEF Past
    <3>2. Commits \union {n} \subseteq 1..n
      BY <1>1, <1>2
    <3>3. commits'[n].tree \subseteq Commits \union {n}
      BY <1>1, <1>4
    <3> QED
      BY <1>1, <1>4, <2>2, <3>1, <3>2, <3>3
  <2> QED
    BY <1>2, <2>1, <2>2
<1>7. HistoryOK'
  <2> SUFFICES ASSUME NEW c \in Commits', NEW p \in commits'[c].past
               PROVE  /\ commits'[p].past \subseteq commits'[c].past
                      /\ commits'[p].tree \subseteq commits'[c].tree
    BY <1>1 DEF HistoryOK
  <2>0. \A k \in Commits : \A q \in commits[k].past :
            /\ q \in Commits
            /\ commits[q].past \subseteq commits[k].past
            /\ commits[q].tree \subseteq commits[k].tree
    BY <1>5 DEF IInv, HistoryOK
  <2>1. CASE c \in Commits
    BY <1>1, <2>0, <2>1
  <2>2. CASE c = n /\ p # n
    <3>1. PICK k \in Commits : /\ p \in commits[k].past
                               /\ commits[k].past \subseteq commits'[n].past
                               /\ commits[k].tree \subseteq tree
      BY <1>1, <1>3, <1>4, <2>2 DEF Past, Tree
    <3> QED
      BY <1>1, <2>0, <2>2, <3>1
  <2> QED
    BY <1>2, <2>1, <2>2
<1> QED
  BY <1>6, <1>7

LEMMA CommitTraced ==
    ASSUME IInv, NEW b, NEW parents, NEW tree, NEW own, NEW ticket,
           GoodCommit(b, parents, tree, own, ticket), discarded' = discarded
    PROVE  WorkIsTraced'
<1> DEFINE n == Len(commits) + 1
<1>1. /\ Len(commits') = n /\ n \in Nat
      /\ \A c \in Commits : commits'[c] = commits[c]
      /\ commits'[n].past = {n} \union Past(b) \union UNION {commits[p].past : p \in parents}
      /\ commits'[n].tree \subseteq tree \union {n}
      /\ commits'[n].ticket = ticket /\ commits'[n].on = b
  BY CommitFacts
<1>2. /\ Commits' = Commits \union {n}
  BY <1>1 DEF Commits
<1>3. \A u, s : s \in Squashes(u) => s \in Commits' /\ commits'[s].ticket = u
  BY <1>1, <1>2 DEF Squashes
<1> DEFINE Traced(k, d) ==
               \/ commits'[d].on = commits'[k].on
               \/ \E s \in commits'[k].past : s \in Commits' /\ commits'[s].ticket = commits'[d].on
<1> SUFFICES ASSUME NEW k \in Commits', NEW d \in commits'[k].tree,
                    commits'[d].on \in Ticket \ discarded
             PROVE  Traced(k, d)
  BY DEF WorkIsTraced, Found, Squashes
<1>4. CASE k \in Commits
  <2>1. d \in Commits /\ d \in commits[k].tree
    BY <1>1, <1>4 DEF IInv, TypeOK, Commits
  <2>2. \/ commits[d].on = commits[k].on
        \/ Found(commits[d].on, commits[k].past)
    BY <1>1, <1>4, <2>1 DEF IInv, WorkIsTraced
  <2> QED
    BY <1>1, <1>3, <1>4, <2>1, <2>2 DEF Found
<1>5. CASE k = n /\ d = n
  BY <1>5
<1>6. CASE k = n /\ d # n
  <2>1. d \in tree /\ d \in Commits
    BY <1>1, <1>6 DEF GoodCommit
  <2>2. \/ commits[d].on \in {b, ticket}
        \/ Found(commits[d].on, Past(b))
        \/ \E p \in parents : Found(commits[d].on, commits[p].past)
    BY <1>1, <2>1 DEF GoodCommit
  <2>3. CASE commits[d].on \in {b, ticket}
    BY <1>1, <1>3, <1>6, <2>1, <2>3 DEF Found
  <2>4. CASE Found(commits[d].on, Past(b))
    BY <1>1, <1>3, <1>6, <2>1, <2>4 DEF Found
  <2>5. ASSUME NEW p \in parents, Found(commits[d].on, commits[p].past)
        PROVE  Traced(k, d)
    BY <1>1, <1>3, <1>6, <2>1, <2>5 DEF Found
  <2> QED
    BY <2>2, <2>3, <2>4, <2>5
<1> QED
  BY <1>2, <1>4, <1>5, <1>6

-----------------------------------------------------------------------------
\* What is at the tip of a branch.
LEMMA AtTip ==
    ASSUME IInv, NEW b \in Branch, head[b] # 0
    PROVE  /\ head[b] \in Commits /\ Tree(b) \subseteq Commits /\ Past(b) \subseteq Commits
           /\ commits[head[b]].on \in {b, "main", "milestone"}
           /\ \A d \in Tree(b) : commits[d].on \in Ticket \ discarded =>
                 commits[d].on = b \/ Found(commits[d].on, Past(b))
<1>1. head[b] \in Commits
  BY DEF IInv, TypeOK, HistoryOK, Tips, Commits
<1>2. Tree(b) \subseteq Commits /\ Past(b) \subseteq Commits
  BY <1>1 DEF IInv, TypeOK, HistoryOK, Commits, Tree, Past
<1>3. commits[head[b]].on \in {b, "main", "milestone"}
  BY DEF IInv, BranchesOK
<1>4. ASSUME NEW d \in Tree(b), commits[d].on \in Ticket \ discarded
      PROVE  commits[d].on = b \/ Found(commits[d].on, Past(b))
  BY <1>1, <1>3, <1>4, Names DEF IInv, WorkIsTraced, Tree, Past
<1> QED
  BY <1>1, <1>2, <1>3, <1>4

LEMMA AtMergeHead ==
    ASSUME IInv, NEW t \in Ticket, mergeHead[t] # 0
    PROVE  /\ mergeHead[t] \in Commits /\ commits[mergeHead[t]].tree \subseteq Commits
           /\ \A d \in commits[mergeHead[t]].tree : commits[d].on \in Ticket \ discarded =>
                 Found(commits[d].on, commits[mergeHead[t]].past)
<1>1. mergeHead[t] \in Commits
  BY DEF IInv, TypeOK, HistoryOK, Tips, Commits
<1>2. commits[mergeHead[t]].tree \subseteq Commits
  BY <1>1 DEF IInv, TypeOK, HistoryOK, Commits
<1>3. commits[mergeHead[t]].on \in {"main", "milestone"}
  BY DEF IInv, BranchesOK
<1> QED
  BY <1>1, <1>2, <1>3, Names DEF IInv, WorkIsTraced

LEMMA CommitIsGood ==
    ASSUME IInv, NEW t \in Ticket, Commit(t)
    PROVE  \E parents, tree : GoodCommit(t, parents, tree, TRUE, None)
<1>1. t \in Branch /\ head[t] # 0
  BY Names DEF Commit, IInv, BranchesOK
<1>2. CASE wt[t] = "merging"
  <2>1. mergeHead[t] # 0
    BY <1>2 DEF IInv, BranchesOK
  <2>2. CommitOn(t, {mergeHead[t]}, Tree(t) \union UNION {commits[c].tree : c \in {mergeHead[t]}},
                 TRUE, None)
    BY <1>2 DEF Commit
  <2> QED
    BY <1>1, <2>1, <2>2, AtTip, AtMergeHead DEF GoodCommit
<1>3. CASE wt[t] # "merging"
  <2>1. CommitOn(t, {}, Tree(t) \union UNION {commits[c].tree : c \in {}}, TRUE, None)
    BY <1>3 DEF Commit
  <2> QED
    BY <1>1, <2>1, AtTip DEF GoodCommit
<1> QED
  BY <1>2, <1>3

\* A commit that merges b into a.
LEMMA MergeIsGood ==
    ASSUME IInv, NEW a \in Branch, NEW b \in {"main", "milestone"}, head[a] # 0, head[b] # 0,
           CommitOn(a, {head[b]}, Tree(a) \union Tree(b), FALSE, None)
    PROVE  GoodCommit(a, {head[b]}, Tree(a) \union Tree(b), FALSE, None)
<1>1. b \in Branch /\ b \notin Ticket
  BY Names
<1>2. \A d \in Tree(b) : commits[d].on \in Ticket \ discarded =>
         Found(commits[d].on, commits[head[b]].past)
  BY <1>1, AtTip DEF Past
<1> QED
  BY <1>1, <1>2, AtTip DEF GoodCommit, Tree

LEMMA SquashIsGood ==
    ASSUME IInv, IntegrateCommit, staged # Tree("milestone")
    PROVE  GoodCommit("milestone", {}, staged, FALSE, orch.on)
<1>1. /\ orch.pc = "commit" /\ orch.on \in Ticket /\ head["milestone"] # 0
      /\ Tree("milestone") \subseteq staged
      /\ \A d \in staged : commits[d].on \in Ticket \ discarded =>
            commits[d].on = orch.on \/ Found(commits[d].on, Past("milestone"))
  BY DEF IntegrateCommit, Orchestrate, IInv, IntegrateOK, Integrating, StagedTraced
<1>2. CommitOn("milestone", {}, staged, FALSE, orch.on)
  BY DEF IntegrateCommit
<1>3. staged \subseteq Commits
  BY DEF IInv, TypeOK
<1> QED
  BY <1>1, <1>2, <1>3, Names DEF GoodCommit

LEMMA DriftIsGood ==
    ASSUME IInv, MainDrifts
    PROVE  GoodCommit("main", {}, Tree("main"), TRUE, None)
<1>1. "main" \in Branch /\ head["main"] # 0
  BY Names DEF IInv, BranchesOK
<1>2. CommitOn("main", {}, Tree("main"), TRUE, None)
  BY DEF MainDrifts
<1> QED
  BY <1>1, <1>2, AtTip DEF GoodCommit

\* A step leaves the commits alone or makes one good commit.
NoCommit == commits' = commits /\ discarded \subseteq discarded'
OneCommit ==
    /\ discarded' = discarded
    /\ \E b, parents, tree, own, ticket : GoodCommit(b, parents, tree, own, ticket)

LEMMA CommitsStep == IInv /\ [Next]_vars => NoCommit \/ OneCommit
<1> SUFFICES ASSUME IInv, [Next]_vars PROVE NoCommit \/ OneCommit
  OBVIOUS
<1>1. ASSUME NEW t \in Ticket, Commit(t) PROVE OneCommit
  BY <1>1, CommitIsGood DEF OneCommit, Commit, board
<1>2. ASSUME NEW t \in Ticket, SyncMerge(t) PROVE NoCommit \/ OneCommit
  <2>1. CASE UNCHANGED commits
    BY <1>2, <2>1 DEF NoCommit, SyncMerge, board
  <2>2. CASE CommitOn(t, {head["milestone"]}, Tree(t) \union Tree("milestone"), FALSE, None)
             /\ wt[t] = "clean" /\ HaveBranch("milestone")
    <3>1. GoodCommit(t, {head["milestone"]}, Tree(t) \union Tree("milestone"), FALSE, None)
      BY <2>2, MergeIsGood, Names DEF IInv, BranchesOK, HaveBranch
    <3> QED
      BY <1>2, <3>1 DEF OneCommit, SyncMerge, board
  <2> QED
    BY <1>2, <2>1, <2>2 DEF SyncMerge
<1>3. CASE IntegrateCommit
  <2>1. CASE UNCHANGED commits
    BY <1>3, <2>1 DEF NoCommit, IntegrateCommit, board
  <2>2. CASE staged # Tree("milestone")
    BY <1>3, <2>2, SquashIsGood DEF OneCommit, IntegrateCommit, board
  <2> QED
    BY <1>3, <2>1, <2>2 DEF IntegrateCommit
<1>4. CASE MainDrifts
  BY <1>4, DriftIsGood DEF OneCommit, MainDrifts, board
<1>5. CASE MergeMain
  <2>1. CASE UNCHANGED commits
    BY <1>5, <2>1 DEF NoCommit, MergeMain, board
  <2>2. CASE CommitOn("milestone", {head["main"]}, Tree("milestone") \union Tree("main"), FALSE, None)
    <3>1. GoodCommit("milestone", {head["main"]}, Tree("milestone") \union Tree("main"), FALSE, None)
      BY <1>5, <2>2, MergeIsGood, Names DEF IInv, BranchesOK, MergeMain, HaveBranch
    <3> QED
      BY <1>5, <3>1 DEF OneCommit, MergeMain, board
  <2> QED
    BY <1>5, <2>1, <2>2 DEF MergeMain
<1>6. ASSUME NEW t \in Ticket,
             \/ SyncGuards(t) \/ ReadyLoad(t) \/ ReadyMove(t) \/ TicketStarts(t)
             \/ IntegrateLoad(t) \/ AbandonRemove(t) \/ \E e \in Evidence : ReadyGate(t, e)
      PROVE  NoCommit
  BY <1>6 DEF SyncGuards, ReadyLoad, ReadyMove, ReadyGate, TicketStarts, IntegrateLoad,
              AbandonRemove, NoCommit, git, board
<1>7. CASE \/ MilestoneStart \/ IntegrateGate \/ IntegrateSquash \/ IntegrateRecheck
           \/ IntegrateDone \/ IntegrateRemove \/ AbandonDelete \/ AbandonLog
           \/ AbandonMilestone \/ FinishList \/ FinishVerify \/ FinishForward
           \/ KillOrchestrator \/ ResetMilestone
  BY <1>7 DEF MilestoneStart, IntegrateGate, IntegrateSquash, IntegrateRecheck,
              IntegrateDone, IntegrateRemove, AbandonDelete, AbandonLog, AbandonMilestone,
              FinishList, FinishVerify, FinishForward, KillOrchestrator, ResetMilestone,
              NoCommit, git, board
<1>8. CASE UNCHANGED vars
  BY <1>8 DEF vars, git, board, NoCommit
<1> QED
  BY <1>1, <1>2, <1>3, <1>4, <1>5, <1>6, <1>7, <1>8
     DEF Next, AgentNext, Sync, Ready, OrchestratorNext, IntegrateSteps, AbandonSteps,
         FinishSteps

\* Nothing is ever taken out of the history.
Extends == Len(commits) <= Len(commits') /\ \A c \in Commits : commits'[c] = commits[c]

LEMMA HistoryStep ==
    ASSUME IInv, [Next]_vars
    PROVE  /\ Extends /\ Commits \subseteq Commits' /\ Len(commits) \in Nat /\ Len(commits') \in Nat
           /\ CommitsOK' /\ HistoryOK' /\ WorkIsTraced'
           /\ \A u, s : s \in Squashes(u) => s \in Squashes(u)'
           /\ discarded \subseteq discarded'
<1>1. CASE NoCommit
  <2>1. CommitsOK' /\ HistoryOK' /\ Extends
    BY <1>1 DEF NoCommit, IInv, TypeOK, CommitsOK, HistoryOK, Commits, Extends
  <2>2. WorkIsTraced'
    BY <1>1 DEF NoCommit, IInv, WorkIsTraced, Found, Squashes, Commits
  <2> QED
    BY <1>1, <2>1, <2>2 DEF NoCommit, IInv, HistoryOK, Commits, Squashes
<1>2. CASE OneCommit
  <2>1. PICK b, parents, tree, own, ticket : GoodCommit(b, parents, tree, own, ticket)
    BY <1>2 DEF OneCommit
  <2>2. CommitsOK' /\ HistoryOK'
    BY <2>1, CommitHistory
  <2>3. WorkIsTraced'
    BY <1>2, <2>1, CommitTraced DEF OneCommit
  <2>4. /\ Len(commits') = Len(commits) + 1 /\ Len(commits) \in Nat
        /\ \A c \in Commits : commits'[c] = commits[c]
    BY <2>1, CommitFacts
  <2>5. Commits \subseteq Commits'
    BY <2>4 DEF Commits
  <2>6. \A u, s : s \in Squashes(u) => s \in Squashes(u)'
    BY <2>4, <2>5 DEF Squashes
  <2> QED
    BY <1>2, <2>2, <2>3, <2>4, <2>5, <2>6 DEF Extends, OneCommit
<1> QED
  BY <1>1, <1>2, CommitsStep

-----------------------------------------------------------------------------
LEMMA OrchMoves ==
    ASSUME IInv, NEW from, NEW to \in OrchPC, Orchestrate(from, to)
    PROVE  /\ orch.pc = from /\ orch' \in [pc : OrchPC, on : Ticket \union {None}, ttip : Nat]
           /\ orch'.pc = to /\ orch'.on = orch.on /\ orch'.ttip = orch.ttip
BY DEF Orchestrate, IInv, IntegrateOK

LEMMA IdleFacts ==
    /\ Idle \in [pc : OrchPC, on : Ticket \union {None}, ttip : Nat]
    /\ Idle.pc = "idle" /\ Idle.on = None /\ Idle.ttip = 0
<1>1. Idle.pc = "idle" /\ Idle.on = None /\ Idle.ttip = 0
  BY DEF Idle
<1>2. "idle" \in OrchPC /\ None \in Ticket \union {None} /\ 0 \in Nat
  BY DEF OrchPC
<1>3. Idle \in [pc : OrchPC, on : Ticket \union {None}, ttip : Nat]
  BY <1>2 DEF Idle
<1> QED
  BY <1>1, <1>3

\* The parts of TypeOK that are not about the commits.
GitTyped ==
    /\ head \in [Branch -> Tips] /\ mergeHead \in [Ticket -> Tips]
    /\ wt \in [Branch -> {"none", "clean", "merging", "staged"}]
    /\ staged \subseteq Commits
BoardTyped ==
    /\ status \in [Ticket -> Columns]
    /\ ready \in [Ticket -> Tips \X Tips]
    /\ discarded \subseteq Ticket /\ landed \in [Ticket -> Tips]
OrchTyped == orch.on \in Ticket \union {None} /\ orch.ttip \in Tips

LEMMA GrowTips ==
    ASSUME IInv, [Next]_vars
    PROVE  /\ Tips \subseteq Tips' /\ Commits \subseteq Commits' /\ 0 \in Tips
           /\ \A b, parents, tree, own, ticket : CommitOn(b, parents, tree, own, ticket) =>
                 /\ Len(commits') \in Tips' /\ Len(commits') = Len(commits) + 1
                 /\ Len(commits') \notin Tips /\ Len(commits') # 0
                 /\ head' = [head EXCEPT ![b] = Len(commits')]
<1>1. /\ Len(commits) <= Len(commits') /\ Len(commits) \in Nat /\ Len(commits') \in Nat
      /\ Commits \subseteq Commits' /\ commits \in Seq(CommitRecord)
  BY HistoryStep DEF Extends, IInv, HistoryOK
<1>2. Tips \subseteq Tips' /\ 0 \in Tips
  BY <1>1 DEF Tips
<1>3. ASSUME NEW b, NEW parents, NEW tree, NEW own, NEW ticket,
             CommitOn(b, parents, tree, own, ticket)
      PROVE  Len(commits') = Len(commits) + 1 /\ head' = [head EXCEPT ![b] = Len(commits) + 1]
  <2>1. PICK r : commits' = Append(commits, r)
    BY <1>3 DEF CommitOn
  <2>2. Len(Append(commits, r)) = Len(commits) + 1
    BY <1>1
  <2> QED
    BY <1>3, <2>1, <2>2 DEF CommitOn
<1> QED
  BY <1>1, <1>2, <1>3 DEF Tips

LEMMA GitTypeStep == IInv /\ [Next]_vars => GitTyped'
<1> SUFFICES ASSUME IInv, [Next]_vars PROVE GitTyped'
  OBVIOUS
<1>0. GitTyped /\ Tips \subseteq Tips' /\ Commits \subseteq Commits' /\ 0 \in Tips
  BY GrowTips DEF IInv, TypeOK, GitTyped
<1>q. CASE UNCHANGED git
  BY <1>0, <1>q DEF git, GitTyped
<1>1. ASSUME NEW b \in Branch, NEW parents, NEW tree, NEW own, NEW ticket,
             CommitOn(b, parents, tree, own, ticket)
      PROVE  head' \in [Branch -> Tips']
  BY <1>0, <1>1, GrowTips DEF GitTyped
<1>2. ASSUME NEW b \in Branch, NEW h \in Tips, head' = [head EXCEPT ![b] = h]
      PROVE  head' \in [Branch -> Tips']
  BY <1>0, <1>2 DEF GitTyped
<1>3. ASSUME NEW t \in Ticket, Commit(t) PROVE GitTyped'
  BY <1>0, <1>1, <1>3, Names DEF GitTyped, Commit
<1>4. ASSUME NEW t \in Ticket, SyncMerge(t) PROVE GitTyped'
  <2>1. head' \in [Branch -> Tips']
    BY <1>0, <1>1, <1>2, <1>4, Names DEF GitTyped, SyncMerge
  <2> QED
    BY <1>0, <1>4, <2>1, Names DEF GitTyped, SyncMerge
<1>5. CASE IntegrateCommit
  <2>1. head' \in [Branch -> Tips']
    BY <1>0, <1>1, <1>5, Names DEF GitTyped, IntegrateCommit
  <2> QED
    BY <1>0, <1>5, <2>1, Names DEF GitTyped, IntegrateCommit
<1>6. CASE MainDrifts
  BY <1>0, <1>1, <1>6, Names DEF GitTyped, MainDrifts
<1>7. CASE MergeMain
  <2>1. head' \in [Branch -> Tips']
    BY <1>0, <1>1, <1>2, <1>7, Names DEF GitTyped, MergeMain
  <2> QED
    BY <1>0, <1>7, <2>1, Names DEF GitTyped, MergeMain
<1>8. ASSUME NEW t \in Ticket, TicketStarts(t) \/ AbandonRemove(t) PROVE GitTyped'
  BY <1>0, <1>8, Names DEF GitTyped, TicketStarts, AbandonRemove
<1>9. CASE MilestoneStart \/ AbandonMilestone \/ FinishForward \/ ResetMilestone
  BY <1>0, <1>9, Names DEF GitTyped, MilestoneStart, AbandonMilestone, FinishForward, ResetMilestone
<1>10. CASE IntegrateSquash
  <2>1. orch.on \in Branch /\ head[orch.on] # 0 /\ head["milestone"] # 0
    BY <1>10, Names DEF IntegrateSquash, Orchestrate, IInv, IntegrateOK, Integrating, TypeOK, Tips
  <2>2. Tree("milestone") \subseteq Commits /\ Tree(orch.on) \subseteq Commits
    BY <2>1, AtTip, Names
  <2> QED
    BY <1>0, <1>10, <2>2, Names DEF GitTyped, IntegrateSquash
<1>11. CASE IntegrateRemove \/ AbandonDelete
  BY <1>0, <1>11, Names DEF GitTyped, IntegrateRemove, AbandonDelete
<1>12. ASSUME NEW t \in Ticket,
             \/ SyncGuards(t) \/ ReadyLoad(t) \/ ReadyMove(t)
             \/ IntegrateLoad(t) \/ \E e \in Evidence : ReadyGate(t, e)
      PROVE  UNCHANGED git
  BY <1>12 DEF SyncGuards, ReadyLoad, ReadyMove, ReadyGate, IntegrateLoad
<1>13. CASE \/ IntegrateGate \/ IntegrateRecheck \/ IntegrateDone \/ AbandonLog
            \/ FinishList \/ FinishVerify \/ KillOrchestrator \/ UNCHANGED vars
  BY <1>q, <1>13 DEF IntegrateGate, IntegrateRecheck, IntegrateDone, AbandonLog, FinishList,
              FinishVerify, KillOrchestrator, vars
<1> QED
  BY <1>q, <1>3, <1>4, <1>5, <1>6, <1>7, <1>8, <1>9, <1>10, <1>11, <1>12, <1>13
     DEF Next, AgentNext, Sync, Ready, OrchestratorNext, IntegrateSteps, AbandonSteps,
         FinishSteps

LEMMA BoardTypeStep == IInv /\ [Next]_vars => BoardTyped'
<1> SUFFICES ASSUME IInv, [Next]_vars PROVE BoardTyped'
  OBVIOUS
<1>0. BoardTyped /\ Tips \subseteq Tips' /\ 0 \in Tips
  BY GrowTips DEF IInv, TypeOK, BoardTyped
<1>q. CASE UNCHANGED board /\ UNCHANGED landed
  BY <1>0, <1>q DEF board, BoardTyped
<1>1. ASSUME NEW t \in Ticket, TicketStarts(t) PROVE BoardTyped'
  BY <1>0, <1>1 DEF TicketStarts, BoardTyped, Columns
<1>2. ASSUME NEW t \in Ticket, ReadyMove(t) PROVE BoardTyped'
  <2>1. head[t] \in Tips /\ head["milestone"] \in Tips
    BY Names DEF IInv, TypeOK
  <2>2. ready' \in [Ticket -> Tips' \X Tips']
    BY <1>0, <1>2, <2>1 DEF ReadyMove, BoardTyped
  <2> QED
    BY <1>0, <1>2, <2>2 DEF ReadyMove, BoardTyped, Columns
<1>3. CASE IntegrateDone
  <2>1. orch.on \in Ticket /\ orch.ttip \in Tips
    BY <1>3 DEF IntegrateDone, Orchestrate, IInv, IntegrateOK, Integrating, TypeOK
  <2> QED
    BY <1>0, <1>3, <2>1 DEF IntegrateDone, BoardTyped, Columns
<1>4. CASE AbandonLog
  <2>1. orch.on \in Ticket
    BY <1>4 DEF AbandonLog, Refuse, IInv, IntegrateOK
  <2> QED
    BY <1>0, <1>4, <2>1 DEF AbandonLog, BoardTyped
<1>5. ASSUME NEW t \in Ticket,
             \/ Commit(t) \/ SyncGuards(t) \/ SyncMerge(t) \/ ReadyLoad(t)
             \/ IntegrateLoad(t) \/ AbandonRemove(t) \/ \E e \in Evidence : ReadyGate(t, e)
      PROVE  UNCHANGED <<board, landed>>
  BY <1>5 DEF Commit, SyncGuards, SyncMerge, ReadyLoad, IntegrateLoad, AbandonRemove, ReadyGate
<1>6. CASE \/ MilestoneStart \/ IntegrateGate \/ IntegrateSquash \/ IntegrateCommit
           \/ IntegrateRecheck \/ IntegrateRemove \/ AbandonDelete \/ AbandonMilestone
           \/ FinishList \/ FinishVerify \/ FinishForward \/ MainDrifts \/ MergeMain
           \/ KillOrchestrator \/ ResetMilestone \/ UNCHANGED vars
  BY <1>q, <1>6 DEF MilestoneStart, IntegrateGate, IntegrateSquash, IntegrateCommit,
       IntegrateRecheck, IntegrateRemove, AbandonDelete, AbandonMilestone, FinishList,
       FinishVerify, FinishForward, MainDrifts, MergeMain, KillOrchestrator,
       ResetMilestone, vars
<1> QED
  BY <1>q, <1>1, <1>2, <1>3, <1>4, <1>5, <1>6
     DEF Next, AgentNext, Sync, Ready, OrchestratorNext, IntegrateSteps, AbandonSteps,
         FinishSteps

LEMMA OrchTypeStep ==
    IInv /\ [Next]_vars =>
        OrchTyped' /\ orch' \in [pc : OrchPC, on : Ticket \union {None}, ttip : Nat]
<1> DEFINE OrchRecord == [pc : OrchPC, on : Ticket \union {None}, ttip : Nat]
<1> SUFFICES ASSUME IInv, [Next]_vars PROVE OrchTyped' /\ orch' \in OrchRecord
  OBVIOUS
<1>0. OrchTyped /\ Tips \subseteq Tips' /\ 0 \in Tips /\ orch \in OrchRecord
  BY GrowTips DEF IInv, TypeOK, OrchTyped, IntegrateOK
<1>q. CASE UNCHANGED orch
  BY <1>0, <1>q DEF OrchTyped
<1>1. ASSUME NEW from, NEW to \in OrchPC, Orchestrate(from, to)
      PROVE  OrchTyped' /\ orch' \in OrchRecord
  BY <1>0, <1>1, OrchMoves DEF OrchTyped
<1>2. CASE orch' = Idle
  BY <1>0, <1>2, IdleFacts DEF OrchTyped
<1>3. ASSUME NEW t \in Ticket, IntegrateLoad(t) PROVE OrchTyped' /\ orch' \in OrchRecord
  <2>1. head[t] \in Tips /\ head[t] \in Nat
    BY Names DEF IInv, TypeOK, Tips, HistoryOK
  <2>2. orch' = [pc |-> "gate", on |-> t, ttip |-> head[t]] /\ "gate" \in OrchPC
    BY <1>3 DEF IntegrateLoad, OrchPC, Integrating
  <2> QED
    BY <1>0, <2>1, <2>2 DEF OrchTyped
<1>4. ASSUME NEW t \in Ticket, AbandonRemove(t) PROVE OrchTyped' /\ orch' \in OrchRecord
  <2>1. orch' = [pc |-> "delete", on |-> t, ttip |-> 0] /\ "delete" \in OrchPC
    BY <1>4 DEF AbandonRemove, OrchPC, Idle
  <2> QED
    BY <1>0, <2>1 DEF OrchTyped
<1>5. CASE FinishList
  <2>1. orch' = [pc |-> "verify", on |-> None, ttip |-> 0] /\ "verify" \in OrchPC
    BY <1>5 DEF FinishList, OrchPC, Idle
  <2> QED
    BY <1>0, <2>1 DEF OrchTyped
<1>6. CASE FinishVerify
  <2>1. CASE orch' = [orch EXCEPT !.pc = "forward"]
    BY <1>0, <2>1 DEF OrchTyped, OrchPC
  <2> QED
    BY <1>2, <1>6, <2>1 DEF FinishVerify, Refuse
<1>7. CASE \/ IntegrateGate \/ IntegrateSquash \/ IntegrateCommit \/ IntegrateRecheck
           \/ IntegrateDone \/ AbandonDelete
  <2>1. {"squash", "commit", "recheck", "done", "remove", "discard"} \subseteq OrchPC
    BY DEF OrchPC, Integrating
  <2> QED
    BY <1>1, <1>2, <1>7, <2>1 DEF IntegrateGate, IntegrateSquash, IntegrateCommit,
         IntegrateRecheck, IntegrateDone, AbandonDelete, Refuse
<1>8. CASE IntegrateRemove \/ AbandonLog \/ FinishForward \/ KillOrchestrator
  BY <1>2, <1>8 DEF IntegrateRemove, AbandonLog, FinishForward, KillOrchestrator, Refuse
<1>9. ASSUME NEW t \in Ticket,
             \/ Commit(t) \/ SyncGuards(t) \/ SyncMerge(t) \/ ReadyLoad(t) \/ ReadyMove(t)
             \/ TicketStarts(t) \/ \E e \in Evidence : ReadyGate(t, e)
      PROVE  UNCHANGED orch
  BY <1>9 DEF Commit, SyncGuards, SyncMerge, ReadyLoad, ReadyMove, TicketStarts, ReadyGate, scripts
<1>10. CASE \/ MilestoneStart \/ AbandonMilestone \/ MainDrifts \/ MergeMain
            \/ ResetMilestone \/ UNCHANGED vars
  BY <1>q, <1>10 DEF MilestoneStart, AbandonMilestone, MainDrifts, MergeMain,
       ResetMilestone, vars, scripts
<1> QED
  BY <1>q, <1>3, <1>4, <1>5, <1>6, <1>7, <1>8, <1>9, <1>10
     DEF Next, AgentNext, Sync, Ready, OrchestratorNext, IntegrateSteps, AbandonSteps,
         FinishSteps

LEMMA TypeStep == IInv /\ [Next]_vars => TypeOK'
BY HistoryStep, GitTypeStep, BoardTypeStep, OrchTypeStep
   DEF TypeOK, CommitsOK, GitTyped, BoardTyped, OrchTyped

-----------------------------------------------------------------------------
LEMMA TipIsNew ==
    ASSUME IInv, NEW b, NEW parents, NEW tree, NEW own, NEW ticket,
           CommitOn(b, parents, tree, own, ticket)
    PROVE  commits'[Len(commits')].on = b
<1>1. commits \in Seq(CommitRecord) /\ Len(commits) \in Nat
  BY DEF IInv, HistoryOK
<1>2. PICK past, newTree : commits' = Append(commits,
          [past |-> past, tree |-> newTree, ticket |-> ticket, on |-> b])
  BY DEF CommitOn
<1>3. /\ Len(commits') = Len(commits) + 1
      /\ commits'[Len(commits) + 1] =
            [past |-> past, tree |-> newTree, ticket |-> ticket, on |-> b]
  BY <1>1, <1>2
<1> QED
  BY <1>3

\* A step that moves one branch at most, and where to it may go.
LEMMA BranchMoves ==
    ASSUME IInv, [Next]_vars, NEW b \in Branch, NEW h, head' = [head EXCEPT ![b] = h],
           h # 0 => commits'[h].on \in {b, "main", "milestone"},
           h # 0 /\ b \notin Ticket => commits'[h].on \in {"main", "milestone"}
    PROVE  /\ \A a \in Branch : head'[a] # 0 => commits'[head'[a]].on \in {a, "main", "milestone"}
           /\ \A a \in {"main", "milestone"} :
                 head'[a] # 0 => commits'[head'[a]].on \in {"main", "milestone"}
<1>1. \A a \in Branch : /\ head[a] # 0 => commits'[head[a]] = commits[head[a]]
                        /\ head'[a] = IF a = b THEN h ELSE head[a]
  <2>1. \A a \in Branch : head[a] # 0 => head[a] \in Commits
    BY AtTip
  <2> QED
    BY <2>1, HistoryStep DEF Extends, IInv, TypeOK
<1>2. {"main", "milestone"} \subseteq Branch \ Ticket
  BY Names
<1> QED
  BY <1>1, <1>2 DEF IInv, BranchesOK

\* The merge heads stay where they are, but for one that is read off the milestone.
LEMMA MergeHeadMoves ==
    ASSUME IInv, [Next]_vars, NEW t \in Ticket,
           \/ mergeHead' = mergeHead
           \/ mergeHead' = [mergeHead EXCEPT ![t] = 0]
           \/ mergeHead' = [mergeHead EXCEPT ![t] = head["milestone"]]
    PROVE  \A u \in Ticket : mergeHead'[u] # 0 =>
              commits'[mergeHead'[u]].on \in {"main", "milestone"}
<1>1. \A u \in Ticket : mergeHead[u] # 0 =>
          /\ commits'[mergeHead[u]] = commits[mergeHead[u]]
          /\ commits[mergeHead[u]].on \in {"main", "milestone"}
  <2>1. \A u \in Ticket : mergeHead[u] # 0 => mergeHead[u] \in Commits
    BY AtMergeHead
  <2> QED
    BY <2>1, HistoryStep DEF Extends, IInv, BranchesOK
<1>2. head["milestone"] # 0 =>
          /\ commits'[head["milestone"]] = commits[head["milestone"]]
          /\ commits[head["milestone"]].on \in {"main", "milestone"}
  <2>1. head["milestone"] # 0 => head["milestone"] \in Commits
    BY AtTip, Names
  <2> QED
    BY <2>1, HistoryStep DEF Extends, IInv, BranchesOK
<1> QED
  BY <1>1, <1>2 DEF IInv, TypeOK

\* What is left of BranchesOK: the worktrees.
WorktreesOK ==
    /\ head["main"] # 0
    /\ wt["milestone"] # "merging"
    /\ \A b \in Branch : wt[b] # "none" => head[b] # 0
    /\ \A t \in Ticket : /\ wt[t] # "staged"
                         /\ wt[t] = "merging" => mergeHead[t] # 0

TipsOK ==
    /\ \A a \in Branch : head[a] # 0 => commits[head[a]].on \in {a, "main", "milestone"}
    /\ \A a \in {"main", "milestone"} :
          head[a] # 0 => commits[head[a]].on \in {"main", "milestone"}

MergeHeadsOK ==
    \A u \in Ticket : mergeHead[u] # 0 => commits[mergeHead[u]].on \in {"main", "milestone"}

LEMMA BranchesParts ==
    /\ BranchesOK <=> WorktreesOK /\ TipsOK /\ MergeHeadsOK
    /\ BranchesOK' <=> WorktreesOK' /\ TipsOK' /\ MergeHeadsOK'
BY DEF BranchesOK, WorktreesOK, TipsOK, MergeHeadsOK

LEMMA TipsStep == IInv /\ [Next]_vars => TipsOK'
<1> SUFFICES ASSUME IInv, [Next]_vars PROVE TipsOK'
  OBVIOUS
<1>0. /\ head \in [Branch -> Tips] /\ TipsOK
      /\ \A c \in Commits : commits'[c] = commits[c]
      /\ \A b \in Branch : head[b] # 0 => head[b] \in Commits
  BY AtTip, Names, BranchesParts, HistoryStep DEF IInv, TypeOK, Extends
<1>m. ASSUME NEW b \in Branch, NEW h, head' = [head EXCEPT ![b] = h],
             h # 0 => commits'[h].on \in {b, "main", "milestone"},
             h # 0 /\ b \notin Ticket => commits'[h].on \in {"main", "milestone"}
      PROVE  TipsOK'
  BY <1>m, BranchMoves DEF TipsOK
<1>q. CASE UNCHANGED head
  BY <1>0, <1>q, Names DEF TipsOK
<1>c. ASSUME NEW b \in Branch, NEW parents, NEW tree, NEW own, NEW ticket,
             CommitOn(b, parents, tree, own, ticket), b \notin Ticket => b \in {"main", "milestone"}
      PROVE  TipsOK'
  <2>1. commits'[Len(commits')].on = b /\ head' = [head EXCEPT ![b] = Len(commits')]
    BY <1>c, TipIsNew, GrowTips
  <2> QED
    BY <1>m, <1>c, <2>1
<1>1. ASSUME NEW t \in Ticket, Commit(t) PROVE TipsOK'
  BY <1>0, <1>1, <1>c, Names DEF Commit
<1>f. ASSUME NEW b \in Branch, NEW a \in {"main", "milestone"}, head[a] # 0,
             head' = [head EXCEPT ![b] = head[a]]
      PROVE  TipsOK'
  <2>1. commits'[head[a]].on \in {"main", "milestone"}
    BY <1>0, <1>f, Names DEF TipsOK
  <2> QED
    BY <1>m, <1>f, <2>1
<1>2. ASSUME NEW t \in Ticket, SyncMerge(t) PROVE TipsOK'
  BY <1>0, <1>2, <1>c, <1>f, <1>q, Names DEF SyncMerge, HaveBranch
<1>3. CASE IntegrateCommit
  BY <1>0, <1>3, <1>c, <1>q, Names DEF IntegrateCommit
<1>4. CASE MainDrifts
  BY <1>0, <1>4, <1>c, Names DEF MainDrifts
<1>5. CASE MergeMain
  <2>1. head["main"] # 0
    BY BranchesParts DEF IInv, WorktreesOK
  <2> QED
    BY <1>5, <1>c, <1>f, <2>1, Names DEF MergeMain
<1>6. CASE MilestoneStart
  <2>1. head["main"] # 0
    BY BranchesParts DEF IInv, WorktreesOK
  <2>2. head["milestone"] = 0 => head' = [head EXCEPT !["milestone"] = head["main"]]
    BY <1>6 DEF MilestoneStart
  <2>3. head["milestone"] # 0 => head' = head
    BY <1>0, <1>6 DEF MilestoneStart
  <2> QED
    BY <1>f, <1>q, <2>1, <2>2, <2>3, Names
<1>7. ASSUME NEW t \in Ticket, TicketStarts(t) PROVE TipsOK'
  <2>1. head[t] = 0 => head' = [head EXCEPT ![t] = head["milestone"]]
    BY <1>7 DEF TicketStarts
  <2>2. head[t] # 0 => head' = head
    BY <1>0, <1>7 DEF TicketStarts
  <2> QED
    BY <1>7, <1>f, <1>q, <2>1, <2>2, Names DEF TicketStarts, HaveBranch
<1>8. CASE AbandonDelete
  <2>1. PICK h \in {0, head[orch.on]} : head' = [head EXCEPT ![orch.on] = h]
    BY <1>8 DEF AbandonDelete
  <2>2. orch.on \in Ticket /\ orch.on \in Branch
    BY <1>8, Names DEF AbandonDelete, Orchestrate, IInv, IntegrateOK
  <2> QED
    BY <1>0, <1>m, <2>1, <2>2 DEF TipsOK
<1>9. CASE AbandonMilestone
  <2>1. PICK h \in {0, head["milestone"]} : head' = [head EXCEPT !["milestone"] = h]
    BY <1>9 DEF AbandonMilestone
  <2> QED
    BY <1>0, <1>m, <2>1, Names DEF TipsOK
<1>10. CASE FinishForward
  <2>1. PICK h \in {head["main"], head["milestone"]} : head' = [head EXCEPT !["main"] = h]
    BY <1>10 DEF FinishForward
  <2>2. \/ head' = [head EXCEPT !["main"] = head["main"]]
        \/ /\ head' = [head EXCEPT !["main"] = head["milestone"]]
    BY <2>1
  <2>3. CASE h = 0
    BY <1>m, <2>1, <2>3, Names
  <2> QED
    BY <1>f, <2>1, <2>3, Names
<1>11. ASSUME NEW t \in Ticket,
             \/ SyncGuards(t) \/ ReadyLoad(t) \/ ReadyMove(t)
             \/ IntegrateLoad(t) \/ AbandonRemove(t) \/ \E e \in Evidence : ReadyGate(t, e)
      PROVE  UNCHANGED head
  BY <1>11 DEF SyncGuards, ReadyLoad, ReadyMove, ReadyGate, IntegrateLoad, AbandonRemove, git
<1>12. CASE \/ IntegrateGate \/ IntegrateSquash \/ IntegrateRecheck \/ IntegrateDone
            \/ IntegrateRemove \/ AbandonLog \/ FinishList \/ FinishVerify
            \/ KillOrchestrator \/ ResetMilestone \/ UNCHANGED vars
  BY <1>q, <1>12 DEF IntegrateGate, IntegrateSquash, IntegrateRecheck, IntegrateDone,
       IntegrateRemove, AbandonLog, FinishList, FinishVerify, KillOrchestrator,
       ResetMilestone, vars, git
<1> QED
  BY <1>q, <1>1, <1>2, <1>3, <1>4, <1>5, <1>6, <1>7, <1>8, <1>9, <1>10, <1>11, <1>12
     DEF Next, AgentNext, Sync, Ready, OrchestratorNext, IntegrateSteps, AbandonSteps,
         FinishSteps

LEMMA MergeHeadsStep == IInv /\ [Next]_vars => MergeHeadsOK'
<1> SUFFICES ASSUME IInv, [Next]_vars PROVE MergeHeadsOK'
  OBVIOUS
<1>m. ASSUME NEW t \in Ticket,
             \/ mergeHead' = mergeHead
             \/ mergeHead' = [mergeHead EXCEPT ![t] = 0]
             \/ mergeHead' = [mergeHead EXCEPT ![t] = head["milestone"]]
      PROVE  MergeHeadsOK'
  BY <1>m, MergeHeadMoves DEF MergeHeadsOK
<1>q. CASE UNCHANGED mergeHead
  BY <1>q, <1>m DEF MergeHeadsOK
<1>1. ASSUME NEW t \in Ticket, Commit(t) \/ SyncMerge(t) PROVE MergeHeadsOK'
  BY <1>1, <1>m DEF Commit, SyncMerge
<1>2. ASSUME NEW t \in Ticket,
             \/ SyncGuards(t) \/ ReadyLoad(t) \/ ReadyMove(t) \/ TicketStarts(t)
             \/ IntegrateLoad(t) \/ AbandonRemove(t) \/ \E e \in Evidence : ReadyGate(t, e)
      PROVE  UNCHANGED mergeHead
  BY <1>2 DEF SyncGuards, ReadyLoad, ReadyMove, ReadyGate, TicketStarts, IntegrateLoad,
              AbandonRemove, git
<1>3. CASE \/ MilestoneStart \/ IntegrateGate \/ IntegrateSquash \/ IntegrateCommit
           \/ IntegrateRecheck \/ IntegrateDone \/ IntegrateRemove \/ AbandonDelete
           \/ AbandonLog \/ AbandonMilestone \/ FinishList \/ FinishVerify \/ FinishForward
           \/ MainDrifts \/ MergeMain \/ KillOrchestrator \/ ResetMilestone \/ UNCHANGED vars
  BY <1>q, <1>3 DEF MilestoneStart, IntegrateGate, IntegrateSquash, IntegrateCommit,
       IntegrateRecheck, IntegrateDone, IntegrateRemove, AbandonDelete, AbandonLog,
       AbandonMilestone, FinishList, FinishVerify, FinishForward, MainDrifts, MergeMain,
       KillOrchestrator, ResetMilestone, vars, git
<1> QED
  BY <1>q, <1>1, <1>2, <1>3
     DEF Next, AgentNext, Sync, Ready, OrchestratorNext, IntegrateSteps, AbandonSteps,
         FinishSteps

LEMMA WorktreesStep == IInv /\ [Next]_vars => WorktreesOK'
<1> SUFFICES ASSUME IInv, [Next]_vars PROVE WorktreesOK'
  OBVIOUS
<1>0. /\ head \in [Branch -> Tips] /\ mergeHead \in [Ticket -> Tips]
      /\ wt \in [Branch -> {"none", "clean", "merging", "staged"}]
      /\ WorktreesOK
      /\ \A b, parents, tree, own, ticket : CommitOn(b, parents, tree, own, ticket) =>
            Len(commits') # 0 /\ head' = [head EXCEPT ![b] = Len(commits')]
  BY GrowTips, BranchesParts DEF IInv, TypeOK
<1> USE Names DEF WorktreesOK
<1>q. CASE UNCHANGED git
  BY <1>0, <1>q DEF git
<1>1. ASSUME NEW t \in Ticket, Commit(t) PROVE WorktreesOK'
  <2>1. Len(commits') # 0 /\ head' = [head EXCEPT ![t] = Len(commits')]
    BY <1>0, <1>1 DEF Commit
  <2> QED
    BY <1>0, <1>1, <2>1 DEF Commit
<1>2. ASSUME NEW t \in Ticket, SyncMerge(t) PROVE WorktreesOK'
  <2>1. CASE head' = [head EXCEPT ![t] = Len(commits')] /\ Len(commits') # 0
             /\ UNCHANGED <<wt, mergeHead>>
    BY <1>0, <2>1
  <2>2. CASE head' = [head EXCEPT ![t] = head["milestone"]] /\ HaveBranch("milestone")
             /\ UNCHANGED <<wt, mergeHead>>
    BY <1>0, <2>2 DEF HaveBranch
  <2>3. CASE /\ wt' = [wt EXCEPT ![t] = "merging"] /\ HaveBranch("milestone")
             /\ mergeHead' = [mergeHead EXCEPT ![t] = head["milestone"]]
             /\ wt[t] = "clean" /\ head' = head
    BY <1>0, <2>3 DEF HaveBranch
  <2>4. CASE UNCHANGED <<head, wt, mergeHead>>
    BY <1>0, <2>4
  <2> QED
    BY <1>0, <1>2, <2>1, <2>2, <2>3, <2>4 DEF SyncMerge
<1>3. CASE IntegrateCommit
  <2>1. head["milestone"] # 0
    BY <1>3 DEF IntegrateCommit, Orchestrate, Refuse, IInv, IntegrateOK, Integrating
  <2>2. head' = head \/ (head' = [head EXCEPT !["milestone"] = Len(commits')] /\ Len(commits') # 0)
    BY <1>0, <1>3 DEF IntegrateCommit
  <2> QED
    BY <1>0, <1>3, <2>1, <2>2 DEF IntegrateCommit
<1>4. CASE MainDrifts
  <2>1. Len(commits') # 0 /\ head' = [head EXCEPT !["main"] = Len(commits')]
    BY <1>0, <1>4 DEF MainDrifts
  <2> QED
    BY <1>0, <1>4, <2>1 DEF MainDrifts
<1>5. CASE MergeMain
  <2>1. PICK h \in {head["main"], Len(commits')} :
            h # 0 /\ head' = [head EXCEPT !["milestone"] = h]
    BY <1>0, <1>5 DEF MergeMain
  <2> QED
    BY <1>0, <1>5, <2>1 DEF MergeMain
<1>6. CASE MilestoneStart
  BY <1>0, <1>6 DEF MilestoneStart
<1>7. ASSUME NEW t \in Ticket, TicketStarts(t) PROVE WorktreesOK'
  BY <1>0, <1>7 DEF TicketStarts, HaveBranch
<1>8. ASSUME NEW t \in Ticket, AbandonRemove(t) PROVE WorktreesOK'
  BY <1>0, <1>8 DEF AbandonRemove
<1>9. CASE IntegrateSquash
  <2>1. head["milestone"] # 0
    BY <1>9 DEF IntegrateSquash, Orchestrate, IInv, IntegrateOK, Integrating
  <2> QED
    BY <1>0, <1>9, <2>1 DEF IntegrateSquash
<1>10. CASE IntegrateRemove
  <2>1. orch.on \in Ticket
    BY <1>10 DEF IntegrateRemove, Refuse, IInv, IntegrateOK, Integrating
  <2> QED
    BY <1>0, <1>10, <2>1 DEF IntegrateRemove
<1>11. CASE AbandonDelete
  <2>1. orch.on \in Ticket
    BY <1>11 DEF AbandonDelete, Orchestrate, IInv, IntegrateOK
  <2> QED
    BY <1>0, <1>11, <2>1 DEF AbandonDelete
<1>12. CASE AbandonMilestone
  BY <1>0, <1>12 DEF AbandonMilestone, HaveBranch
<1>13. CASE FinishForward
  <2>1. head["milestone"] # 0
    BY <1>13 DEF FinishForward, Refuse, IInv, IntegrateOK
  <2> QED
    BY <1>0, <1>13, <2>1 DEF FinishForward
<1>14. CASE ResetMilestone
  BY <1>0, <1>14 DEF ResetMilestone
<1>15. ASSUME NEW t \in Ticket,
             \/ SyncGuards(t) \/ ReadyLoad(t) \/ ReadyMove(t)
             \/ IntegrateLoad(t) \/ \E e \in Evidence : ReadyGate(t, e)
      PROVE  UNCHANGED git
  BY <1>15 DEF SyncGuards, ReadyLoad, ReadyMove, ReadyGate, IntegrateLoad
<1>16. CASE \/ IntegrateGate \/ IntegrateRecheck \/ IntegrateDone \/ AbandonLog
            \/ FinishList \/ FinishVerify \/ KillOrchestrator \/ UNCHANGED vars
  BY <1>q, <1>16 DEF IntegrateGate, IntegrateRecheck, IntegrateDone, AbandonLog, FinishList,
              FinishVerify, KillOrchestrator, vars
<1> QED
  BY <1>q, <1>1, <1>2, <1>3, <1>4, <1>5, <1>6, <1>7, <1>8, <1>9, <1>10, <1>11, <1>12, <1>13,
     <1>14, <1>15, <1>16
     DEF Next, AgentNext, Sync, Ready, OrchestratorNext, IntegrateSteps, AbandonSteps,
         FinishSteps

LEMMA SquashesStep == IInv /\ [Next]_vars => SquashesOnMilestone'
<1> SUFFICES ASSUME IInv, [Next]_vars, discarded' # Ticket,
                    NEW c \in Commits', commits'[c].ticket # None
             PROVE  head'["milestone"] # 0 /\ c \in commits'[head'["milestone"]].past
  BY DEF SquashesOnMilestone, HaveBranch, Past
<1>0. /\ head \in [Branch -> Tips] /\ "milestone" \in Branch /\ "main" \in Branch
      /\ "milestone" \notin Ticket
  BY Names DEF IInv, TypeOK
<1>1. discarded # Ticket
  BY HistoryStep, BoardTypeStep DEF BoardTyped
<1>2. \A k \in Commits : commits[k].ticket # None =>
          head["milestone"] # 0 /\ k \in Past("milestone")
  BY <1>1 DEF IInv, SquashesOnMilestone, HaveBranch
<1>3. CASE OneCommit
  <2>1. PICK b, parents, tree, own, ticket : GoodCommit(b, parents, tree, own, ticket)
    BY <1>3 DEF OneCommit
  <2> DEFINE n == Len(commits) + 1
  <2>2. /\ Len(commits') = n /\ n \in Nat \ {0}
        /\ \A k \in Commits : commits'[k] = commits[k]
        /\ {n} \union Past(b) \subseteq commits'[n].past
        /\ commits'[n].ticket = ticket
        /\ head' = [head EXCEPT ![b] = n]
    BY <2>1, CommitFacts
  <2>3. Commits' = Commits \union {n}
    BY <2>2 DEF Commits
  <2>4. head["milestone"] # 0 => head["milestone"] \in Commits
    BY AtTip, <1>0
  <2>5. CASE b = "milestone"
    BY <1>0, <1>2, <2>2, <2>3, <2>5
  <2>6. CASE b # "milestone"
    <3>1. ticket = None
      BY <2>1, <2>6 DEF GoodCommit
    <3>2. c \in Commits /\ commits[c].ticket # None
      BY <2>2, <2>3, <3>1
    <3> QED
      BY <1>0, <1>2, <2>2, <2>4, <2>6, <3>2 DEF Past
  <2> QED
    BY <2>5, <2>6
<1>4. CASE NoCommit
  <2>0. /\ c \in Commits /\ commits[c].ticket # None /\ commits' = commits
        /\ head["milestone"] # 0 /\ c \in Past("milestone")
    BY <1>2, <1>4 DEF NoCommit, Commits
  <2>q. CASE head'["milestone"] = head["milestone"]
    BY <2>0, <2>q DEF Past
  <2>1. CASE MergeMain
    <3>1. CASE head' = [head EXCEPT !["milestone"] = head["main"]] /\ IsAncestor("milestone", "main")
      <4>1. head["main"] # 0 /\ head["main"] \in Commits
        BY <1>0, AtTip DEF IInv, BranchesOK
      <4>2. Past("milestone") \subseteq Past("main")
        BY <3>1, <4>1 DEF IInv, HistoryOK, IsAncestor, Past
      <4> QED
        BY <1>0, <2>0, <3>1, <4>1, <4>2 DEF Past
    <3>2. ~ \E b, parents, tree, own, ticket : CommitOn(b, parents, tree, own, ticket)
      BY <2>0, GrowTips
    <3> QED
      BY <2>1, <3>1, <3>2 DEF MergeMain
  <2>2. CASE MilestoneStart
    BY <1>0, <2>0, <2>2, <2>q DEF MilestoneStart
  <2>3. CASE AbandonMilestone
    BY <1>1, <2>3 DEF AbandonMilestone
  <2>4. ASSUME NEW t \in Ticket, Commit(t) \/ SyncMerge(t) \/ TicketStarts(t)
        PROVE  head'["milestone"] = head["milestone"]
    <3>1. t # "milestone" /\ t \in Branch
      BY <1>0, Names
    <3> QED
      BY <1>0, <2>4, <3>1 DEF Commit, SyncMerge, TicketStarts, CommitOn
  <2>5. CASE IntegrateCommit
    <3>1. ~ \E b, parents, tree, own, ticket : CommitOn(b, parents, tree, own, ticket)
      BY <2>0, GrowTips
    <3> QED
      BY <2>q, <2>5, <3>1 DEF IntegrateCommit
  <2>6. CASE MainDrifts \/ FinishForward
    BY <1>0, <2>6, <2>q DEF MainDrifts, CommitOn, FinishForward
  <2>7. CASE AbandonDelete
    <3>1. orch.on \in Ticket
      BY <2>7 DEF AbandonDelete, Orchestrate, IInv, IntegrateOK
    <3> QED
      BY <1>0, <2>7, <2>q, <3>1 DEF AbandonDelete
  <2>8. ASSUME NEW t \in Ticket,
               \/ SyncGuards(t) \/ ReadyLoad(t) \/ ReadyMove(t)
               \/ IntegrateLoad(t) \/ AbandonRemove(t) \/ \E e \in Evidence : ReadyGate(t, e)
        PROVE  UNCHANGED head
    BY <2>8 DEF SyncGuards, ReadyLoad, ReadyMove, ReadyGate, IntegrateLoad, AbandonRemove, git
  <2>9. CASE \/ IntegrateGate \/ IntegrateSquash \/ IntegrateRecheck \/ IntegrateDone
             \/ IntegrateRemove \/ AbandonLog \/ FinishList \/ FinishVerify
             \/ KillOrchestrator \/ ResetMilestone \/ UNCHANGED vars
    BY <2>q, <2>9 DEF IntegrateGate, IntegrateSquash, IntegrateRecheck, IntegrateDone,
         IntegrateRemove, AbandonLog, FinishList, FinishVerify, KillOrchestrator,
         ResetMilestone, vars, git
  <2> QED
    BY <2>q, <2>1, <2>2, <2>3, <2>4, <2>5, <2>6, <2>7, <2>8, <2>9
       DEF Next, AgentNext, Sync, Ready, OrchestratorNext, IntegrateSteps, AbandonSteps,
           FinishSteps
<1> QED
  BY <1>3, <1>4, CommitsStep

-----------------------------------------------------------------------------
LEMMA OrchFacts ==
    ASSUME IInv, orch.pc \in Integrating
    PROVE  /\ orch.on \in Ticket /\ orch.on \in Branch /\ "milestone" \in Branch
           /\ head["milestone"] \in Commits /\ head[orch.on] \in Commits /\ orch.ttip \in Commits
           /\ orch.ttip \in Nat /\ head[orch.on] \in Nat
           /\ orch.ttip <= head[orch.on]
           /\ \A u, s : s \in Squashes(u) => s \in Commits
<1>1. /\ orch.on \in Ticket /\ head["milestone"] # 0
      /\ orch.ttip # 0 /\ orch.ttip <= head[orch.on] /\ orch.ttip \in Nat
  BY DEF IInv, IntegrateOK
<1>2. orch.on \in Branch /\ "milestone" \in Branch
  BY <1>1, Names
<1>3. head[orch.on] \in Tips /\ Len(commits) \in Nat
  BY <1>2 DEF IInv, TypeOK, HistoryOK
<1> QED
  BY <1>1, <1>2, <1>3, AtTip DEF Tips, Commits, Squashes

\* A step of somebody else leaves the orchestrator with what it knows.
LEMMA IntegrateKept ==
    ASSUME IInv, [Next]_vars, orch' = orch,
           orch.pc \in Integrating =>
              /\ staged' = staged /\ head'["milestone"] = head["milestone"]
              /\ head'[orch.on] = head[orch.on] \/ head'[orch.on] > head[orch.on]
           ,
           orch.pc = "forward" => head'["milestone"] = head["milestone"],
           head' \in [Branch -> Nat]
    PROVE  IntegrateOK'
<1>1. CASE orch.pc \notin Integrating
  BY <1>1 DEF IInv, IntegrateOK, Integrating
<1>2. CASE orch.pc \in Integrating
  <2>1. /\ orch.on \in Ticket /\ orch.on \in Branch
        /\ head["milestone"] \in Commits /\ head[orch.on] \in Commits /\ orch.ttip \in Commits
        /\ orch.ttip \in Nat /\ head[orch.on] \in Nat /\ head'[orch.on] \in Nat
        /\ orch.ttip <= head[orch.on]
    BY <1>2, OrchFacts
  <2>2. /\ \A c \in Commits : commits'[c] = commits[c]
        /\ Commits \subseteq Commits'
        /\ \A u, s : s \in Squashes(u) => s \in Squashes(u)' /\ s \in Commits
        /\ discarded \subseteq discarded'
    BY <1>2, HistoryStep, OrchFacts DEF Extends
  <2>3. /\ orch.ttip <= head'[orch.on]
        /\ Unmoved' => Unmoved
    BY <1>2, <2>1 DEF Unmoved
  <2>5. staged \subseteq Commits
    BY DEF IInv, TypeOK
  <2>6. orch'.pc = "squash" =>
            (Unmoved' => head'["milestone"] \in commits'[orch'.ttip].past)
    BY <1>2, <2>1, <2>2, <2>3 DEF IInv, IntegrateOK
  <2>7. orch'.pc = "commit" =>
          /\ Tree("milestone")' \subseteq staged'
          /\ Unmoved' => staged' = commits'[orch'.ttip].tree
    BY <1>2, <2>1, <2>2, <2>3 DEF IInv, IntegrateOK, Tree
  <2>8. orch'.pc = "commit" => StagedTraced'
    <3> SUFFICES ASSUME orch.pc = "commit", NEW d \in staged,
                        commits[d].on \in Ticket \ discarded, commits[d].on # orch.on
                 PROVE  \E s \in Past("milestone") :
                            s \in Commits' /\ commits'[s].ticket = commits[d].on
      BY <1>2, <2>1, <2>2, <2>5 DEF Past, StagedTraced, Found, Squashes
    <3>1. Found(commits[d].on, Past("milestone"))
      BY DEF IInv, IntegrateOK, StagedTraced
    <3>2. PICK s \in Past("milestone") : s \in Squashes(commits[d].on)
      BY <3>1 DEF Found
    <3>3. s \in Commits /\ commits[s].ticket = commits[d].on
      BY <3>2 DEF Squashes
    <3> QED
      BY <2>2, <3>2, <3>3
  <2>9. /\ orch'.pc = "recheck" => (Unmoved' => SquashedAs(orch.on, orch.ttip)')
        /\ orch'.pc = "done" => SquashedAs(orch.on, orch.ttip)'
    <3>1. SquashedAs(orch.on, orch.ttip) => SquashedAs(orch.on, orch.ttip)'
      <4> SUFFICES ASSUME NEW c \in Squashes(orch.on), commits[c].tree = commits[orch.ttip].tree
                   PROVE  \E k \in Commits' : /\ commits'[k].ticket = orch.on
                                              /\ commits'[k].tree = commits'[orch.ttip].tree
        BY DEF SquashedAs, Squashes
      <4>1. c \in Commits /\ commits[c].ticket = orch.on
        BY DEF Squashes
      <4> QED
        BY <2>1, <2>2, <4>1
    <3>2. /\ orch.pc = "recheck" => (Unmoved => SquashedAs(orch.on, orch.ttip))
          /\ orch.pc = "done" => SquashedAs(orch.on, orch.ttip)
      BY DEF IInv, IntegrateOK
    <3> QED
      BY <2>3, <3>1, <3>2, Zenon
  <2>10. /\ orch'.pc \in Integrating =>
              /\ orch'.on \in Ticket /\ head'["milestone"] # 0
              /\ orch'.ttip # 0 /\ orch'.ttip <= head'[orch'.on]
         /\ orch' \in [pc : OrchPC, on : Ticket \union {None}, ttip : Nat]
         /\ orch'.pc \notin {"delete", "discard", "forward"}
    BY <1>2, <2>1, <2>3 DEF IInv, IntegrateOK, Integrating
  <2> QED
    BY <2>6, <2>7, <2>8, <2>9, <2>10, Zenon DEF IntegrateOK
<1> QED
  BY <1>1, <1>2

\* A branch that is fast-forwarded goes up.
LEMMA ForwardGrows ==
    ASSUME IInv, NEW a \in Branch, NEW b \in Branch, head[a] # 0, head[b] # 0, IsAncestor(a, b)
    PROVE  head[b] = head[a] \/ head[b] > head[a]
<1>1. head[b] \in Commits /\ head[a] \in Past(b) /\ Len(commits) \in Nat
  BY AtTip DEF IsAncestor, IInv, HistoryOK
<1>2. Past(b) \subseteq 1..head[b]
  BY <1>1 DEF IInv, TypeOK, Past
<1> QED
  BY <1>1, <1>2 DEF Commits

LEMMA OthersStep ==
    ASSUME IInv, [Next]_vars,
           \/ \E t \in Ticket : AgentNext(t) \/ TicketStarts(t)
           \/ MilestoneStart \/ AbandonMilestone \/ MainDrifts \/ MergeMain
           \/ ResetMilestone \/ UNCHANGED vars
    PROVE  IntegrateOK'
<1>0. /\ head \in [Branch -> Tips] /\ head' \in [Branch -> Nat] /\ Len(commits) \in Nat
      /\ "milestone" \in Branch \ Ticket
  BY Names, GitTypeStep, HistoryStep DEF IInv, TypeOK, GitTyped, Tips
<1>o. orch.pc \in Integrating => orch.on \in Ticket /\ orch.on \in Branch /\ head[orch.on] \in Nat
  BY OrchFacts
<1>q. ASSUME UNCHANGED <<head, staged, orch>> PROVE IntegrateOK'
  BY <1>0, <1>q, IntegrateKept
<1>i. ASSUME orch' = Idle PROVE IntegrateOK'
  BY <1>i, IdleFacts DEF IntegrateOK, Integrating
<1>t. ASSUME NEW t \in Ticket, NEW h, UNCHANGED <<staged, orch>>,
             head' = [head EXCEPT ![t] = h],
             t = orch.on => h = head[t] \/ h > head[t]
      PROVE  IntegrateOK'
  <2>1. t # "milestone" /\ t \in Branch
    BY <1>0, Names
  <2> QED
    BY <1>0, <1>o, <1>t, <2>1, IntegrateKept
<1>1. ASSUME NEW t \in Ticket, Commit(t) PROVE IntegrateOK'
  <2>1. head' = [head EXCEPT ![t] = Len(commits')] /\ Len(commits') = Len(commits) + 1
    BY <1>1, GrowTips DEF Commit
  <2>2. Len(commits') > head[t]
    BY <1>0, <2>1, Names DEF Tips
  <2> QED
    BY <1>1, <1>t, <2>1, <2>2 DEF Commit, scripts
<1>2. ASSUME NEW t \in Ticket, SyncMerge(t) PROVE IntegrateOK'
  <2>0. UNCHANGED <<staged, orch>>
    BY <1>2 DEF SyncMerge
  <2>1. CASE UNCHANGED head
    BY <1>q, <2>0, <2>1
  <2>2. CASE /\ head' = [head EXCEPT ![t] = head["milestone"]] /\ IsAncestor(t, "milestone")
             /\ wt[t] = "clean" /\ HaveBranch("milestone")
    <3>1. head["milestone"] = head[t] \/ head["milestone"] > head[t]
      BY <2>2, ForwardGrows, Names DEF HaveBranch, IInv, BranchesOK
    <3> QED
      BY <1>t, <2>0, <2>2, <3>1
  <2>3. CASE CommitOn(t, {head["milestone"]}, Tree(t) \union Tree("milestone"), FALSE, None)
    <3>1. head' = [head EXCEPT ![t] = Len(commits')] /\ Len(commits') = Len(commits) + 1
      BY <2>3, GrowTips
    <3>2. Len(commits') > head[t]
      BY <1>0, <3>1, Names DEF Tips
    <3> QED
      BY <1>t, <2>0, <3>1, <3>2
  <2> QED
    BY <1>2, <2>1, <2>2, <2>3 DEF SyncMerge
<1>3. ASSUME NEW t \in Ticket,
             SyncGuards(t) \/ ReadyLoad(t) \/ ReadyMove(t) \/ \E e \in Evidence : ReadyGate(t, e)
      PROVE  IntegrateOK'
  BY <1>3, <1>q DEF SyncGuards, ReadyLoad, ReadyMove, ReadyGate, git
<1>4. ASSUME NEW t \in Ticket, TicketStarts(t) PROVE IntegrateOK'
  <2>1. PICK h : head' = [head EXCEPT ![t] = h]
    BY <1>4 DEF TicketStarts
  <2> QED
    BY <1>4, <1>t, <2>1 DEF TicketStarts, scripts
<1>5. CASE MilestoneStart \/ AbandonMilestone \/ MergeMain \/ ResetMilestone
  BY <1>5, <1>i DEF MilestoneStart, AbandonMilestone, MergeMain, ResetMilestone, scripts
<1>6. CASE MainDrifts
  <2>1. head' = [head EXCEPT !["main"] = Len(commits')] /\ UNCHANGED <<staged, orch>>
    BY <1>6 , GrowTips DEF MainDrifts, scripts
  <2>2. "main" \notin Ticket
    BY Names
  <2> QED
    BY <1>0, <1>o, <2>1, <2>2, IntegrateKept
<1>7. CASE UNCHANGED vars
  BY <1>7, <1>q DEF vars, git, scripts
<1> QED
  BY <1>1, <1>2, <1>3, <1>4, <1>5, <1>6, <1>7 DEF AgentNext, Sync, Ready

LEMMA GateStep ==
    ASSUME IInv, [Next]_vars, IntegrateGate
    PROVE  IntegrateOK'
<1>0. orch' \in [pc : OrchPC, on : Ticket \union {None}, ttip : Nat]
  BY OrchTypeStep
<1>1. CASE orch' = Idle
  BY <1>1, IdleFacts DEF IntegrateOK, Integrating
<1>2. CASE IsAncestor("milestone", orch.on) /\ Orchestrate("gate", "squash")
  <2>1. orch.pc = "gate" /\ orch'.pc = "squash" /\ orch'.on = orch.on /\ orch'.ttip = orch.ttip
    BY <1>2, OrchMoves DEF OrchPC, Integrating
  <2>2. /\ orch.on \in Ticket /\ head["milestone"] # 0
        /\ orch.ttip # 0 /\ orch.ttip <= head[orch.on]
    BY <2>1 DEF IInv, IntegrateOK, Integrating
  <2>3. UNCHANGED <<commits, head>>
    BY DEF IntegrateGate, git
  <2>4. Unmoved' => head'["milestone"] \in commits'[orch'.ttip].past
    BY <1>2, <2>1, <2>3 DEF Unmoved, IsAncestor, Past
  <2> QED
    BY <1>0, <2>1, <2>2, <2>3, <2>4 DEF IntegrateOK, Integrating
<1> QED
  BY <1>1, <1>2 DEF IntegrateGate, Refuse

\* The squash of the branch: its tree, if it is where it was; and all that is in it of
\* another ticket was squashed onto the milestone before.
LEMMA SquashStep ==
    ASSUME IInv, [Next]_vars, IntegrateSquash
    PROVE  IntegrateOK'
<1>0. orch' \in [pc : OrchPC, on : Ticket \union {None}, ttip : Nat]
  BY OrchTypeStep
<1>1. /\ orch.pc = "squash" /\ orch'.pc = "commit"
      /\ orch'.on = orch.on /\ orch'.ttip = orch.ttip
  BY OrchMoves DEF IntegrateSquash, OrchPC, Integrating
<1>2. /\ orch.on \in Ticket /\ orch.on \in Branch /\ "milestone" \in Branch
      /\ head["milestone"] \in Commits /\ head[orch.on] \in Commits /\ orch.ttip \in Commits
  BY <1>1, OrchFacts DEF Integrating
<1>3. /\ head["milestone"] # 0 /\ head[orch.on] # 0
      /\ orch.ttip # 0 /\ orch.ttip <= head[orch.on]
  BY <1>1, <1>2 DEF IInv, IntegrateOK, Integrating, HistoryOK, Commits
<1>4. /\ UNCHANGED <<commits, head, discarded>>
      /\ staged' = Tree("milestone") \union Tree(orch.on)
  BY DEF IntegrateSquash, board
<1>5. Unmoved' => staged' = commits'[orch'.ttip].tree
  <2> SUFFICES ASSUME Unmoved PROVE Tree("milestone") \subseteq Tree(orch.on)
    BY <1>1, <1>4 DEF Unmoved, Tree
  <2>1. head["milestone"] \in commits[head[orch.on]].past
    BY <1>1 DEF IInv, IntegrateOK, Unmoved
  <2> QED
    BY <1>2, <2>1 DEF IInv, HistoryOK, Tree
<1>6. StagedTraced'
  <2> SUFFICES ASSUME NEW d \in Tree("milestone") \union Tree(orch.on),
                      commits[d].on \in Ticket \ discarded, commits[d].on # orch.on
               PROVE  Found(commits[d].on, Past("milestone"))
    BY <1>1, <1>4 DEF StagedTraced, Found, Squashes, Commits, Past
  <2>1. CASE d \in Tree("milestone")
    BY <1>2, <1>3, <2>1, AtTip, Names
  <2>2. CASE d \in Tree(orch.on)
    <3>1. Found(commits[d].on, Past(orch.on))
      BY <1>2, <1>3, <2>2, AtTip
    <3>2. PICK s \in Past(orch.on) : s \in Commits /\ commits[s].ticket = commits[d].on
      BY <3>1 DEF Found, Squashes
    <3>3. discarded # Ticket /\ commits[s].ticket # None
      BY <3>2, Names
    <3>4. s \in Past("milestone")
      BY <3>2, <3>3 DEF IInv, SquashesOnMilestone
    <3> QED
      BY <3>2, <3>4 DEF Found, Squashes
  <2> QED
    BY <2>1, <2>2
<1>7. Tree("milestone")' \subseteq staged'
  BY <1>4 DEF Tree
<1> QED
  BY <1>0, <1>1, <1>2, <1>3, <1>4, <1>5, <1>6, <1>7 DEF IntegrateOK, Integrating

LEMMA CommitStep ==
    ASSUME IInv, [Next]_vars, IntegrateCommit
    PROVE  IntegrateOK'
<1>0. orch' \in [pc : OrchPC, on : Ticket \union {None}, ttip : Nat]
  BY OrchTypeStep
<1>1. CASE orch' = Idle
  BY <1>1, IdleFacts DEF IntegrateOK, Integrating
<1>2. CASE staged # Tree("milestone") /\ Orchestrate("commit", "recheck")
  <2>1. /\ orch.pc = "commit" /\ orch'.pc = "recheck"
        /\ orch'.on = orch.on /\ orch'.ttip = orch.ttip
    BY <1>2, OrchMoves DEF OrchPC, Integrating
  <2>2. /\ orch.on \in Ticket /\ "milestone" \in Branch /\ orch.on # "milestone"
        /\ orch.ttip \in Commits /\ orch.ttip \in Nat /\ orch.ttip <= head[orch.on]
    BY <2>1, OrchFacts, Names DEF Integrating
  <2>3. PICK own : own = FALSE /\ GoodCommit("milestone", {}, staged, own, orch.on)
    BY <1>2, SquashIsGood
  <2> DEFINE n == Len(commits) + 1
  <2>4. /\ Len(commits') = n /\ n \in Nat \ {0}
        /\ \A c \in Commits : commits'[c] = commits[c]
        /\ commits'[n].tree = staged \union (IF own THEN {n} ELSE {})
        /\ commits'[n].ticket = orch.on
        /\ head' = [head EXCEPT !["milestone"] = n]
    BY <2>3, CommitFacts
  <2>5. head'["milestone"] # 0 /\ head'[orch.on] = head[orch.on]
    BY <2>2, <2>4 DEF IInv, TypeOK
  <2>6. Unmoved' => SquashedAs(orch.on, orch.ttip)'
    <3> SUFFICES ASSUME Unmoved
                 PROVE  \E c \in Commits' : /\ commits'[c].ticket = orch.on
                                            /\ commits'[c].tree = commits'[orch.ttip].tree
      BY <2>1, <2>5 DEF SquashedAs, Squashes, Unmoved
    <3>1. staged = commits[orch.ttip].tree
      BY <2>1 DEF IInv, IntegrateOK
    <3>2. n \in Commits' /\ commits'[n].tree = staged
      BY <2>3, <2>4 DEF Commits
    <3> QED
      BY <2>2, <2>4, <3>1, <3>2
  <2>8. orch.ttip # 0
    BY <2>1 DEF IInv, IntegrateOK, Integrating
  <2>9. /\ orch'.pc \in Integrating =>
              /\ orch'.on \in Ticket /\ head'["milestone"] # 0
              /\ orch'.ttip # 0 /\ orch'.ttip <= head'[orch'.on]
        /\ orch'.pc \notin {"delete", "discard", "forward", "squash", "commit", "done"}
    BY <2>1, <2>2, <2>5, <2>8
  <2> QED
    BY <1>0, <2>6, <2>9, Zenon DEF IntegrateOK
<1> QED
  BY <1>1, <1>2 DEF IntegrateCommit, Refuse

LEMMA IntegrateStep == IInv /\ [Next]_vars => IntegrateOK'
<1> SUFFICES ASSUME IInv, [Next]_vars PROVE IntegrateOK'
  OBVIOUS
<1>0. orch' \in [pc : OrchPC, on : Ticket \union {None}, ttip : Nat]
  BY OrchTypeStep
<1>i. ASSUME orch' = Idle PROVE IntegrateOK'
  BY <1>i, IdleFacts DEF IntegrateOK, Integrating
<1>1. CASE \/ \E t \in Ticket : AgentNext(t) \/ TicketStarts(t)
           \/ MilestoneStart \/ AbandonMilestone \/ MainDrifts \/ MergeMain
           \/ ResetMilestone \/ UNCHANGED vars
  BY <1>1, OthersStep
<1>2. CASE IntegrateGate
  BY <1>2, GateStep
<1>3. CASE IntegrateSquash
  BY <1>3, SquashStep
<1>4. CASE IntegrateCommit
  BY <1>4, CommitStep
<1>5. ASSUME NEW t \in Ticket, IntegrateLoad(t) PROVE IntegrateOK'
  <2>1. orch'.pc = "gate" /\ orch'.on = t /\ orch'.ttip = head[t] /\ UNCHANGED head
    BY <1>5 DEF IntegrateLoad, git
  <2>2. head[t] # 0 /\ head["milestone"] # 0 /\ head[t] <= head[t]
    <3>1. head[t] \in Tips /\ Len(commits) \in Nat
      BY Names DEF IInv, TypeOK, HistoryOK
    <3> QED
      BY <1>5, <3>1 DEF IntegrateLoad, HaveBranch, Tips
  <2> QED
    BY <1>0, <2>1, <2>2 DEF IntegrateOK, Integrating
<1>6. CASE IntegrateRecheck
  <2>1. CASE head[orch.on] = orch.ttip /\ Orchestrate("recheck", "done")
    <3>1. /\ orch.pc = "recheck" /\ orch'.pc = "done"
          /\ orch'.on = orch.on /\ orch'.ttip = orch.ttip
      BY <2>1, OrchMoves DEF OrchPC, Integrating
    <3>2. UNCHANGED <<commits, head>>
      BY <1>6 DEF IntegrateRecheck, git
    <3>3. /\ orch.on \in Ticket /\ head["milestone"] # 0
          /\ orch.ttip # 0 /\ orch.ttip <= head[orch.on]
      BY <3>1 DEF IInv, IntegrateOK, Integrating
    <3>4. SquashedAs(orch.on, orch.ttip)
      BY <2>1, <3>1 DEF IInv, IntegrateOK, Unmoved
    <3>5. SquashedAs(orch.on, orch.ttip)'
      BY <3>1, <3>2, <3>4 DEF SquashedAs, Squashes, Commits
    <3>6. /\ orch'.pc \in Integrating =>
                /\ orch'.on \in Ticket /\ head'["milestone"] # 0
                /\ orch'.ttip # 0 /\ orch'.ttip <= head'[orch'.on]
          /\ orch'.pc \notin {"delete", "discard", "forward", "squash", "commit", "recheck"}
      BY <3>1, <3>2, <3>3
    <3> QED
      BY <1>0, <3>5, <3>6, Zenon DEF IntegrateOK
  <2> QED
    BY <1>6, <1>i, <2>1 DEF IntegrateRecheck, Refuse
<1>7. CASE IntegrateDone
  <2>1. /\ orch.pc = "done" /\ orch'.pc = "remove"
        /\ orch'.on = orch.on /\ orch'.ttip = orch.ttip
    BY <1>7, OrchMoves DEF IntegrateDone, OrchPC, Integrating
  <2>2. /\ orch.on \in Ticket /\ head["milestone"] # 0
        /\ orch.ttip # 0 /\ orch.ttip <= head[orch.on]
    BY <2>1 DEF IInv, IntegrateOK, Integrating
  <2>3. UNCHANGED head
    BY <1>7 DEF IntegrateDone, git
  <2> QED
    BY <1>0, <2>1, <2>2, <2>3 DEF IntegrateOK, Integrating
<1>8. ASSUME NEW t \in Ticket, AbandonRemove(t) PROVE IntegrateOK'
  <2>1. orch'.pc = "delete" /\ orch'.on = t
    BY <1>8 DEF AbandonRemove, Idle
  <2> QED
    BY <1>0, <2>1 DEF IntegrateOK, Integrating
<1>9. CASE AbandonDelete
  <2>1. orch.pc = "delete" /\ orch'.pc = "discard" /\ orch'.on = orch.on
    BY <1>9, OrchMoves DEF AbandonDelete, OrchPC
  <2>2. orch.on \in Ticket
    BY <2>1 DEF IInv, IntegrateOK
  <2> QED
    BY <1>0, <2>1, <2>2 DEF IntegrateOK, Integrating
<1>10. CASE FinishList
  <2>1. orch'.pc = "verify"
    BY <1>10 DEF FinishList, Idle
  <2> QED
    BY <1>0, <2>1 DEF IntegrateOK, Integrating
<1>11. CASE FinishVerify
  <2>1. CASE HaveBranch("milestone") /\ orch' = [orch EXCEPT !.pc = "forward"]
    <3>1. orch'.pc = "forward" /\ head'["milestone"] # 0
      BY <1>11, <2>1 DEF FinishVerify, git, HaveBranch, IInv, IntegrateOK
    <3> QED
      BY <1>0, <3>1 DEF IntegrateOK, Integrating
  <2> QED
    BY <1>11, <1>i, <2>1 DEF FinishVerify, Refuse
<1>12. CASE IntegrateRemove \/ AbandonLog \/ FinishForward \/ KillOrchestrator
  BY <1>12, <1>i DEF IntegrateRemove, AbandonLog, FinishForward, KillOrchestrator, Refuse
<1> QED
  BY <1>1, <1>2, <1>3, <1>4, <1>5, <1>6, <1>7, <1>8, <1>9, <1>10, <1>11, <1>12
     DEF Next, OrchestratorNext, IntegrateSteps, AbandonSteps, FinishSteps

-----------------------------------------------------------------------------
LEMMA SettledStep == IInv /\ [Next]_vars => SettledOK'
<1> SUFFICES ASSUME IInv, [Next]_vars PROVE SettledOK'
  OBVIOUS
<1>0. /\ status \in [Ticket -> Columns] /\ landed \in [Ticket -> Tips] /\ SettledOK
      /\ discarded \subseteq discarded'
  BY HistoryStep DEF IInv, TypeOK
<1>q. ASSUME UNCHANGED <<status, landed>>, orch'.pc \in {"verify", "forward"} => orch'.pc = orch.pc
      PROVE  SettledOK'
  BY <1>0, <1>q DEF SettledOK, Settled
<1>i. ASSUME UNCHANGED <<status, landed>>, orch' = Idle PROVE SettledOK'
  BY <1>i, <1>q, IdleFacts
<1>u. ASSUME UNCHANGED <<status, landed, orch>> PROVE SettledOK'
  BY <1>u, <1>q
<1>s. ASSUME NEW t \in Ticket, NEW s \in {"in-progress", "in-review"},
             status' = [status EXCEPT ![t] = s], UNCHANGED <<landed, orch>>
      PROVE  SettledOK'
  BY <1>0, <1>s DEF SettledOK, Settled
<1>1. ASSUME NEW t \in Ticket, TicketStarts(t) \/ ReadyMove(t) PROVE SettledOK'
  BY <1>1, <1>s DEF TicketStarts, ReadyMove, scripts
<1>2. CASE IntegrateDone
  <2>1. /\ orch.pc = "done" /\ orch'.pc = "remove"
        /\ orch'.on = orch.on /\ orch'.ttip = orch.ttip
    BY <1>2, OrchMoves DEF IntegrateDone, OrchPC, Integrating
  <2>2. orch.on \in Ticket /\ orch.ttip # 0
    BY <2>1 DEF IInv, IntegrateOK, Integrating
  <2>3. /\ status' = [status EXCEPT ![orch.on] = "done"]
        /\ landed' = [landed EXCEPT ![orch.on] = orch.ttip]
    BY <1>2 DEF IntegrateDone
  <2> QED
    BY <1>0, <2>1, <2>2, <2>3 DEF SettledOK, Settled
<1>3. CASE FinishList
  <2>1. Ticket \subseteq Settled \union discarded
    BY <1>0, <1>3 DEF FinishList, Unsettled, SettledOK
  <2> QED
    BY <1>0, <1>3, <2>1 DEF FinishList, SettledOK, Settled, board
<1>4. CASE FinishVerify
  <2>1. orch.pc = "verify" /\ UNCHANGED <<status, landed, discarded>>
    BY <1>4 DEF FinishVerify, Refuse, board
  <2>2. Ticket \subseteq Settled \union discarded
    BY <2>1 DEF IInv, SettledOK
  <2> QED
    BY <1>0, <2>1, <2>2 DEF SettledOK, Settled
<1>o. ASSUME NEW from, NEW to \in OrchPC, Orchestrate(from, to), to \notin {"verify", "forward"},
             UNCHANGED <<status, landed>>
      PROVE  SettledOK'
  BY <1>o, <1>q, OrchMoves
<1>5. CASE \/ IntegrateGate \/ IntegrateSquash \/ IntegrateCommit \/ IntegrateRecheck
           \/ AbandonDelete
  <2>1. {"squash", "commit", "recheck", "done", "discard"} \subseteq OrchPC
    BY DEF OrchPC, Integrating
  <2> QED
    BY <1>i, <1>o, <1>5, <2>1 DEF IntegrateGate, IntegrateSquash, IntegrateCommit,
         IntegrateRecheck, AbandonDelete, Refuse, board
<1>6. CASE IntegrateRemove \/ AbandonLog \/ FinishForward \/ KillOrchestrator
  BY <1>6, <1>i DEF IntegrateRemove, AbandonLog, FinishForward, KillOrchestrator, Refuse, board
<1>7. ASSUME NEW t \in Ticket, IntegrateLoad(t) \/ AbandonRemove(t) PROVE SettledOK'
  <2>1. UNCHANGED <<status, landed>>
    BY <1>7 DEF IntegrateLoad, AbandonRemove, board
  <2>2. CASE IntegrateLoad(t)
    <3>1. orch'.pc = "gate"
      BY <2>2 DEF IntegrateLoad
    <3> QED
      BY <1>q, <2>1, <3>1
  <2>3. CASE AbandonRemove(t)
    <3>1. orch'.pc = "delete"
      BY <2>3 DEF AbandonRemove, Idle
    <3> QED
      BY <1>q, <2>1, <3>1
  <2> QED
    BY <1>7, <2>2, <2>3
<1>8. ASSUME NEW t \in Ticket,
             \/ Commit(t) \/ SyncGuards(t) \/ SyncMerge(t) \/ ReadyLoad(t)
             \/ \E e \in Evidence : ReadyGate(t, e)
      PROVE  SettledOK'
  BY <1>8, <1>u DEF Commit, SyncGuards, SyncMerge, ReadyLoad, ReadyGate, scripts, board
<1>9. CASE \/ MilestoneStart \/ AbandonMilestone \/ MainDrifts \/ MergeMain
           \/ ResetMilestone \/ UNCHANGED vars
  BY <1>9, <1>u DEF MilestoneStart, AbandonMilestone, MainDrifts, MergeMain,
       ResetMilestone, vars, scripts, board
<1> QED
  BY <1>1, <1>2, <1>3, <1>4, <1>5, <1>6, <1>7, <1>8, <1>9
     DEF Next, AgentNext, Sync, Ready, OrchestratorNext, IntegrateSteps, AbandonSteps,
         FinishSteps

LEMMA DoneStep == IInv /\ [Next]_vars => DoneAsGated'
<1> SUFFICES ASSUME IInv, [Next]_vars PROVE DoneAsGated'
  OBVIOUS
<1>0. /\ status \in [Ticket -> Columns] /\ landed \in [Ticket -> Tips]
      /\ \A c \in Commits : commits'[c] = commits[c]
      /\ Commits \subseteq Commits' /\ Tips = Commits \union {0}
  BY HistoryStep DEF IInv, TypeOK, Extends, Tips, Commits
<1>k. ASSUME NEW t \in Ticket, SquashedAs(t, landed[t]), landed[t] # 0
      PROVE  \E c \in Squashes(t)' : commits'[c].tree = commits'[landed[t]].tree
  <2>1. PICK c \in Commits : commits[c].ticket = t /\ commits[c].tree = commits[landed[t]].tree
    BY <1>k DEF SquashedAs, Squashes
  <2>2. landed[t] \in Commits
    BY <1>0, <1>k
  <2> QED
    BY <1>0, <2>1, <2>2 DEF Squashes
<1>d. ASSUME NEW t \in Ticket, status[t] = "done"
      PROVE  SquashedAs(t, landed[t]) /\ landed[t] # 0
  BY <1>d DEF IInv, DoneAsGated, SettledOK, Settled, SquashedAs
<1>q. ASSUME UNCHANGED landed, \A t \in Ticket : status'[t] = "done" => status[t] = "done"
      PROVE  DoneAsGated'
  BY <1>q, <1>d, <1>k DEF DoneAsGated
<1>s. ASSUME NEW t \in Ticket, NEW s \in {"in-progress", "in-review"},
             status' = [status EXCEPT ![t] = s], UNCHANGED landed
      PROVE  DoneAsGated'
  BY <1>0, <1>s, <1>q
<1>1. ASSUME NEW t \in Ticket, TicketStarts(t) \/ ReadyMove(t) PROVE DoneAsGated'
  BY <1>1, <1>s DEF TicketStarts, ReadyMove
<1>2. CASE IntegrateDone
  <2>1. /\ orch.pc = "done" /\ orch.on \in Ticket /\ UNCHANGED commits
        /\ status' = [status EXCEPT ![orch.on] = "done"]
        /\ landed' = [landed EXCEPT ![orch.on] = orch.ttip]
    BY <1>2 DEF IntegrateDone, Orchestrate, git, IInv, IntegrateOK, Integrating
  <2>2. SquashedAs(orch.on, orch.ttip)
    BY <2>1 DEF IInv, IntegrateOK
  <2> SUFFICES ASSUME NEW t \in Ticket, status'[t] = "done"
               PROVE  \E c \in Squashes(t)' : commits'[c].tree = commits'[landed'[t]].tree
    BY DEF DoneAsGated
  <2>3. CASE t = orch.on
    BY <1>0, <2>1, <2>2, <2>3 DEF SquashedAs, Squashes, Commits
  <2>4. CASE t # orch.on
    <3>1. status[t] = "done" /\ landed'[t] = landed[t]
      BY <1>0, <2>1, <2>4
    <3> QED
      BY <1>d, <1>k, <3>1
  <2> QED
    BY <2>3, <2>4
<1>3. ASSUME NEW t \in Ticket,
             \/ Commit(t) \/ SyncGuards(t) \/ SyncMerge(t) \/ ReadyLoad(t)
             \/ IntegrateLoad(t) \/ AbandonRemove(t) \/ \E e \in Evidence : ReadyGate(t, e)
      PROVE  UNCHANGED <<status, landed>>
  BY <1>3 DEF Commit, SyncGuards, SyncMerge, ReadyLoad, IntegrateLoad, AbandonRemove,
       ReadyGate, board
<1>4. CASE \/ MilestoneStart \/ IntegrateGate \/ IntegrateSquash \/ IntegrateCommit
           \/ IntegrateRecheck \/ IntegrateRemove \/ AbandonDelete \/ AbandonLog
           \/ AbandonMilestone \/ FinishList \/ FinishVerify \/ FinishForward \/ MainDrifts
           \/ MergeMain \/ KillOrchestrator \/ ResetMilestone \/ UNCHANGED vars
  <2>1. UNCHANGED <<status, landed>>
    BY <1>4 DEF MilestoneStart, IntegrateGate, IntegrateSquash, IntegrateCommit,
       IntegrateRecheck, IntegrateRemove, AbandonDelete, AbandonLog, AbandonMilestone,
       FinishList, FinishVerify, FinishForward, MainDrifts, MergeMain, KillOrchestrator,
       ResetMilestone, vars, board
  <2> QED
    BY <1>q, <2>1
<1> QED
  BY <1>q, <1>1, <1>2, <1>3, <1>4
     DEF Next, AgentNext, Sync, Ready, OrchestratorNext, IntegrateSteps, AbandonSteps,
         FinishSteps

\* What a step that moves main leaves to show; the others keep what is on it.
LEMMA MainStep == IInv /\ [Next]_vars => MainHoldsSettled'
<1> SUFFICES ASSUME IInv, [Next]_vars PROVE MainHoldsSettled'
  OBVIOUS
<1> DEFINE Known(c) == commits'[c].ticket # None => commits'[c].ticket \in (Settled \union discarded)'
<1>0. /\ head \in [Branch -> Tips] /\ landed \in [Ticket -> Tips]
      /\ "main" \in Branch /\ "main" \notin Ticket
      /\ \A c \in Commits : commits'[c] = commits[c]
      /\ \A c \in Commits : commits[c].ticket \in Ticket \union {None}
      /\ discarded \subseteq discarded'
      /\ head["main"] \in Commits /\ Past("main") \subseteq Commits
  <2>1. "main" \in Branch /\ "main" \notin Ticket /\ head["main"] # 0
    BY Names DEF IInv, BranchesOK
  <2> QED
    BY <2>1, AtTip, HistoryStep DEF IInv, TypeOK, Extends
<1>1. Settled \subseteq Settled'
  <2>1. CASE IntegrateDone
    <3>1. orch.pc = "done" /\ landed' = [landed EXCEPT ![orch.on] = orch.ttip]
      BY <2>1 DEF IntegrateDone, Orchestrate
    <3>2. orch.ttip # 0
      BY <3>1 DEF IInv, IntegrateOK, Integrating
    <3> QED
      BY <1>0, <3>1, <3>2 DEF Settled
  <2>2. ASSUME NEW t \in Ticket,
             \/ Commit(t) \/ SyncGuards(t) \/ SyncMerge(t) \/ ReadyLoad(t) \/ ReadyMove(t)
             \/ TicketStarts(t) \/ IntegrateLoad(t) \/ AbandonRemove(t)
             \/ \E e \in Evidence : ReadyGate(t, e)
        PROVE  UNCHANGED landed
    BY <2>2 DEF Commit, SyncGuards, SyncMerge, ReadyLoad, ReadyMove, TicketStarts,
         IntegrateLoad, AbandonRemove, ReadyGate
  <2>3. ASSUME \/ MilestoneStart \/ IntegrateGate \/ IntegrateSquash \/ IntegrateCommit
             \/ IntegrateRecheck \/ IntegrateRemove \/ UNCHANGED vars
        PROVE  UNCHANGED landed
    BY <2>3 DEF MilestoneStart, IntegrateGate, IntegrateSquash, IntegrateCommit,
       IntegrateRecheck, IntegrateRemove, vars
  <2>4. ASSUME \/ AbandonDelete \/ AbandonLog \/ AbandonMilestone
             \/ FinishList \/ FinishVerify \/ FinishForward
        PROVE  UNCHANGED landed
    BY <2>4 DEF AbandonDelete, AbandonLog, AbandonMilestone, FinishList, FinishVerify,
       FinishForward
  <2>5. ASSUME MainDrifts \/ MergeMain \/ KillOrchestrator \/ ResetMilestone
        PROVE  UNCHANGED landed
    BY <2>5 DEF MainDrifts, MergeMain, KillOrchestrator, ResetMilestone
  <2> QED
    BY <2>1, <2>2, <2>3, <2>4, <2>5
       DEF Next, AgentNext, Sync, Ready, OrchestratorNext, IntegrateSteps, AbandonSteps,
           FinishSteps, Settled
<1>2. \A c \in Past("main") : Known(c)
  BY <1>0, <1>1 DEF IInv, MainHoldsSettled
<1>q. CASE head'["main"] = head["main"]
  BY <1>0, <1>2, <1>q DEF MainHoldsSettled, Past
<1>3. CASE MainDrifts
  <2>1. PICK tree, own : GoodCommit("main", {}, tree, own, None)
    BY <1>3, DriftIsGood
  <2> DEFINE n == Len(commits) + 1
  <2>2. /\ commits'[n].past = {n} \union Past("main") \union UNION {commits[p].past : p \in {}}
        /\ commits'[n].ticket = None
        /\ head' = [head EXCEPT !["main"] = n]
    BY <2>1, CommitFacts
  <2>3. Past("main")' = commits'[n].past
    BY <1>0, <2>2 DEF Past
  <2> QED
    BY <1>2, <2>2, <2>3 DEF MainHoldsSettled
<1>4. CASE FinishForward
  <2>1. /\ Ticket \subseteq Settled \union discarded /\ UNCHANGED commits
        /\ head["milestone"] # 0
    BY <1>4 DEF FinishForward, Refuse, IInv, SettledOK, IntegrateOK
  <2>2. CASE head' = [head EXCEPT !["main"] = head["milestone"]]
    <3>1. Past("main")' \subseteq Commits
      BY <1>0, <2>1, <2>2, AtTip, Names DEF Past
    <3> QED
      BY <1>0, <1>1, <2>1, <3>1 DEF MainHoldsSettled
  <2>3. CASE head' = [head EXCEPT !["main"] = head["main"]]
    BY <1>0, <1>q, <2>3
  <2> QED
    BY <1>4, <2>2, <2>3 DEF FinishForward
<1>5. ASSUME NEW t \in Ticket, Commit(t) \/ SyncMerge(t) \/ TicketStarts(t)
      PROVE  head'["main"] = head["main"]
  BY <1>0, <1>5 DEF Commit, SyncMerge, TicketStarts, CommitOn
<1>6. CASE MilestoneStart \/ AbandonMilestone \/ MergeMain \/ IntegrateCommit
  BY <1>0, <1>6, <1>q DEF MilestoneStart, AbandonMilestone, MergeMain, IntegrateCommit, CommitOn
<1>7. CASE AbandonDelete
  <2>1. orch.on \in Ticket
    BY <1>7 DEF AbandonDelete, Orchestrate, IInv, IntegrateOK
  <2> QED
    BY <1>0, <1>7, <1>q, <2>1 DEF AbandonDelete
<1>8. ASSUME NEW t \in Ticket,
             \/ SyncGuards(t) \/ ReadyLoad(t) \/ ReadyMove(t)
             \/ IntegrateLoad(t) \/ AbandonRemove(t) \/ \E e \in Evidence : ReadyGate(t, e)
      PROVE  UNCHANGED head
  BY <1>8 DEF SyncGuards, ReadyLoad, ReadyMove, ReadyGate, IntegrateLoad, AbandonRemove, git
<1>9. CASE \/ IntegrateGate \/ IntegrateSquash \/ IntegrateRecheck \/ IntegrateDone
           \/ IntegrateRemove \/ AbandonLog \/ FinishList \/ FinishVerify
           \/ KillOrchestrator \/ ResetMilestone \/ UNCHANGED vars
  BY <1>q, <1>9 DEF IntegrateGate, IntegrateSquash, IntegrateRecheck, IntegrateDone,
       IntegrateRemove, AbandonLog, FinishList, FinishVerify, KillOrchestrator,
       ResetMilestone, vars, git
<1> QED
  BY <1>q, <1>3, <1>4, <1>5, <1>6, <1>7, <1>8, <1>9
     DEF Next, AgentNext, Sync, Ready, OrchestratorNext, IntegrateSteps, AbandonSteps,
         FinishSteps

-----------------------------------------------------------------------------
LEMMA InvStep == IInv /\ [Next]_vars => IInv'
BY TypeStep, HistoryStep, TipsStep, MergeHeadsStep, WorktreesStep, BranchesParts,
   SquashesStep, IntegrateStep, SettledStep, DoneStep, MainStep
   DEF IInv

LEMMA InitInv == Init => IInv
<1> SUFFICES ASSUME Init PROVE IInv
  OBVIOUS
<1> DEFINE first == [past |-> {1}, tree |-> {1}, ticket |-> None, on |-> "main"]
<1>0. /\ commits = <<first>> /\ Len(commits) = 1 /\ commits[1] = first
      /\ Commits = {1} /\ Tips = {0, 1} /\ commits \in Seq(CommitRecord)
  <2>1. first \in CommitRecord
    BY Names DEF CommitRecord
  <2>2. commits = <<first>>
    BY DEF Init
  <2> HIDE DEF first
  <2> QED
    BY <2>1, <2>2 DEF Commits, Tips
<1>1. /\ head = [b \in Branch |-> IF b = "main" THEN 1 ELSE 0]
      /\ wt = [b \in Branch |-> IF b = "main" THEN "clean" ELSE "none"]
      /\ orch.pc = "idle" /\ orch.on = None /\ orch.ttip = 0
      /\ orch \in [pc : OrchPC, on : Ticket \union {None}, ttip : Nat]
  BY IdleFacts DEF Init
<1>2. TypeOK
  BY <1>0, <1>1, Names DEF Init, TypeOK, Columns
<1>3. HistoryOK
  BY <1>0 DEF HistoryOK
<1>4. BranchesOK
  BY <1>0, <1>1, Names DEF Init, BranchesOK
<1>5. SquashesOnMilestone /\ WorkIsTraced /\ MainHoldsSettled
  BY <1>0, <1>1, Names DEF SquashesOnMilestone, WorkIsTraced, MainHoldsSettled, Past
<1>6. IntegrateOK /\ SettledOK /\ DoneAsGated
  BY <1>1 DEF Init, IntegrateOK, Integrating, SettledOK, DoneAsGated
<1> QED
  BY <1>2, <1>3, <1>4, <1>5, <1>6 DEF IInv

LEMMA InvHolds == Spec => []IInv
BY InitInv, InvStep, PTL DEF Spec

\* Commits, branches, worktrees and the board have their types, and no commit reaches
\* a later one.
THEOREM IntegrateTypeCorrect == Spec => []TypeOK
<1>1. IInv => TypeOK
  BY DEF IInv
<1> QED
  BY <1>1, InvHolds, PTL

\* For every set of tickets: a ticket that is done is on the milestone with the tree of
\* the tip that `ticket integrate` gated, whatever was committed or synced in between.
THEOREM IntegratedAsGated == Spec => []DoneAsGated
<1>1. IInv => DoneAsGated
  BY DEF IInv
<1> QED
  BY <1>1, InvHolds, PTL

\* After any crash, the work of a ticket that was not given up is on the milestone only
\* with a commit of its Ticket: trailer.
THEOREM RecoveryFindsAll == Spec => []RecoverySeesAll
<1>1. IInv => RecoverySeesAll
  <2> SUFFICES ASSUME IInv, head["milestone"] # 0, NEW c \in Tree("milestone"),
                      commits[c].on \in Ticket \ discarded
               PROVE  Squashes(commits[c].on) \intersect Past("milestone") # {}
    BY DEF RecoverySeesAll, HaveBranch
  <2>1. commits[c].on = "milestone" \/ Found(commits[c].on, Past("milestone"))
    BY AtTip, Names
  <2> QED
    BY <2>1, Names DEF Found
<1> QED
  BY <1>1, InvHolds, PTL

\* main gets the squash of a ticket only when the ticket was done or was given up.
THEOREM MainGetsSettled == Spec => []MainHoldsSettled
<1>1. IInv => MainHoldsSettled
  BY DEF IInv
<1> QED
  BY <1>1, InvHolds, PTL
=============================================================================

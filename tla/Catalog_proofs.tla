--------------------------- MODULE Catalog_proofs ---------------------------
(***************************************************************************)
(* What holds of the commands of several jobs for any number of processes, *)
(* any commands and any number of killed ones: the labels of issues exist, *)
(* milestones keep names of their own, an edit with an old token changes   *)
(* nothing, and the records of milestones and of the project stay.         *)
(***************************************************************************)
EXTENDS Catalog, SequenceTheorems, TLAPS

MilestoneOps == {"rename", "describe", "reopen", "cancel", "log"}
Fields == {"cmd", "at", "issue", "todo", "names", "target", "before", "row", "line",
           "copy", "token", "stale"}
Shaped(r) == DOMAIN r = Fields /\ r = [f \in Fields |-> r[f]]

NameAsked == {FirstName} \cup {c.milestone : c \in Commands} \cup {c.to : c \in Commands}
IssueRow == [milestone : Nat, text : SUBSET Process, stamp : Nat]
MilestoneRow == [name : NameAsked, open : BOOLEAN, log : SUBSET Process]
ProjectRow == [notes : SUBSET Process, archived : BOOLEAN, stamp : Nat]

TablesOK == /\ issues \in Seq(IssueRow)
            /\ issues # <<>>
            /\ milestones \in Seq(MilestoneRow)
            /\ project \in ProjectRow
            /\ known \in [Process -> [stamp : Nat, text : SUBSET Process]]

(* Every label of an issue is in the table of labels. *)
Tagged == tags \in Seq(SUBSET labels)

RunsOK == /\ run = [p \in Process |-> run[p]]
          /\ \A p \in Process : Shaped(run[p])

(* A command is at one of its own steps. *)
Underway(p) ==
    run[p].at # "idle" =>
        /\ run[p].at \in {"resolve", "snapshot", "update", "confirm"} => run[p].target \in Nat
        /\ run[p].cmd \in Commands
        /\ run[p].copy \subseteq Process
        /\ run[p].at \in {"name", "milestone"} => run[p].cmd.op \in MilestoneOps
        /\ run[p].at \in {"projectEdit", "projectArchive"} => run[p].cmd.op = run[p].at

(* A token that was old when the edit began is older than the row.          *)
StaleIsOld(p) ==
    /\ known[p].stamp <= issues[1].stamp
    /\ run[p].stale \in BOOLEAN
    /\ run[p].stale =>
        /\ run[p].at \in {"resolve", "snapshot", "update", "confirm"}
        /\ run[p].cmd.cas
        /\ run[p].token \in Nat /\ run[p].token < issues[1].stamp

(* A project edit whose token is the row's replaces the notes its user read.*)
ReadAtToken(p) ==
    run[p].at = "projectEdit" =>
        /\ run[p].token \in Nat /\ run[p].token <= project.stamp
        /\ run[p].token = project.stamp => run[p].copy = project.notes

IInv == /\ TablesOK /\ Tagged /\ OneMilestonePerName /\ RunsOK
        /\ \A p \in Process : Underway(p) /\ StaleIsOld(p) /\ ReadAtToken(p)
-----------------------------------------------------------------------------
LEMMA IdleShape ==
    /\ Shaped(Idle) /\ Idle.at = "idle" /\ Idle.stale = FALSE
    /\ Idle.copy = {}
<1>1. DOMAIN Idle = Fields
  BY DEF Idle, Fields
<1>2. Idle = [f \in Fields |-> Idle[f]]
  BY DEF Idle, Fields
<1>3. Idle.at = "idle" /\ Idle.stale = FALSE /\ Idle.copy = {}
  BY DEF Idle
<1> QED
  BY <1>1, <1>2, <1>3 DEF Shaped

LEMMA NamedIsNat == ASSUME milestones \in Seq(MilestoneRow), NEW n
                    PROVE  /\ Named(n) \in Nat
                           /\ Named(n) # 0 => /\ Named(n) \in DOMAIN milestones
                                              /\ milestones[Named(n)].name = n
                           /\ Named(n) = 0 => \A m \in DOMAIN milestones : milestones[m].name # n
<1>1. DOMAIN milestones = 1..Len(milestones) /\ Len(milestones) \in Nat
  OBVIOUS
<1>2. CASE \E m \in DOMAIN milestones : milestones[m].name = n
  <2>1. Named(n) \in DOMAIN milestones /\ milestones[Named(n)].name = n
    BY <1>2 DEF Named
  <2> QED
    BY <1>1, <2>1
<1>3. CASE ~ \E m \in DOMAIN milestones : milestones[m].name = n
  BY <1>3 DEF Named
<1> QED
  BY <1>2, <1>3

LEMMA InitHolds == Init => IInv
<1> SUFFICES ASSUME Init PROVE IInv
  OBVIOUS
<1> USE DEF Init
<1>1. TablesOK
  BY DEF TablesOK, IssueRow, MilestoneRow, ProjectRow, NameAsked
<1>2. Tagged
  BY CatalogAssumption DEF Tagged
<1>3. OneMilestonePerName
  BY DEF OneMilestonePerName
<1>4. RunsOK /\ \A p \in Process : run[p].at = "idle" /\ run[p].stale = FALSE
  BY IdleShape DEF RunsOK
<1>5. \A p \in Process : Underway(p) /\ StaleIsOld(p) /\ ReadAtToken(p)
  <2>1. issues[1].stamp = 0 /\ \A p \in Process : known[p].stamp = 0
    OBVIOUS
  <2>2. \A p \in Process : StaleIsOld(p)
    <3> SUFFICES ASSUME NEW p \in Process PROVE StaleIsOld(p)
      OBVIOUS
    <3>1. known[p].stamp <= issues[1].stamp
      BY <2>1
    <3>2. ~ run[p].stale /\ run[p].stale \in BOOLEAN
      BY <1>4
    <3> QED
      BY <3>1, <3>2 DEF StaleIsOld
  <2>3. \A p \in Process : Underway(p) /\ ReadAtToken(p)
    BY <1>4 DEF Underway, ReadAtToken
  <2> QED
    BY <2>2, <2>3
<1> QED
  BY <1>1, <1>2, <1>3, <1>5, <1>4 DEF IInv

(* Where a command goes from the step it is at, its end apart.              *)
Late == {"create", "jobs", "setTags", "reload"}
Goes(a, b) == \/ b \in Late /\ a # "resolve" /\ a # "snapshot"
              \/ a = "resolve" /\ b = "snapshot"
              \/ a = "snapshot" /\ b \in {"update", "confirm"}
              \/ a = "labelAdd" /\ b = "labelInsert"
              \/ a = "milestoneAdd" /\ b = "milestoneInsert"
              \/ a = "name" /\ b = "milestone"

(* The parts of a command that none of its steps change.                    *)
Same(r, q) == r.cmd = q.cmd /\ r.copy = q.copy /\ r.token = q.token /\ r.stale = q.stale

LEMMA AfterJobsShape ==
    ASSUME NEW p, NEW r, Shaped(r)
    PROVE  LET q == AfterJobs(p, r)
           IN  q = Idle \/ (Shaped(q) /\ Same(q, r) /\ q.at \in Late)
<1>1. ASSUME NEW a, NEW n
      PROVE  LET q == [r EXCEPT !.at = a]
                 u == [r EXCEPT !.at = a, !.line = n]
             IN  /\ Shaped(q) /\ Same(q, r) /\ q.at = a
                 /\ Shaped(u) /\ Same(u, r) /\ u.at = a
  BY DEF Shaped, Fields, Same
<1>2. \/ AfterJobs(p, r) = [r EXCEPT !.at = "jobs"]
      \/ AfterJobs(p, r) = [r EXCEPT !.at = "reload"]
      \/ AfterJobs(p, r) = [r EXCEPT !.at = "create", !.line = r.line + 1]
      \/ AfterJobs(p, r) = Idle
  BY DEF AfterJobs
<1> QED
  <2> DEFINE q == AfterJobs(p, r)
  <2>1. q = Idle \/ \E a \in {"jobs", "reload", "create"} : Shaped(q) /\ Same(q, r) /\ q.at = a
    <3>1. \A a \in {"jobs", "reload"} : q = [r EXCEPT !.at = a] => Shaped(q) /\ Same(q, r) /\ q.at = a
      BY <1>1
    <3>2. q = [r EXCEPT !.at = "create", !.line = r.line + 1] => Shaped(q) /\ Same(q, r) /\ q.at = "create"
      <4> DEFINE n == r.line + 1
                 u == [r EXCEPT !.at = "create", !.line = n]
      <4> HIDE DEF n
      <4>1. Shaped(u) /\ Same(u, r) /\ u.at = "create"
        BY <1>1
      <4>2. u = [r EXCEPT !.at = "create", !.line = r.line + 1]
        BY DEF n
      <4> HIDE DEF u
      <4> QED
        BY <4>1, <4>2
    <3> QED
      BY <1>2, <3>1, <3>2
  <2> HIDE DEF q
  <2>2. q = Idle \/ (Shaped(q) /\ Same(q, r) /\ q.at \in Late)
    BY <2>1 DEF Late
  <2> QED
    BY <2>2 DEF q

(* One process moves at a time, and it keeps what its command is.           *)
Moved(p) == /\ RunsOK'
            /\ \A q \in Process \ {p} : run'[q] = run[q]
            /\ \/ run'[p] = Idle
               \/ /\ Same(run'[p], run[p]) /\ Goes(run[p].at, run'[p].at)
                  /\ run'[p].at \in {"snapshot", "update", "confirm"} =>
                        run'[p].target = run[p].target \/ run'[p].target \in Nat

LEMMA SetMoves ==
    ASSUME RunsOK, NEW p \in Process, NEW r, run' = [run EXCEPT ![p] = r],
           r = Idle \/ (/\ Shaped(r) /\ Same(r, run[p]) /\ Goes(run[p].at, r.at)
                        /\ r.at \in {"snapshot", "update", "confirm"} =>
                              r.target = run[p].target \/ r.target \in Nat)
    PROVE  Moved(p)
<1>1. run'[p] = r /\ \A q \in Process \ {p} : run'[q] = run[q]
  BY DEF RunsOK
<1>2. Shaped(r)
  BY IdleShape
<1>3. run' = [q \in Process |-> run'[q]]
  BY DEF RunsOK
<1>4. RunsOK'
  BY <1>1, <1>2, <1>3 DEF RunsOK
<1> QED
  BY <1>1, <1>4 DEF Moved

LEMMA StepMoves == ASSUME IInv, NEW p \in Process, Step(p) PROVE Moved(p)
<1>0. RunsOK /\ Shaped(run[p]) /\ milestones \in Seq(MilestoneRow)
  BY DEF IInv, RunsOK, TablesOK
<1>1. \A r : Shaped(r) /\ Same(r, run[p]) /\ run[p].at \notin {"resolve", "snapshot"} =>
        LET q == AfterJobs(p, r)
        IN  q = Idle \/ (/\ Shaped(q) /\ Same(q, run[p]) /\ Goes(run[p].at, q.at)
                         /\ q.at \notin {"snapshot", "update", "confirm"})
  BY AfterJobsShape DEF Same, Goes, Late
<1>2. CASE run' = [run EXCEPT ![p] = Idle]
  BY <1>0, <1>2, SetMoves
<1>3. CASE Shape(p)
  <2>1. PICK r : /\ run' = [run EXCEPT ![p] = r] /\ Shaped(r) /\ Same(r, run[p]) /\ r.at = "create"
    <3>1. PICK b, t, j : run' = [run EXCEPT ![p].at = "create", ![p].before = b,
                                            ![p].target = t, ![p].todo = j]
      BY <1>3 DEF Shape
    <3> DEFINE r == [run[p] EXCEPT !.at = "create", !.before = b, !.target = t, !.todo = j]
    <3>2. /\ Shaped(r) /\ Same(r, run[p]) /\ r.at = "create" /\ run' = [run EXCEPT ![p] = r]
      BY <1>0, <3>1 DEF Same, Shaped, Fields, RunsOK
    <3> HIDE DEF r
    <3> QED
      BY <3>2
  <2> QED
    BY <1>0, <1>3, <2>1, SetMoves DEF Shape, At, Goes, Late
<1>4. CASE Create(p)
  <2> DEFINE r == [run[p] EXCEPT !.issue = Len(issues) + 1, !.todo = Pending(p)]
  <2>1. Shaped(r) /\ Same(r, run[p])
    BY <1>0 DEF Shaped, Fields, Same
  <2>2. run' = [run EXCEPT ![p] = AfterJobs(p, r)] /\ run[p].at = "create"
    BY <1>4 DEF Create, At
  <2> HIDE DEF r
  <2> QED
    BY <1>0, <1>1, <2>1, <2>2, SetMoves
<1>5. CASE ReadTags(p)
  <2> DEFINE r == [run[p] EXCEPT !.todo = Tail(@)]
  <2>1. Shaped(r) /\ Same(r, run[p])
    BY <1>0 DEF Shaped, Fields, Same
  <2>2. run[p].at = "jobs" /\ Popped(p) = AfterJobs(p, r)
    BY <1>5 DEF ReadTags, Doing, At, Popped
  <2>3. \/ run' = [run EXCEPT ![p] = Popped(p)]
        \/ \E n : run' = [run EXCEPT ![p] = [run[p] EXCEPT !.at = "setTags", !.names = n]]
    BY <1>5 DEF ReadTags
  <2>4. \A n : LET q == [run[p] EXCEPT !.at = "setTags", !.names = n]
               IN  Shaped(q) /\ Same(q, run[p]) /\ q.at = "setTags"
    BY <1>0 DEF Shaped, Fields, Same
  <2>5. CASE run' = [run EXCEPT ![p] = Popped(p)]
    <3> HIDE DEF r
    <3> QED
      BY <1>0, <1>1, <2>1, <2>2, <2>5, SetMoves
  <2>6. ASSUME NEW n, run' = [run EXCEPT ![p] = [run[p] EXCEPT !.at = "setTags", !.names = n]]
        PROVE  Moved(p)
    <3> DEFINE q == [run[p] EXCEPT !.at = "setTags", !.names = n]
    <3>1. Shaped(q) /\ Same(q, run[p]) /\ q.at = "setTags" /\ run' = [run EXCEPT ![p] = q]
      BY <2>4, <2>6
    <3> HIDE DEF q
    <3> QED
      BY <1>0, <2>2, <3>1, SetMoves DEF Goes, Late
  <2> QED
    BY <2>3, <2>5, <2>6
<1>6. CASE SetTags(p) \/ Relate(p) \/ Unrelate(p)
  <2> DEFINE r == [run[p] EXCEPT !.todo = Tail(@)]
  <2>1. Shaped(r) /\ Same(r, run[p])
    BY <1>0 DEF Shaped, Fields, Same
  <2>2. /\ run[p].at \in {"jobs", "setTags"} /\ Popped(p) = AfterJobs(p, r)
        /\ run' = [run EXCEPT ![p] = Popped(p)]
    BY <1>6 DEF SetTags, Relate, Unrelate, Doing, At, Popped
  <2> HIDE DEF r
  <2> QED
    BY <1>0, <1>1, <2>1, <2>2, SetMoves
<1>7. CASE Resolve(p)
  <2> DEFINE r == [run[p] EXCEPT !.at = "snapshot", !.target = Named(Cmd(p).milestone)]
  <2>1. Shaped(r) /\ Same(r, run[p]) /\ r.at = "snapshot" /\ r.target = Named(Cmd(p).milestone)
    BY <1>0 DEF Shaped, Fields, Same
  <2>2. run' = [run EXCEPT ![p] = r] /\ run[p].at = "resolve"
    BY <1>0, <1>7 DEF Resolve, At, RunsOK, Shaped, Fields
  <2> HIDE DEF r
  <2> QED
    BY <1>0, <2>1, <2>2, SetMoves, NamedIsNat DEF Goes
<1>8. CASE Snapshot(p)
  <2>1. PICK r : /\ run' = [run EXCEPT ![p] = r] /\ Shaped(r) /\ Same(r, run[p])
                 /\ r.at \in {"update", "confirm"} /\ r.target = run[p].target
    <3>1. PICK m, b : /\ run' = [run EXCEPT ![p].before = m, ![p].at = b]
                      /\ b \in {"update", "confirm"}
      BY <1>8 DEF Snapshot
    <3> DEFINE r == [run[p] EXCEPT !.before = m, !.at = b]
    <3>2. /\ Shaped(r) /\ Same(r, run[p]) /\ r.at = b /\ run' = [run EXCEPT ![p] = r]
          /\ r.target = run[p].target
      BY <1>0, <3>1 DEF Same, Shaped, Fields, RunsOK
    <3> HIDE DEF r
    <3> QED
      BY <3>1, <3>2
  <2> QED
    BY <1>0, <1>8, <2>1, SetMoves DEF Snapshot, At, Goes
<1>9. CASE Update(p) \/ Confirm(p)
  <2> DEFINE r == [run[p] EXCEPT !.todo = JobsOf(Cmd(p))]
  <2>1. Shaped(r) /\ Same(r, run[p])
    BY <1>0 DEF Shaped, Fields, Same
  <2>2. run' = [run EXCEPT ![p] = AfterJobs(p, r)] /\ run[p].at \in {"update", "confirm"}
    BY <1>9 DEF Update, Confirm, StartJobs, At
  <2> HIDE DEF r
  <2> QED
    BY <1>0, <1>1, <2>1, <2>2, SetMoves
<1>10. CASE LabelLook(p) \/ MilestoneLook(p) \/ ResolveName(p)
  <2>1. \/ run' = [run EXCEPT ![p] = Idle]
        \/ \E b : /\ run' = [run EXCEPT ![p].at = b] /\ Goes(run[p].at, b)
                  /\ b \notin {"snapshot", "update", "confirm"}
        \/ \E row : /\ run' = [run EXCEPT ![p].at = "milestone", ![p].row = row]
                    /\ run[p].at = "name"
    BY <1>10 DEF LabelLook, MilestoneLook, ResolveName, End, Goto, At, Goes
  <2>2. ASSUME NEW b, run' = [run EXCEPT ![p].at = b], Goes(run[p].at, b),
               b \notin {"snapshot", "update", "confirm"}
        PROVE  Moved(p)
    <3> DEFINE r == [run[p] EXCEPT !.at = b]
    <3>1. Shaped(r) /\ Same(r, run[p]) /\ r.at = b /\ run' = [run EXCEPT ![p] = r]
      BY <1>0, <2>2 DEF Shaped, Fields, Same, RunsOK
    <3> HIDE DEF r
    <3> QED
      BY <1>0, <2>2, <3>1, SetMoves
  <2>3. ASSUME NEW row, run' = [run EXCEPT ![p].at = "milestone", ![p].row = row],
               run[p].at = "name"
        PROVE  Moved(p)
    <3> DEFINE r == [run[p] EXCEPT !.at = "milestone", !.row = row]
    <3>1. /\ Shaped(r) /\ Same(r, run[p]) /\ r.at = "milestone"
          /\ run' = [run EXCEPT ![p] = r]
      BY <1>0, <2>3 DEF Shaped, Fields, Same, RunsOK
    <3> HIDE DEF r
    <3> QED
      BY <1>0, <2>3, <3>1, SetMoves DEF Goes
  <2> QED
    BY <1>2, <2>1, <2>2, <2>3
<1>11. CASE \/ NoSuchMilestone(p) \/ RelateRefused(p) \/ ResolveFails(p) \/ EditStale(p)
            \/ Reload(p) \/ LabelInsert(p) \/ LabelRm(p) \/ InsertMilestone(p)
            \/ InsertRefused(p) \/ ChangeMilestone(p) \/ MilestoneRefused(p)
            \/ NoteAdd(p) \/ SetArchived(p) \/ ProjectEdit(p) \/ ProjectStale(p)
  BY <1>2, <1>11 DEF NoSuchMilestone, RelateRefused, ResolveFails, EditStale, Reload, LabelInsert,
       LabelRm, InsertMilestone, InsertRefused, ChangeMilestone, MilestoneRefused, NoteAdd,
       SetArchived, ProjectEdit, ProjectStale, ProjectWrite, Fail, End
<1> QED
  BY <1>3, <1>4, <1>5, <1>6, <1>7, <1>8, <1>9, <1>10, <1>11 DEF Step
-----------------------------------------------------------------------------
(* The tables, step by step of one process. *)
Tables == TablesOK /\ Tagged /\ OneMilestonePerName

LEMMA FirstRow ==
    ASSUME TablesOK
    PROVE  /\ 1 \in DOMAIN issues /\ issues[1] \in IssueRow
           /\ issues[1].milestone \in Nat /\ issues[1].text \in SUBSET Process
           /\ issues[1].stamp \in Nat
<1>1. issues \in Seq(IssueRow) /\ Len(issues) # 0 /\ Len(issues) \in Nat
  BY EmptySeq DEF TablesOK
<1>2. 1 \in DOMAIN issues /\ issues[1] \in IssueRow
  BY <1>1
<1> QED
  BY <1>2 DEF IssueRow

LEMMA CreateKeeps == ASSUME IInv, NEW p \in Process, Create(p) PROVE Tables'
<1>0. TablesOK /\ Tagged /\ OneMilestonePerName
  BY DEF IInv
<1>1. /\ UNCHANGED <<labels, milestones, known>> /\ tags' = Append(tags, {})
      /\ project' = [project EXCEPT !.stamp = @ + 1]
      /\ \E m \in Nat : issues' = Append(issues, [milestone |-> m, text |-> {}, stamp |-> 0])
  BY <1>0, NamedIsNat DEF Create, Touched, TablesOK
<1>2. project' \in ProjectRow
  <2>1. project \in ProjectRow
    BY <1>0 DEF TablesOK
  <2> QED
    BY <1>1, <2>1 DEF ProjectRow
<1>3. issues' \in Seq(IssueRow) /\ issues' # <<>>
  <2>1. PICK m \in Nat : issues' = Append(issues, [milestone |-> m, text |-> {}, stamp |-> 0])
    BY <1>1
  <2>2. [milestone |-> m, text |-> {}, stamp |-> 0] \in IssueRow
    BY DEF IssueRow
  <2> QED
    BY <1>0, <2>1, <2>2 DEF TablesOK
<1>4. Tagged'
  BY <1>0, <1>1 DEF Tagged
<1> QED
  BY <1>0, <1>1, <1>2, <1>3, <1>4 DEF Tables, TablesOK, OneMilestonePerName

LEMMA TagsKeep == ASSUME IInv, NEW p \in Process, SetTags(p) \/ LabelInsert(p) \/ LabelRm(p)
                  PROVE  Tables'
<1>0. TablesOK /\ Tagged /\ OneMilestonePerName
  BY DEF IInv
<1>1. UNCHANGED <<issues, milestones, project, known>>
  BY DEF SetTags, LabelInsert, LabelRm
<1>2. Tagged'
  <2>1. CASE SetTags(p)
    <3>1. /\ labels' = labels \cup run[p].names
          /\ tags' = [tags EXCEPT ![run[p].issue] = run[p].names]
      BY <2>1 DEF SetTags, Upserted
    <3>2. tags \in Seq(SUBSET labels')
      BY <1>0, <3>1 DEF Tagged
    <3> DEFINE S == SUBSET labels'
               n == run[p].names
               i == run[p].issue
    <3>3. tags \in Seq(S) /\ n \in S /\ tags' = [tags EXCEPT ![i] = n]
      BY <3>1, <3>2
    <3> HIDE DEF S, n, i
    <3>4. tags' \in Seq(S)
      <4>1. CASE i \in 1..Len(tags)
        BY <3>3, <4>1
      <4>2. CASE i \notin 1..Len(tags)
        <5>1. tags' = tags
          BY <3>3, <4>2
        <5> QED
          BY <3>3, <5>1
      <4> QED
        BY <4>1, <4>2
    <3> QED
      BY <3>4 DEF Tagged, S
  <2>2. CASE LabelInsert(p)
    BY <1>0, <2>2 DEF LabelInsert, Tagged
  <2>3. CASE LabelRm(p)
    <3>1. /\ labels' = labels \ {Cmd(p).label}
          /\ tags' = [i \in 1..Len(tags) |-> tags[i] \ {Cmd(p).label}]
          /\ Len(tags) \in Nat /\ \A i \in 1..Len(tags) : tags[i] \subseteq labels
      BY <1>0, <2>3 DEF LabelRm, Tagged
    <3>2. tags' \in [1..Len(tags) -> SUBSET labels']
      BY <3>1
    <3>3. tags' \in Seq(SUBSET labels')
      BY <3>1, <3>2
    <3> QED
      BY <3>3 DEF Tagged
  <2> QED
    BY <2>1, <2>2, <2>3
<1> QED
  BY <1>0, <1>1, <1>2 DEF Tables, TablesOK, OneMilestonePerName

LEMMA UpdateKeeps == ASSUME IInv, NEW p \in Process, Update(p) PROVE Tables'
<1>0. TablesOK /\ Tagged /\ OneMilestonePerName /\ Underway(p) /\ run[p].at = "update"
  BY DEF IInv, Update, At
<1>1. /\ UNCHANGED <<tags, labels, milestones, project, known>>
      /\ \E m \in Nat, t \in SUBSET Process :
            issues' = [issues EXCEPT ![1] = [milestone |-> m, text |-> t, stamp |-> issues[1].stamp + 1]]
  <2>1. issues[1] \in IssueRow /\ issues[1].milestone \in Nat /\ issues[1].text \in SUBSET Process
    BY <1>0, FirstRow
  <2>2. known[p].text \in SUBSET Process /\ run[p].target \in Nat
    BY <1>0 DEF TablesOK, Underway
  <2> DEFINE m == IF Cmd(p).milestone = None THEN issues[1].milestone ELSE run[p].target
             t == IF Cmd(p).text THEN known[p].text \cup {p} ELSE issues[1].text
  <2>3. m \in Nat /\ t \in SUBSET Process
    BY <2>1, <2>2
  <2>4. issues' = [issues EXCEPT ![1] = [milestone |-> m, text |-> t, stamp |-> issues[1].stamp + 1]]
    BY DEF Update
  <2> HIDE DEF m, t
  <2> QED
    BY <2>3, <2>4 DEF Update
<1>2. PICK m \in Nat, t \in SUBSET Process :
         issues' = [issues EXCEPT ![1] = [milestone |-> m, text |-> t, stamp |-> issues[1].stamp + 1]]
  BY <1>1
<1>3. [milestone |-> m, text |-> t, stamp |-> issues[1].stamp + 1] \in IssueRow
  <2>1. issues[1].stamp + 1 \in Nat
    BY <1>0, FirstRow
  <2> QED
    BY <2>1 DEF IssueRow
<1>4. issues' \in Seq(IssueRow) /\ issues' # <<>>
  BY <1>0, <1>2, <1>3 DEF TablesOK
<1> QED
  BY <1>0, <1>1, <1>4 DEF Tables, TablesOK, OneMilestonePerName, Tagged

LEMMA InsertKeeps == ASSUME IInv, NEW p \in Process, InsertMilestone(p) PROVE Tables'
<1>0. TablesOK /\ Tagged /\ OneMilestonePerName /\ milestones \in Seq(MilestoneRow)
      /\ Underway(p) /\ run[p].at = "milestoneInsert"
  BY DEF IInv, InsertMilestone, At, TablesOK
<1> DEFINE n == Cmd(p).milestone
           new == [name |-> n, open |-> TRUE, log |-> {}]
<1>1. /\ UNCHANGED <<issues, tags, labels, project, known>> /\ Named(n) = 0
      /\ milestones' = Append(milestones, new)
  BY DEF InsertMilestone
<1>2. new \in MilestoneRow /\ new.name = n
  BY <1>0 DEF Underway, MilestoneRow, NameAsked, Cmd
<1> HIDE DEF new
<1>3. milestones' \in Seq(MilestoneRow)
  BY <1>0, <1>1, <1>2
<1>4. OneMilestonePerName'
  BY <1>0, <1>1, <1>2, NamedIsNat DEF OneMilestonePerName
<1> QED
  BY <1>0, <1>1, <1>3, <1>4 DEF Tables, TablesOK, Tagged

(* What a command makes of a milestone: of its log only what was before its *)
(* user is kept by `describe`, and all of it by the others.                 *)
LEMMA ChangedRow ==
    ASSUME IInv, NEW p \in Process, ChangeMilestone(p)
    PROVE  LET m == Named(Cmd(p).milestone)
           IN  /\ m \in DOMAIN milestones
               /\ milestones' = [milestones EXCEPT ![m] = Changed(p)]
               /\ UNCHANGED <<issues, tags, labels, project, known>>
               /\ Changed(p) \in MilestoneRow
               /\ \/ Changed(p).name = milestones[m].name
                  \/ Cmd(p).op = "rename" /\ Named(Changed(p).name) \in {0, m}
               /\ \/ milestones[m].log \subseteq Changed(p).log
                  \/ /\ Cmd(p).op = "describe" /\ {} # run[p].copy
                     /\ run[p].copy \subseteq Changed(p).log
               /\ \/ Changed(p).open = milestones[m].open
                  \/ Cmd(p).op \in {"reopen", "cancel"}
               /\ run[p].at = "milestone" /\ run' = [run EXCEPT ![p] = Idle]
<1> DEFINE m == Named(Cmd(p).milestone)
           row == milestones[m]
<1>0. /\ milestones \in Seq(MilestoneRow) /\ Underway(p) /\ run[p].at = "milestone"
      /\ ~ Refused(p)
  BY DEF IInv, TablesOK, ChangeMilestone, At
<1>1. m \in DOMAIN milestones /\ row.name = Cmd(p).milestone /\ row \in MilestoneRow
  BY <1>0, NamedIsNat DEF Refused
<1>2. Cmd(p).op \in MilestoneOps /\ Cmd(p) \in Commands /\ run[p].copy \subseteq Process
  BY <1>0 DEF Underway, Cmd
<1>3. /\ milestones' = [milestones EXCEPT ![m] = Changed(p)]
      /\ UNCHANGED <<issues, tags, labels, project, known>>
      /\ run' = [run EXCEPT ![p] = Idle]
  BY DEF ChangeMilestone, End
<1> HIDE DEF m
<1>4. Current(p) = row
  BY DEF Current, m
<1>5. CASE Cmd(p).op = "rename"
  <2>1. Changed(p) = [row EXCEPT !.name = Cmd(p).to] /\ Cmd(p).to \in NameAsked
    BY <1>2, <1>4, <1>5 DEF Changed, NameAsked
  <2>2. /\ Changed(p) \in MilestoneRow /\ Changed(p).name = Cmd(p).to
        /\ Changed(p).log = row.log /\ Changed(p).open = row.open
    BY <1>1, <2>1 DEF MilestoneRow
  <2>3. Named(Cmd(p).to) \in {0, m}
    BY <1>0, <1>5 DEF Refused, m
  <2> QED
    BY <1>0, <1>1, <1>3, <1>5, <2>2, <2>3 DEF m
<1>6. CASE Cmd(p).op = "describe"
  <2>1. Changed(p) = [row EXCEPT !.log = run[p].copy]
    BY <1>4, <1>6 DEF Changed
  <2>2. /\ Changed(p) \in MilestoneRow /\ Changed(p).name = row.name
        /\ Changed(p).log = run[p].copy /\ Changed(p).open = row.open
    BY <1>1, <1>2, <2>1 DEF MilestoneRow
  <2>3. row.log = {} \/ run[p].copy # {}
    <3>1. m # 0
      BY <1>1, <1>0
    <3> QED
      BY <1>0, <1>4, <1>6, <3>1 DEF Refused, m
  <2> QED
    BY <1>0, <1>1, <1>3, <1>6, <2>2, <2>3 DEF m
<1>7. CASE Cmd(p).op = "log"
  <2>1. Changed(p) = [row EXCEPT !.log = @ \cup {p}]
    BY <1>4, <1>7 DEF Changed
  <2>2. /\ Changed(p) \in MilestoneRow /\ Changed(p).name = row.name
        /\ Changed(p).log = row.log \cup {p} /\ Changed(p).open = row.open
    BY <1>1, <2>1 DEF MilestoneRow
  <2> QED
    BY <1>0, <1>1, <1>3, <2>2 DEF m
<1>8. CASE Cmd(p).op \in {"reopen", "cancel"}
  <2>1. \E b \in BOOLEAN : Changed(p) = [row EXCEPT !.open = b]
    BY <1>4, <1>8 DEF Changed
  <2>2. /\ Changed(p) \in MilestoneRow /\ Changed(p).name = row.name /\ Changed(p).log = row.log
    BY <1>1, <2>1 DEF MilestoneRow
  <2> QED
    BY <1>0, <1>1, <1>3, <1>8, <2>2 DEF m
<1> QED
  BY <1>2, <1>5, <1>6, <1>7, <1>8 DEF MilestoneOps

LEMMA ChangeKeeps == ASSUME IInv, NEW p \in Process, ChangeMilestone(p) PROVE Tables'
<1> DEFINE m == Named(Cmd(p).milestone)
<1>0. TablesOK /\ Tagged /\ OneMilestonePerName /\ milestones \in Seq(MilestoneRow)
  BY DEF IInv, TablesOK
<1>1. /\ m \in DOMAIN milestones /\ milestones' = [milestones EXCEPT ![m] = Changed(p)]
      /\ UNCHANGED <<issues, tags, labels, project, known>>
      /\ Changed(p) \in MilestoneRow
      /\ Changed(p).name = milestones[m].name \/ Named(Changed(p).name) \in {0, m}
  BY ChangedRow
<1> HIDE DEF m
<1>2. milestones' \in Seq(MilestoneRow)
  BY <1>0, <1>1
<1>3. \A k \in DOMAIN milestones : milestones[k].name = Changed(p).name => k = m
  BY <1>0, <1>1, NamedIsNat DEF OneMilestonePerName
<1>4. OneMilestonePerName'
  BY <1>0, <1>1, <1>3 DEF OneMilestonePerName
<1> QED
  BY <1>0, <1>1, <1>2, <1>4 DEF Tables, TablesOK, Tagged

LEMMA ProjectKeeps ==
    ASSUME IInv, NEW p \in Process, NoteAdd(p) \/ SetArchived(p) \/ ProjectEdit(p)
    PROVE  Tables' /\ project'.stamp = project.stamp + 1
<1>0. TablesOK /\ Tagged /\ OneMilestonePerName /\ project \in ProjectRow /\ Underway(p)
  BY DEF IInv, TablesOK
<1>1. UNCHANGED <<issues, tags, labels, milestones, known>>
  BY DEF NoteAdd, SetArchived, ProjectEdit, ProjectWrite
<1>2. \E n \in SUBSET Process, a \in BOOLEAN :
         project' = [notes |-> n, archived |-> a, stamp |-> project.stamp + 1]
  <2>1. ASSUME NEW row \in ProjectRow, ProjectWrite(p, row), row.stamp = project.stamp
        PROVE  \E n \in SUBSET Process, a \in BOOLEAN :
                  project' = [notes |-> n, archived |-> a, stamp |-> project.stamp + 1]
    <3>1. project' = [row EXCEPT !.stamp = @ + 1]
      BY <2>1 DEF ProjectWrite, Touched
    <3>2. /\ row.notes \in SUBSET Process /\ row.archived \in BOOLEAN
          /\ project' = [notes |-> row.notes, archived |-> row.archived, stamp |-> project.stamp + 1]
      BY <2>1, <3>1 DEF ProjectRow
    <3> QED
      BY <3>2
  <2>2. CASE NoteAdd(p)
    <3>1. LET row == [project EXCEPT !.notes = @ \cup {p}]
          IN  row \in ProjectRow /\ row.stamp = project.stamp
      BY <1>0 DEF ProjectRow
    <3> QED
      BY <2>1, <2>2, <3>1 DEF NoteAdd
  <2>3. CASE SetArchived(p)
    <3>1. Cmd(p).archived \in BOOLEAN
      BY <1>0, <2>3, CatalogAssumption DEF Underway, SetArchived, At, Cmd
    <3>2. LET row == [project EXCEPT !.archived = Cmd(p).archived]
          IN  row \in ProjectRow /\ row.stamp = project.stamp
      BY <1>0, <3>1 DEF ProjectRow
    <3> QED
      BY <2>1, <2>3, <3>2 DEF SetArchived
  <2>4. CASE ProjectEdit(p)
    <3>1. run[p].copy \in SUBSET Process
      BY <1>0, <2>4 DEF Underway, ProjectEdit, At
    <3>2. LET row == [project EXCEPT !.notes = run[p].copy]
          IN  row \in ProjectRow /\ row.stamp = project.stamp
      BY <1>0, <3>1 DEF ProjectRow
    <3> QED
      BY <2>1, <2>4, <3>2 DEF ProjectEdit
  <2> QED
    BY <2>2, <2>3, <2>4
<1>3. project' \in ProjectRow /\ project'.stamp = project.stamp + 1
  BY <1>0, <1>2 DEF ProjectRow
<1> QED
  BY <1>0, <1>1, <1>3 DEF Tables, TablesOK, OneMilestonePerName, Tagged

LEMMA KnowledgeKeeps == ASSUME IInv, NEW p \in Process, Show(p) \/ Reload(p) PROVE Tables'
<1>0. TablesOK /\ Tagged /\ OneMilestonePerName
      /\ known \in [Process -> [stamp : Nat, text : SUBSET Process]]
  BY DEF IInv, TablesOK
<1>1. UNCHANGED table
  BY DEF Show, Reload
<1>2. issues[1].stamp \in Nat /\ issues[1].text \in SUBSET Process
  BY <1>0, FirstRow
<1>3. known' \in [Process -> [stamp : Nat, text : SUBSET Process]]
  <2>1. CASE Show(p)
    BY <1>0, <1>2, <2>1 DEF Show
  <2>2. CASE Reload(p)
    <3>1. PICK t \in SUBSET Process :
             known' = [known EXCEPT ![p].stamp = issues[1].stamp, ![p].text = t]
      <4> DEFINE t == IF Cmd(p).text THEN known[p].text \cup {p} ELSE known[p].text
      <4>1. t \in SUBSET Process
        BY <1>0
      <4>2. known' = [known EXCEPT ![p].stamp = issues[1].stamp, ![p].text = t]
        BY <1>0, <2>2 DEF Reload
      <4> HIDE DEF t
      <4> QED
        BY <4>1, <4>2
    <3> DEFINE Rec == [stamp : Nat, text : SUBSET Process]
               r == known[p]
               u == [r EXCEPT !.stamp = issues[1].stamp]
               v == [u EXCEPT !.text = t]
    <3>2. r \in Rec
      BY <1>0
    <3>3. u \in Rec
      BY <1>2, <3>2
    <3> HIDE DEF u
    <3>4. v \in Rec
      BY <3>3
    <3> HIDE DEF v, Rec
    <3>5. known' = [known EXCEPT ![p] = v]
      BY <1>0, <3>1 DEF u, v
    <3> QED
      BY <1>0, <3>4, <3>5 DEF Rec
  <2> QED
    BY <2>1, <2>2
<1> QED
  BY <1>0, <1>1, <1>3 DEF Tables, TablesOK, OneMilestonePerName, Tagged, table
-----------------------------------------------------------------------------
(* No step takes a count of writes back, and every change of the project's  *)
(* row counts.                                                              *)
Grown == /\ issues[1].stamp \in Nat /\ issues'[1].stamp \in Nat
         /\ issues[1].stamp <= issues'[1].stamp
         /\ project' # project => project.stamp < project'.stamp /\ project'.stamp \in Nat

Aside(p) == \/ Shape(p) \/ NoSuchMilestone(p) \/ ReadTags(p) \/ RelateRefused(p) \/ Resolve(p)
            \/ ResolveFails(p) \/ Snapshot(p) \/ Confirm(p) \/ EditStale(p) \/ LabelLook(p)
            \/ MilestoneLook(p) \/ InsertRefused(p) \/ ResolveName(p) \/ MilestoneRefused(p)
            \/ ProjectStale(p)

LEMMA AsideLeavesTables == ASSUME NEW p \in Process, Aside(p) PROVE UNCHANGED <<table, known>>
BY DEF Aside, Shape, NoSuchMilestone, ReadTags, RelateRefused, Resolve, ResolveFails, Snapshot,
       Confirm, EditStale, LabelLook, MilestoneLook, InsertRefused, ResolveName,
       MilestoneRefused, ProjectStale, Fail

LEMMA StepTables == ASSUME IInv, NEW p \in Process, Step(p)
                    PROVE  Tables' /\ Grown /\ (known' # known => Reload(p))
<1>0. TablesOK /\ Tagged /\ OneMilestonePerName
  BY DEF IInv
<1>1. issues[1].stamp \in Nat /\ project \in ProjectRow /\ project.stamp \in Nat
  <2>1. project \in ProjectRow
    BY <1>0 DEF TablesOK
  <2> QED
    BY <1>0, <2>1, FirstRow DEF ProjectRow
<1>2. ASSUME Tables', UNCHANGED <<issues, project>> PROVE Tables' /\ Grown
  BY <1>1, <1>2 DEF Grown
<1>3. CASE UNCHANGED <<issues, tags, labels, milestones, project, known>>
  <2>1. Tables'
    BY <1>0, <1>3 DEF Tables, TablesOK, Tagged, OneMilestonePerName
  <2> QED
    BY <1>2, <1>3, <2>1
<1>4. CASE Create(p)
  <2>1. Tables' /\ project' = [project EXCEPT !.stamp = @ + 1] /\ known' = known
    BY <1>4, CreateKeeps DEF Create, Touched
  <2>2. project'.stamp = project.stamp + 1
    BY <1>1, <2>1 DEF ProjectRow
  <2>3. issues'[1] = issues[1]
    <3>1. \E row : issues' = Append(issues, row)
      BY <1>4 DEF Create
    <3>2. issues \in Seq(IssueRow) /\ 1 \in 1..Len(issues)
      BY <1>0, FirstRow DEF TablesOK
    <3> QED
      BY <3>1, <3>2
  <2> QED
    BY <1>1, <2>1, <2>2, <2>3 DEF Grown
<1>5. CASE SetTags(p) \/ LabelInsert(p) \/ LabelRm(p)
  <2>1. UNCHANGED <<issues, project, known>>
    BY <1>5 DEF SetTags, LabelInsert, LabelRm
  <2> QED
    BY <1>2, <1>5, <2>1, TagsKeep
<1>6. CASE Update(p)
  <2>1. UNCHANGED <<project, known>>
        /\ \E m, t : issues' = [issues EXCEPT ![1] =
                        [milestone |-> m, text |-> t, stamp |-> issues[1].stamp + 1]]
    BY <1>6 DEF Update
  <2>2. 1 \in DOMAIN issues
    BY <1>0, FirstRow
  <2>3. issues'[1].stamp = issues[1].stamp + 1
    BY <2>1, <2>2
  <2> QED
    BY <1>1, <1>6, <2>1, <2>3, UpdateKeeps DEF Grown
<1>7. CASE Reload(p)
  <2>1. UNCHANGED <<issues, project>>
    BY <1>7 DEF Reload, table
  <2> QED
    BY <1>2, <1>7, <2>1, KnowledgeKeeps
<1>8. CASE InsertMilestone(p)
  <2>1. UNCHANGED <<issues, project, known>>
    BY <1>8 DEF InsertMilestone
  <2> QED
    BY <1>2, <1>8, <2>1, InsertKeeps
<1>9. CASE ChangeMilestone(p)
  <2>1. UNCHANGED <<issues, project, known>>
    BY <1>9 DEF ChangeMilestone
  <2> QED
    BY <1>2, <1>9, <2>1, ChangeKeeps
<1>10. CASE NoteAdd(p) \/ SetArchived(p) \/ ProjectEdit(p)
  <2>1. UNCHANGED <<issues, known>>
    BY <1>10 DEF NoteAdd, SetArchived, ProjectEdit, ProjectWrite
  <2> QED
    BY <1>1, <1>10, <2>1, ProjectKeeps DEF Grown
<1>11. CASE Relate(p) \/ Unrelate(p)
  BY <1>3, <1>11 DEF Relate, Unrelate
<1>12. CASE Aside(p)
  BY <1>3, <1>12, AsideLeavesTables DEF table
<1> QED
  BY <1>4, <1>5, <1>6, <1>7, <1>8, <1>9, <1>10, <1>11, <1>12 DEF Step, Aside

(* A step is a step of a command, and an edit with an old token goes no     *)
(* further than the check of its token.                                     *)
LEMMA StepIsOfCommand == ASSUME NEW p \in Process, Step(p) PROVE run[p].at # "idle"
BY DEF Step, Shape, Create, NoSuchMilestone, ReadTags, SetTags, Relate, RelateRefused, Unrelate,
       Resolve, ResolveFails, Snapshot, Update, Confirm, EditStale, Reload, LabelLook,
       LabelInsert, LabelRm, MilestoneLook, InsertMilestone, InsertRefused, ResolveName,
       ChangeMilestone, MilestoneRefused, NoteAdd, SetArchived, ProjectEdit, ProjectStale,
       Doing, At

LEMMA StaleStops ==
    ASSUME IInv, NEW p \in Process, Step(p), run[p].stale
    PROVE  /\ UNCHANGED table
           /\ run[p].at \in {"resolve", "snapshot"} \/ run' = [run EXCEPT ![p] = Idle]
<1>1. /\ run[p].at \in {"resolve", "snapshot", "update", "confirm"}
      /\ ~ CheckCas(p)
  <2>1. StaleIsOld(p) /\ issues[1].stamp \in Nat
    BY FirstRow DEF IInv
  <2> QED
    BY <2>1 DEF StaleIsOld, CheckCas, Cmd
<1>2. Resolve(p) \/ ResolveFails(p) \/ Snapshot(p) \/ EditStale(p)
  BY <1>1 DEF Step, Shape, Create, NoSuchMilestone, ReadTags, SetTags, Relate, RelateRefused,
       Unrelate, Update, Confirm, Reload, LabelLook, LabelInsert, LabelRm, MilestoneLook,
       InsertMilestone, InsertRefused, ResolveName, ChangeMilestone, MilestoneRefused, NoteAdd,
       SetArchived, ProjectEdit, ProjectStale, Doing, At
<1> QED
  BY <1>2 DEF Resolve, ResolveFails, Snapshot, EditStale, Fail, End, At

(* The other processes are as they were, and the rows only grew.            *)
LEMMA OthersKeep ==
    ASSUME IInv, NEW q \in Process, Grown, run'[q] = run[q],
           known'[q].stamp <= issues'[1].stamp
    PROVE  (Underway(q) /\ StaleIsOld(q) /\ ReadAtToken(q))'
<1>0. Underway(q) /\ StaleIsOld(q) /\ ReadAtToken(q) /\ project \in ProjectRow
  BY DEF IInv, TablesOK
<1>1. Underway(q)'
  BY <1>0 DEF Underway
<1>2. StaleIsOld(q)'
  <2>1. run[q].stale \in BOOLEAN
    BY <1>0 DEF StaleIsOld
  <2>2. run[q].stale => /\ run[q].at \in {"resolve", "snapshot", "update", "confirm"}
                        /\ run[q].cmd.cas
                        /\ run[q].token \in Nat /\ run[q].token < issues'[1].stamp
    BY <1>0 DEF StaleIsOld, Grown
  <2> QED
    BY <2>1, <2>2 DEF StaleIsOld
<1>3. ReadAtToken(q)'
  <2>1. /\ project.stamp \in Nat
        /\ \/ project' = project
           \/ project.stamp < project'.stamp /\ project'.stamp \in Nat
    BY <1>0 DEF ProjectRow, Grown
  <2>2. CASE project' = project
    BY <1>0, <2>2 DEF ReadAtToken
  <2>3. CASE project.stamp < project'.stamp /\ project'.stamp \in Nat
    BY <1>0, <2>1, <2>3 DEF ReadAtToken
  <2> QED
    BY <2>1, <2>2, <2>3 DEF ReadAtToken
<1> QED
  BY <1>1, <1>2, <1>3

LEMMA AtRest ==
    ASSUME NEW p \in Process, run'[p] = Idle, known'[p].stamp <= issues'[1].stamp
    PROVE  (Underway(p) /\ StaleIsOld(p) /\ ReadAtToken(p))'
<1>1. run'[p].at = "idle" /\ run'[p].stale = FALSE
  BY IdleShape
<1>2. Underway(p)' /\ ReadAtToken(p)'
  BY <1>1 DEF Underway, ReadAtToken
<1>3. StaleIsOld(p)'
  BY <1>1 DEF StaleIsOld
<1> QED
  BY <1>2, <1>3

(* What a user knows is never newer than the row. *)
LEMMA KnownIsOld ==
    ASSUME IInv, NEW p \in Process, NEW q \in Process, Grown,
           known' = known \/ Show(p) \/ Reload(p)
    PROVE  known'[q].stamp <= issues'[1].stamp
<1>0. /\ known \in [Process -> [stamp : Nat, text : SUBSET Process]]
      /\ StaleIsOld(q) /\ known[q].stamp \in Nat
  BY DEF IInv, TablesOK
<1>1. known[q].stamp <= issues[1].stamp
  BY <1>0 DEF StaleIsOld
<1>2. CASE known'[q].stamp = known[q].stamp
  BY <1>0, <1>1, <1>2 DEF Grown
<1>3. CASE known'[q].stamp = issues[1].stamp
  BY <1>3 DEF Grown
<1>4. CASE Show(p)
  BY <1>0, <1>2, <1>3, <1>4 DEF Show
<1>5. CASE Reload(p)
  <2>1. PICK t : known' = [known EXCEPT ![p].stamp = issues[1].stamp, ![p].text = t]
    BY <1>5 DEF Reload
  <2>2. q = p => known'[q].stamp = issues[1].stamp
    BY <1>0, <2>1
  <2>3. q # p => known'[q] = known[q]
    BY <1>0, <2>1
  <2> QED
    BY <1>2, <1>3, <2>2, <2>3
<1> QED
  BY <1>2, <1>4, <1>5

LEMMA StepKeeps == ASSUME IInv, NEW p \in Process, Step(p) PROVE IInv'
<1>1. Tables' /\ Grown /\ (known' # known => Reload(p)) /\ Moved(p)
  BY StepTables, StepMoves
<1>2. \A q \in Process : known'[q].stamp <= issues'[1].stamp
  BY <1>1, KnownIsOld
<1>3. \A q \in Process \ {p} : (Underway(q) /\ StaleIsOld(q) /\ ReadAtToken(q))'
  BY <1>1, <1>2, OthersKeep DEF Moved
<1>4. CASE run'[p] = Idle
  <2>1. (Underway(p) /\ StaleIsOld(p) /\ ReadAtToken(p))'
    BY <1>2, <1>4, AtRest
  <2> QED
    BY <1>1, <1>3, <2>1 DEF IInv, Tables, Moved
<1>5. CASE run'[p] # Idle
  <2>1. /\ Same(run'[p], run[p]) /\ Goes(run[p].at, run'[p].at) /\ run[p].at # "idle"
        /\ run'[p].at \in {"snapshot", "update", "confirm"} =>
              run'[p].target = run[p].target \/ run'[p].target \in Nat
        /\ Underway(p) /\ StaleIsOld(p)
    BY <1>1, <1>5, StepIsOfCommand DEF Moved, IInv
  <2>2. Underway(p)'
    BY <2>1 DEF Underway, Same, Goes, Late
  <2>3. ReadAtToken(p)'
    BY <2>1 DEF ReadAtToken, Goes, Late
  <2>4. StaleIsOld(p)'
    <3>1. run'[p].stale = run[p].stale /\ run[p].stale \in BOOLEAN
      BY <2>1 DEF Same, StaleIsOld
    <3>2. CASE run[p].stale
      <4>1. run[p].at \in {"resolve", "snapshot"}
        BY <1>5, <3>2, StaleStops DEF IInv, RunsOK
      <4>2. run'[p].at \in {"snapshot", "update", "confirm"}
        BY <2>1, <4>1 DEF Goes
      <4>3. run'[p].cmd.cas /\ run'[p].token \in Nat /\ run'[p].token < issues'[1].stamp
        BY <1>1, <2>1, <3>2 DEF StaleIsOld, Same, Grown
      <4> QED
        BY <1>2, <3>1, <4>2, <4>3 DEF StaleIsOld
    <3>3. CASE ~ run[p].stale
      BY <1>2, <3>1, <3>3 DEF StaleIsOld
    <3> QED
      BY <3>2, <3>3
  <2> QED
    BY <1>1, <1>3, <2>2, <2>3, <2>4 DEF IInv, Tables, Moved
<1> QED
  BY <1>4, <1>5
-----------------------------------------------------------------------------
LEMMA BeginKeeps ==
    ASSUME IInv, NEW p \in Process, NEW c \in Commands, Begin(p, c)
    PROVE  IInv'
<1> DEFINE stale == c.op = "edit" /\ c.cas /\ known[p].stamp # issues[1].stamp
           token == IF c.op = "projectEdit" THEN project.stamp ELSE known[p].stamp
           at == FirstStep(c)
           copy == Reads(c)
           r == [Idle EXCEPT !.cmd = c, !.at = at, !.issue = 1, !.copy = copy,
                             !.token = token, !.stale = stale]
<1>0. /\ TablesOK /\ Tagged /\ OneMilestonePerName /\ RunsOK /\ StaleIsOld(p)
      /\ issues[1].stamp \in Nat /\ known[p].stamp \in Nat
  <2>1. TablesOK /\ known \in [Process -> [stamp : Nat, text : SUBSET Process]]
    BY DEF IInv, TablesOK
  <2> QED
    BY <2>1, FirstRow DEF IInv
<1>1. UNCHANGED <<table, known>> /\ run' = [run EXCEPT ![p] = r]
  BY DEF Begin
<1>2. /\ at # "idle"
      /\ at \in {"name", "milestone"} => c.op \in MilestoneOps
      /\ at \in {"projectEdit", "projectArchive"} => c.op = at
      /\ c.op = "edit" => at \in {"resolve", "snapshot"}
  BY CatalogAssumption DEF FirstStep, IssueRun, MilestoneRun, ProjectRun, IssueCmd, LabelCmd,
     MilestoneCmd, ProjectCmd, MilestoneOps
<1>3. copy \subseteq Process /\ (c.op = "projectEdit" => copy = project.notes)
  <2>1. milestones \in Seq(MilestoneRow) /\ project.notes \in SUBSET Process
    BY <1>0 DEF TablesOK, ProjectRow
  <2>2. CASE c.op = "projectEdit"
    BY <2>1, <2>2 DEF Reads
  <2>3. CASE c.op = "describe" /\ c.carry /\ Named(c.milestone) # 0
    <3>1. milestones[Named(c.milestone)] \in MilestoneRow
      BY <2>1, <2>3, NamedIsNat
    <3> QED
      BY <2>3, <3>1 DEF Reads, MilestoneRow
  <2>4. CASE c.op # "projectEdit" /\ ~ (c.op = "describe" /\ c.carry /\ Named(c.milestone) # 0)
    BY <2>4 DEF Reads
  <2> QED
    BY <2>2, <2>3, <2>4
<1>4. /\ stale \in BOOLEAN
      /\ stale => c.op = "edit" /\ c.cas /\ token \in Nat /\ token < issues[1].stamp
  <2>1. stale \in BOOLEAN
    OBVIOUS
  <2>2. stale => c.op = "edit" /\ c.cas /\ token \in Nat /\ token < issues[1].stamp
    BY <1>0 DEF StaleIsOld
  <2> QED
    BY <2>1, <2>2
<1>5. c.op = "projectEdit" => token = project.stamp /\ token \in Nat
  BY <1>0 DEF TablesOK, ProjectRow
<1> HIDE DEF stale, token, at, copy
<1>6. /\ Shaped(r) /\ r.cmd = c /\ r.at = at /\ r.copy = copy /\ r.token = token
      /\ r.target = 0
  BY IdleShape DEF Shaped, Fields, Idle
<1>7. r.stale = stale
  BY DEF Idle
<1> HIDE DEF r
<1>8. run'[p] = r /\ RunsOK' /\ \A q \in Process \ {p} : run'[q] = run[q]
  BY <1>0, <1>1, <1>6 DEF RunsOK
<1>9. Tables' /\ Grown
  <2>1. project' = project /\ issues' = issues
    BY <1>1 DEF table
  <2> QED
    BY <1>0, <1>1, <2>1 DEF Tables, TablesOK, Tagged, OneMilestonePerName, table, Grown
<1>10. \A q \in Process \ {p} : (Underway(q) /\ StaleIsOld(q) /\ ReadAtToken(q))'
  BY <1>1, <1>8, <1>9, KnownIsOld, OthersKeep
<1>11. Underway(p)'
  BY <1>2, <1>3, <1>6, <1>8 DEF Underway
<1>12. StaleIsOld(p)'
  <2>1. run'[p].stale \in BOOLEAN /\ known'[p].stamp <= issues'[1].stamp
    BY <1>0, <1>1, <1>4, <1>7, <1>8 DEF StaleIsOld, table
  <2>2. run'[p].stale =>
          /\ run'[p].at \in {"resolve", "snapshot", "update", "confirm"}
          /\ run'[p].cmd.cas
          /\ run'[p].token \in Nat /\ run'[p].token < issues'[1].stamp
    BY <1>1, <1>2, <1>4, <1>6, <1>7, <1>8 DEF table
  <2> QED
    BY <2>1, <2>2 DEF StaleIsOld
<1>13. ReadAtToken(p)'
  <2>1. r.at = "projectEdit" => c.op = "projectEdit"
    BY <1>2, <1>6
  <2>2. project' = project /\ project.stamp \in Nat
    BY <1>0, <1>1 DEF table, TablesOK, ProjectRow
  <2> QED
    BY <1>3, <1>5, <1>6, <1>8, <2>1, <2>2 DEF ReadAtToken
<1> QED
  BY <1>8, <1>9, <1>10, <1>11, <1>12, <1>13 DEF IInv, Tables

LEMMA NextKeeps == IInv /\ [Next]_vars => IInv'
<1> SUFFICES ASSUME IInv, [Next]_vars PROVE IInv'
  OBVIOUS
<1>1. ASSUME NEW p \in Process, NEW c \in Commands, Begin(p, c) PROVE IInv'
  BY <1>1, BeginKeeps
<1>2. ASSUME NEW p \in Process, Show(p) PROVE IInv'
  <2>1. Tables' /\ run' = run /\ issues' = issues /\ project' = project
    BY <1>2, KnowledgeKeeps DEF Show, table
  <2>2. Grown
    BY <2>1, FirstRow DEF IInv, Grown
  <2>3. \A q \in Process : (Underway(q) /\ StaleIsOld(q) /\ ReadAtToken(q))'
    BY <1>2, <2>1, <2>2, KnownIsOld, OthersKeep
  <2> QED
    BY <2>1, <2>3 DEF IInv, Tables, RunsOK
<1>3. ASSUME NEW p \in Process, Kill(p) PROVE IInv'
  <2>1. UNCHANGED <<table, known>> /\ run' = [run EXCEPT ![p] = Idle] /\ RunsOK
    BY <1>3 DEF Kill, End, IInv
  <2>2. run'[p] = Idle /\ \A q \in Process \ {p} : run'[q] = run[q]
    BY <2>1 DEF RunsOK
  <2>3. RunsOK'
    BY <2>1, <2>2, IdleShape DEF RunsOK
  <2>4. Tables'
    BY <2>1 DEF IInv, Tables, TablesOK, Tagged, OneMilestonePerName, table
  <2>5. Grown
    BY <2>1, FirstRow DEF IInv, Grown, table
  <2>6. \A q \in Process : known'[q].stamp <= issues'[1].stamp
    BY <1>3, <2>1, <2>5, KnownIsOld
  <2>7. \A q \in Process : (Underway(q) /\ StaleIsOld(q) /\ ReadAtToken(q))'
    BY <2>2, <2>5, <2>6, OthersKeep, AtRest
  <2> QED
    BY <2>3, <2>4, <2>7 DEF IInv, Tables
<1>4. ASSUME NEW p \in Process, Step(p) PROVE IInv'
  BY <1>4, StepKeeps
<1>5. CASE UNCHANGED vars
  BY <1>5 DEF vars, table, IInv, TablesOK, Tagged, OneMilestonePerName, RunsOK, Underway,
              StaleIsOld, ReadAtToken
<1> QED
  BY <1>1, <1>2, <1>3, <1>4, <1>5 DEF Next

LEMMA AlwaysIInv == Spec => []IInv
BY InitHolds, NextKeeps, PTL DEF Spec
-----------------------------------------------------------------------------
(* Every label an issue carries is one of the project, whatever was removed *)
(* between the read and the write of another command's set_labels.          *)
THEOREM LabelsExist == Spec => []TagsHaveLabels
<1>1. IInv => TagsHaveLabels
  BY DEF IInv, Tagged, TagsHaveLabels
<1> QED
  BY <1>1, AlwaysIInv, PTL

(* Milestones keep names of their own, under adds and renames that look for *)
(* the name in one statement and write in another.                          *)
THEOREM NamesStayUnique == Spec => []OneMilestonePerName
<1>1. IInv => OneMilestonePerName
  BY DEF IInv
<1> QED
  BY <1>1, AlwaysIInv, PTL

(* An edit whose token was outdated when it began writes no table: neither  *)
(* the fields nor the labels and relations of its later jobs.               *)
THEOREM StaleEdits == Spec => StaleEditsChangeNothing
<1>1. ASSUME IInv, [Next]_vars, NEW p \in Process, run[p].stale, run'[p] # run[p]
      PROVE  UNCHANGED table
  <2>1. run[p].at # "idle" /\ RunsOK
    BY <1>1 DEF IInv, StaleIsOld
  <2>2. PICK q \in Process : (\E c \in Commands : Begin(q, c)) \/ Show(q) \/ Kill(q) \/ Step(q)
    BY <1>1 DEF Next, vars
  <2>3. CASE (\E c \in Commands : Begin(q, c)) \/ Show(q) \/ Kill(q)
    BY <2>3 DEF Begin, Show, Kill
  <2>4. CASE Step(q)
    <3>1. q = p
      BY <1>1, <2>4, StepMoves DEF Moved
    <3> QED
      BY <1>1, <2>4, <3>1, StaleStops
  <2> QED
    BY <2>2, <2>3, <2>4
<1>2. IInv /\ [Next]_vars =>
        [\A p \in Process : run[p].stale /\ run'[p] # run[p] => UNCHANGED table]_vars
  BY <1>1
<1> QED
  BY <1>2, AlwaysIInv, PTL DEF Spec, StaleEditsChangeNothing

(* What one step does to the records of milestones and of the project.      *)
RecordsKeep ==
    /\ \A m \in DOMAIN milestones :
         /\ \/ milestones[m].log \subseteq milestones'[m].log
            \/ \E p \in Process : /\ Replaces(p, "milestone") /\ Cmd(p).op = "describe"
                                  /\ {} # run[p].copy /\ run[p].copy \subseteq milestones'[m].log
         /\ milestones[m].open # milestones'[m].open =>
              \E p \in Process : Replaces(p, "milestone") /\ Cmd(p).op \in {"reopen", "cancel"}
    /\ \/ project.notes \subseteq project'.notes
       \/ \E p \in Process : Replaces(p, "projectEdit") /\ ~ Cmd(p).cas

LEMMA StepKeepsRecords == ASSUME IInv, NEW p \in Process, Step(p) PROVE RecordsKeep
<1>0. milestones \in Seq(MilestoneRow) /\ project \in ProjectRow /\ RunsOK /\ ReadAtToken(p)
  BY DEF IInv, TablesOK
<1>1. CASE UNCHANGED <<milestones, project>>
  BY <1>1 DEF RecordsKeep
<1>2. CASE Create(p)
  <2>1. milestones' = milestones /\ project' = [project EXCEPT !.stamp = @ + 1]
    BY <1>2 DEF Create, Touched
  <2>2. project'.notes = project.notes
    BY <1>0, <2>1 DEF ProjectRow
  <2> QED
    BY <2>1, <2>2 DEF RecordsKeep
<1>3. CASE InsertMilestone(p)
  <2>1. project' = project /\ \E row : milestones' = Append(milestones, row)
    BY <1>3 DEF InsertMilestone
  <2>2. \A m \in DOMAIN milestones : milestones'[m] = milestones[m]
    BY <1>0, <2>1
  <2> QED
    BY <2>1, <2>2 DEF RecordsKeep
<1>4. CASE ChangeMilestone(p)
  <2> DEFINE k == Named(Cmd(p).milestone)
             row == Changed(p)
  <2>1. /\ k \in DOMAIN milestones /\ milestones' = [milestones EXCEPT ![k] = row]
        /\ project' = project
        /\ \/ milestones[k].log \subseteq row.log
           \/ Cmd(p).op = "describe" /\ {} # run[p].copy /\ run[p].copy \subseteq row.log
        /\ row.open = milestones[k].open \/ Cmd(p).op \in {"reopen", "cancel"}
        /\ run[p].at = "milestone" /\ run' = [run EXCEPT ![p] = Idle]
    BY <1>4, ChangedRow
  <2>2. Replaces(p, "milestone")
    BY <1>0, <2>1, IdleShape DEF Replaces, At, RunsOK
  <2> HIDE DEF k, row
  <2>3. ASSUME NEW m \in DOMAIN milestones
        PROVE  /\ \/ milestones[m].log \subseteq milestones'[m].log
                  \/ /\ Cmd(p).op = "describe" /\ {} # run[p].copy
                     /\ run[p].copy \subseteq milestones'[m].log
               /\ \/ milestones[m].open = milestones'[m].open
                  \/ Cmd(p).op \in {"reopen", "cancel"}
    <3>1. CASE m = k
      BY <2>1, <3>1
    <3>2. CASE m # k
      BY <2>1, <3>2
    <3> QED
      BY <3>1, <3>2
  <2> QED
    BY <2>1, <2>2, <2>3 DEF RecordsKeep
<1>5. CASE NoteAdd(p) \/ SetArchived(p)
  <2>1. /\ milestones' = milestones
        /\ \E row : /\ project' = [row EXCEPT !.stamp = @ + 1]
                    /\ \/ row = [project EXCEPT !.notes = @ \cup {p}]
                       \/ row = [project EXCEPT !.archived = Cmd(p).archived]
    BY <1>5 DEF NoteAdd, SetArchived, ProjectWrite, Touched
  <2>2. project'.notes = project.notes \cup {p} \/ project'.notes = project.notes
    BY <1>0, <2>1 DEF ProjectRow
  <2> QED
    BY <2>1, <2>2 DEF RecordsKeep
<1>6. CASE ProjectEdit(p)
  <2>1. /\ milestones' = milestones /\ run[p].at = "projectEdit" /\ ProjectCasOk(p)
        /\ project' = [[project EXCEPT !.notes = run[p].copy] EXCEPT !.stamp = @ + 1]
        /\ run' = [run EXCEPT ![p] = Idle]
    BY <1>6 DEF ProjectEdit, ProjectWrite, Touched, End, At
  <2>2. project'.notes = run[p].copy
    BY <1>0, <2>1 DEF ProjectRow
  <2>3. Replaces(p, "projectEdit")
    BY <1>0, <2>1, IdleShape DEF Replaces, At, RunsOK
  <2>4. ~ Cmd(p).cas \/ run[p].copy = project.notes
    BY <1>0, <2>1 DEF ProjectCasOk, ReadAtToken
  <2> QED
    BY <2>1, <2>2, <2>3, <2>4 DEF RecordsKeep
<1>7. CASE SetTags(p) \/ LabelInsert(p) \/ LabelRm(p) \/ Update(p) \/ Reload(p) \/ Relate(p)
           \/ Unrelate(p) \/ Aside(p)
  BY <1>1, <1>7, AsideLeavesTables DEF SetTags, LabelInsert, LabelRm, Update, Reload, Relate,
       Unrelate, table
<1> QED
  BY <1>2, <1>3, <1>4, <1>5, <1>6, <1>7 DEF Step, Aside

(* No interleaving of commands loses a milestone's log entry or undoes its  *)
(* status, a replacement of the log apart, and none under a token loses a   *)
(* note of the project.                                                     *)
THEOREM RecordsKept == Spec => RecordsStay
<1>1. ASSUME IInv, Next PROVE RecordsKeep
  <2>1. PICK p \in Process : (\E c \in Commands : Begin(p, c)) \/ Show(p) \/ Kill(p) \/ Step(p)
    BY <1>1 DEF Next
  <2>2. CASE (\E c \in Commands : Begin(p, c)) \/ Show(p) \/ Kill(p)
    <3>1. UNCHANGED <<milestones, project>>
      BY <2>2 DEF Begin, Show, Kill, table
    <3> QED
      BY <3>1 DEF RecordsKeep
  <2> QED
    BY <1>1, <2>1, <2>2, StepKeepsRecords
<1>2. IInv /\ [Next]_vars => [RecordsKeep]_vars
  BY <1>1
<1> QED
  BY <1>2, AlwaysIInv, PTL DEF Spec, RecordsStay, RecordsKeep
=============================================================================

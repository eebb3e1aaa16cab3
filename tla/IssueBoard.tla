----------------------------- MODULE IssueBoard -----------------------------
(***************************************************************************)
(* The issues of one project in one SQLite file, and the sessions that     *)
(* work on them. Every process has one writer thread that runs the jobs of *)
(* its sessions one after another (store.rs); between processes only a     *)
(* statement, or a BEGIN IMMEDIATE ... COMMIT, is atomic. So a job is a    *)
(* sequence of steps here, one per statement or transaction, with the rows *)
(* it read kept in `seen` until it writes them back.                       *)
(*                                                                         *)
(* Position is counted in units of 1000; updated_at is a number that every *)
(* write of the row makes new; a description is the set of entries written *)
(* into it. MaxCommands and MaxFaults bound the model. A definition under  *)
(* "Slip" is a wrong version of the one after it, which some property must *)
(* tell from the right one.                                                *)
(***************************************************************************)
EXTENDS Naturals, Sequences, FiniteSets

CONSTANTS
    Session,
    Process,
    Host,           \* session -> the process whose store it uses
    Tui,            \* sessions of a TUI or of cliband; the others run the CLI
    Commands,       \* the commands sessions run
    Status, Done,
    FirstIssues,    \* issues there at the start
    MaxCommands,    \* bound: commands per session
    MaxFaults       \* bound: failing jobs, lost audit entries, killed processes

CliCommands == {"create", "mv", "archive", "amend", "edit", "casEdit", "sweep"}
TuiCommands == {"create", "mv", "archive", "reorder", "save"}

ASSUME BoardConstants ==
    /\ Host \in [Session -> Process]
    /\ Tui \subseteq Session
    /\ Commands \subseteq CliCommands \cup TuiCommands
    /\ Done \in Status
    /\ FirstIssues \in Nat
    /\ MaxCommands \in Nat /\ MaxFaults \in Nat

VARIABLES
    rows,       \* the issues table: number -> row
    issueSeq,   \* projects.issue_seq
    recorded,   \* number -> status the last `status` entry of the trail leads to
    written,    \* number -> entries whose transaction committed
    queue,      \* process -> sessions whose jobs wait for its writer, head running
    cmd,        \* session -> the command it runs
    pc,         \* session -> the statement it runs next
    base,       \* session -> the row it showed its user before an edit
    seen,       \* session -> the row its job read
    other,      \* session -> the second row a reorder read
    place,      \* session -> the position a move computed
    used, faults

table == <<rows, issueSeq, recorded, written>>
vars == <<table, queue, cmd, pc, base, seen, other, place, used, faults>>

Row == [status: Status, pos: Nat, completed: BOOLEAN, archived: BOOLEAN,
        text: SUBSET Session, stamp: Nat]

\* The commands about issues in I, as their users give them.
Ask(I) ==
    {c \in [op: {"create"}, to: Status]
           \cup [op: {"mv", "save"}, on: I, to: Status]
           \cup [op: {"archive"}, on: I, flag: BOOLEAN]
           \cup [op: {"reorder"}, on: I, with: I]
           \cup [op: {"amend", "edit", "casEdit"}, on: I]
           \cup [op: {"sweep"}] :
        /\ c.op \in Commands
        /\ c.op = "reorder" => c.on # c.with}

PC == {"idle", "load", "user", "create", "read", "max", "write", "record", "reread",
       "rewrite", "read2", "write2", "amend", "edit", "sweep"}

\* An issue may have been created as done, and then has no completed_at.
FirstRow == {r \in [status: Status, pos: 1..FirstIssues, completed: BOOLEAN,
                    archived: BOOLEAN, text: {{}}, stamp: {0}] :
                r.completed => r.status = Done}

Issues == DOMAIN rows

\* The row's columns as users see them.
Visible(r) == [status |-> r.status, completed |-> r.completed,
               archived |-> r.archived, text |-> r.text]

\* What a session holds that runs nothing.
Blank == [status |-> Done, pos |-> 0, completed |-> FALSE, archived |-> FALSE,
          text |-> {}, stamp |-> 0]
NoCommand == [op |-> "none"]

Init ==
    /\ rows \in [1..FirstIssues -> FirstRow] /\ \A i \in Issues : rows[i].pos = i
    /\ issueSeq = FirstIssues
    /\ recorded = [i \in Issues |-> rows[i].status]
    /\ written = [i \in Issues |-> {}]
    /\ queue = [p \in Process |-> <<>>]
    /\ cmd = [s \in Session |-> NoCommand]
    /\ pc = [s \in Session |-> "idle"]
    /\ base = [s \in Session |-> Blank]
    /\ seen = [s \in Session |-> Blank]
    /\ other = [s \in Session |-> Blank]
    /\ place = [s \in Session |-> 0]
    /\ used = [s \in Session |-> 0]
    /\ faults = 0

(***************************************************************************)
(* Jobs: submitted to the writer's channel, run to their end from its head. *)
(***************************************************************************)
FirstStep(op) ==
    CASE op \in {"edit", "casEdit", "save"} -> "load"
      [] op \in {"mv", "archive", "reorder"} -> "read"
      [] OTHER -> op

\* A user or an agent gives session s a command.
Submit(s, c) ==
    /\ pc[s] = "idle" /\ used[s] < MaxCommands
    /\ c.op \in IF s \in Tui THEN TuiCommands ELSE CliCommands
    /\ cmd' = [cmd EXCEPT ![s] = c]
    /\ pc' = [pc EXCEPT ![s] = FirstStep(c.op)]
    /\ queue' = [queue EXCEPT ![Host[s]] = Append(@, s)]
    /\ used' = [used EXCEPT ![s] = @ + 1]
    /\ UNCHANGED <<table, base, seen, other, place, faults>>

\* The user of s has edited what Load showed, and sends it off.
Resume(s) ==
    /\ pc[s] = "user"
    /\ pc' = [pc EXCEPT ![s] = IF cmd[s].op = "save" THEN "read" ELSE "edit"]
    /\ queue' = [queue EXCEPT ![Host[s]] = Append(@, s)]
    /\ UNCHANGED <<table, cmd, base, seen, other, place, used, faults>>

Running(s) == queue[Host[s]] # <<>> /\ Head(queue[Host[s]]) = s

\* The job of s goes on with step l.
Step(s, l) ==
    /\ pc' = [pc EXCEPT ![s] = l]
    /\ UNCHANGED <<queue, cmd, used, faults>>

\* The job of s has run: its command is over, the channel moves on.
Forget(s) ==
    /\ pc' = [pc EXCEPT ![s] = "idle"]
    /\ cmd' = [cmd EXCEPT ![s] = NoCommand]
    /\ base' = [base EXCEPT ![s] = Blank]
    /\ seen' = [seen EXCEPT ![s] = Blank]
    /\ other' = [other EXCEPT ![s] = Blank]
    /\ place' = [place EXCEPT ![s] = 0]
    /\ UNCHANGED used

\* Slip: a panic in the job takes the writer thread along.
FinishDead(s) == Forget(s) /\ UNCHANGED queue

Finish(s) == Forget(s) /\ queue' = [queue EXCEPT ![Host[s]] = Tail(@)]

At(s, l) == Running(s) /\ pc[s] = l

(***************************************************************************)
(* The statements.                                                         *)
(***************************************************************************)
\* `issues::create`: number, position and row in one IMMEDIATE transaction. A
\* new issue has no completed_at, whatever its status.
Places(st) == {0} \cup {rows[i].pos : i \in {j \in Issues : rows[j].status = st}}

\* Slip: MIN for MAX.
IsFirst(st, m) == \A n \in Places(st) : m <= n

IsLast(st, m) == \A n \in Places(st) : n <= m

\* Slip: the sequence is read and not bumped.
SameSeq == issueSeq

NextSeq == issueSeq + 1

CreateIssue(s) ==
    /\ At(s, "create")
    /\ \E m \in Places(cmd[s].to) :
        /\ IsLast(cmd[s].to, m)
        /\ rows' = [i \in Issues \cup {issueSeq + 1} |->
                        IF i = issueSeq + 1
                        THEN [Blank EXCEPT !.status = cmd[s].to, !.pos = m + 1]
                        ELSE rows[i]]
    /\ issueSeq' = NextSeq
    /\ recorded' = [i \in DOMAIN rows' |->
                        IF i \in Issues THEN recorded[i] ELSE cmd[s].to]
    /\ written' = [i \in DOMAIN rows' |-> IF i \in Issues THEN written[i] ELSE {}]
    /\ Finish(s) /\ UNCHANGED faults

\* The row a job works on. The CLI returns at once when the issue is already as
\* wanted; the TUI writes anyway.
NoOp(c, r) == \/ c.op = "mv" /\ r.status = c.to
              \/ c.op = "archive" /\ r.archived = c.flag

Read(s) ==
    /\ At(s, "read")
    /\ LET c == cmd[s]
           r == rows[c.on]
       IN  IF s \notin Tui /\ NoOp(c, r)
           THEN Finish(s) /\ UNCHANGED <<table, faults>>
           ELSE /\ seen' = [seen EXCEPT ![s] = r]
                /\ Step(s, CASE c.op = "mv" -> "max"
                             [] c.op = "archive" -> "write"
                             [] c.op = "reorder" -> "read2"
                             [] c.op = "save" ->
                                    IF r.status = c.to THEN "reread" ELSE "max")
                /\ UNCHANGED <<table, base, other, place>>

\* Slip: the row the command read is used where the row of the table is meant.
StaleTarget(s) == seen[s]

\* The row of the issue the command is about.
Target(s) == rows[cmd[s].on]

\* `move_issue`, first statement: SELECT max(position) of the target column.
FindPlace(s) ==
    /\ At(s, "max")
    /\ \E m \in Places(cmd[s].to) :
        /\ IsLast(cmd[s].to, m)
        /\ place' = [place EXCEPT ![s] = m + 1]
    /\ Step(s, "write")
    /\ UNCHANGED <<table, base, seen, other>>

\* Slip: completed_at is set on the way into `done`, not cleared on the way out.
MovedOnce(r, st, p) ==
    [r EXCEPT !.status = st, !.pos = p, !.completed = @ \/ st = Done, !.stamp = @ + 1]

Moved(r, st, p) ==
    [r EXCEPT !.status = st, !.pos = p, !.completed = (st = Done), !.stamp = @ + 1]

\* `move_issue`, second statement: UPDATE of four columns.
MoveIssue(s) ==
    /\ At(s, "write") /\ cmd[s].op \in {"mv", "save"}
    /\ rows' = [rows EXCEPT ![cmd[s].on] = Moved(Target(s), cmd[s].to, place[s])]
    /\ Step(s, "record")
    /\ UNCHANGED <<issueSeq, recorded, written, base, seen, other, place>>

\* Slip: `from` and `to` of the entry are swapped.
LeadsFrom(s) == seen[s].status

LeadsTo(s) == cmd[s].to

\* `audit::record_move`: best effort, its error is swallowed.
RecordMove(s) ==
    /\ At(s, "record")
    /\ \/ /\ recorded' = [recorded EXCEPT ![cmd[s].on] = LeadsTo(s)]
          /\ UNCHANGED faults
       \/ /\ faults < MaxFaults /\ faults' = faults + 1
          /\ UNCHANGED recorded
    /\ UNCHANGED <<rows, issueSeq, written>>
    /\ IF cmd[s].op = "mv"
       THEN Finish(s)
       ELSE /\ pc' = [pc EXCEPT ![s] = "reread"]
            /\ UNCHANGED <<queue, cmd, base, seen, other, place, used>>

\* `do_update`: writes back every column of the row the job read, except
\* completed_at, with the change of r applied to it.
WriteBack(i, r) ==
    rows' = [rows EXCEPT ![i] = [r EXCEPT !.completed = rows[i].completed,
                                          !.stamp = rows[i].stamp + 1]]

ArchiveIssue(s) ==
    /\ At(s, "write") /\ cmd[s].op = "archive"
    /\ WriteBack(cmd[s].on, [seen[s] EXCEPT !.archived = cmd[s].flag])
    /\ Finish(s)
    /\ UNCHANGED <<issueSeq, recorded, written, faults>>

\* The TUI's J/K: two reads, then two updates that swap the positions.
ReadOther(s) ==
    /\ At(s, "read2")
    /\ other' = [other EXCEPT ![s] = rows[cmd[s].with]]
    /\ Step(s, "write")
    /\ UNCHANGED <<table, base, seen, place>>

PlaceFirst(s) ==
    /\ At(s, "write") /\ cmd[s].op = "reorder"
    /\ WriteBack(cmd[s].on, [seen[s] EXCEPT !.pos = other[s].pos])
    /\ Step(s, "write2")
    /\ UNCHANGED <<issueSeq, recorded, written, base, seen, other, place>>

PlaceSecond(s) ==
    /\ At(s, "write2")
    /\ WriteBack(cmd[s].with, [other[s] EXCEPT !.pos = seen[s].pos])
    /\ Finish(s)
    /\ UNCHANGED <<issueSeq, recorded, written, faults>>

Described(r, T) == [r EXCEPT !.text = T, !.stamp = @ + 1]

\* `issue log`, `issue tick`, `issue append-section`, `issue edit --section`: the
\* description is read and extended in one IMMEDIATE transaction.
AmendIssue(s) ==
    /\ At(s, "amend")
    /\ LET r == rows[cmd[s].on]
       IN  rows' = [rows EXCEPT ![cmd[s].on] = Described(r, r.text \cup {s})]
    /\ written' = [written EXCEPT ![cmd[s].on] = @ \cup {s}]
    /\ Finish(s)
    /\ UNCHANGED <<issueSeq, recorded, faults>>

\* What an edit starts from: `issue show` for an agent, the buffer of $EDITOR in
\* the TUI. The writer is free again while the user works on it.
Load(s) ==
    /\ At(s, "load")
    /\ base' = [base EXCEPT ![s] = rows[cmd[s].on]]
    /\ pc' = [pc EXCEPT ![s] = "user"]
    /\ queue' = [queue EXCEPT ![Host[s]] = Tail(@)]
    /\ UNCHANGED <<table, cmd, seen, other, place, used, faults>>

\* Slip: the flag is accepted and not looked at.
CheckNothing(s) == TRUE

\* check_cas: --if-updated-at still names the row's updated_at.
CheckCas(s) == cmd[s].op = "casEdit" => rows[cmd[s].on].stamp = base[s].stamp

\* `issue edit --description`: the whole text is replaced by the user's, in one
\* IMMEDIATE transaction.
EditIssue(s) ==
    /\ At(s, "edit") /\ CheckCas(s)
    /\ rows' = [rows EXCEPT ![cmd[s].on] =
                    Described(rows[cmd[s].on], base[s].text \cup {s})]
    /\ written' = [written EXCEPT ![cmd[s].on] = @ \cup {s}]
    /\ Finish(s)
    /\ UNCHANGED <<issueSeq, recorded, faults>>

RefuseEdit(s) ==
    /\ At(s, "edit") /\ ~ CheckCas(s)
    /\ Finish(s)
    /\ UNCHANGED <<table, faults>>

\* `apply_issue_edit` reads the row again, then writes the buffer's text over it.
Reread(s) ==
    /\ At(s, "reread")
    /\ seen' = [seen EXCEPT ![s] = Target(s)]
    /\ Step(s, "rewrite")
    /\ UNCHANGED <<table, base, other, place>>

SaveIssue(s) ==
    /\ At(s, "rewrite")
    /\ WriteBack(cmd[s].on, [seen[s] EXCEPT !.text = base[s].text \cup {s}])
    /\ written' = [written EXCEPT ![cmd[s].on] = @ \cup {s}]
    /\ Finish(s)
    /\ UNCHANGED <<issueSeq, recorded, faults>>

\* `issue archive-done`: one UPDATE over every done issue, or with --auto over
\* those completed long enough ago.
SweepDone(s) ==
    /\ At(s, "sweep")
    /\ LET done == {i \in Issues : rows[i].status = Done /\ ~ rows[i].archived}
       IN  \E S \in {done} \cup SUBSET {i \in done : rows[i].completed} :
            rows' = [i \in Issues |->
                        IF i \in S
                        THEN [rows[i] EXCEPT !.archived = TRUE, !.stamp = @ + 1]
                        ELSE rows[i]]
    /\ Finish(s)
    /\ UNCHANGED <<issueSeq, recorded, written, faults>>

\* A statement fails (busy for longer than busy_timeout, disk error): the job
\* returns the error, what it committed before stays.
FailJob(s) ==
    /\ Running(s) /\ faults < MaxFaults
    /\ faults' = faults + 1
    /\ Finish(s) /\ UNCHANGED table

\* A process is killed, with everything its sessions were doing.
Kill(p) ==
    /\ faults < MaxFaults
    /\ faults' = faults + 1
    /\ \E s \in Session : Host[s] = p /\ pc[s] # "idle"
    /\ queue' = [queue EXCEPT ![p] = <<>>]
    /\ LET Reset(f, v) == [s \in Session |-> IF Host[s] = p THEN v ELSE f[s]]
       IN  /\ pc' = Reset(pc, "idle") /\ cmd' = Reset(cmd, NoCommand)
           /\ base' = Reset(base, Blank) /\ seen' = Reset(seen, Blank)
           /\ other' = Reset(other, Blank) /\ place' = Reset(place, 0)
    /\ UNCHANGED <<table, used>>

Job(s) ==
    \/ CreateIssue(s) \/ Read(s) \/ FindPlace(s) \/ MoveIssue(s) \/ RecordMove(s)
    \/ ArchiveIssue(s) \/ ReadOther(s) \/ PlaceFirst(s) \/ PlaceSecond(s)
    \/ AmendIssue(s) \/ Load(s) \/ EditIssue(s) \/ RefuseEdit(s)
    \/ Reread(s) \/ SaveIssue(s) \/ SweepDone(s)

Next ==
    \/ \E s \in Session :
        \/ \E c \in Ask(Issues) : Submit(s, c)
        \/ Resume(s) \/ Job(s) \/ FailJob(s)
    \/ \E p \in Process : Kill(p)

Spec == Init /\ [][Next]_vars

\* The writer thread of a process that lives takes the next job and runs it on.
FairSpec == Spec /\ \A s \in Session : WF_vars(Job(s))

(***************************************************************************)
(* Properties                                                              *)
(***************************************************************************)
TypeOK ==
    /\ issueSeq \in Nat /\ Issues = 1..issueSeq
    /\ rows \in [Issues -> Row]
    /\ recorded \in [Issues -> Status]
    /\ written \in [Issues -> SUBSET Session]
    /\ queue \in [Process -> Seq(Session)]
    /\ cmd \in [Session -> Ask(Issues) \cup {NoCommand}]
    /\ pc \in [Session -> PC]
    /\ base \in [Session -> Row] /\ seen \in [Session -> Row]
    /\ other \in [Session -> Row]
    /\ place \in [Session -> Nat]
    /\ used \in [Session -> Nat] /\ faults \in Nat

\* Every write is present afterward: an entry that `issue log`, `issue tick`,
\* `append-section` or an edit has committed stays in the description, whatever
\* other commands run around it.
NoLostEntries == \A i \in Issues : written[i] \subseteq rows[i].text

\* An issue that is not done carries no completion time: move_issue sets
\* completed_at on the way into `done` and clears it on the way out.
CompletedIsDone == \A i \in Issues : rows[i].completed => rows[i].status = Done

\* A move puts the issue at the end of its target column.
MovesGoToTheEnd ==
    [][\A s \in Session : MoveIssue(s) =>
         \A j \in Issues \ {cmd[s].on} :
            rows[j].status = cmd[s].to => rows[j].pos < rows'[cmd[s].on].pos]_vars

\* An edit with --if-updated-at drops no text that its user did not see: what it
\* replaces is what it was made from.
CasDropsNothing ==
    [][\A s \in Session : EditIssue(s) /\ cmd[s].op = "casEdit" =>
         rows[cmd[s].on].text \subseteq rows'[cmd[s].on].text]_vars

\* The activity trail tells where the issue is: once every job has run, and no
\* audit entry or process was lost, the last `status` entry leads to the status
\* the issue has.
TrailFollowsBoard ==
    (faults = 0 /\ \A p \in Process : queue[p] = <<>>) =>
        \A i \in Issues : recorded[i] = rows[i].status

\* A job that was submitted is answered, or dies with its process.
Waits(s) == \E k \in DOMAIN queue[Host[s]] : queue[Host[s]][k] = s
EveryJobEnds == \A s \in Session : Waits(s) ~> ~ Waits(s)

\* What users see of the issues: the atomic commands of Board.
Atomic == INSTANCE Board WITH
    Entry <- Session,
    issue <- [i \in Issues |-> Visible(rows[i])]
AtomicBoard == Atomic!Spec
=============================================================================

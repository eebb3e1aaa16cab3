------------------------------ MODULE Catalog ------------------------------
(***************************************************************************)
(* The CLI commands that are several jobs of the store, and what they      *)
(* share: `issue add`, `cp`, `import` and `edit` with their labels and     *)
(* relations, `label add` and `rm`, `milestone add`, `edit`, `log` and     *)
(* `rm`, `project note add`, `edit` and `archive`. Every command is a      *)
(* process of its own, so anything may happen between two of its jobs; a   *)
(* job is one step where the code opens a transaction and a step per       *)
(* statement where it does not.                                            *)
(*                                                                         *)
(* A description is the set of processes whose text is in it; updated_at   *)
(* counts the writes of its row; priority, due date and parent behave like *)
(* the milestone of an issue (SubIssues has the parent), and are left out. *)
(* A milestone is asked for by its exact name. MaxCommands bounds all      *)
(* commands together and MaxKills the killed ones. A definition under      *)
(* "Slip" is a wrong version of the one after it, which some property must *)
(* tell from the right one.                                                *)
(***************************************************************************)
EXTENDS Naturals, Sequences, SequencesExt

CONSTANTS
    Process,
    Commands,       \* the commands processes run
    None,           \* no milestone, no label, no issue
    FirstLabels,    \* the project's labels at the start
    FirstName,      \* the name of its one milestone
    FirstTags,      \* the labels of issue 1
    MaxCommands, MaxKills

\* The commands that write: those of `issue` that are several jobs (IssueBoard has the
\* rest); of `milestone`, whose `edit` is one of three and whose `rm` cancels; of
\* `project`, whose `rm` and `unarchive` are archives too.
IssueCmd == {"add", "import", "cp", "edit"}
LabelCmd == {"labelAdd", "labelRm"}
MilestoneCmd == {"milestoneAdd", "rename", "describe", "reopen", "cancel", "log"}
ProjectCmd == {"note", "projectArchive", "projectEdit"}

ASSUME CatalogAssumption ==
    /\ \A c \in Commands :
          /\ c.op \in IssueCmd \cup LabelCmd \cup MilestoneCmd \cup ProjectCmd
          /\ c.op \in {"edit", "projectEdit"} => c.cas \in BOOLEAN
          /\ c.op = "projectArchive" => c.archived \in BOOLEAN
    /\ FirstTags \subseteq FirstLabels

VARIABLES
    issues,     \* sequence of [milestone, text, stamp]
    tags,       \* issues_labels: issue -> labels
    labels,     \* the labels table
    edges,      \* issue_relation: <<from, to, kind>>
    milestones, \* sequence of [name, open, log]
    project,    \* [notes, archived, stamp]
    known,      \* process -> what its user knows of issue 1: [stamp, text]
    run,        \* process -> the command it runs and how far it has come
    used, kills

table == <<issues, tags, labels, edges, milestones, project>>
vars == <<table, known, run, used, kills>>

Nothing == [op |-> "none"]
NoRow == [name |-> None, open |-> TRUE, log |-> {}]

\* The local state of a command: the step it is at, the issue it works on, the jobs
\* still to do for it, the label names it read, the milestone it resolved or saw, the
\* line of an import, and what its user had read of the text it replaces.
Idle == [cmd |-> Nothing, at |-> "idle", issue |-> 0, todo |-> <<>>, names |-> {},
         target |-> 0, before |-> 0, row |-> NoRow, line |-> 1, copy |-> {}, token |-> 0,
         stale |-> FALSE]

Init ==
    /\ issues = <<[milestone |-> 0, text |-> {}, stamp |-> 0]>>
    /\ tags = <<FirstTags>>
    /\ labels = FirstLabels
    /\ edges = {}
    /\ milestones = <<[name |-> FirstName, open |-> TRUE, log |-> {}]>>
    /\ project = [notes |-> {}, archived |-> FALSE, stamp |-> 0]
    /\ known = [p \in Process |-> [stamp |-> 0, text |-> {}]]
    /\ run = [p \in Process |-> Idle]
    /\ used = 0 /\ kills = 0

\* milestones::get: the milestone of that name, 0 when there is none.
Named(n) == IF \E m \in DOMAIN milestones : milestones[m].name = n
            THEN CHOOSE m \in DOMAIN milestones : milestones[m].name = n
            ELSE 0

\* projects::update and milestones::update write every column of the row they are given.
Touched(row) == [row EXCEPT !.stamp = @ + 1]

At(p, step) == run[p].at = step
Cmd(p) == run[p].cmd
Goto(p, step) == run' = [run EXCEPT ![p].at = step]
End(p) == run' = [run EXCEPT ![p] = Idle]

\* A job fails: the command ends, and what its earlier jobs wrote stays.
Fail(p) == End(p) /\ UNCHANGED <<table, known, used, kills>>

(***************************************************************************)
(* Commands                                                                *)
(***************************************************************************)
IssueRun(c) ==
    CASE c.op \in {"add", "import"} -> "create"
      [] c.op = "cp" -> "shape"
      [] c.op = "edit" -> IF c.milestone = None THEN "snapshot" ELSE "resolve"

\* Whatever changes a milestone resolves its name first; add looks for it as it is.
MilestoneRun(c) == IF c.op = "milestoneAdd" THEN c.op ELSE "name"

\* A project's commands, and a label's, begin with the job they are about.
ProjectRun(c) == c.op

FirstStep(c) ==
    CASE c.op \in IssueCmd -> IssueRun(c)
      [] c.op \in MilestoneCmd -> MilestoneRun(c)
      [] OTHER -> ProjectRun(c)

\* What the user of c has before him when he writes the replacement it carries.
Reads(c) ==
    CASE c.op = "describe" /\ c.carry /\ Named(c.milestone) # 0 -> milestones[Named(c.milestone)].log
      [] c.op = "projectEdit" -> project.notes
      [] OTHER -> {}

Begin(p, c) ==
    /\ At(p, "idle") /\ used < MaxCommands
    /\ run' = [run EXCEPT ![p] =
         [Idle EXCEPT !.cmd = c, !.at = FirstStep(c), !.issue = 1, !.copy = Reads(c),
                      !.token = IF c.op = "projectEdit" THEN project.stamp ELSE known[p].stamp,
                      !.stale = c.op = "edit" /\ c.cas /\ known[p].stamp # issues[1].stamp]]
    /\ used' = used + 1
    /\ UNCHANGED <<table, known, kills>>

\* `issue show`.
Show(p) ==
    /\ At(p, "idle")
    /\ known' = [known EXCEPT ![p] = [stamp |-> issues[1].stamp, text |-> issues[1].text]]
    /\ UNCHANGED <<table, run, used, kills>>

Kill(p) ==
    /\ ~ At(p, "idle") /\ kills < MaxKills /\ kills' = kills + 1
    /\ End(p) /\ UNCHANGED <<table, known, used>>

(***************************************************************************)
(* issues::create, and the jobs that follow it one by one                  *)
(***************************************************************************)
\* The record `add` or one line of `import` asks for, or the shape `cp` read.
Asked(p) == IF Cmd(p).op = "import" THEN Cmd(p).lines[run[p].line] ELSE Cmd(p)

Jobs(kind, args) == [k \in DOMAIN args |-> [job |-> kind, arg |-> args[k]]]

\* Labels first, then --blocks, --blocked-by, --related-to, then what is removed.
JobsOf(c) ==
    Jobs("tag", c.tag) \o Jobs("untag", c.untag) \o Jobs("blocks", c.blocks)
    \o Jobs("blockedBy", c.blockedBy) \o Jobs("related", c.related)
    \o Jobs("unrelate", c.unrelate)

\* What a command does when it has no jobs left for its issue.
AfterJobs(p, r) ==
    CASE r.todo # <<>> -> [r EXCEPT !.at = "jobs"]
      [] Cmd(p).op = "edit" -> [r EXCEPT !.at = "reload"]
      [] Cmd(p).op = "import" /\ r.line < Len(Cmd(p).lines) ->
            [r EXCEPT !.at = "create", !.line = @ + 1]
      [] OTHER -> Idle

\* cp reads the source's milestone name and labels.
Shape(p) ==
    /\ At(p, "shape")
    /\ LET m == issues[1].milestone IN
       run' = [run EXCEPT ![p].at = "create", ![p].before = m,
                 ![p].target = IF m = 0 THEN None ELSE milestones[m].name,
                 ![p].todo = Jobs("tag", SetToSeq(tags[1]))]
    /\ UNCHANGED <<table, known, used, kills>>

WantedName(p) == IF Cmd(p).op = "cp" THEN run[p].target ELSE Asked(p).milestone
Pending(p) == IF Cmd(p).op = "cp" THEN run[p].todo ELSE JobsOf(Asked(p))

Create(p) ==
    /\ At(p, "create")
    /\ WantedName(p) = None \/ Named(WantedName(p)) # 0
    /\ issues' = Append(issues, [milestone |-> IF WantedName(p) = None THEN 0
                                               ELSE Named(WantedName(p)),
                                 text |-> {}, stamp |-> 0])
    /\ tags' = Append(tags, {})
    /\ project' = Touched(project)
    /\ run' = [run EXCEPT ![p] =
         AfterJobs(p, [@ EXCEPT !.issue = Len(issues) + 1, !.todo = Pending(p)])]
    /\ UNCHANGED <<labels, edges, milestones, known, used, kills>>

NoSuchMilestone(p) ==
    /\ At(p, "create") /\ WantedName(p) # None /\ Named(WantedName(p)) = 0
    /\ Fail(p)

Job(p) == Head(run[p].todo)
Doing(p, kinds) == At(p, "jobs") /\ Job(p).job \in kinds
Popped(p) == AfterJobs(p, [run[p] EXCEPT !.todo = Tail(@)])

\* add_label and remove_label read the names outside the transaction that writes them.
ReadTags(p) ==
    /\ Doing(p, {"tag", "untag"})
    /\ LET now == tags[run[p].issue] IN
       run' = [run EXCEPT ![p] =
         IF Job(p).job = "tag" /\ Job(p).arg \in now THEN Popped(p)
         ELSE [@ EXCEPT !.at = "setTags",
                        !.names = IF Job(p).job = "tag" THEN now \cup {Job(p).arg}
                                  ELSE now \ {Job(p).arg}]]
    /\ UNCHANGED <<table, known, used, kills>>

\* Slip: only the label the command names is looked up.
UpsertedOne(p) == IF Job(p).job = "tag" THEN labels \cup {Job(p).arg} ELSE labels

\* labels::upsert_many: labels that are not there are created.
Upserted(p) == labels \cup run[p].names

\* set_labels: the issue gets these names and no others.
SetTags(p) ==
    /\ At(p, "setTags")
    /\ labels' = Upserted(p)
    /\ tags' = [tags EXCEPT ![run[p].issue] = run[p].names]
    /\ run' = [run EXCEPT ![p] = Popped(p)]
    /\ UNCHANGED <<issues, edges, milestones, project, known, used, kills>>

\* The rows one --blocks, --blocked-by or --related-to asks for.
EdgesOf(i, job) ==
    CASE job.job = "blocks" -> {<<i, job.arg, "blocks">>}
      [] job.job = "blockedBy" -> {<<job.arg, i, "blocks">>}
      [] job.job = "related" -> {<<i, job.arg, "related_to">>, <<job.arg, i, "related_to">>}

Relatable(p) == Job(p).arg \in DOMAIN issues /\ Job(p).arg # run[p].issue

Relate(p) ==
    /\ Doing(p, {"blocks", "blockedBy", "related"}) /\ Relatable(p)
    /\ edges' = edges \cup EdgesOf(run[p].issue, Job(p))
    /\ run' = [run EXCEPT ![p] = Popped(p)]
    /\ UNCHANGED <<issues, tags, labels, milestones, project, known, used, kills>>

RelateRefused(p) ==
    Doing(p, {"blocks", "blockedBy", "related"}) /\ ~ Relatable(p) /\ Fail(p)

\* --remove-relation removes all that ties the two, and ignores what is not there.
Unrelate(p) ==
    /\ Doing(p, {"unrelate"})
    /\ edges' = {e \in edges : {e[1], e[2]} # {run[p].issue, Job(p).arg}}
    /\ run' = [run EXCEPT ![p] = Popped(p)]
    /\ UNCHANGED <<issues, tags, labels, milestones, project, known, used, kills>>

(***************************************************************************)
(* issue edit                                                              *)
(***************************************************************************)
Resolve(p) ==
    /\ At(p, "resolve") /\ Named(Cmd(p).milestone) # 0
    /\ run' = [run EXCEPT ![p].at = "snapshot", ![p].target = Named(Cmd(p).milestone)]
    /\ UNCHANGED <<table, known, used, kills>>

ResolveFails(p) == At(p, "resolve") /\ Named(Cmd(p).milestone) = 0 /\ Fail(p)

Snapshot(p) ==
    /\ At(p, "snapshot")
    /\ run' = [run EXCEPT ![p].before = issues[1].milestone,
                 ![p].at = IF Cmd(p).text \/ Cmd(p).milestone # None THEN "update"
                           ELSE "confirm"]
    /\ UNCHANGED <<table, known, used, kills>>

CheckCas(p) == Cmd(p).cas => run[p].token = issues[1].stamp

StartJobs(p) == run' = [run EXCEPT ![p] = AfterJobs(p, [@ EXCEPT !.todo = JobsOf(Cmd(p))])]

\* The fields, in a BEGIN IMMEDIATE transaction.
Update(p) ==
    /\ At(p, "update") /\ CheckCas(p)
    /\ issues' = [issues EXCEPT ![1] =
         [milestone |-> IF Cmd(p).milestone = None THEN @.milestone ELSE run[p].target,
          text |-> IF Cmd(p).text THEN known[p].text \cup {p} ELSE @.text,
          stamp |-> @.stamp + 1]]
    /\ StartJobs(p)
    /\ UNCHANGED <<tags, labels, edges, milestones, project, known, used, kills>>

\* Slip: without a field to write the token is not looked at.
ConfirmBlind(p) ==
    /\ At(p, "confirm")
    /\ StartJobs(p)
    /\ UNCHANGED <<table, known, used, kills>>

\* No field changes: the job only reads the row, and checks the token all the same.
Confirm(p) ==
    /\ At(p, "confirm") /\ CheckCas(p)
    /\ StartJobs(p)
    /\ UNCHANGED <<table, known, used, kills>>

EditStale(p) == (At(p, "update") \/ At(p, "confirm")) /\ ~ CheckCas(p) /\ Fail(p)

\* The row is read again for the trail entry and for the echo, whose updated_at is the
\* user's next token; of the text the user knows what he wrote himself.
Reload(p) ==
    /\ At(p, "reload")
    /\ known' = [known EXCEPT ![p].stamp = issues[1].stamp,
                              ![p].text = IF Cmd(p).text THEN @ \cup {p} ELSE @]
    /\ End(p)
    /\ UNCHANGED <<table, used, kills>>

(***************************************************************************)
(* Labels                                                                  *)
(***************************************************************************)
\* labels::create looks for the name and inserts it; the unique index decides a race.
LabelLook(p) ==
    /\ At(p, "labelAdd")
    /\ IF Cmd(p).label \in labels THEN End(p) ELSE Goto(p, "labelInsert")
    /\ UNCHANGED <<table, known, used, kills>>

LabelInsert(p) ==
    /\ At(p, "labelInsert")
    /\ labels' = labels \cup {Cmd(p).label}
    /\ End(p)
    /\ UNCHANGED <<issues, tags, edges, milestones, project, known, used, kills>>

\* ON DELETE CASCADE takes the label off every issue.
LabelRm(p) ==
    /\ At(p, "labelRm")
    /\ labels' = labels \ {Cmd(p).label}
    /\ tags' = [i \in DOMAIN tags |-> tags[i] \ {Cmd(p).label}]
    /\ End(p)
    /\ UNCHANGED <<issues, edges, milestones, project, known, used, kills>>

(***************************************************************************)
(* Milestones                                                              *)
(***************************************************************************)
MilestoneLook(p) ==
    /\ At(p, "milestoneAdd")
    /\ IF Named(Cmd(p).milestone) # 0 THEN End(p) ELSE Goto(p, "milestoneInsert")
    /\ UNCHANGED <<table, known, used, kills>>

\* Slip: no unique index on (project, name).
InsertMilestoneAnyway(p) ==
    /\ At(p, "milestoneInsert")
    /\ milestones' = Append(milestones, [name |-> Cmd(p).milestone, open |-> TRUE, log |-> {}])
    /\ End(p)
    /\ UNCHANGED <<issues, tags, labels, edges, project, known, used, kills>>

InsertMilestone(p) ==
    /\ At(p, "milestoneInsert") /\ Named(Cmd(p).milestone) = 0
    /\ milestones' = Append(milestones, [name |-> Cmd(p).milestone, open |-> TRUE, log |-> {}])
    /\ End(p)
    /\ UNCHANGED <<issues, tags, labels, edges, project, known, used, kills>>

InsertRefused(p) == At(p, "milestoneInsert") /\ Named(Cmd(p).milestone) # 0 /\ Fail(p)

\* resolve_name lists the project's milestones in a job of its own.
ResolveName(p) ==
    /\ At(p, "name") /\ Named(Cmd(p).milestone) # 0
    /\ run' = [run EXCEPT ![p].at = "milestone", ![p].row = milestones[Named(Cmd(p).milestone)]]
    /\ UNCHANGED <<table, known, used, kills>>

\* Slip: the row that resolve_name listed is the one written back.
CurrentListed(p) == run[p].row

\* The row the transaction of apply_edit or of log reads.
Current(p) == milestones[Named(Cmd(p).milestone)]

\* A replacement that loses the Activity Log section is refused, and so is a taken name.
Refused(p) ==
    \/ Named(Cmd(p).milestone) = 0
    \/ /\ Named(Cmd(p).milestone) # 0 /\ Cmd(p).op = "describe"
       /\ Current(p).log # {} /\ run[p].copy = {}
    \/ Cmd(p).op = "rename" /\ Named(Cmd(p).to) \notin {0, Named(Cmd(p).milestone)}

Changed(p) ==
    CASE Cmd(p).op = "rename" -> [Current(p) EXCEPT !.name = Cmd(p).to]
      [] Cmd(p).op = "describe" -> [Current(p) EXCEPT !.log = run[p].copy]
      [] Cmd(p).op = "reopen" -> [Current(p) EXCEPT !.open = TRUE]
      [] Cmd(p).op = "cancel" -> [Current(p) EXCEPT !.open = FALSE]
      [] Cmd(p).op = "log" -> [Current(p) EXCEPT !.log = @ \cup {p}]

\* milestones::update in the BEGIN IMMEDIATE transaction of apply_edit or of log.
ChangeMilestone(p) ==
    /\ At(p, "milestone") /\ ~ Refused(p)
    /\ milestones' = [milestones EXCEPT ![Named(Cmd(p).milestone)] = Changed(p)]
    /\ End(p)
    /\ UNCHANGED <<issues, tags, labels, edges, project, known, used, kills>>

MilestoneRefused(p) ==
    /\ \/ At(p, "name") /\ Named(Cmd(p).milestone) = 0
       \/ At(p, "milestone") /\ Refused(p)
    /\ Fail(p)

(***************************************************************************)
(* The project's row: each command is one BEGIN IMMEDIATE transaction      *)
(***************************************************************************)
ProjectWrite(p, row) ==
    /\ project' = Touched(row)
    /\ End(p)
    /\ UNCHANGED <<issues, tags, labels, edges, milestones, known, used, kills>>

NoteAdd(p) == At(p, "note") /\ ProjectWrite(p, [project EXCEPT !.notes = @ \cup {p}])

SetArchived(p) ==
    At(p, "projectArchive") /\ ProjectWrite(p, [project EXCEPT !.archived = Cmd(p).archived])

ProjectCasOk(p) == Cmd(p).cas => run[p].token = project.stamp

ProjectEdit(p) ==
    /\ At(p, "projectEdit") /\ ProjectCasOk(p)
    /\ ProjectWrite(p, [project EXCEPT !.notes = run[p].copy])

ProjectStale(p) == At(p, "projectEdit") /\ ~ ProjectCasOk(p) /\ Fail(p)

Step(p) ==
    \/ Shape(p) \/ Create(p) \/ NoSuchMilestone(p)
    \/ ReadTags(p) \/ SetTags(p) \/ Relate(p) \/ RelateRefused(p) \/ Unrelate(p)
    \/ Resolve(p) \/ ResolveFails(p) \/ Snapshot(p) \/ Update(p) \/ Confirm(p)
    \/ EditStale(p) \/ Reload(p)
    \/ LabelLook(p) \/ LabelInsert(p) \/ LabelRm(p)
    \/ MilestoneLook(p) \/ InsertMilestone(p) \/ InsertRefused(p)
    \/ ResolveName(p) \/ ChangeMilestone(p) \/ MilestoneRefused(p)
    \/ NoteAdd(p) \/ SetArchived(p) \/ ProjectEdit(p) \/ ProjectStale(p)

Next == \E p \in Process : (\E c \in Commands : Begin(p, c)) \/ Show(p) \/ Kill(p) \/ Step(p)

Spec == Init /\ [][Next]_vars

(***************************************************************************)
(* Properties                                                              *)
(***************************************************************************)
TypeOK ==
    /\ Len(tags) = Len(issues)
    /\ \A i \in DOMAIN issues : issues[i].milestone \in 0..Len(milestones)
    /\ \A e \in edges : e[1] \in DOMAIN issues /\ e[2] \in DOMAIN issues
    /\ used \in 0..MaxCommands /\ kills \in 0..MaxKills

\* Every label an issue carries is a label of the project, whoever removed one while
\* another command was between reading and writing the labels of an issue.
TagsHaveLabels == \A i \in DOMAIN tags : tags[i] \subseteq labels

\* Two milestones never have one name, although `milestone add` looks for the name in
\* one statement and inserts in another, and renames run beside it.
OneMilestonePerName ==
    \A m, n \in DOMAIN milestones : milestones[m].name = milestones[n].name => m = n

\* An edit that was given an outdated token changes nothing: not the fields it guards,
\* and not the labels and relations it writes in later jobs.
StaleEditsChangeNothing ==
    [][\A p \in Process : run[p].stale /\ run'[p] # run[p] => UNCHANGED table]_vars

Replaces(p, step) == At(p, step) /\ run'[p].at = "idle"

\* The log of a milestone is the only copy of that record. `log`, renames, cancels and
\* reopenings running beside each other lose no entry, and undo neither each other's
\* status nor name; a full replacement loses only what came after its user read the log,
\* and a project edit under a token loses no note.
RecordsStay ==
    [][/\ \A m \in DOMAIN milestones :
            /\ \/ milestones[m].log \subseteq milestones'[m].log
               \/ \E p \in Process : /\ Replaces(p, "milestone") /\ Cmd(p).op = "describe"
                                     /\ {} # run[p].copy /\ run[p].copy \subseteq milestones'[m].log
            /\ milestones[m].open # milestones'[m].open =>
                 \E p \in Process : Replaces(p, "milestone") /\ Cmd(p).op \in {"reopen", "cancel"}
       /\ \/ project.notes \subseteq project'.notes
          \/ \E p \in Process : Replaces(p, "projectEdit") /\ ~ Cmd(p).cas]_vars

(***************************************************************************)
(* Not so. Each of these is violated: the README says how and why.         *)
(***************************************************************************)
\* Not so: "the echo is a valid CAS token, so edits chain". The echo is read in a job
\* after the edit's own, and its token may stand for another's text.
ChainedEditsLoseNothing ==
    [][\A p \in Process :
         At(p, "update") /\ run'[p] # run[p] /\ Cmd(p).text /\ Cmd(p).cas =>
            issues[1].text \subseteq issues'[1].text]_vars

\* Not so: adding a label never takes another one off the issue.
AddedLabelsAddUp ==
    [][\A p \in Process :
         At(p, "setTags") /\ run'[p] # run[p] /\ Job(p).job = "tag" =>
            tags[run[p].issue] \subseteq tags'[run[p].issue]]_vars

\* Not so: a label that was removed comes back only by a command that names it.
RemovedLabelsStay ==
    [][\A p \in Process :
         At(p, "setTags") /\ run'[p] # run[p] => labels' \ labels \subseteq {Job(p).arg}]_vars

\* Not so: the trail entry of an edit tells only what that edit changed.
EditTellsItsOwn ==
    \A p \in Process : At(p, "reload") /\ Cmd(p).milestone = None =>
        issues[1].milestone = run[p].before

\* Not so: a copy is filed under the milestone its source was in when it was read.
CopyKeepsMilestone ==
    [][\A p \in Process :
         At(p, "create") /\ run'[p] # run[p] /\ Cmd(p).op = "cp" /\ issues' # issues =>
            issues'[Len(issues')].milestone = run[p].before]_vars

\* Not so: an issue added with --blocked-by is never offered by `issue ls --ready`
\* before its blocker is done.
Ready(i) == ~ \E e \in edges : e[2] = i /\ e[3] = "blocks"

ReadyWaitsForBlockers ==
    \A p \in Process : Cmd(p).op = "add" /\ run[p].issue > 1 /\ Cmd(p).blockedBy # <<>> =>
        ~ Ready(run[p].issue)
=============================================================================

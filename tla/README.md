# Verification of cliban

TLA+ models, TLC configurations and TLAPS proofs for **cliban**, a kanban board
kept in one SQLite file and driven by a CLI, a TUI, an SSH daemon, a VS Code
extension, a Linear bridge and a git workflow dispatcher.
Paths below are relative to the repository root (`src/` here).

## 1. Inventory

### 1.1 Parts, state, operations

| Part | Source | State it keeps | Operations |
|---|---|---|---|
| Store | `crates/cliban-core/src/store.rs` | one writer thread and one SQLite connection per process (WAL, foreign keys, `busy_timeout` 5000) | `open`, `call` (a job run to its end on the writer thread) |
| Migrations | `cliban-core/src/migrations.rs` | `schema_migrations` ledger, DDL | `run`: fresh install, fold of legacy ledgers, leave a newer ledger alone, lazily created `claims` and `remote_links` |
| Issues | `cliban-core/src/contexts/issues.rs`, `cliban/src/cmd/issue.rs` | `issues` rows, `projects.issue_seq`, `issue_labels` | `add`, `edit` (compare-and-swap on `updated_at`), `mv`, `archive`/`unarchive`/`rm`, `log`, `tick`, `append-section`, `promote`, `cp`, `import`, `archive-done` |
| Claims | `contexts/claims.rs` | `claims`: at most one row per issue | `claim` (optionally forced), `release` |
| Relations, readiness | `contexts/relations.rs` | `issue_relations` (`blocks`, `related_to` in both directions, ...) | `add`, `remove`, `for_issue`, `list_ready` |
| Milestones, waves | `contexts/milestones.rs`, `cmd/milestone.rs` | `milestones` rows | `create`, `update`, `delete`, `summaries`, `waves` (Kahn layering of the blocking graph plus predicted file collisions) |
| Projects, labels | `contexts/projects.rs`, `contexts/labels.rs` | `projects`, `labels` | create, update, archive, delete (cascade) |
| Activity | `contexts/activity_log.rs`, `audit.rs` | `activity_log` | `record`, `record_move`, listings |
| Descriptions | `sections.rs`, `cliban/src/descmd.rs`, `lint.rs` | the Markdown description of an issue, its `## Spec/Plan/Notes/Activity Log` sections | find, replace, append, sanitize a section; tick a step; canonicalize a plan; predicted files; lint |
| Linear bridge | `cliban-sync/src`, `cmd/sync.rs` | `remote_links` (unique per local and per remote id), the remote issue | `import`, `import --mine`, `sync`, `push [--create]`, push on move |
| Tenancy | `cliban-tenancy/src` | `registry.db`: tenants, users, pubkeys, memberships, invites; cached tenant handles; tenant db files | enroll, create tenant under caps, invite, redeem, handle, delete, export |
| Server | `cliban-server/src` | sessions, ptys, live boards per channel, change feed | public key authentication, `exec` commands, shell (board), resize, eof/close |
| TUI | `cliban-tui/src` | `App` (mode, focus, scope, undo), cached cards | `update`, dispatch of a command, `reload`, edits through `$EDITOR`, byte/SGR input decoding |
| VS Code | `editors/vscode/src`, `webview` | `BoardStore` (issues, pending optimistic patches, feed), watcher timers | refresh, optimistic move with commit/rollback, merge of the activity feed, section edits with compare-and-swap |
| Flow dispatcher | `plugin-flow/scripts/cliban-flow` | git branches and worktrees, board state | `milestone start/status/finish/abandon`, `ticket start/status/sync/ready/integrate/abandon` |
| Presentation | `output.rs`, `brief.rs`, `search.rs`, `ui/*`, `webview/styles.css` | none | rendering, search, wording |

### 1.2 How they interact

* Every CLI invocation, TUI and MCP-style agent is an operating system process of
  its own that opens the same database file. Inside one process `Store::call`
  runs jobs one after another; between processes only what SQLite makes atomic is
  atomic: one autocommit statement, or one `BEGIN IMMEDIATE ... COMMIT`.
* `cliband` opens one store per tenant and shares it between all SSH sessions;
  there a whole job is atomic, because nobody else opens the file.
* A CLI command is usually several jobs (resolve the issue, write, record the
  audit entry, set labels, ...) and a job is often several statements. The gaps
  between them are where other processes step in.
* `issues::update` writes every column but `completed_at` from the row its caller
  read, so a caller that read the row outside the transaction writes back what it saw.
* Audit entries are best effort (`audit::record` swallows its errors).
* The Linear bridge reads the board, waits for HTTP, and writes the board; the
  flow dispatcher reads git and the board, then writes both; the extension
  applies optimistic patches and folds in echoes, refreshes and watcher events.

### 1.3 What is hard

Interleavings of processes between statements and jobs; snapshots written back
after somebody else committed; multi-job commands that stop half way; a claim
checked and then taken; graph algorithms over edges that may be cyclic or leave
the milestone; retries of a push whose first half succeeded; a handle cached
while its tenant is deleted; git tips that move between a gate and what the gate
admits. `PROJECT.json` lists the hazards at their lines.

## 2. Plan

The order is by what a wrong answer costs the people and agents who share a board.

| # | Module | Models | State |
|---|---|---|---|
| 1 | `Board`, `IssueBoard` | what issues promise; the commands of CLI, TUI and server statement by statement | done |
| 2 | `Claims`, `TicketStart` | claims; the dispatcher that relies on them | done |
| 3 | `Waves` | the dependency layers of a milestone | done |
| 4 | `SubIssues` | the parent tree | done |
| 5 | `LinearBridge` | import, sync and push over HTTP calls that fail half way, on a board others write | done |
| 6 | `Integrate` | ticket sync, ready, integrate, abandon; git tips that move between a gate and what it admits; milestone start, finish, abandon | done |
| 7 | `Documents` | every command that writes a description, over lines a parser tells apart; lint; cp | done |
| 8 | `Tenancy` | the registry, handles, delete, export, invites; control commands and boards of the SSH server | done |
| 9 | `Catalog` | commands of several jobs: add, cp, import, edit; labels; milestones; the project's row | done |
| 10 | `Editor` | the extension: optimistic moves, refreshes, drawer, drafts, documents | done |
| 11 | `TuiApp` | the TUI's state over a board others change: cursor, scope, undo, prompts, pages, `$EDITOR` | done |
| 12 | `Migrations`, `Store` | ledgers, and what processes that open one file at once do to it; the commands of `SubIssues` above that | done |

`TicketStart` composes with `Claims` (it EXTENDS it and runs its commands, and
`MixedSpec` lets others run them by hand beside it). `Store` composes `SubIssues`
with `Migrations`: commands run in processes that have opened the file. `IssueBoard` refines the
abstract `Board`. `Tenancy`, `Editor` and `TuiApp` each hold both sides of their
interaction: users and the server, a host and the processes it spawns, a session
and the database under it.

What a next step would take first: the texts of `OldNotesAreKept` and `CopyIsFresh`,
once a prover can do an induction over a sequence.

## 3. The modules

Conventions. A module has one action per statement or transaction of the code,
named after the code. A definition under a comment that says *Slip* is a
plausible wrong version of the definition below it; it takes no part in any
specification, and is there so that each property can be seen to fail on it
(`PROJECT.json`, "mutants"). Session, issue, actor and column names are model values.

### 3.1 `Board` and `IssueBoard`

`Board` is the abstract specification: a command changes, at one instant, what it
was asked to change on the issue as it then is: `Create`, `Move`, `SetArchived`,
`Sweep` (archive-done), `Amend` (log, tick, append-section), `Rewrite` (a user
replaces the description). Positions and `updated_at` are not part of the promise.

`IssueBoard` is the code. The correspondence:

| TLA+ | code |
|---|---|
| `rows[i]` | the row of issue `KEY-i`: status, position (in units of 1000), completed_at set or not, archived, description, updated_at |
| `issueSeq` | `projects.issue_seq` |
| `recorded[i]` | the status the last `status` entry of `activity_log` leads to |
| `queue[p]` | the channel of process `p`'s writer thread, head running |
| `cmd`, `pc`, `seen`, `other`, `place` | the locals of the job: the command, the next statement, rows read, position computed |
| `base[s]` | what a user was shown before an edit (`issue show`, the `$EDITOR` buffer) |
| `written[i]` | history: entries whose transaction committed |

`Submit` is `Store::call`; `Read`/`FindPlace`/`MoveIssue`/`RecordMove` are
`issue mv` and the TUI's move; `Read`/`ArchiveIssue` archive, unarchive and `rm`;
`Read`/`ReadOther`/`PlaceFirst`/`PlaceSecond` the TUI's reorder; `AmendIssue` the
commands that extend the description in one IMMEDIATE transaction;
`Load`/`Resume`/`EditIssue`/`RefuseEdit` the agent's edit, with or without
`--if-updated-at`; `Load`/`Resume`/`Read`/…/`Reread`/`SaveIssue` the TUI's
`$EDITOR` edit; `SweepDone` archive-done; `FailJob` a statement that fails after
`busy_timeout`; `Kill` a killed process. `WriteBack` is `do_update`: every column
but completed_at, from the row the caller read.

Abstractions: a description is the set of entries written into it, one entry per
session; `updated_at` is a number that every write makes new (the code has
microseconds); priority, title, milestone and labels behave as the description
does in `WriteBack` and are left out.

### 3.2 `Claims` and `TicketStart`

`holder` is the `issue_claims` row. `claim` is `LookOwn`/`LookRefused`/`LookFree`
and then `Upsert`; `release` is `LookHolder` and `DeleteClaim`. `steady` is
history: who has held the issue ever since a session's command began. `TicketStart` is the shell script: `phase` is where it
stands, `issueStatus` and `issueClaimedBy` its `ISSUE_STATUS` and
`ISSUE_CLAIMED_BY`; `branch` and `worktree` are git's side. `StartClaim`,
`UndoClaim` start commands of `Claims`, `CommandRuns` runs them on, so all their
races are in the composition; in the run (`MixedSpec` of `MCTicketStart`) sessions
of `Outsider` claim and release the ticket by hand. `RollBack` is `rollback_ticket_start`, and
`UndoFails` its `|| warn`: a move that cannot be undone is left, a release that fails ends
the script "warned", which is the one way a refusal keeps its claim. A killed script is one
that takes no further step, so what is said of safety is said of killed ones too, with what they
hold when they stop; only `EveryStartEnds` assumes that none is. A worktree
that does not exist at the path, a clean milestone worktree and a valid branch
name are taken as met.

### 3.3 `Waves`

The locals of `waves` (`nodes`, `intra`, `external`, `remaining`, `scheduled`,
`waves`, `extBlocked`, `cyclic`) and the board it reads. `ReadNodes` and
`ReadEdges` are the two SELECTs; `MoveIssue`, `ArchiveIssue`, `TagIssue`,
`RelateIssues` are other processes between them; `Layer`, `LayersDone`, `Drain`,
`Verdict` the two loops and the verdict. Predicted files (`collisions`) and the
order inside a wave are left out: no decision depends on them.

### 3.4 `SubIssues`, `Migrations`, `Store`

`parent` is parent_id. `Create`, `Promote`, `SetParent` validate and write in one
transaction; `ReadRow`/`WriteRow` are any full-row writer with a stale row.

`Migrations` is `migrations::run`, which every process goes through before its
store serves a job, and `Store` lets the commands of `SubIssues` begin there.

| TLA+ | code |
|---|---|
| `ledger`, `tables` | the versions in `schema_migrations`, by what this build takes them for; the tables there are |
| `notes`, `memory` | the rows of the superseded `notes` table by id; the project's description, as lines |
| `pc`, `saw`, `held` | where a process stands in `run`, the versions it read, the notes its transaction selected |
| `commits`, `snap` | how often the file has changed; that number when a transaction took its snapshot |
| `found`, `folded`, `written` | history: the description that was there, the rows folded into it, every note there ever was |

`AskLedger`, `CreateSchema`, `ReadVersions`, `SelectNotes`, `CommitMigration` are
the statements of `run`; a transaction whose snapshot is old when it writes fails, as
SQLite has it for a deferred one. `Demoted`, `AppendNotes`, `Folded` are the text
functions of the fold. `OldBuildAdds` is a process of the build that had notes.

Abstractions: one project stands for all, since each is folded from its own rows
inside the one transaction; descriptions and notes have no fence that is never
closed (a `## Notes` put after one would be inside it). What a file may be before
(`Sound`) is what earlier builds leave: a ledger is written with its tables.

### 3.5 `LinearBridge`

Commands of `cliban linear` as steps between which anything may happen. A step
is one HTTP call, one job that writes the store, or the reads between two of these.

| TLA+ | code |
|---|---|
| `rows[l]` | the local issue: who wrote its `## Spec` (the board, or remote number n), status, archived, and its `## Plan` as the set of ticks |
| `links[l]` | its `remote_links` row: remote_id, remote_updated_at (`seen`), origin, progress_comment_id |
| `remotes[r]`, `comments[c]` | Linear's issue (state, description as the set of people's changes, updatedAt) and the comments pushes made |
| `job[s]` | a command: where it stands (`pc`), its arguments, the row, link and copy of the remote it holds (`item`), the list a batch works through (`todo`) |
| `made`, `exposed` | history: ticks and changes of text; those made while some command held the copy it would write back |
| `heard[l]` | history: the updatedAt of the copy that `rows[l]` was last refreshed from |
| `mishaps` | history: failed commands, commands begun while another ran, adoptions of a linked issue |
| `touched`, `last`, `by`, `from`, `for` | history in the records: people's last change, and what created what |

`import` is `FetchIssue`, one of the three `Resolve` steps, `CreateRow` (and
`ArchiveCreated`) or `Refresh`, `RecordLink`; `import --mine` is `FetchMine` and
the same for each issue; `sync` is `ReadLinks` and for each link `FetchLinked`,
`Refresh`, `RecordLink`; `push` is `ReadIssue`, `CreateRemote` or `Guard`,
`UpdateRemote`, `EditComment` or `CreateComment`, `RecordLink`, `SetComment`.
`push_on_move` runs a push without `--create` and `--force`. `Abort` is a call
that fails or a process that is killed; a call whose reply is lost is the call
followed by `Abort`. `Tick`, `MoveIssue` are other commands on the board,
`Person...` are people on Linear.

Abstractions: titles, priorities, due dates and labels behave as the status does
and are left out, as is `base_hash`, which only words a warning. A team has a
state for every status (`to_linear` may find none; the push then leaves the
state alone, as it does when it is the same). A comment does not change the updatedAt of its issue, and deleting
an issue deletes its comments: assumptions on Linear, which is not under `src/`.

### 3.6 `Integrate`

`cliban-flow` after `ticket start`. Every git and every cliban call is a process,
so each is a step, and a script's variables are what it read in an earlier step.

| TLA+ | code |
|---|---|
| `commits` | git's history; of a commit the commits reachable from it (`past`), its tree, its `Ticket:` trailer and the branch it was made on |
| `head`, `wt`, `mergeHead`, `staged` | branch tips; the state of each worktree; MERGE_HEAD; the index of the milestone's worktree after `merge --squash` |
| `status`, `ready`, `discarded` | the ticket's column, its last "ready" line (tip and milestone tip), its "work discarded:" line |
| `pc`, `orch` | where the agent's and the orchestrator's script stands; `orch.ttip` is the tip read for the gate |
| `landed`, `mishaps` | history: the tip an integrate was about when it said done; kills and abandons |

`ticket sync`, `ready`, `integrate`, `abandon`, `milestone start`, `finish` and
`abandon` are actions of one step per call; agents commit whenever they like, a
person commits to main and merges it. The code is right to look after it commits
(`IntegrateCommit` and what follows it): the squash goes by branch name.

Abstractions: a tree is the set of commits whose change is in it, so a merge is a
union and never conflicts by itself (a conflict is a worktree that stays
"merging"). One agent command per ticket and one command of the orchestrator at a time, as the
orchestrator waits for each: finish and integrate of two orchestrators do not overlap.
main drifts at any moment (`MainDrifts`), but the milestone's worktree is moved only
between the orchestrator's commands (`MergeMain`), since it is the orchestrator that
dispatches the agent who merges there; if it moved between the gate and the squash,
`DoneAsGated` would not hold, as integrate looks again at the ticket's tip only. An
abandoned milestone is not started again; the state of the primary checkout is taken as met.

### 3.7 `Documents`

A description is a sequence of lines; a line is what the Markdown parser takes it
for (`h2`, `h3`, `open`, `done`, `entry`, `fence`, `text`), inside a code block
only text. Reading is `Heading`, `Body`, `StepsOf`, `EntriesAt`; writing is one
action per command (`EditSection`, `AppendSection`, `Log`, `Tick`, `Promote`,
`Refresh`), with `sanitize_section_body` (`Admissible`,
`Sanitized`), `check_section_structure` (`StructureKept`) and `canonicalize_plan` (`Canonical`) as operators. `LintClean` is `lint.rs`, `Counted` the bridge's `plan_progress`,
`CopyDescription` what `cp` keeps. The initial states are *all* descriptions of
up to `MaxLines` lines, so the invariants are checked of the functions too.
Every caller's payload is one of ten (`MCDocuments`), those that are refused included.

### 3.8 `Tenancy`

A connection authenticates with one of its keys, runs control commands (enroll,
create, invite, redeem, pick a board) and has one board. A registry call is one
step, as it runs under the registry's mutex. `handle`, `delete_tenant` and
`export_tenant` are taken apart: take the handles' mutex, ask the registry, open
or unlink, let go. `wal[t]` is how many writes were committed, `main[t]` how many
of them were checkpointed; `cached[t]` and a board's `store` say which open store
it is. `Crash` ends the process with all it had in memory and keeps the files.

| TLA+ | code |
|---|---|
| `users`, `slug`, `role`, `invites`, `ids`, `codes` | `registry.db` |
| `file`, `wal`, `main` | the tenants' database files |
| `cached`, `lock` | `TenantManager::handles` and its mutex |
| `conn[c]` | a connection: user, the list it was shown, its tenant, store, dirty flag, and how much of the board it shows |
| `op` | the operator's delete or export |
| `erased` | history: tenants whose delete answered Ok |

Left out: signup policy and rate limits, ptys, the caps as a property of their
own (counting and inserting are one registry call). The model has the caps as
guards, so the run has the refusals.

### 3.9 `Editor`

The extension knows the board only through processes it spawns. `Call` makes one,
`RunCall(kind)` is when it works on the database or fails, and `Refreshed`, `Moved`, `Created`,
`Detail`, `Ticked`, `Edited`, `DocRead`, `DocReadFails`, `DocSaved` are the handlers of its answer, which
come in any order. Of a refresh or an opening that fails only a message comes, so it is dropped.
`shown`, `pending` are `BoardStore`; `form`, `createPending`,
`drawer`, `edits`, `restore` the webview; `doc`, `cas` the document and the token
`docs.ts` pins; `changed` the debounce. VS Code's own part (reading a clean document
again, refusing a save over a newer file) is external, as `docs.ts` counts on it.

One issue stands for the board; its description is the set of edits in it.
Filters, metadata edits, project switch and rendering are left out.

### 3.10 `TuiApp`

A key acts on `seen`, the copy the session loaded last; its command runs on `db`
and the copy is loaded again. `focus`, `mode`, `scope`, `undo` are `App`'s;
`edit` is the `$EDITOR` buffer; `over` is an event loop that returned an error.
There is one action per key of each mode (`NormalKeys`, `Clicks`, `PopupKeys`,
`MoveKeys`, `ArchiveKeys`, `FormKeys`, ... as in `keybinds.rs`), each with the
command it dispatches and the reload, and `Other` for the rest of the world. A save may be
refused after it has moved the card (`SaveRefused`). `touched` and `base` are history for the
undo property, which is about columns and being archived: the order within a column, which
swaps change, is not part of it.

Pages and the `/` list find their rows again at each key and are one step from
the board. Left out: text typed into fields and filters, the editing of projects, others who remove an
issue for good (`issue rm`; they do archive), and `OpenMilestonePicker`, which no key is bound to.

### 3.11 `Catalog`

The commands that are several jobs. `run[p]` is a command: its arguments, the step
it is at, the jobs still to do for its issue (`todo`: labels first, then relations,
then removals), what it read (`names`, `target`, `row`), and what its user had
before him (`copy`, `token`). A job is one action where the code opens a
transaction, and one per statement where it does not: `ReadTags`/`SetTags`,
`LabelLook`/`LabelInsert`, `MilestoneLook`/`InsertMilestone`. `Kill` between any two.

| TLA+ | code |
|---|---|
| `issues`, `tags`, `labels`, `edges` | `issues` (milestone, description, updated_at), `issue_labels`, `labels`, `issue_relations` |
| `milestones`, `project` | their rows; a milestone's `log` is its `## Activity Log` |
| `known[p]` | what the user of p knows of issue 1: token and text |

`IssueCmd`, `LabelCmd`, `MilestoneCmd`, `ProjectCmd` are the clap enums a command
comes from, `FirstStep` and `IssueRun`, `MilestoneRun`, `ProjectRun` their dispatch.

Priority, due date and parent behave as the milestone does and are left out.

## 4. The runs

| Run | Instance | Question |
|---|---|---|
| `waves` | 3 issues, all edge sets and statuses, one may be archived or outside; 1 write between the SELECTs | do blockers come first; is what waits outside kept out of the waves |
| `board_agents` | 2 processes, 2 commands each, 1 issue (2 more may be created), 1 fault | do the column-writing commands refine atomic ones; is anything lost |
| `board_server` | 1 process, 2 sessions, 1 command each, 2 issues, 1 fault | do the TUI's commands refine atomic ones on a shared store; does the trail follow |
| `ticket_start` | 2 dispatchers and a third who claims by force and releases, 2 claims, 1 fault | one creator; nothing stranded; settled claims stay; every start ends |
| `sub_issues` | 4 issues, 1 stale writer; 11 files, opened by 2 processes, 2 old notes and 1 late one | no cycles; is every old note kept, and the text around it |
| `linear` | 2 sessions, 2 commands of any kind, 1 issue and 2 remotes at first, 1 fault, 1 change by others | do retries duplicate; what can be lost; whose is the Spec; can the guard be fooled |
| `integrate` | 2 tickets, 5 commits, 2 mishaps | is what is done what the gate admitted; is it found after a crash; what reaches main |
| `documents` | all descriptions of 4 lines, 10 payloads | do sections and logs survive every tool; can what lint accepts be ticked |
| `tenancy` | 2 connections, 2 users, 2 tenants with one slug, 1 invite, 1 write, crashes | delete against open; who gets in; one store; what an export has; do boards catch up |
| `editor` | 3 operations of any kind, 1 write of an agent, 1 failing call, a polling watcher | do board and documents catch up; does saving lose anything; does anything wait for ever |
| `tui` | 2 projects, 2 columns, 3 cards at first and at most 4, 2 milestones, 3 writes (1 of others), undo depth 2 | does undo restore; is the cursor where it should be; is the right card archived |
| `catalog` | 2 processes, 4 commands of 21, 1 kill | labels exist; names are unique; stale edits write nothing; records stay |

Bounds are constants named in the modules. Two sessions are enough for most races
here because a stale row, a lost update or a check-then-act needs one reader and
one intruder; a third is there where the failure needs a third party (a claim
released for somebody else).

* `board_agents`: two commands per agent let one session create, move and come back to the same issue.
* `linear`: two commands are a first one and its retry, or two that overlap; one
  fault kills the first anywhere; the second remote is there for `--link-to`, and
  for `--mine` to bring in beside the first.
* `waves`: three tickets hold a chain, a fork, a join, a two-cycle with a tail and a three-cycle.
* `sub_issues`: a cycle over stale rows takes three issues, and the fourth is the one
  beside it; two processes are one that migrates and one that comes in anywhere; the
  notes have a heading that must sink, a code block that quotes `## Notes`, and a
  title that looks like another note's. Issues are symmetric, and so are processes.
* `integrate`: five commits are a milestone's start, a commit of an agent, a sync,
  a late commit and a squash; two mishaps are a kill and an abandon.
* `documents`: four lines hold a heading, a fence around another, and what follows;
  a section tool looks at one heading, the next, and the fences before them.
* `tenancy`: one slug for two tenants makes the second take the name the first freed.
* `editor`: three operations are an open, an edit and what comes between; two moves
  and a document; one write of an agent is the thing not to lose.
* `tui`: an undo stack of two overflows with the third write, where a behaviour ends; the loop is the code's, only UNDO_DEPTH is smaller. One of the first three cards is in the second project, so a scope hides cards, and the fourth is the one a session creates.
* `catalog`: four commands let each of two processes look, edit, and follow up,
  or one hold a job open while the other adds, renames and takes a name.

What does not depend on these sizes is proved (section 5). Deadlock is checked in
`editor`, where a polling watcher never stops; elsewhere users stop giving
commands and functions return.

What counts as a mishap. `NoDuplicates` and `OneLivingComment` hold per mishap,
`SpecHasItsOwner` and `SeenIsHeard` as long as there was none: the code has no
transaction across HTTP, and each mishap (a command that failed or was killed, one
that began while another ran, an adoption of an issue that was linked) breaks some
of them. `OneLinkPerRemote` and `LostOnlyWhileHeld` hold through all of them.

Fairness. `IssueBoard`: weak fairness of each job's next statement, because the
writer thread is a loop over its channel that a living process runs (`store.rs:87`)
and every wait for a lock is bounded by `busy_timeout`; none for users and none
for faults. `TicketStart`: weak fairness of a command or script that
was started; none for starting one. `Waves` (in `WavesReturns.cfg`): the function runs on. `Tenancy`: weak
fairness of a board's own task (`Board(c)`: it polls its feed every 100 ms), none for users,
operator, expiry or crashes. `Editor`: every process that was started ends and is
answered (one that fails is answered too), and the polling timer fires; none for the user. `LinearBridge`,
`Integrate`, `Store`, `Documents`, `TuiApp` and `Catalog` state no liveness: commands may
stop at every call, and a session waits for its user.

### What is not so

The modules also state what one would expect, or a comment says, and the code does
not do. These are no runs; each is violated when it is checked. With a
configuration of their own:

| Command | Violated | What it shows |
|---|---|---|
| `tlc -config WavesHiddenCycle.cfg MCWaves` | `CycleIsReported` | `waves` reports a cycle as externally blocked when a ticket of it also waits for something outside the milestone |
| `tlc -config BoardLostEntries.cfg MCIssueBoard` | `NoLostEntries` | `issue archive` (and `unarchive`, `rm`) reads the row outside its transaction and so undoes what another process committed in between, here a log line |
| `tlc -config TicketStartTwice.cfg MCTicketStart` | `OneActorPerWorktree` | the rollback of a `ticket start` that lost the race releases the winner's claim and moves its ticket back; a third start is handed the winner's worktree. Both starts hold a granted claim because `claim` checks and writes in two statements |
| `tlc -config SubIssuesDepth.cfg SubIssues` | `DepthIsTwo` | `issue edit --parent` gives a parent to an issue that has children |
| `tlc -config LinearLostTicks.cfg MCLinearBridge` | `TicksSurvive` | a step ticked while an `import` or `sync` is between reading the row and writing it back is unticked; for `sync` that is as long as all its HTTP calls take |
| `tlc -config DocumentsRefresh.cfg MCDocuments` | `OthersUntouched` | a refresh puts Linear's text in verbatim; headings and open fences in it take over other sections |
| `tlc -config EditorAuto.cfg MCEditor` | `BoardCatchesUp` | with `fs.watch`, a refresh that began before the last write can come back last |

And with the run's own configuration, the name added as INVARIANT, or as PROPERTY
where it is an action property:

| Module | Violated | What it shows |
|---|---|---|
| `IssueBoard` (`BoardAgents.cfg`) | `MovesGoToTheEnd` | the place at the end of a column is looked up in one statement and taken in another, so two agents can be given the same; in `BoardServer.cfg` it holds |
| `Store` | `NobodyFails` | two processes open a fresh file at once: both ask before the other's transaction, and the second fails on a table that is there |
| `Integrate` | `LandsReadyTip` | a late commit or a second `ticket sync` on a branch in review lands without having been handed over |
| | `DoneStays` | a `ticket ready` that read the status before moves an integrated ticket back to review |
| `Tenancy` | `NoWriteIsLost` | a board that is open while its tenant is deleted goes on writing to the unlinked file |
| | `CopyIsOfOneState` | boards write, and checkpoint, while an export copies the file |
| | `KnownIffEnrolled` | a second connection of a key does not learn that the first one enrolled it |
| `Editor` | `SectionSavesLoseNothing` | the drawer's token and sections are read by different processes |
| | `DraftsSurvive` | any reload of the issue forgets the text of an edit under way |
| | `FormOutlivesCreate` | any board message closes the form of a create under way |
| | `NoPhantomColumn` (`MaxFaults = 2`) | two moves that fail leave the card where the first had put it, until the next refresh |
| | `DocSavesLoseNothing` under `PeekingSpec` | Compare with Saved pins a newer token for the old text |
| `TuiApp` | `TagCycles` | repeated `t` goes back and forth between two milestones |
| | `EditsTheCardShown` | `e` in the popup edits the card under the board's cursor |
| | `MovesTheCardChosen` | move mode moves the card under the cursor, not the one it was entered on |
| | `SavesLoseNothing` | a save from `$EDITOR` replaces what others wrote meanwhile |
| | `ReadWasLoaded` | the mailbox marks as read entries it never loaded |
| | `RefusalsAreShown` | a refused command ends the session |
| | `ScopedMilestoneExists` | the scope keeps a milestone that is gone |
| | `CursorFollowsUnscoped` | on the board of all projects the cursor leaves the card it moves |
| `Catalog` | `ChainedEditsLoseNothing` | the echo of an edit is read in a later job, and its token may stand for another's text |
| | `AddedLabelsAddUp`, `RemovedLabelsStay` | labels are read outside the transaction that replaces them all |
| | `EditTellsItsOwn` | the trail entry of an edit tells what another command changed |
| | `CopyKeepsMilestone` | a milestone renamed during `cp`, its name taken, gets the copy |
| | `ReadyWaitsForBlockers` | `issue add --blocked-by` is offered as ready before its relation is written |

`PROJECT.json` ("findings") has those that contradict a doc, a comment or a test, with the line,
and one where it is the comment that is behind: app.rs:913 calls archive the one action with no
undo, but `UndoOp::Archive` takes it back, as `UndoRestores` says.

How far the properties go:

* `NoLostEntries` and `AtomicBoard` in `board_agents` are about the column-writing commands.
  Those that write a whole row from a copy (archive, unarchive, rm, save, the unconditional
  edit) are not among them; with archive added the first is violated, see above.
* `Board` counts a save from the TUI as two commands, a move and a rewrite. That the second
  fails after the first is allowed by it, not excluded.
* `TrailFollowsBoard` has one writer, so it is about what each entry says, not about the
  order of two processes' entries.
* `LostOnlyWhileHeld` confines what the bridge loses to what was written while a command held
  its copy. It does not forbid that loss, which happens (`TicksSurvive`).
* `GateHolds` says which tickets are blocked outside when `waves` answers; a cycle behind a
  gate is not reported (`CycleIsReported`).
* `MainHoldsSettled` has one command of the orchestrator at a time, see 3.6.
* `UndoRestores` is not about the order of cards within a column.
* `NoStrandedClaim` excepts the refusal whose own release failed.

Stated, and true in the runs' instances, but not among their properties:
`TypeOK` where a module has one, `CompletedIsDone` (IssueBoard), `DispatchedOnce` and
`NoNeedlessWait` (Waves), `Returns` (Waves, liveness, with `WavesReturns.cfg`), `OneLinkPerRemote` (LinearBridge), `TenantsAreOwned` and `JoinSpendsInvite`
(Tenancy), `PendingAreMoves` (Editor), `FocusOnACard` and `ScopeWithinProject` (TuiApp).

Seen by reading, outside the models: `import --link-to` adopts an issue that is linked
already, and the link, re-pointed, keeps the comment on the issue it left (sync.rs:448); an issue created with `--status done` has no
completed_at and is never taken by `archive-done --auto`; `claim release` may name
a holder who is no longer the one it removes; `resolve_task` takes the only task of
a plan to be number 1 (issue.rs:2062); `plan_progress` says it mirrors the parser but
goes line by line (render.rs:130-135); a delete whose file system call fails after the rows are gone
leaves the file, and a retry answers TenantNotFound (manager.rs:149-161); the
count of archive-done in the extension is of the filtered board; in the TUI a
stale reorder can give two cards one position, and tagging with a
milestone that was renamed clears the tag and records it as set; not every failed
relation aborts an edit, as `EditSummary` says (issue.rs:1855-1863).

## 5. What is proved

All theorems are for every value of the constants (any number of sessions,
processes, issues, commands and faults); each is checked by `tlapm` to its leaves.

| Module | Theorem | Statement |
|---|---|---|
| `IssueBoard_proofs` | `TypeCorrect` | `Spec => []TypeOK` |
| | `CasEditsDropNothing` | `Spec => CasDropsNothing`, with every command in play |
| | `CompletedAreDone` | `Spec => []CompletedIsDone`, if no command is a full-row writer |
| | `EntriesStay` | `Spec => []NoLostEntries`, if moreover nobody uses an unconditional edit |
| | `AgentsKeepTheBoard` | `Spec => AtomicBoard`, if no command is a full-row writer: the code implements `Board` |
| | `ServerKeepsTheBoard` | `Spec => AtomicBoard` with every command in play, if all sessions share one writer thread |
| | `TrailFollows` | `Spec => []TrailFollowsBoard`, if they do |
| `Sessions_proofs` | `ClaimTypeCorrect`, `SettledClaims` | of the claim commands alone: types; settled claims are not taken |
| | `StartsAreClaims` | `Spec => ClaimSpec`: the composition is an implementation of the claim commands |
| | `StartTypeCorrect`, `WorktreeCreatedOnce`, `RefusedGivesBack` | the safety properties of the run, with calls that fail, those of the rollback included; the last for dispatchers that are actors of their own, and not of one whose release failed |
| | `UndoGivesBack`, `TheCardAskedIsArchived`, `TheCursorFollows` | the three properties of the run of `TuiApp`, for every board and every depth of the stack |
| | `TheCursorIsOnACard` | `TuiSpec => []FocusOnACard` |
| `Readers_proofs` | `TypeCorrect`, `BlockersFirst`, `Dispatched`, `AsParallelAsPossible`, `GatesHold` | the safety properties of the run |
| | `CycleErrorsAreTrue` | with no write between the SELECTs, the tickets named by the error wait for each other |
| | `DocumentsSaveSafely` | `EditorSpec => DocSavesLoseNothing`, polled or watched, with any failures |
| | `CleanDocumentsTick` | `DescSpec => []LintMeansTickable`: of the descriptions in `Documents` |
| | `SectionsStay`, `LogsStay` | `DescSpec => OthersUntouched`, `DescSpec => EntriesStay`; a refresh from Linear (`BridgedSpec`) checks no structure and is not among these commands |
| `Store_proofs` | `ParentsExist`, `ParentsAreAcyclic` | of the commands alone: parents exist and make no cycle |
| | `StoreRunsCommands`, `StoreParentsAreAcyclic` | `StoreSpec => Spec`: with the opening of the file beside them they are the same commands; so neither makes a cycle |
| | `NotesAreFoldedOnce`, `OpenedStoresAreCurrent` | `FoldedOnce`, `OpenedIsCurrent`: the two parts of `OldNotesAreKept` that are about processes |
| `LinearBridge_proofs` | `TypeCorrect`, `OneLinkEach`, `LostOnlyInTheWindow` | `TypeOK`, `OneLinkPerRemote`, `LostOnlyWhileHeld`, with every mishap in play |
| | `SpecStaysWithItsOwner`, `SeenMeansHeard` | `SpecHasItsOwner`, `SeenIsHeard`, which are about behaviours without a mishap |
| | `AllIsPaid` | every duplicate beyond the first is accounted for by a mishap of its own (`Order`, `Paid`) |
| | `OneOfEach`, `CommentsAreEdited` | `NoDuplicates`, `OneLivingComment`, with every mishap in play |
| `Integrate_proofs` | `IntegrateTypeCorrect`, `IntegratedAsGated`, `RecoveryFindsAll`, `MainGetsSettled` | types and the three invariants of the run, with kills, late commits and abandons in play |
| `Tenancy_proofs` | `DeletedForGood`, `MembersOnly`, `StoresAreShared`, `ExportsAreCurrent` | the four invariants of the run |
| `Catalog_proofs` | `LabelsExist`, `NamesStayUnique`, `StaleEdits`, `RecordsKept` | the four properties of the run |

The arguments.

* *Types.* `IInv` adds to the types that a session's next statement is one of its
  command's (`StepsMatch`), without which `cmd[s].on` need not exist.
* *Compare and swap, entries stay.* Stamps of a row never go back and its text
  never changes under an unchanged stamp (`RowsAge`), so what a session loaded is
  old or current: `base[s].stamp <= rows[i].stamp`, with equal texts when equal
  (`BaseIsOld`). A swap that passes therefore replaces the text by itself plus one
  entry. Without full-row writers and unconditional edits nothing else shrinks a text.
* *Completed are done.* Immediate for moves; the hypothesis excludes `do_update`
  from a stale row, which rewrites the status and keeps completed_at.
* *The board as one object.* Every step of the code shows users a step of `Board`
  or nothing, if the row a job writes back is the row of the table in the columns
  shown (`FreshSeen`, `FreshOther`). Agents without full-row writers meet that with
  nothing to show. In one process it is an invariant: a job that has begun is the one
  its writer runs (`MidRuns`), so nobody else writes between its read and its write.
  For the same reason a job that is about to record a move finds its issue where it
  put it (`MovedStays`), and a missing entry is one about to be recorded (`TrailKept`).
* *Settled claims.* `steady[s]` is either `Nobody`, or the current holder; and a
  session that got past the look without `--force` looked at a free issue or is
  steady on `Nobody`, so its upsert takes from nobody steady.
* *One creator.* `worktree` is false until the first `AddWorktree` and true ever
  after; a dispatcher that is "started" and had not found one made that step.
* *Refused gives back.* By the place of the script: from the claim granted to the
  release, only the dispatcher's own command can make it the holder; a release that failed
  leaves it one, and the script "warned".
* *Undo.* A change on the stack is a step of a card, from a column to a column or off
  the board. `HasPast` says of a card that nobody else touched that there is a past of it along the
  stack: where it was before and after each change, from `base` to what it is now. A
  command adds an end to the past, an undo takes it off, and a full stack forgets the
  beginning, which is when `base` moves (`PastPushed`, `PastPopped`, `PastDropped`). So
  the oldest change on the stack says where the card was below it (`PastRestores`).
  For a command to begin where the past ends, the copy must show an untouched card as it is
  (`SeenOK`), which is why changes that the session has not loaded count as touching, and so must a
  prompt that is open (`AskedOK`).
* *The cursor.* The places of the cards in a column are numbers without gaps or ties
  (`PlacesDiffer`). A card at the end of a column has all of it above (`PlacesHaveAMax`), and two
  cards that change positions change places (`SwappedPlaces`). So the cursor comes down where
  the card does, and what is at the cursor keeps it in the reload.
* *Waves.* The key invariant says that `scheduled` is the union of the waves and
  that a remaining ticket whose blockers were all scheduled before the last wave
  would have been in that wave; the gate theorem adds that no scheduled ticket is
  in the closure of `external`, by the leastness of `Gated`.
* *Acyclic parents.* In a set of issues whose parents are all in the set, the
  issue whose parent was just written would have a parent with no parent: `ValidParent`
  is checked in the writing statement, so the set without it would already be one.
* *The bridge.* `IInv` adds to the three properties what a command holds where it
  stands (`PhaseOf`: past "resolve" there is a copy, at "guard" a link, so the remote
  named exists), and that every row or text it will write back has all changes
  that were not made in its window (`HeldOf`). A copy is fresh when it is taken,
  because the board and Linear are (`BoardIsFresh`); a later change of the same thing
  is exposed; so writing it back loses nothing else.
* *The bridge without a mishap.* At `mishaps = 0` at most one command runs, and `Calm`
  says of its job alone what is in order (`InOrder`): links and Specs agree, and each
  step holds the pairing of its issue as it is, a copy that is at least as new as what
  its links have seen, and a row that came from that copy. A person's change can only
  make the copy older than the remote, which the guard or the next import sees.
* *Duplicates of the bridge.* Not that there are none, but that there is one more only
  with each mishap, so the invariant is a count. `Order` says what every job keeps
  in order whatever goes wrong: which command stands where, that a link it has read
  is of an issue that is linked still, that what it creates for an issue it means to
  link to that issue. `Paid` then counts for each issue its comments and remote issues,
  and for each remote its rows, that nobody will ever link or find again (lost), and
  the commands that are bound to lose one when they end, since what they mean to
  link is taken (doomed): lost and doomed together are at most the mishaps. A
  command that is not doomed yet may become so while it runs: so the lost and the
  commands under way that could (for a row, all that
  do not mean to link it to another remote) are at most the mishaps and one more. For comments and remote issues a
  link that stands may be replaced, too: the one more is gone while a command means to. What is not lost is linked, or
  in the hand of a command under way, so `NoDuplicates` follows. Each step moves at most
  one thing from doomed to lost, or pays with the mishap it counts.
* *Integration.* A commit's past is closed and its tree only grows along it
  (`HistoryOK`), and no squash leaves the milestone's branch until it is abandoned
  (`SquashesOnMilestone`). Work of a ticket in any tree is either on its own branch or
  comes with one of its squashes in the past (`WorkIsTraced`), which is what recovery
  looks for. While integrate runs, as long as the branch is where the gate read it,
  what is staged and then committed is that tip's tree (`IntegrateOK`); so the look at
  the tip after the commit decides whether it may be called done. finish checks the
  list before it reads the tips, and what is settled stays so (`SettledOK`).
* *Documents of the extension.* `ExtInv` says that a document has one turn at a
  time, that a token it holds is a stamp the issue has had, and that a text which may
  be saved has every write its token counts. So a save passes the token's check only if
  nothing came after the token, and then the text it writes has what it replaces.
* *Descriptions.* The code looks for the first heading, the end of its section, the step
  at a place in it. The proofs replace induction along the lines by least elements and
  least counterexamples. A line is in a code block by the fences before it,
  one line at a time (`FencedStep`, `SameFences`). Lines that come in move every line after
  them by as many (`Shift`), so each section but theirs is found where it was, moved
  (`Elsewhere`). The guard of the commands compares the bodies of the others, and a body
  that is the same text has the same headings, steps and entries in it, because the
  heading of its section is in no code block (`SameBody`). What is left is that nothing
  is rewritten behind the guard: a plan that was canonical stays canonical if its body
  stays (`Flat`), and a plan that was written is made so in the same command. `DescInv`
  is just that: lines, and a canonical plan. A new entry goes below all entries
  that are read, so their order is a prefix of what it becomes (`Listed`).
* *The file.* A process that is about to commit read versions that the ledger still
  has, and its snapshot is behind the file or holds the file's rows (`Committing`). So a
  commit that succeeds folds exactly the rows it drops, after the first nobody has
  rows to fold, and a second description is never written over the first.
* *Tenants.* What makes a delete final is the mutex on the handles: whoever stands
  between the registry's answer and the opening or unlinking holds it (`MutexHeld`),
  so the answer is still true when the file is opened (`AnswerStands`) and no handle
  appears after the row is gone. A store in use is the cached one unless its tenant
  is being deleted (`StoresAreCached`), which gives one store per tenant. A list
  shown to a user holds ids, and an id's membership ends only with the tenant
  (`ListsAreOwn`), so a slug taken again by others opens nothing. An export's
  checkpoint comes after the question and moves everything (`ExportOnTheWay`).
* *Jobs of commands.* The set of labels a command writes is created in the
  transaction that writes it, so `Tagged` is inductive by itself, and `milestones`
  keeps unique names because every write of a name looks inside its own statement.
  For edits under a token: the stamps of a row only grow, so a token that was older
  than the row when the edit began stays older (`StaleIsOld`), and such an edit is
  at a step before the check or at it. For the project, a token equal to the row's
  stamp means the notes are those its user read (`ReadAtToken`). For milestones,
  the row that is written back was read in the same transaction (`ChangedRow`).

Assumptions. Each module names what it needs of its constants (`...Assumption`,
`...Constants`), and the runs evaluate it. No proof assumes a bound: the bounds are
any natural numbers.

Only model-checked: every liveness property (`EveryStartEnds`, `BoardsCatchUp`,
`BoardCatchesUp`, `DocCatchesUp`, `Returns`: fairness and ENABLED are out of the
prover's reach); the part of `OldNotesAreKept` that reads the folded text back, and
`CopyIsFresh` of `Documents`: both texts are folds over a sequence, and what a fold
computes for every input is an induction over data, which no installed prover can
instantiate. `ScopeWithinProject` of `TuiApp` is such a property, too: what `M` comes to
is an element of a filtered sequence. No module declares a recursive operator.

## 6. Not modelled

`PROJECT.json` lists every component. Left out for good: rendering, search,
wording, escape sequences, drawing, ptys.

Inside the modelled parts: wall-clock time (`--auto` archives any completed issue or none),
disk corruption, deletion of projects and of milestones with what it cascades to, and clocks that go backwards;
the status commands of the flow dispatcher and its relay of review texts; signup
policy and rate limits of the server; filters, metadata edits and the project
switch of the extension; the editing of projects in the TUI. Section 3 names what
each module abstracts.

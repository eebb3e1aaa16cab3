---------------------------- MODULE LinearBridge ----------------------------
(***************************************************************************)
(* `cliban linear import | sync | push` and `push_on_move`: commands that  *)
(* carry an issue across the boundary between a board and Linear. Every    *)
(* HTTP call and every write of the store is a step of its own, and so are *)
(* the reads between two of them; between steps agents work on the board,  *)
(* people on Linear, and other commands run. A command that fails or is    *)
(* killed leaves everything as it is then.                                 *)
(*                                                                         *)
(* A remote issue is its state, its text (the set of changes people made   *)
(* to it) and updatedAt, a number every change makes new. A row of the     *)
(* board is the owner of its Spec, its status, archived, and its Plan (the *)
(* set of ticks). Titles, priorities, labels, due dates and base_hash,     *)
(* which only words a warning, are left out. MaxCommands, MaxFaults and    *)
(* MaxEdits bound the model. A definition under "Slip" is a wrong version  *)
(* of the one after it.                                                    *)
(***************************************************************************)
EXTENDS Naturals, Sequences, FiniteSets

CONSTANTS
    Session,
    Ops,            \* the kinds of commands sessions run
    WriteSets,      \* what a push may be told to write
    Status,         \* board columns
    State,          \* workflow states of the Linear team
    Open,           \* the states that are neither completed nor canceled
    Canceled,
    ToCliban,       \* states::to_cliban: state -> status
    ToLinear,       \* states::to_linear: status -> state
    FirstIssues, FirstRemotes,
    MaxCommands,    \* bound: commands, all sessions together
    MaxFaults,      \* bound: commands that fail or are killed
    MaxEdits        \* bound: changes by agents and by people

ASSUME BridgeConstants ==
    /\ Ops \subseteq {"import", "mine", "sync", "push"}
    /\ WriteSets \subseteq SUBSET {"state", "comment", "description"}
    /\ Open \subseteq State /\ Canceled \in State \ Open
    /\ ToCliban \in [State -> Status] /\ ToLinear \in [Status -> State]
    /\ FirstIssues \in Nat /\ FirstRemotes \in Nat
    /\ MaxCommands \in Nat /\ MaxFaults \in Nat /\ MaxEdits \in Nat

VARIABLES
    rows,       \* the board: the row of each issue, by its number
    links,      \* remote_links: number -> the link of that issue, NoLink without a row
    remotes,    \* Linear's issues: number -> remote issue
    comments,   \* Linear's comments that a push created
    job,        \* session -> its command and what it has read
    used, faults, edits,
    made,       \* history: ticks and changes of text, and on what
    exposed,    \* history: changes made while a command held a copy to write back
    heard,      \* history: number -> updatedAt that its row was last refreshed from
    mishaps     \* history: faults, overlapping commands, adoptions of a linked issue

board == <<rows, links, heard>>
linear == <<remotes, comments>>
env == <<edits, made, exposed>>
counts == <<used, faults, mishaps>>
vars == <<board, linear, env, counts, job>>

Issues == DOMAIN rows
Remotes == DOMAIN remotes

\* `from` and `by` are history: the remote an import created the row from, and the
\* row a push created the remote issue for.
Row == [spec: Nat, status: Status, archived: BOOLEAN, plan: SUBSET Nat, from: Nat]
Remote == [state: State, text: SUBSET Nat, stamp: Nat, gone: BOOLEAN,
           touched: Nat, last: Nat, by: Nat]
Link == [remote: Remotes \cup {0}, seen: Nat, origin: {"imported", "pushed"},
         comment: Nat]
Copy == [id: Remotes \cup {0}, state: State, text: SUBSET Nat, stamp: Nat]
Comment == [on: Nat, for: Nat, live: BOOLEAN]

OnBoard == 0        \* as the owner of a Spec
NoLink == [remote |-> 0, seen |-> 0, origin |-> "imported", comment |-> 0]
NoCopy == [id |-> 0, state |-> Canceled, text |-> {}, stamp |-> 0]
NoRow == [spec |-> 0, status |-> ToCliban[Canceled], archived |-> FALSE,
          plan |-> {}, from |-> 0]
NoItem == [on |-> 0, row |-> NoRow, link |-> NoLink, copy |-> NoCopy]
Item == [on: Issues \cup {0}, row: Row, link: Link, copy: Copy]

\* What people may ask for. The number 0 stands for nothing.
Requests ==
    [op: {"import"}, remote: Remotes, linkTo: Issues \cup {0}]
    \cup [op: {"mine", "sync"}]
    \cup [op: {"push"}, on: Issues, create: BOOLEAN, force: BOOLEAN, writes: WriteSets]
NoCommand == [op |-> "none"]
PC == {"idle", "fetch", "resolve", "create", "archive", "next", "fetchLinked",
       "refresh", "read", "createRemote", "guard", "update", "comment", "link", "note"}
Idle == [pc |-> "idle", cmd |-> NoCommand, item |-> NoItem, note |-> 0, todo |-> {}]
Job == [pc: PC, cmd: Requests \cup {NoCommand}, item: Item, note: Nat, todo: SUBSET Item]

Init ==
    /\ rows \in [1..FirstIssues ->
                    [spec: {OnBoard}, status: Status, archived: {FALSE}, plan: {{}},
                     from: {0}]]
    /\ links = [l \in Issues |-> NoLink]
    /\ remotes \in [1..FirstRemotes ->
                    [state: Open, text: {{}}, stamp: {1}, gone: {FALSE},
                     touched: {1}, last: {0}, by: {0}]]
    /\ comments = <<>>
    /\ job = [s \in Session |-> Idle]
    /\ used = 0 /\ faults = 0 /\ edits = 0
    /\ made = {} /\ exposed = {} /\ mishaps = 0
    /\ heard = [l \in Issues |-> 0]

(***************************************************************************)
(* Commands                                                                *)
(***************************************************************************)
At(s, pc) == job[s].pc = pc
Op(s) == job[s].cmd.op
Runs(s, op) == Op(s) = op

Go(s, pc, item) == job' = [job EXCEPT ![s].pc = pc, ![s].item = item]
End(s) == job' = [job EXCEPT ![s] = Idle]

Linked(l) == links[l].remote # 0

CopyOf(r) == [id |-> r, state |-> remotes[r].state, text |-> remotes[r].text,
              stamp |-> remotes[r].stamp]

\* Someone runs a command; push_on_move runs a push with neither flag after a move.
Begin(s, c) ==
    /\ At(s, "idle") /\ c.op \in Ops /\ used < MaxCommands
    /\ used' = used + 1
    /\ mishaps' = mishaps + IF \A t \in Session : At(t, "idle") THEN 0 ELSE 1
    /\ job' = [job EXCEPT ![s] = [Idle EXCEPT
                    !.pc = IF c.op \in {"import", "mine"} THEN "fetch" ELSE "read",
                    !.cmd = c]]
    /\ UNCHANGED <<board, linear, env, faults>>

\* An HTTP call or a job fails, or the process is killed.
Abort(s) ==
    /\ ~ At(s, "idle") /\ faults < MaxFaults
    /\ faults' = faults + 1 /\ mishaps' = mishaps + 1
    /\ End(s)
    /\ UNCHANGED <<board, linear, env, used>>

(***************************************************************************)
(* import linear KEY, import linear --mine                                 *)
(***************************************************************************)
FetchIssue(s) ==
    /\ At(s, "fetch") /\ Runs(s, "import")
    /\ LET r == job[s].cmd.remote
       IN  IF remotes[r].gone THEN End(s)
           ELSE Go(s, "resolve", [NoItem EXCEPT !.copy = CopyOf(r)])
    /\ UNCHANGED <<board, linear, env, counts>>

\* The open issues assigned to the viewer, of the active cycle where there is one.
FetchMine(s) ==
    /\ At(s, "fetch") /\ Runs(s, "mine")
    /\ \E A \in SUBSET {r \in Remotes : ~ remotes[r].gone /\ remotes[r].state \in Open} :
        job' = [job EXCEPT ![s].pc = "next",
                           ![s].todo = {[NoItem EXCEPT !.copy = CopyOf(r)] : r \in A}]
    /\ UNCHANGED <<board, linear, env, counts>>

\* The loop of import_mine and of sync_linear.
NextItem(s) ==
    /\ At(s, "next")
    /\ \E i \in job[s].todo :
        job' = [job EXCEPT ![s].pc = IF Runs(s, "sync") THEN "fetchLinked" ELSE "resolve",
                           ![s].item = i, ![s].todo = job[s].todo \ {i}]
    /\ UNCHANGED <<board, linear, env, counts>>

NoMoreItems(s) ==
    /\ At(s, "next") /\ job[s].todo = {}
    /\ End(s)
    /\ UNCHANGED <<board, linear, env, counts>>

\* Slip: looks for the remote's human key, which the link holds in another spelling.
FindsNone(r) == {}

\* links::by_remote
LinkedTo(r) == {l \in Issues : links[l].remote = r}

LinkTo(s) == IF Runs(s, "import") THEN job[s].cmd.linkTo ELSE 0

\* Already linked: refresh, unless --link-to names another issue.
ResolveExisting(s) ==
    LET item == job[s].item
    IN  /\ At(s, "resolve")
        /\ \E l \in LinkedTo(item.copy.id) :
            IF LinkTo(s) \in {0, l}
            THEN Go(s, "refresh", [item EXCEPT !.on = l, !.row = rows[l], !.link = links[l]])
            ELSE End(s)
        /\ UNCHANGED <<board, linear, env, counts>>

\* --link-to: the pairing is created now, its origin is `imported`. Whether the
\* issue has a link already is not asked.
ResolveAdopt(s) ==
    LET item == job[s].item  l == LinkTo(s)
    IN  /\ At(s, "resolve") /\ LinkedTo(item.copy.id) = {} /\ l # 0
        /\ Go(s, "refresh", [item EXCEPT !.on = l, !.row = rows[l]])
        /\ mishaps' = mishaps + IF Linked(l) THEN 1 ELSE 0
        /\ UNCHANGED <<board, linear, env, used, faults>>

ResolveCreate(s) ==
    /\ At(s, "resolve") /\ LinkedTo(job[s].item.copy.id) = {} /\ LinkTo(s) = 0
    /\ Go(s, "create", job[s].item)
    /\ UNCHANGED <<board, linear, env, counts>>

IsCanceled(copy) == copy.state = Canceled

\* create_from_remote: the row, and in a job of its own archived when canceled.
CreateRow(s) ==
    LET copy == job[s].item.copy
        l == Len(rows) + 1
        row == [spec |-> copy.id, status |-> ToCliban[copy.state], archived |-> FALSE,
                plan |-> {}, from |-> copy.id]
    IN  /\ At(s, "create")
        /\ rows' = Append(rows, row)
        /\ links' = Append(links, NoLink)
        /\ heard' = Append(heard, copy.stamp)
        /\ Go(s, IF IsCanceled(copy) THEN "archive" ELSE "link",
              [job[s].item EXCEPT !.on = l, !.row = row])
        /\ UNCHANGED <<linear, env, counts>>

ArchiveCreated(s) ==
    LET item == job[s].item
    IN  /\ At(s, "archive")
        /\ rows' = [rows EXCEPT ![item.on] = [item.row EXCEPT !.archived = TRUE]]
        /\ Go(s, "link", item)
        /\ UNCHANGED <<links, heard, linear, env, counts>>

\* Slip: the description a first import would write.
InitialDescription(row, copy, origin) ==
    [row EXCEPT !.spec = copy.id, !.plan = {}, !.status = ToCliban[copy.state],
                !.archived = @ \/ IsCanceled(copy)]

\* Slip: the Spec is Linear's whoever created the pairing.
RefreshedAsImported(row, copy, origin) ==
    [row EXCEPT !.spec = copy.id, !.status = ToCliban[copy.state],
                !.archived = @ \/ IsCanceled(copy)]

\* Slip: the workflow state is written as it came.
RefreshedUnmapped(row, copy, origin) ==
    [row EXCEPT !.spec = IF origin = "imported" THEN copy.id ELSE @,
                !.status = copy.state, !.archived = @ \/ IsCanceled(copy)]

\* refresh_existing: the row the command read, with Linear's fields put in.
Refreshed(row, copy, origin) ==
    [row EXCEPT !.spec = IF origin = "imported" THEN copy.id ELSE @,
                !.status = ToCliban[copy.state],
                !.archived = @ \/ IsCanceled(copy)]

\* issues::update writes every column of it back.
Refresh(s) ==
    LET item == job[s].item
    IN  /\ At(s, "refresh")
        /\ rows' = [rows EXCEPT ![item.on] =
                        Refreshed(item.row, item.copy, item.link.origin)]
        /\ heard' = [heard EXCEPT ![item.on] = item.copy.stamp]
        /\ Go(s, "link", item)
        /\ UNCHANGED <<links, linear, env, counts>>

(***************************************************************************)
(* record_link                                                             *)
(***************************************************************************)
\* Slip: the remote index is not unique.
NeverTaken(l, r) == FALSE

\* The unique index on (provider, entity, remote_id) rejects the upsert.
Taken(l, r) == \E i \in Issues \ {l} : links[i].remote = r

\* links::upsert: an existing row keeps its origin and its comment.
Upserted(old, copy, origin) ==
    IF old.remote = 0
    THEN [remote |-> copy.id, seen |-> copy.stamp, origin |-> origin, comment |-> 0]
    ELSE [old EXCEPT !.remote = copy.id, !.seen = copy.stamp]

Origin(s) == IF Runs(s, "push") /\ job[s].item.link.remote = 0 THEN "pushed"
             ELSE job[s].item.link.origin

AfterLink(s) ==
    CASE Runs(s, "push") /\ job[s].note # 0 -> Go(s, "note", job[s].item)
      [] Op(s) \in {"mine", "sync"} -> Go(s, "next", NoItem)
      [] OTHER -> End(s)

RecordLink(s) ==
    LET item == job[s].item  l == item.on
    IN  /\ At(s, "link") /\ ~ Taken(l, item.copy.id)
        /\ links' = [links EXCEPT ![l] = Upserted(@, item.copy, Origin(s))]
        /\ AfterLink(s)
        /\ UNCHANGED <<rows, heard, linear, env, counts>>

LinkRefused(s) ==
    /\ At(s, "link") /\ Taken(job[s].item.on, job[s].item.copy.id)
    /\ End(s)
    /\ UNCHANGED <<board, linear, env, counts>>

(***************************************************************************)
(* sync linear                                                             *)
(***************************************************************************)
\* Every link and its issue, before anything remote is asked.
ReadLinks(s) ==
    /\ At(s, "read") /\ Runs(s, "sync")
    /\ job' = [job EXCEPT ![s].pc = "next",
                          ![s].todo = {[on |-> l, row |-> rows[l], link |-> links[l],
                                        copy |-> NoCopy] :
                                       l \in {i \in Issues : Linked(i)}}]
    /\ UNCHANGED <<board, linear, env, counts>>

\* Gone upstream: say so and move on.
FetchLinked(s) ==
    LET item == job[s].item  r == item.link.remote
    IN  /\ At(s, "fetchLinked")
        /\ IF remotes[r].gone THEN Go(s, "next", NoItem)
           ELSE Go(s, "refresh", [item EXCEPT !.copy = CopyOf(r)])
        /\ UNCHANGED <<board, linear, env, counts>>

(***************************************************************************)
(* push linear                                                             *)
(***************************************************************************)
Push(s) == job[s].cmd

\* The issue and its link; an unlinked issue needs --create.
ReadIssue(s) ==
    LET l == Push(s).on
    IN  /\ At(s, "read") /\ Runs(s, "push")
        /\ IF ~ Linked(l) /\ ~ Push(s).create THEN End(s)
           ELSE Go(s, IF Linked(l) THEN "guard" ELSE "createRemote",
                   [NoItem EXCEPT !.on = l, !.row = rows[l], !.link = links[l]])
        /\ UNCHANGED <<board, linear, env, counts>>

CreateRemote(s) ==
    LET item == job[s].item
        r == Len(remotes) + 1
        new == [state |-> ToLinear[item.row.status], text |-> {}, stamp |-> 1,
                gone |-> FALSE, touched |-> 0, last |-> 0, by |-> item.on]
    IN  /\ At(s, "createRemote")
        /\ remotes' = Append(remotes, new)
        /\ Go(s, "update", [item EXCEPT !.copy = [id |-> r, state |-> new.state,
                                                  text |-> {}, stamp |-> 1]])
        /\ UNCHANGED <<board, comments, env, counts>>

\* Slip: the guard compares the other way round.
NewerIsFine(link, r) == remotes[r].stamp >= link.seen

\* guard_stale_write
NotStale(link, r) == remotes[r].stamp <= link.seen

\* issue_by_id and the guard; a push that is forced past it leaves people's last
\* change exposed.
Guard(s) ==
    LET item == job[s].item  r == item.link.remote
    IN  /\ At(s, "guard")
        /\ IF remotes[r].gone \/ ~ (Push(s).force \/ NotStale(item.link, r)) THEN End(s)
           ELSE Go(s, "update", [item EXCEPT !.copy = CopyOf(r)])
        /\ exposed' = IF Push(s).force /\ ~ NotStale(item.link, r)
                      THEN exposed \cup {remotes[r].last} ELSE exposed
        /\ UNCHANGED <<board, linear, edits, made, counts>>

\* The patch: the state when it differs from the copy's, and with --description
\* the copy's text around cliban's fence.
WantedState(s) ==
    IF "state" \in Push(s).writes THEN ToLinear[job[s].item.row.status]
    ELSE job[s].item.copy.state
PatchIsEmpty(s) ==
    WantedState(s) = job[s].item.copy.state /\ "description" \notin Push(s).writes
Patched(s, remote) ==
    [remote EXCEPT
        !.state = IF WantedState(s) = job[s].item.copy.state THEN @ ELSE WantedState(s),
        !.text = IF "description" \in Push(s).writes THEN job[s].item.copy.text ELSE @,
        !.stamp = @ + 1]

AfterUpdate(s) == IF "comment" \in Push(s).writes THEN "comment" ELSE "link"

NothingToUpdate(s) ==
    /\ At(s, "update") /\ PatchIsEmpty(s)
    /\ Go(s, AfterUpdate(s), job[s].item)
    /\ UNCHANGED <<board, linear, env, counts>>

\* What is recorded later is the updatedAt of this reply.
UpdateRemote(s) ==
    LET item == job[s].item
        r == item.copy.id
        new == Patched(s, remotes[r])
    IN  /\ At(s, "update") /\ ~ PatchIsEmpty(s) /\ ~ remotes[r].gone
        /\ remotes' = [remotes EXCEPT ![r] = new]
        /\ Go(s, AfterUpdate(s), [item EXCEPT !.copy = [id |-> r, state |-> new.state,
                                        text |-> new.text, stamp |-> new.stamp]])
        /\ UNCHANGED <<board, comments, env, counts>>

\* The issue was deleted between two calls: the second is an error.
RemoteIsGone(s) ==
    /\ \/ At(s, "update") /\ ~ PatchIsEmpty(s)
       \/ At(s, "comment")
    /\ remotes[job[s].item.copy.id].gone
    /\ End(s)
    /\ UNCHANGED <<board, linear, env, counts>>

\* Slip: a comment is posted with every push.
PostsAlways(c) == FALSE

\* update_comment finds the comment: it is there and its issue is.
CanEdit(c) == c # 0 /\ comments[c].live

EditComment(s) ==
    LET c == job[s].item.link.comment
    IN  /\ At(s, "comment") /\ CanEdit(c)
        /\ job' = [job EXCEPT ![s].pc = "link", ![s].note = c]
        /\ UNCHANGED <<board, linear, env, counts>>

\* There is none yet, or comment_not_found: a new one, once.
CreateComment(s) ==
    LET item == job[s].item  c == Len(comments) + 1
    IN  /\ At(s, "comment") /\ ~ CanEdit(item.link.comment) /\ ~ remotes[item.copy.id].gone
        /\ comments' = Append(comments, [on |-> item.copy.id, for |-> item.on,
                                         live |-> TRUE])
        /\ job' = [job EXCEPT ![s].pc = "link", ![s].note = c]
        /\ UNCHANGED <<board, remotes, env, counts>>

\* set_progress_comment, a job after record_link's.
SetComment(s) ==
    /\ At(s, "note")
    /\ links' = [links EXCEPT ![job[s].item.on].comment = job[s].note]
    /\ End(s)
    /\ UNCHANGED <<rows, heard, linear, env, counts>>

(***************************************************************************)
(* Others: agents and users of the board, people on Linear                 *)
(***************************************************************************)
\* A command holds the row of l and will write it back.
Holds(s, l) ==
    \/ job[s].pc \in {"refresh", "archive", "fetchLinked"} /\ job[s].item.on = l
    \/ \E i \in job[s].todo : i.on = l

\* A push holds a copy of r from before its write.
Patches(s, r) == At(s, "update") /\ job[s].item.copy.id = r

Edit == edits < MaxEdits /\ edits' = edits + 1
Expose(danger) == exposed' = IF danger THEN exposed \cup {edits + 1} ELSE exposed

\* `issue tick`, `issue log`: one transaction.
Tick(l) ==
    /\ Edit
    /\ rows' = [rows EXCEPT ![l].plan = @ \cup {edits + 1}]
    /\ made' = made \cup {[what |-> "tick", on |-> l, edit |-> edits + 1]}
    /\ Expose(\E s \in Session : Holds(s, l))
    /\ UNCHANGED <<links, heard, linear, counts, job>>

\* `issue mv`
MoveIssue(l, st) ==
    /\ Edit
    /\ rows[l].status # st /\ rows' = [rows EXCEPT ![l].status = st]
    /\ UNCHANGED <<links, heard, linear, made, exposed, counts, job>>

Touched(new) == [new EXCEPT !.stamp = new.stamp + 1, !.touched = new.stamp + 1,
                            !.last = edits + 1]
PersonChanges(r, new) ==
    /\ Edit /\ ~ remotes[r].gone
    /\ remotes' = [remotes EXCEPT ![r] = Touched(new)]
    /\ Expose(\E s \in Session : Patches(s, r))
    /\ UNCHANGED <<board, comments, counts, job>>

PersonWrites(r) ==
    /\ PersonChanges(r, [remotes[r] EXCEPT !.text = remotes[r].text \cup {edits + 1}])
    /\ made' = made \cup {[what |-> "text", on |-> r, edit |-> edits + 1]}

PersonMoves(r, st) ==
    /\ remotes[r].state # st
    /\ PersonChanges(r, [remotes[r] EXCEPT !.state = st])
    /\ UNCHANGED made

PersonDeletesIssue(r) ==
    /\ Edit /\ ~ remotes[r].gone
    /\ remotes' = [remotes EXCEPT ![r].gone = TRUE]
    /\ comments' = [c \in DOMAIN comments |->
                        IF comments[c].on = r THEN [comments[c] EXCEPT !.live = FALSE]
                        ELSE comments[c]]
    /\ UNCHANGED <<board, made, exposed, counts, job>>

PersonDeletesComment(c) ==
    /\ Edit /\ comments[c].live
    /\ comments' = [comments EXCEPT ![c].live = FALSE]
    /\ UNCHANGED <<board, remotes, made, exposed, counts, job>>

Import(s) ==
    \/ FetchIssue(s) \/ FetchMine(s) \/ NextItem(s) \/ NoMoreItems(s)
    \/ ResolveExisting(s) \/ ResolveAdopt(s) \/ ResolveCreate(s)
    \/ CreateRow(s) \/ ArchiveCreated(s) \/ Refresh(s)
    \/ RecordLink(s) \/ LinkRefused(s) \/ ReadLinks(s) \/ FetchLinked(s)

PushStep(s) ==
    \/ ReadIssue(s) \/ CreateRemote(s) \/ Guard(s) \/ NothingToUpdate(s)
    \/ UpdateRemote(s) \/ RemoteIsGone(s) \/ EditComment(s) \/ CreateComment(s)
    \/ SetComment(s)

Others ==
    \/ \E l \in Issues : Tick(l) \/ \E st \in Status : MoveIssue(l, st)
    \/ \E r \in Remotes :
        \/ PersonWrites(r) \/ PersonDeletesIssue(r)
        \/ \E st \in State : PersonMoves(r, st)
    \/ \E c \in DOMAIN comments : PersonDeletesComment(c)

Next ==
    \/ \E s \in Session :
        \/ \E c \in Requests : Begin(s, c)
        \/ Import(s) \/ PushStep(s) \/ Abort(s)
    \/ Others

Spec == Init /\ [][Next]_vars

(***************************************************************************)
(* Properties                                                              *)
(***************************************************************************)
TypeOK ==
    /\ rows \in Seq(Row) /\ remotes \in Seq(Remote) /\ comments \in Seq(Comment)
    /\ links \in Seq(Link) /\ heard \in Seq(Nat)
    /\ Len(links) = Len(rows) /\ Len(heard) = Len(rows)
    /\ job \in [Session -> Job]
    /\ made \subseteq [what: {"tick"}, on: Issues, edit: Nat]
                     \cup [what: {"text"}, on: Remotes, edit: Nat]
    /\ exposed \subseteq Nat
    /\ used \in Nat /\ faults \in Nat /\ edits \in Nat /\ mishaps \in Nat

\* One local issue per Linear issue: no two links name the same remote, whatever
\* imports and pushes run at once.
OneLinkPerRemote ==
    \A i, j \in Issues : Linked(i) /\ i # j => links[i].remote # links[j].remote

\* An import that runs again refreshes rather than duplicates, and `push --create`
\* makes one remote: each further copy costs a failed command, commands that
\* overlap, or the adoption of an issue that is linked already.
NoDuplicates ==
    /\ \A r \in Remotes : Cardinality({l \in Issues : rows[l].from = r}) <= 1 + mishaps
    /\ \A l \in Issues :
        Cardinality({r \in Remotes : remotes[r].by = l /\ ~ remotes[r].gone})
            <= 1 + mishaps

\* push maintains one comment per linked issue and edits it in place: each further
\* comment costs a mishap of the same kind.
OneLivingComment ==
    \A l \in Issues :
        Cardinality({c \in DOMAIN comments : comments[c].for = l /\ comments[c].live})
            <= 1 + mishaps

\* An agent's ticks survive every import and sync, and people's text every push,
\* unless they were made while the command held the old copy that it wrote back.
LostOnlyWhileHeld ==
    \A m \in made :
        \/ m.edit \in exposed
        \/ m.what = "tick" /\ m.edit \in rows[m.on].plan
        \/ m.what = "text" /\ m.edit \in remotes[m.on].text

\* The Spec belongs to who created the pairing, for as long as it lasts.
SpecHasItsOwner ==
    mishaps = 0 =>
        \A l \in Issues : Linked(l) =>
            rows[l].spec = IF links[l].origin = "pushed" THEN OnBoard ELSE links[l].remote

\* A link claims to have seen people's last change of the remote only if the board
\* was refreshed from it. Otherwise the next push would pass the guard over a
\* change nobody on the board has seen.
SeenIsHeard ==
    mishaps = 0 =>
        \A l \in Issues : Linked(l) =>
            LET remote == remotes[links[l].remote]
            IN  links[l].seen >= remote.touched =>
                    heard[l] >= remote.touched \/ remote.last \in exposed

\* What sync.rs promises without an exception: an agent's half-ticked plan survives
\* every refresh.
TicksSurvive ==
    \A m \in made : m.what = "tick" => m.edit \in rows[m.on].plan
=============================================================================

-------------------------------- MODULE TuiApp --------------------------------
(***************************************************************************)
(* One session of the TUI: the application state and what each key or      *)
(* click does to it (cliban-tui: app.rs, keybinds.rs), and the loop that   *)
(* runs the commands and loads the board again (runtime.rs).               *)
(*                                                                         *)
(* A session shows a copy of the board.  It loads the copy after its own   *)
(* commands; the changes of others reach a remote session as Refresh       *)
(* events and a local one only when the user presses `r`.  So a key acts   *)
(* on the copy, and its command runs on the database.                      *)
(*                                                                         *)
(* The pages and the list of `/` find their rows in the copy again at each *)
(* key, so that opening one and acting on any of its rows is one step from *)
(* the board.  The prompt for a project and the form for a milestone keep  *)
(* what they were opened for, and nobody else changes that here: they are  *)
(* one step too.  Help and the quit prompt only draw.                      *)
(* The cursor a column remembers is any cursor on the column.  A card is   *)
(* its number, in key order; positions count thousands.  A time is the     *)
(* number of the write.                                                    *)
(*                                                                         *)
(* Bounds: a behaviour ends with its MaxWrites-th write; MaxOthers of them *)
(* are by other actors, and there are MaxCards cards; UndoDepth stands for *)
(* UNDO_DEPTH = 32.                                                        *)
(***************************************************************************)
EXTENDS Integers, FiniteSets, SequencesExt

CONSTANTS
    Project, None,
    Columns,     \* the statuses in board order (ColumnId::ALL)
    Names,       \* the milestone names in name order
    FirstCards, FirstStones,
    MaxCards, UndoDepth, MaxWrites, MaxOthers

Cards == 1..MaxCards
Status == ToSet(Columns)
Milestone == Project \X ToSet(Names)
PageStep == 5

(* What a row can be; what is shown of a card has no text.                 *)
CardRow == [project : Project, status : Status, pos : Int, archived : BOOLEAN,
            stone : ToSet(Names) \cup {None}, text : {"ours", "theirs", None},
            blocker : Cards \cup {None}, at : Nat]
StoneRow == [status : {"open", "completed", "cancelled"}, at : Nat]
Database == [cards : [Cards -> CardRow \cup {None}], stones : [Milestone -> StoneRow \cup {None}],
             filed : SUBSET Project, log : Nat]

TuiConstants ==
    /\ MaxCards \in Nat /\ UndoDepth \in Nat \ {0}
    /\ Columns \in Seq(Status) /\ Columns # <<>>
    /\ \A i, j \in DOMAIN Columns : Columns[i] = Columns[j] => i = j
    /\ FirstCards \in [Cards -> CardRow \cup {None}]
    /\ FirstStones \in [Milestone -> StoneRow \cup {None}]
    /\ None \notin Project /\ None \notin Cards /\ None \notin ToSet(Names)
    /\ None \notin CardRow /\ None \notin StoneRow /\ None \notin Database

ASSUME TuiAssumption == TuiConstants

VARIABLES
    host,       \* "local" or "remote"
    db,         \* [cards, stones, filed, log]: the database; log counts the entries
                \* of others, for one's own are not news
    seen,       \* the same as the session last loaded it
    focus,      \* [col, idx]
    mode,
    scope,      \* [project, milestone]
    undo,       \* undo_stack
    edit,       \* the buffer $EDITOR holds, while the loop waits for it
    over,       \* a refused command has ended the event_loop
    own, others,
    touched,    \* history: cards changed by other means than the undo stack knows
    base        \* history: the cards as they were below the undo stack

data == <<db, seen>>
view == <<focus, mode, scope>>
history == <<touched, base>>
counts == <<own, others>>
tuiVars == <<host, data, view, undo, edit, over, counts, history>>

Now == own + others + 1

Normal == [at |-> "normal"]
Closed == [project |-> None, milestone |-> None]

-----------------------------------------------------------------------------
(* The copy, and what is on the board of it.                               *)

(* last_activity: of the milestone, or of a card of it that is on a board. *)
LastActivity(d, m) ==
    Max({d.stones[m].at} \cup
        {d.cards[k].at : k \in {j \in Cards : /\ d.cards[j] # None /\ ~d.cards[j].archived
                                             /\ <<d.cards[j].project, d.cards[j].stone>> = m}})

Loaded(d, project) ==
    [cards |-> [k \in Cards |-> IF d.cards[k] = None \/ d.cards[k].archived
                                THEN None ELSE [d.cards[k] EXCEPT !.text = None, !.at = 0]],
     stones |-> [m \in Milestone |->
                   IF d.stones[m] = None \/ project \notin {None, m[1]} THEN None
                   ELSE [status |-> d.stones[m].status, at |-> LastActivity(d, m)]],
     filed |-> d.filed, log |-> d.log]

MatchesScope(c, sc) == \/ sc.project = None
                       \/ /\ c.project = sc.project
                          /\ sc.milestone \in {None, c.stone}

Column(cards, sc, st) == {k \in Cards : /\ cards[k] # None /\ cards[k].status = st
                                         /\ MatchesScope(cards[k], sc)}
Above(cards, j, k) == \/ cards[j].pos < cards[k].pos
                      \/ cards[j].pos = cards[k].pos /\ j < k

Place(cards, column, k) == Cardinality({j \in column : Above(cards, j, k)})

Located(cards, sc, k) ==
    IF cards[k] = None \/ ~MatchesScope(cards[k], sc) THEN None
    ELSE [col |-> cards[k].status, idx |-> Place(cards, Column(cards, sc, cards[k].status), k)]

CardAt(cards, sc, f) == LET column == Column(cards, sc, f.col)
                            here == {k \in column : Place(cards, column, k) = f.idx}
                        IN IF here = {} THEN None ELSE CHOOSE k \in here : TRUE
Shown(st) == Column(seen.cards, scope, st)
Focused == CardAt(seen.cards, scope, focus)

Full(cards, sc) == {i \in DOMAIN Columns : Column(cards, sc, Columns[i]) # {}}
Bottom(column) == IF column = {} THEN 0 ELSE Cardinality(column) - 1

(* restore_cursor_for: what was remembered for the column, if there are as *)
(* many cards in it.                                                       *)
Restored(cards, sc, st) == [col : {st}, idx : 0..Bottom(Column(cards, sc, st))]

(* Slip: the cursor stays where it was.                                    *)
AutoFocusNot(cards, sc, f) == {f}

(* auto_focus_if_empty.                                                    *)
AutoFocus(cards, sc, f) ==
    IF CardAt(cards, sc, f) # None THEN {f}
    ELSE IF Full(cards, sc) = {} THEN {[f EXCEPT !.idx = 0]}
    ELSE Restored(cards, sc, Columns[Min(Full(cards, sc))])

(* load_relations: here, the first blocker that is not done.               *)
OpenBlocker(d, k) == LET b == d.cards[k].blocker
                     IN IF b # None /\ d.cards[b].status # "done" THEN b ELSE None

(* reload.                                                                 *)
Reload(sc, f, md) ==
    /\ seen' = Loaded(db', sc.project)
    /\ scope' = sc
    /\ focus' \in AutoFocus(seen'.cards, sc, f)
    /\ mode' = IF md.at = "detail" THEN [md EXCEPT !.blocker = OpenBlocker(db', md.key)] ELSE md

-----------------------------------------------------------------------------
(* The commands, on the database; None is a refusal (data.rs).             *)

Places(d, project, st) ==
    {0} \cup {d.cards[k].pos : k \in {j \in Cards : /\ d.cards[j] # None
                                                    /\ d.cards[j].project = project
                                                    /\ d.cards[j].status = st}}
(* updated_at, kept where LastActivity can ask for it.                     *)
Written(d, k) == [d EXCEPT !.cards[k].at = IF \/ d.cards[k].stone = None
                                              \/ d.cards[k].archived THEN 0 ELSE Now]
Moved(d, k, st) ==
    Written([d EXCEPT !.cards[k].status = st,
                      !.cards[k].pos = 1 + Max(Places(d, d.cards[k].project, st))], k)
Swapped(d, j, k) ==
    Written(Written([d EXCEPT !.cards[j].pos = d.cards[k].pos,
                              !.cards[k].pos = d.cards[j].pos], j), k)
Archived(d, k, b) == Written([d EXCEPT !.cards[k].archived = b], k)
Filed(d, p, b) == [d EXCEPT !.filed = IF b THEN @ \cup {p} ELSE @ \ {p}]

(* A milestone that is not there any more clears the tag.                  *)
Existing(d, project, name) ==
    IF name \in ToSet(Names) /\ d.stones[<<project, name>>] # None THEN name ELSE None
Tagged(d, k, name) ==
    Written([d EXCEPT !.cards[k].stone = Existing(d, d.cards[k].project, name)], k)

Restated(d, m, st) == IF d.stones[m] = None THEN None
                      ELSE [d EXCEPT !.stones[m] = [status |-> st, at |-> Now]]

(* The cards of a milestone follow it to its new name.                     *)
Renamed(d, m, n) ==
    IF d.stones[m] = None \/ (n # m[2] /\ d.stones[<<m[1], n>>] # None) THEN None
    ELSE [d EXCEPT
            !.stones = [[@ EXCEPT ![m] = None]
                           EXCEPT ![<<m[1], n>>] = [d.stones[m] EXCEPT !.at = Now]],
            !.cards = [k \in Cards |-> IF d.cards[k] # None /\ d.cards[k].project = m[1]
                                          /\ d.cards[k].stone = m[2]
                                       THEN [d.cards[k] EXCEPT !.stone = n] ELSE d.cards[k]]]

Saved(d, k, b) ==
    LET moved == IF b.status # d.cards[k].status THEN Moved(d, k, b.status) ELSE d
    IN Tagged([moved EXCEPT !.cards[k].text = b.text], k, b.stone)

Card(project, st, stone) == [project |-> project, status |-> st, pos |-> 0, archived |-> FALSE,
                             stone |-> stone, text |-> "ours", blocker |-> None, at |-> 0]
Fresh == {k \in Cards : db.cards[k] = None}

-----------------------------------------------------------------------------
TuiInit ==
    /\ host \in {"local", "remote"}
    /\ db = [cards |-> FirstCards, stones |-> FirstStones, filed |-> {}, log |-> 0]
    /\ seen = Loaded(db, None)
    /\ focus = [col |-> Columns[1], idx |-> 0]
    /\ mode = Normal /\ scope = Closed
    /\ undo = <<>> /\ edit = None /\ over = FALSE
    /\ own = 0 /\ others = 0
    /\ touched = Fresh
    /\ base = FirstCards

(* The loop goes on.                                                       *)
Running == ~over /\ own + others < MaxWrites /\ UNCHANGED host

Key(m) == Running /\ edit = None /\ mode.at = m

Still == UNCHANGED <<data, undo, edit, over, counts, history>>
Mode(md) == mode' = md /\ UNCHANGED <<focus, scope>> /\ Still

(* dispatch_command and the reload after it: a refusal ends the session.   *)
Run(d, sc, f, md) ==
    /\ own' = own + 1
    /\ IF d = None
       THEN over' = TRUE /\ UNCHANGED <<data, focus, mode, scope>>
       ELSE db' = d /\ Reload(sc, f, md) /\ UNCHANGED over
    /\ UNCHANGED <<edit, others>>

(* Slip: a full stack forgets what was just done.                          *)
PushedNewestLost(op) == IF Len(undo) = UndoDepth THEN undo ELSE Append(undo, op)

Pushed(op) == Append(IF Len(undo) = UndoDepth THEN Tail(undo) ELSE undo, op)

Push(op) ==
    /\ undo' = Pushed(op)
    /\ base' = IF Len(undo) < UndoDepth \/ undo[1].key \in touched THEN base
               ELSE LET gone == undo[1]
                    IN CASE gone.op = "move" -> [base EXCEPT ![gone.key].status = gone.to]
                         [] gone.op = "archive" -> [base EXCEPT ![gone.key].archived = TRUE]
                         [] OTHER -> base
    /\ UNCHANGED touched
NoUndo == UNCHANGED <<undo, history>>

-----------------------------------------------------------------------------
(* The cursor.                                                             *)

GoTo(st) == focus' \in Restored(seen.cards, scope, st)

(* h, l, Tab: to the nearest column that has cards.                        *)
FocusSideways ==
    /\ Key("normal")
    /\ LET here == CHOOSE i \in DOMAIN Columns : Columns[i] = focus.col
           left == {i \in Full(seen.cards, scope) : i < here}
           right == {i \in Full(seen.cards, scope) : i > here}
       IN \/ left # {} /\ GoTo(Columns[Max(left)])
          \/ right # {} /\ GoTo(Columns[Min(right)])
    /\ UNCHANGED <<mode, scope>> /\ Still

(* 1 to 5, or a click on a card or below the last one of a column.        *)
FocusColumn == /\ Key("normal") /\ \E st \in Status : GoTo(st)
               /\ UNCHANGED <<mode, scope>> /\ Still

(* j, k, Ctrl-d, Ctrl-u, gg, G.                                            *)
FocusAlong ==
    /\ Key("normal")
    /\ LET bottom == Bottom(Shown(focus.col))
       IN \E i \in {0, bottom, focus.idx - 1, focus.idx + 1,
                    focus.idx - PageStep, focus.idx + PageStep} \cap 0..bottom :
             focus' = [focus EXCEPT !.idx = i]
    /\ UNCHANGED <<mode, scope>> /\ Still

-----------------------------------------------------------------------------
(* Cards.                                                                  *)

OpenDetail == /\ Key("normal") /\ Focused # None
              /\ Mode([at |-> "detail", key |-> Focused, blocker |-> OpenBlocker(db, Focused)])

(* `b` in the popup: only when the blocker is on the board.                *)
JumpTo(k) == LET at == Located(seen.cards, scope, k)
             IN /\ at # None /\ focus' = at /\ mode' = Normal
                /\ UNCHANGED scope /\ Still

JumpToBlocker ==
    /\ Key("detail") /\ mode.blocker # None
    /\ JumpTo(mode.blocker)

(* Space, and a column's letter.  `on` is a history field: the card that   *)
(* had the cursor when Space was pressed.                                  *)
BeginMove == Key("normal") /\ Mode([at |-> "move", on |-> Focused])

MoveTo(st) ==
    /\ Key("move")
    /\ IF Focused = None THEN Mode(Normal)
       ELSE /\ Push([op |-> "move", key |-> Focused, from |-> seen.cards[Focused].status,
                     to |-> st])
            /\ Run(Moved(db, Focused, st), scope, focus, Normal)

(* Slip: the cursor lands on the last card that was there.                 *)
LandingShort(st) == Bottom(Shown(st))

Landing(st) == Cardinality(Shown(st))

(* H and L: the card goes to the next column, and the cursor with it.      *)
MoveIssueAcross(step) ==
    /\ Key("normal") /\ Focused # None
    /\ \E i \in DOMAIN Columns :
          /\ Columns[i] = focus.col /\ i + step \in DOMAIN Columns
          /\ LET to == Columns[i + step]
             IN /\ Push([op |-> "move", key |-> Focused, from |-> focus.col, to |-> to])
                /\ Run(Moved(db, Focused, to), scope, [col |-> to, idx |-> Landing(to)], mode)

(* J and K: the card changes places with the one below or above.           *)
Reorder(step) ==
    /\ Key("normal") /\ Focused # None
    /\ LET there == [focus EXCEPT !.idx = @ + step]
           other == IF there.idx < 0 THEN None ELSE CardAt(seen.cards, scope, there)
       IN /\ other # None
          /\ Push([op |-> "swap", key |-> Focused, other |-> other])
          /\ Run(Swapped(db, Focused, other), scope, there, mode)

MoveIssueDir == \E step \in {-1, 1} : MoveIssueAcross(step) \/ Reorder(step)

ArchiveRequest == /\ Key("normal") /\ Focused # None
                  /\ Mode([at |-> "archive", key |-> Focused])

(* Slip: the card to archive is the one that has the cursor now.           *)
ConfirmedFocused == IF Focused # None THEN Focused ELSE mode.key

Confirmed == mode.key

Archive == /\ Key("archive")
           /\ Push([op |-> "archive", key |-> Confirmed])
           /\ Run(Archived(db, Confirmed, TRUE), scope, focus, Normal)

(* Slip: the oldest change is undone first.                                *)
PoppedOldest == [op |-> undo[1], rest |-> Tail(undo)]

Popped == [op |-> Last(undo), rest |-> Front(undo)]

Reversed(d, u) == CASE u.op = "move" -> Moved(d, u.key, u.from)
                   [] u.op = "swap" -> Swapped(d, u.key, u.other)
                   [] OTHER -> Archived(d, u.key, FALSE)

Undo ==
    /\ Key("normal") /\ undo # <<>>
    /\ undo' = Popped.rest
    /\ Run(Reversed(db, Popped.op), scope, focus, mode)
    /\ UNCHANGED history

(* The milestones of a project by name, and as load_milestones lists them: *)
(* by activity, the latest first, then by name.                            *)
ByName(d, project) == SelectSeq(Names, LAMBDA n : d.stones[<<project, n>>] # None)
ByActivity(d, project) ==
    LET at(n) == d.stones[<<project, n>>].at
        place(n) == CHOOSE i \in DOMAIN Names : Names[i] = n
    IN SetToSortSeq(ToSet(ByName(d, project)),
                    LAMBDA m, n : at(m) > at(n) \/ (at(m) = at(n) /\ place(m) < place(n)))

After(n, names) == IF n = None \/ ~Contains(names, n)
                   THEN Head(names)
                   ELSE LET i == CHOOSE j \in DOMAIN names : names[j] = n
                        IN IF i < Len(names) THEN names[i + 1] ELSE None

(* `t`: none, then each milestone of the list, then none again.            *)
TagMilestone ==
    /\ Key("normal") /\ Focused # None
    /\ LET c == seen.cards[Focused]
           names == ByActivity(seen, c.project)
       IN /\ names # <<>>
          /\ Run(Tagged(db, Focused, After(c.stone, names)), scope, focus, mode)
    /\ NoUndo

-----------------------------------------------------------------------------
(* $EDITOR: the buffer is filled from the database, the loop waits, and    *)
(* what comes back, here with the status changed or not, is written whole. *)
(* A remote session has no editor.                                         *)

EditCard ==
    /\ Key("normal") \/ Key("detail")
    /\ Focused # None
    /\ IF host = "remote"
       THEN UNCHANGED <<db, edit>> /\ Reload(scope, focus, mode)
       ELSE /\ edit' = [key |-> Focused, row |-> db.cards[Focused]]
            /\ UNCHANGED <<data, focus, mode, scope>>
    /\ UNCHANGED <<undo, over, counts, history>>

(* `E` on the board or on a row of the milestone page.                     *)
EditMilestone(m) ==
    /\ IF db.stones[m] = None
       THEN over' = TRUE /\ UNCHANGED <<data, focus, mode, scope, edit>>
       ELSE /\ UNCHANGED over
            /\ IF host = "remote"
               THEN UNCHANGED <<db, edit>> /\ Reload(scope, focus, mode)
               ELSE edit' = [stone |-> m] /\ UNCHANGED <<data, focus, mode, scope>>
    /\ UNCHANGED <<undo, counts, history>>

EditScope == /\ Key("normal") /\ scope.milestone # None
             /\ EditMilestone(<<scope.project, scope.milestone>>)

(* The rows of the milestone page, under one filter and query or another.  *)
MilestoneRows == {m \in Milestone : seen.stones[m] # None}
MsPageEdit == Key("normal") /\ \E m \in MilestoneRows : EditMilestone(m)

Return == Running /\ edit # None

SaveIssue ==
    /\ Return /\ "key" \in DOMAIN edit
    /\ own' = own + 1
    /\ \E st \in Status :
          /\ db' = Saved(db, edit.key, [edit.row EXCEPT !.status = st])
          /\ touched' = IF st # db.cards[edit.key].status THEN touched \cup {edit.key} ELSE touched
    /\ Reload(scope, focus, mode)
    /\ edit' = None
    /\ UNCHANGED <<undo, over, others, base>>

(* A status, or a priority, that is none ends the session; the priority is *)
(* looked at after the move (apply_issue_edit).                            *)
SaveRefused ==
    /\ Return /\ "key" \in DOMAIN edit
    /\ own' = own + 1
    /\ \E st \in Status :
          IF st # db.cards[edit.key].status
          THEN db' = Moved(db, edit.key, st) /\ touched' = touched \cup {edit.key}
          ELSE UNCHANGED <<db, touched>>
    /\ over' = TRUE /\ edit' = None
    /\ UNCHANGED <<seen, view, undo, others, base>>

(* The user may rename it; a refusal ends the session.                     *)
SaveMilestone ==
    /\ Return /\ "stone" \in DOMAIN edit
    /\ own' = own + 1
    /\ \E n \in ToSet(Names) :
          LET d == Renamed(db, edit.stone, n)
          IN IF d = None
             THEN over' = TRUE /\ UNCHANGED <<data, focus, mode, scope>>
             ELSE db' = d /\ Reload(scope, focus, mode) /\ UNCHANGED over
    /\ edit' = None
    /\ UNCHANGED <<undo, others, history>>

(* The editor fails, or leaves what does not parse: nothing is written.    *)
LeaveEditor == /\ Return /\ edit' = None
               /\ UNCHANGED db /\ Reload(scope, focus, mode)
               /\ UNCHANGED <<undo, over, counts, history>>

-----------------------------------------------------------------------------
(* The quick-create form: everything the write needs is settled when it    *)
(* opens (NewDialogState).                                                 *)

AnyProject == LET on == {k \in Cards : seen.cards[k] # None}
              IN IF scope.project # None THEN {scope.project}
                 ELSE IF Focused # None THEN {seen.cards[Focused].project}
                 ELSE IF on # {} THEN {seen.cards[Min(on)].project} ELSE {}

NewIssue == /\ Key("normal")
            /\ \E p \in AnyProject :
                  Mode([at |-> "new", project |-> p,
                        status |-> focus.col, stone |-> scope.milestone])

(* handle_create: a refusal is a status message.                           *)
Created(d, f) == /\ db' = d
                 /\ own' = own + 1
                 /\ LET shown == Loaded(d, scope.project).cards
                        at == IF f = None THEN None ELSE Located(shown, scope, f)
                    IN Reload(scope, IF at = None THEN focus ELSE at, Normal)
                 /\ UNCHANGED <<undo, edit, over, others, base>>

CreateIssue ==
    /\ Key("new") /\ Fresh # {}
    /\ LET k == Min(Fresh)
           d == Written([db EXCEPT !.cards[k] =
                           [Card(mode.project, mode.status, mode.stone)
                              EXCEPT !.pos = 1 + Max(Places(db, mode.project, mode.status))]], k)
       IN IF mode.stone # Existing(db, mode.project, mode.stone)
          THEN Created(db, None) ELSE Created(d, k)
    /\ UNCHANGED touched

(* `N` on the board, or on the page with the cursor in a project.          *)
CreateMilestone ==
    /\ Key("normal")
    /\ \E m \in Milestone :
          /\ m[1] = scope.project \/ \E n \in ToSet(Names) : seen.stones[<<m[1], n>>] # None
          /\ Created(IF db.stones[m] # None THEN db
                     ELSE [db EXCEPT !.stones[m] = [status |-> "open", at |-> Now]], None)
    /\ UNCHANGED touched

-----------------------------------------------------------------------------
(* The scope and the pages it is chosen on.                                *)

(* Slip: the milestone stays when the project changes.                     *)
InProjectKept(sc, p) == [sc EXCEPT !.project = p]

(* Scope::set_project.                                                     *)
InProject(sc, p) == [project |-> p, milestone |-> IF sc.project = p THEN sc.milestone ELSE None]

(* auto_focus_if_empty on what is loaded, then the reload.                 *)
SetScope(sc) == /\ UNCHANGED db
                /\ \E f \in AutoFocus(seen.cards, sc, focus) : Reload(sc, f, Normal)
                /\ UNCHANGED <<undo, edit, over, counts, history>>

(* `M` walks through the milestones of the project, then none.             *)
CycleMilestoneFilter ==
    /\ Key("normal") /\ scope.project # None /\ ByName(seen, scope.project) # <<>>
    /\ LET names == ByName(seen, scope.project)
           stale == scope.milestone # None /\ ~Contains(names, scope.milestone)
       IN \E n \in ToSet(Names) \cup {None} :
             /\ n = IF stale THEN None ELSE After(scope.milestone, names)
             /\ SetScope([scope EXCEPT !.milestone = n])

MsPageSelect ==
    /\ Key("normal")
    /\ \E m \in MilestoneRows : SetScope([InProject(scope, m[1]) EXCEPT !.milestone = m[2]])

NextStatus(st) == CASE st = "open" -> "completed" [] st = "completed" -> "cancelled"
                    [] OTHER -> "open"

MsPageCycleStatus ==
    /\ Key("normal")
    /\ \E m \in MilestoneRows :
          Run(Restated(db, m, NextStatus(seen.stones[m].status)), scope, focus, mode)
    /\ NoUndo

ProjPageSelect == /\ Key("normal")
                  /\ \E p \in Project \ seen.filed : SetScope(InProject(scope, p))

(* A project that leaves the board takes the scope with it.                *)
ProjPageArchive ==
    /\ Key("normal")
    /\ \E p \in Project :
          LET archived == p \notin seen.filed
          IN Run(Filed(db, p, archived),
                 IF archived /\ scope.project = p THEN InProject(scope, None) ELSE scope,
                 focus, mode)
    /\ NoUndo

(* The mailbox: entering it and leaving it with Esc sets last_seen to now, *)
(* which counts as read all that is in the log by then (mark_seen).        *)
OpenActivityPage == Key("normal") /\ Mode([at |-> "activity"])
LeaveActivityPage == Key("activity") /\ Mode(Normal)
ActPageSelect == Key("activity") /\ \E k \in Cards : JumpTo(k)

(* `/` and Enter.                                                          *)
FuzzyFind == Key("normal") /\ \E k \in Cards : JumpTo(k)

Cancel(m) == Key(m) /\ Mode(Normal)

(* `r`, or the Refresh event of a remote session.                          *)
Refresh == /\ Running /\ edit = None
           /\ mode.at = "normal" \/ host = "remote"
           /\ UNCHANGED db /\ Reload(scope, focus, mode)
           /\ UNCHANGED <<undo, edit, over, counts, history>>

-----------------------------------------------------------------------------
(* Everyone else who writes to the board: other sessions and the CLI.      *)

Other == /\ Running /\ others < MaxOthers /\ others' = others + 1
         /\ \/ \E k \in Cards \ Fresh :
                  /\ \E d \in {Moved(db, k, st) : st \in Status \ {db.cards[k].status}}
                             \cup {Archived(db, k, TRUE),
                                   Written([db EXCEPT !.cards[k].text = "theirs"], k)} :
                        db' = [d EXCEPT !.log = @ + 1]
                  /\ touched' = touched \cup {k}
            \/ /\ \E m \in Milestone, n \in ToSet(Names) :
                     n # m[2] /\ db' = Renamed(db, m, n) /\ db' # None
               /\ UNCHANGED touched
         /\ UNCHANGED <<seen, view, undo, edit, over, own, base>>

(* What the keys and clicks of each mode offer (map_key).  The digits and  *)
(* Enter do what the two clicks do.                                        *)
Clicks == FocusColumn \/ OpenDetail
NormalKeys ==
    \/ FocusSideways \/ Clicks \/ FocusAlong \/ BeginMove \/ MoveIssueDir
    \/ ArchiveRequest \/ Undo \/ TagMilestone \/ EditCard \/ EditScope \/ NewIssue
    \/ CycleMilestoneFilter \/ OpenActivityPage \/ Refresh
PopupKeys == JumpToBlocker \/ Cancel("detail")
MoveKeys == (\E st \in Status : MoveTo(st)) \/ Cancel("move")
ArchiveKeys == Archive \/ Cancel("archive")
FormKeys == CreateIssue \/ Cancel("new")
FuzzyKeys == FuzzyFind
MilestonePageKeys == MsPageSelect \/ MsPageEdit \/ MsPageCycleStatus \/ CreateMilestone
ProjectPageKeys == ProjPageSelect \/ ProjPageArchive
ActivityPageKeys == ActPageSelect \/ LeaveActivityPage
Editor == SaveIssue \/ SaveRefused \/ SaveMilestone \/ LeaveEditor

TuiNext ==
    \/ NormalKeys \/ PopupKeys \/ MoveKeys \/ ArchiveKeys \/ FormKeys \/ FuzzyKeys
    \/ MilestonePageKeys \/ ProjectPageKeys \/ ActivityPageKeys
    \/ Editor \/ Other

TuiSpec == TuiInit /\ [][TuiNext]_tuiVars

-----------------------------------------------------------------------------
(* Undoing everything on the stack gives each card back the status and the *)
(* place on or off the board that it had below the stack, unless it was    *)
(* changed by other means (UndoOp, push_undo and its limit).               *)
Unwound(k) ==
    LET moves == {i \in DOMAIN undo : undo[i].op = "move" /\ undo[i].key = k}
        gone == \E i \in DOMAIN undo : undo[i].op = "archive" /\ undo[i].key = k
    IN [status |-> IF moves = {} THEN db.cards[k].status ELSE undo[Min(moves)].from,
        archived |-> db.cards[k].archived /\ ~gone]
UndoRestores ==
    \A k \in Cards \ touched : /\ Unwound(k).status = base[k].status
                                /\ Unwound(k).archived = base[k].archived

(* The cursor is on a card, or at the top of an empty column, whatever     *)
(* others have done to the board (auto_focus_if_empty, restore_cursor_for).*)
FocusOnACard == focus.idx \in 0..Bottom(Shown(focus.col))

(* On the board of one project, a card that the user moves with H, J, K or *)
(* L keeps the cursor, unless the session had not seen the board as it was *)
(* or two cards of a column share a place (Landing).                       *)
Apart == \A j, k \in Cards \ Fresh :
            (j # k /\ db.cards[j].pos = db.cards[k].pos) =>
                <<db.cards[j].project, db.cards[j].status>>
                    # <<db.cards[k].project, db.cards[k].status>>
FollowsWhen(condition) ==
    (/\ own' # own /\ mode.at = "normal" /\ MoveIssueDir
     /\ condition /\ seen = Loaded(db, scope.project) /\ Apart)
        => CardAt(seen'.cards, scope', focus') = Focused
CursorFollows == [][FollowsWhen(scope.project # None)]_tuiVars

(* Not so: the same on the board of every project.                         *)
CursorFollowsUnscoped == [][FollowsWhen(TRUE)]_tuiVars

(* The card the prompt asked about is the card that is archived, whatever  *)
(* the board did while the prompt was open (Mode::ConfirmArchive).         *)
ArchivesTheCardAsked ==
    [][mode.at = "archive" /\ db' # db /\ Archive
         => \A k \in Cards : db'.cards[k] # db.cards[k] => k = mode.key]_tuiVars

(* A milestone comes into the scope only with its own project (Scope, and  *)
(* Scope::set_project).                                                    *)
ScopeWithinProject ==
    [][(scope' # scope /\ scope'.milestone # None)
         => /\ scope'.project # None
            /\ seen.stones[<<scope'.project, scope'.milestone>>] # None]_tuiVars

(* Not so: `e` in the popup edits the card of the popup.                   *)
EditsTheCardShown ==
    [][(mode.at = "detail" /\ edit' \notin {None, edit}) => edit'.key = mode.key]_tuiVars

(* Not so: the card that had the cursor at Space is the card that moves.   *)
MovesTheCardChosen ==
    [][(mode.at = "move" /\ mode.on # None /\ own' # own) => Focused = mode.on]_tuiVars

(* Not so: `t`, pressed once more than there are milestones, comes back to  *)
(* where it began ("cycle milestone tag", ui/help.rs).                     *)
Pressed(d, k) == LET c == d.cards[k]
                 IN Tagged(d, k, After(c.stone, ByActivity(Loaded(d, None), c.project)))
TagCycles ==
    \A k \in Cards \ Fresh :
        Len(ByName(db, db.cards[k].project)) = 2 /\ ~db.cards[k].archived
            => Pressed(Pressed(Pressed(db, k), k), k).cards[k].stone = db.cards[k].stone

(* Not so: a save from $EDITOR replaces only the text it began with.       *)
SavesLoseNothing == [][SaveIssue => db.cards[edit.key].text = edit.row.text]_tuiVars

(* Not so: what the mailbox counts as read was loaded.                     *)
ReadWasLoaded == [][OpenActivityPage \/ LeaveActivityPage => seen.log = db.log]_tuiVars

(* Not so: a command that is refused leaves the session open.              *)
RefusalsAreShown == ~over

(* Not so: the milestone in the scope, as the session last saw it, exists. *)
ScopedMilestoneExists ==
    scope.milestone # None => seen.stones[<<scope.project, scope.milestone>>] # None
=============================================================================

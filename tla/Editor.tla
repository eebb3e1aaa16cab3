-------------------------------- MODULE Editor --------------------------------
(***************************************************************************)
(* The VS Code extension (editors/vscode): the board's store and panel in  *)
(* the extension host (store.ts, panel.ts), the watcher of the database    *)
(* file (watcher.ts), the documents of the cliban: scheme (docs.ts) and    *)
(* the webview with its drawer and its create form (main.ts, drawer.ts,    *)
(* forms.ts).                                                              *)
(*                                                                         *)
(* Everything it knows of a board comes from `cliban` processes it spawns: *)
(* a call starts, runs on the database at some time, and is answered at    *)
(* some later time, in any order.  One issue stands for the board: its     *)
(* column, and a description that is the set of the edits in it, so that a *)
(* write from a stale copy shows as an edit that is gone.  updated_at      *)
(* counts the writes.                                                      *)
(*                                                                         *)
(* VS Code itself is modelled as docs.ts counts on it: it reads a clean    *)
(* document again when told it changed, drops what it read if the user has *)
(* typed meanwhile, and does not save over a file whose mtime is newer     *)
(* than the one it read (external).                                        *)
(*                                                                         *)
(* Bounds: the user begins MaxOps operations, agents write MaxAgent times, *)
(* MaxFaults calls fail for no modelled reason, MaxLists refreshes are in  *)
(* flight at once.                                                         *)
(***************************************************************************)
EXTENDS Naturals, FiniteSets

CONSTANTS
    Mode,        \* cliban.watchMode: "poll" or "auto"
    Ops,         \* the operations the user knows
    None,
    Failed, Stale,   \* how a call ends that does nothing
    MaxOps, MaxAgent, MaxFaults, MaxLists

Column == {"backlog", "done"}
Text == SUBSET Nat

\* What a process that ran comes back with; the ways to do nothing are told apart from it.
Answer == [status : Column \cup {None}, body : Text, at : Nat]
EditorConstants == /\ MaxOps \in Nat
                   /\ {None, Failed, Stale} \cap Answer = {}
                   /\ None \notin {Failed, Stale} /\ Failed # Stale

ASSUME EditorAssumption == EditorConstants

VARIABLES
    db,         \* [status, body, at], what `cliban` reads and writes
    changed,    \* fs.watch saw a write and the debounce is running
    calls,      \* the processes under way
    shown,      \* the issue in BoardStore, as the webview shows it
    pending,    \* BoardStore.pending: request -> the issue before
    form,       \* the create form: "closed", "open" or "sent"
    createPending,
    drawer,     \* the open drawer: the issue's token, a section, a draft
    edits,      \* pendingSectionEdits: [id, text]
    restore,    \* restoreDrafts
    doc,        \* VS Code's document: its state, its text, and whether the
                \* mtime it read is still the newest
    cas,        \* the token of docs.ts, 0 before the first read
    ops, agent, faults

host == <<shown, pending>>
webview == <<form, createPending, drawer, edits, restore>>
document == <<doc, cas>>
bounds == <<ops, agent, faults>>
extVars == <<db, changed, calls, host, webview, document, bounds>>

Closed == [open |-> FALSE, token |-> 0, text |-> {}, draft |-> None]
FirstIssue == [status |-> "backlog", body |-> {}, at |-> 1]

EditorInit == /\ db = FirstIssue /\ changed = FALSE
              /\ calls = {}
              /\ shown = FirstIssue.status
              /\ pending = [n \in 1..MaxOps |-> None]
              /\ form = "closed" /\ createPending = FALSE
              /\ drawer = Closed /\ edits = {} /\ restore = None
              /\ doc = [state |-> "none", text |-> {}, newest |-> TRUE]
              /\ cas = 0
              /\ ops = 0 /\ agent = 0 /\ faults = 0

Call(kind, id) == [kind |-> kind, id |-> id, to |-> None, text |-> {}, token |-> 0,
                   issue |-> None, section |-> None, bumped |-> FALSE]
Running(kind) == {c \in calls : c.kind = kind}
Begin(kind) == /\ ops < MaxOps /\ kind \in Ops
               /\ ops' = ops + 1
               /\ UNCHANGED <<db, changed, agent, faults>>

-----------------------------------------------------------------------------
(* `cliban`: every process reads or writes the database at one instant.    *)

Written(body, status) == /\ db' = [status |-> status, body |-> body, at |-> db.at + 1]
                         /\ changed' = (Mode = "auto")
Answered(c, r) == calls' = (calls \ {c}) \cup {r}

(* Of an issue that comes back, what its reader looks at. *)
Kept(kind, issue) == [status |-> IF kind \in {"list", "move", "tick", "edit"}
                                 THEN issue.status ELSE None,
                      body |-> IF kind = "read" THEN issue.body ELSE {},
                      at |-> IF kind \in {"open", "read", "write"} THEN issue.at ELSE 0]

(* Reads: ls, show and cat.  openIssue starts one process for the issue and *)
(* one for each section, all at once.                                       *)
ReadIssue(c) == /\ c.kind \in {"list", "open", "read"} /\ c.issue = None
                /\ Answered(c, [c EXCEPT !.issue = Kept(c.kind, db)])
                /\ UNCHANGED <<db, changed, faults>>

ReadSection(c) == /\ c.kind = "open" /\ c.section = None
                  /\ Answered(c, [c EXCEPT !.section = db.body])
                  /\ UNCHANGED <<db, changed, faults>>

(* mv, tick and add; edit with --if-updated-at. *)
RunWrite(c) ==
    /\ c.kind \in {"move", "tick", "create", "edit", "write"} /\ c.issue = None
    /\ IF c.kind \in {"edit", "write"} /\ c.token # db.at
       THEN /\ Answered(c, [c EXCEPT !.issue = Stale, !.text = {}, !.token = 0])
            /\ UNCHANGED <<db, changed>>
       ELSE /\ CASE c.kind = "move" -> Written(db.body, c.to)
                 [] c.kind = "tick" -> Written(db.body \cup {c.id}, db.status)
                 [] c.kind = "create" -> UNCHANGED db /\ changed' = (Mode = "auto")
                 [] OTHER -> Written(c.text, db.status)
            /\ Answered(c, [c EXCEPT !.issue = Kept(c.kind, db'), !.text = {}, !.token = 0])
    /\ UNCHANGED faults

(* A process that fails changes nothing.  Of a refresh, or of the processes *)
(* of openIssue, if one fails (Promise.all), nothing comes but a message.   *)
RunFails(c) ==
    /\ faults < MaxFaults /\ faults' = faults + 1
    /\ \/ /\ \/ c.kind = "list" /\ c.issue = None
             \/ c.kind = "open" /\ None \in {c.issue, c.section}
          /\ calls' = calls \ {c}
       \/ /\ c.kind \notin {"list", "open"} /\ c.issue = None
          /\ Answered(c, [c EXCEPT !.issue = Failed, !.text = {}, !.token = 0])
    /\ UNCHANGED <<db, changed>>

RunCall(kind) == /\ \E c \in Running(kind) : \/ ReadIssue(c) \/ ReadSection(c)
                                              \/ RunWrite(c) \/ RunFails(c)
                 /\ UNCHANGED <<host, webview, document, ops, agent>>

Agent == /\ agent < MaxAgent
         /\ agent' = agent + 1
         /\ \/ Written(db.body \cup {MaxOps + agent'}, db.status)
            \/ \E s \in Column \ {db.status} : Written(db.body, s)
         /\ UNCHANGED <<calls, host, webview, document, ops, faults>>

-----------------------------------------------------------------------------
(* The webview takes a board message: it draws, and closes the create form *)
(* if a create is pending (onMessage, createFormSucceeded).                *)
ShowBoard(issue) == /\ shown' = issue
                    /\ createPending' = FALSE
                    /\ form' = IF createPending THEN "closed" ELSE form

(* openIssue, the drawer's reload: the processes are started.               *)
Opening(id) == Call("open", id)

(* Slips: the mtime stays as it is, so that VS Code reads nothing again; it *)
(* is made newer by the reading, not before.                                *)
TouchedNot == UNCHANGED doc /\ calls' = calls \cup {Call("list", 0)}
TouchedLate == LET again == doc.state = "clean" /\ Running("read") = {}
               IN  /\ UNCHANGED doc
                   /\ calls' = calls \cup {Call("list", 0)}
                                    \cup IF again THEN {Call("read", 0)} ELSE {}

(* externalChange gives every document read so far, if any, a newer mtime   *)
(* and VS Code reads the clean one again; the board is refreshed.           *)
Touched == LET bumped == {[c EXCEPT !.bumped = c.kind = "read" /\ cas # 0] : c \in calls}
               again == doc.state = "clean" /\ Running("read") = {}
           IN  /\ doc' = [doc EXCEPT !.newest = (cas = 0)]
               /\ calls' = bumped \cup {Call("list", 0)}
                                  \cup IF again THEN {Call("read", 0)} ELSE {}

(* Slip: one timer, not an interval. *)
FiresOnce == changed \/ (Mode = "poll" /\ agent = 0)

(* The watcher fires: by the interval, or once the debounce after the last *)
(* write of a burst has run out.                                           *)
Fires == Mode = "poll" \/ changed

Watch == /\ Fires
         /\ Cardinality(Running("list")) < MaxLists
         /\ changed' = FALSE
         /\ Touched
         /\ UNCHANGED <<db, host, webview, cas, bounds>>

Refreshed == \E c \in Running("list") :
    /\ c.issue # None
    /\ calls' = calls \ {c}
    /\ ShowBoard(c.issue.status)
    /\ UNCHANGED <<db, changed, pending, drawer, edits, restore, document, bounds>>

-----------------------------------------------------------------------------
(* A card is dragged to another column: applyOptimistic, then `issue mv`.  *)
Move(to) == /\ Begin("move")
            /\ to # shown
            /\ pending' = [pending EXCEPT ![ops'] = shown]
            /\ ShowBoard(to)
            /\ calls' = calls \cup {[Call("move", ops') EXCEPT !.to = to]}
            /\ UNCHANGED <<drawer, edits, restore, document>>

(* Slip: commit forgets to drop the pending record. *)
CommitKeeps(c) == ShowBoard(c.issue.status) /\ UNCHANGED pending

Commit(c) == ShowBoard(c.issue.status) /\ pending' = [pending EXCEPT ![c.id] = None]
Rollback(c) == ShowBoard(pending[c.id]) /\ pending' = [pending EXCEPT ![c.id] = None]

Moved == \E c \in Running("move") :
    /\ c.issue # None
    /\ calls' = calls \ {c}
    /\ IF c.issue = Failed THEN Rollback(c) ELSE Commit(c)
    /\ UNCHANGED <<db, changed, drawer, edits, restore, document, bounds>>

(* The create form: a failure is shown in it if it is still there.         *)
OpenForm == /\ Begin("create") /\ form = "closed"
            /\ form' = "open" /\ createPending' = FALSE
            /\ UNCHANGED <<calls, host, drawer, edits, restore, document>>

Submit == /\ form = "open"
          /\ form' = "sent" /\ createPending' = TRUE
          /\ calls' = calls \cup {Call("create", ops)}
          /\ UNCHANGED <<db, changed, host, drawer, edits, restore, document, bounds>>

(* applyEcho of the new issue emits a board message. *)
Created == \E c \in Running("create") :
    /\ c.issue # None
    /\ calls' = calls \ {c}
    /\ IF c.issue = Failed
       THEN /\ form' = IF form = "sent" THEN "open" ELSE form
            /\ UNCHANGED <<shown, createPending>>
       ELSE ShowBoard(shown)
    /\ UNCHANGED <<db, changed, pending, drawer, edits, restore, document, bounds>>

-----------------------------------------------------------------------------
(* The drawer. *)
OpenDrawer == /\ Begin("open")
              /\ calls' = calls \cup {Opening(ops')}
              /\ UNCHANGED <<host, webview, document>>

(* issueDetail: whatever is pending for the issue is taken to be settled,   *)
(* and the drawer is drawn anew with the draft to restore, if there is one. *)
Detail == \E c \in Running("open") :
    /\ c.issue # None /\ c.section # None
    /\ calls' = calls \ {c}
    /\ edits' = {}
    /\ restore' = None
    /\ drawer' = [open |-> TRUE, token |-> c.issue.at, text |-> c.section, draft |-> restore]
    /\ UNCHANGED <<db, changed, host, form, createPending, document, bounds>>

CloseDrawer == /\ drawer.open
               /\ drawer' = Closed
               /\ UNCHANGED <<db, changed, calls, host, form, createPending, edits, restore,
                              document, bounds>>

TickBox == /\ Begin("tick") /\ drawer.open
           /\ calls' = calls \cup {Call("tick", ops')}
           /\ UNCHANGED <<host, webview, document>>

(* mutateAndReload: the echo, if any, then the drawer's reload.             *)
Ticked == \E c \in Running("tick") :
    /\ c.issue # None
    /\ calls' = (calls \ {c}) \cup {Opening(c.id)}
    /\ IF c.issue = Failed THEN UNCHANGED <<shown, form, createPending>>
       ELSE ShowBoard(c.issue.status)
    /\ UNCHANGED <<db, changed, pending, drawer, edits, restore, document, bounds>>

(* A section is edited, from what the drawer shows or from the draft that   *)
(* was restored, and saved with the token the drawer was drawn with.        *)
SaveSection == LET text == (IF drawer.draft = None THEN drawer.text ELSE drawer.draft) IN
    /\ Begin("edit") /\ drawer.open
    /\ calls' = calls \cup {[Call("edit", ops') EXCEPT !.text = text \cup {ops'},
                                                       !.token = drawer.token]}
    /\ edits' = edits \cup {[id |-> ops', text |-> text \cup {ops'}]}
    /\ UNCHANGED <<host, form, createPending, drawer, restore, document>>

(* mutationFailed is posted first, then the drawer is reloaded: after a     *)
(* conflict, and after a success.                                           *)
Edited == \E c \in Running("edit") :
    LET mine == {e \in edits : e.id = c.id} IN
    /\ c.issue # None
    /\ calls' = (calls \ {c}) \cup IF c.issue = Failed THEN {} ELSE {Opening(c.id)}
    /\ IF c.issue \in {Failed, Stale}
       THEN /\ edits' = edits \ mine
            /\ restore' = IF mine = {} THEN restore ELSE (CHOOSE e \in mine : TRUE).text
            /\ UNCHANGED <<shown, form, createPending>>
       ELSE ShowBoard(c.issue.status) /\ UNCHANGED <<edits, restore>>
    /\ UNCHANGED <<db, changed, pending, drawer, document, bounds>>

-----------------------------------------------------------------------------
(* The document of the issue (docs.ts). *)
OpenDoc == /\ Begin("doc") /\ doc.state = "none"
           /\ doc' = [doc EXCEPT !.state = "reading"]
           /\ calls' = calls \cup {Call("read", 0)}
           /\ UNCHANGED <<host, webview, cas>>

(* readFile pins updated_at; VS Code takes the text unless the user typed.  *)
DocRead == \E c \in Running("read") :
    /\ c.issue \notin {None, Failed}
    /\ calls' = calls \ {c}
    /\ cas' = c.issue.at
    /\ doc' = IF doc.state \in {"reading", "reverting", "clean"}
              THEN [state |-> "clean", text |-> c.issue.body, newest |-> ~c.bumped]
              ELSE doc
    /\ UNCHANGED <<db, changed, host, webview, bounds>>

(* What cannot be read is not opened, or keeps the text it had.             *)
DocReadFails == \E c \in Running("read") :
    /\ c.issue = Failed
    /\ calls' = calls \ {c}
    /\ doc' = [doc EXCEPT !.state = CASE @ = "reading" -> "none"
                                      [] @ = "reverting" -> "dirty" [] OTHER -> @]
    /\ UNCHANGED <<db, changed, host, webview, cas, bounds>>

Type == /\ Begin("type") /\ doc.state = "clean"
        /\ doc' = [doc EXCEPT !.state = "dirty", !.text = @ \cup {ops'}]
        /\ UNCHANGED <<calls, host, webview, cas>>

Revert == /\ doc.state = "dirty" /\ Running("read") = {}
          /\ doc' = [doc EXCEPT !.state = "reverting"]
          /\ calls' = calls \cup {Call("read", 0)}
          /\ UNCHANGED <<db, changed, host, webview, cas, bounds>>

(* Compare with Saved: the file is read, the document keeps its text.       *)
Peek == /\ doc.state = "dirty" /\ Running("read") = {}
        /\ calls' = calls \cup {Call("read", 0)}
        /\ UNCHANGED <<db, changed, host, webview, document, bounds>>

(* Save: VS Code refuses when the mtime is newer than the one it read;      *)
(* writeFile passes the token it has.                                       *)
SaveDoc == /\ doc.state = "dirty" /\ doc.newest
           /\ doc' = [doc EXCEPT !.state = "saving"]
           /\ calls' = calls \cup {[Call("write", 0) EXCEPT !.text = doc.text, !.token = cas]}
           /\ UNCHANGED <<db, changed, host, webview, cas, bounds>>

(* A save refreshes the open board (setOnSaved). *)
DocSaved == \E c \in Running("write") :
    /\ c.issue # None
    /\ IF c.issue \in {Failed, Stale}
       THEN /\ doc' = [doc EXCEPT !.state = "dirty"]
            /\ calls' = calls \ {c}
            /\ UNCHANGED cas
       ELSE /\ cas' = c.issue.at
            /\ doc' = [doc EXCEPT !.state = "clean", !.newest = TRUE]
            /\ calls' = (calls \ {c}) \cup {Call("list", 0)}
    /\ UNCHANGED <<db, changed, host, webview, bounds>>

-----------------------------------------------------------------------------
Kinds == {"list", "move", "create", "open", "tick", "edit", "read", "write"}

User == \/ \E s \in Column : Move(s)
        \/ OpenForm \/ Submit
        \/ OpenDrawer \/ CloseDrawer \/ TickBox \/ SaveSection
        \/ OpenDoc \/ Type \/ Revert \/ SaveDoc

EditorNext == \/ \E k \in Kinds : RunCall(k)
              \/ Refreshed \/ Moved \/ Created \/ Detail \/ Ticked \/ Edited
              \/ DocRead \/ DocReadFails \/ DocSaved
              \/ Watch \/ Agent \/ User

(* A process that was started ends and is answered, and the timers run.     *)
Fairness == /\ \A k \in Kinds : WF_extVars(RunCall(k))
            /\ WF_extVars(Refreshed) /\ WF_extVars(Moved) /\ WF_extVars(Created)
            /\ WF_extVars(Detail) /\ WF_extVars(Ticked) /\ WF_extVars(Edited)
            /\ WF_extVars(DocRead \/ DocReadFails) /\ WF_extVars(DocSaved) /\ WF_extVars(Watch)

EditorSpec == EditorInit /\ [][EditorNext]_extVars /\ Fairness

(* VS Code as docs.ts does not expect it. *)
PeekingSpec == EditorInit /\ [][EditorNext \/ Peek]_extVars

-----------------------------------------------------------------------------
(* With a polling watcher the board shows the database again and again,     *)
(* whatever refreshes, echoes and rollbacks came back out of order.         *)
BoardCatchesUp == []<>(shown = db.status)

(* So does an open document nobody has changed.                             *)
DocCatchesUp == []<>(doc.state = "clean" => doc.text = db.body)

(* Saving a document drops nobody's edit: what it writes over is what the   *)
(* text was made from (docs.ts, "a concurrent board edit fails the save     *)
(* instead of being overwritten").                                          *)
DocSavesLoseNothing ==
    [][\A c \in Running("write") : c.issue = None /\ RunWrite(c) => db.body \subseteq db'.body]_extVars

(* What the board shows ahead of the database belongs to a move under way,  *)
(* and every move under way can be taken back.                              *)
PendingAreMoves == {n \in 1..MaxOps : pending[n] # None} = {c.id : c \in Running("move")}

(* Not so, with PeekingSpec: DocSavesLoseNothing.  The tokens are kept by   *)
(* issue, not by what an editor has read, so Compare with Saved gives the   *)
(* old text the new token.                                                  *)

(* Not so, with fs.watch (Mode = "auto"): BoardCatchesUp and DocCatchesUp.  *)
(* A refresh that began before the last write can come back after the one   *)
(* that saw it, and nothing asks again.                                     *)

(* Not so: two moves of one card that both fail leave it, until the next    *)
(* refresh, in the column the first had put it in.                          *)
NoPhantomColumn == db.at = 1 /\ Running("move") = {} => shown = FirstIssue.status

(* Not so: the token and the sections of the drawer are read by different   *)
(* processes, so a section can be older than its token.                     *)
SectionSavesLoseNothing ==
    [][\A c \in Running("edit") : c.issue = None /\ RunWrite(c) => db.body \subseteq db'.body]_extVars

(* Not so: any reload of the issue drops the unsent text of an edit that is *)
(* still under way (main.ts, "either succeeded or was already consumed").   *)
DraftsSurvive == \A c \in Running("edit") : \E e \in edits : e.id = c.id

(* Not so: any board message closes the form of a create under way.         *)
FormOutlivesCreate == Running("create") # {} => form # "closed"
=============================================================================

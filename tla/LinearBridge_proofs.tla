------------------------ MODULE LinearBridge_proofs ------------------------
(***************************************************************************)
(* For every number of sessions, issues, commands and faults: the bridge   *)
(* keeps its types and names only what exists; no remote issue has two     *)
(* links; and what agents ticked and people wrote is lost only when it was *)
(* made while a command held the old copy (IInv). No row, remote issue or  *)
(* comment is made twice but for one more with each mishap (Order, Paid).  *)
(* As long as no command failed or overlapped another and no linked issue  *)
(* was adopted, the Spec stays with its owner, and a push passes its guard *)
(* only over what the board was refreshed from (Calm).                     *)
(***************************************************************************)
EXTENDS LinearBridge, Integers, SequenceTheorems, FiniteSetTheorems, TLAPS

(***************************************************************************)
(* The types, with the issues and remotes they may name as parameters.     *)
(***************************************************************************)
LinkOf(R) == [remote: R \cup {0}, seen: Nat, origin: {"imported", "pushed"}, comment: Nat]
CopyIn(R) == [id: R \cup {0}, state: State, text: SUBSET Nat, stamp: Nat]
ItemOf(I, R) == [on: I \cup {0}, row: Row, link: LinkOf(R), copy: CopyIn(R)]
RequestsOf(I, R) ==
    [op: {"import"}, remote: R, linkTo: I \cup {0}]
    \cup [op: {"mine", "sync"}]
    \cup [op: {"push"}, on: I, create: BOOLEAN, force: BOOLEAN, writes: WriteSets]
JobOf(I, R) == [pc: PC, cmd: RequestsOf(I, R) \cup {NoCommand}, item: ItemOf(I, R),
                note: Nat, todo: SUBSET ItemOf(I, R)]

LEMMA JobIsJobOf == Job = JobOf(Issues, Remotes)
BY DEF Job, JobOf, Item, ItemOf, Link, LinkOf, Copy, CopyIn, Requests, RequestsOf

LEMMA ItemGrows ==
    ASSUME NEW I, NEW J, NEW R, NEW Q, I \subseteq J, R \subseteq Q
    PROVE  ItemOf(I, R) \subseteq ItemOf(J, Q)
BY DEF ItemOf, LinkOf, CopyIn

LEMMA RequestsGrow ==
    ASSUME NEW I, NEW J, NEW R, NEW Q, I \subseteq J, R \subseteq Q
    PROVE  RequestsOf(I, R) \subseteq RequestsOf(J, Q)
BY DEF RequestsOf

LEMMA JobGrows ==
    ASSUME NEW I, NEW J, NEW R, NEW Q, I \subseteq J, R \subseteq Q
    PROVE  JobOf(I, R) \subseteq JobOf(J, Q)
<1>1. SUFFICES ASSUME NEW j \in JobOf(I, R) PROVE j \in JobOf(J, Q)
  OBVIOUS
<1>2. ItemOf(I, R) \subseteq ItemOf(J, Q) /\ RequestsOf(I, R) \subseteq RequestsOf(J, Q)
  BY ItemGrows, RequestsGrow
<1>3. QED
  BY <1>2 DEF JobOf

\* Nothing held is well typed, whatever there is.
LEMMA NothingIsTyped ==
    ASSUME NEW I, NEW R
    PROVE  /\ NoRow \in Row /\ NoLink \in LinkOf(R) /\ NoCopy \in CopyIn(R)
           /\ NoItem \in ItemOf(I, R) /\ Idle \in JobOf(I, R)
<1>1. Canceled \in State /\ ToCliban[Canceled] \in Status
  BY BridgeConstants
<1>2. NoRow \in Row
  BY <1>1 DEF NoRow, Row
<1>3. NoLink \in LinkOf(R) /\ NoCopy \in CopyIn(R)
  BY <1>1 DEF NoLink, LinkOf, NoCopy, CopyIn
<1>4. NoItem \in ItemOf(I, R)
  BY <1>2, <1>3 DEF NoItem, ItemOf
<1>5. QED
  BY <1>2, <1>3, <1>4 DEF Idle, JobOf, PC, NoCommand

LEMMA GoIsTyped ==
    ASSUME NEW I, NEW R, NEW s \in Session, job \in [Session -> JobOf(I, R)],
           NEW pc \in PC, NEW item \in ItemOf(I, R), Go(s, pc, item)
    PROVE  /\ job' \in [Session -> JobOf(I, R)]
           /\ \A t \in Session \ {s} : job'[t] = job[t]
           /\ job'[s].pc = pc /\ job'[s].item = item
           /\ job'[s].cmd = job[s].cmd /\ job'[s].note = job[s].note
           /\ job'[s].todo = job[s].todo
BY DEF Go, JobOf

LEMMA EndIsTyped ==
    ASSUME NEW I, NEW R, NEW s \in Session, job \in [Session -> JobOf(I, R)], End(s)
    PROVE  /\ job' \in [Session -> JobOf(I, R)]
           /\ \A t \in Session \ {s} : job'[t] = job[t]
           /\ job'[s] = Idle
BY NothingIsTyped DEF End

(***************************************************************************)
(* The inductive invariant.                                                *)
(***************************************************************************)
\* Where a command stands, it holds a copy, or a link, of something.
PhaseOf(j) ==
    /\ j.pc \in {"resolve", "create", "archive", "refresh", "link", "update", "comment"}
            => j.item.copy.id # 0
    /\ j.pc \in {"guard", "fetchLinked"} => j.item.link.remote # 0
    /\ j.pc = "next" => j.cmd.op \in {"mine", "sync"}
    /\ j.pc = "fetchLinked" => j.cmd.op = "sync"
    /\ j.cmd.op = "mine" => \A i \in j.todo : i.copy.id # 0
    /\ j.cmd.op = "sync" => \A i \in j.todo : i.link.remote # 0

\* A row, or a text, has every change made to it that was not exposed.
FreshRow(l, row) ==
    \A m \in made : m.what = "tick" /\ m.on = l => m.edit \in exposed \/ m.edit \in row.plan
FreshText(r, text) ==
    \A m \in made : m.what = "text" /\ m.on = r => m.edit \in exposed \/ m.edit \in text

\* What a command will write back is fresh.
HeldOf(j) ==
    /\ j.pc \in {"refresh", "archive", "fetchLinked"} => FreshRow(j.item.on, j.item.row)
    /\ \A i \in j.todo : FreshRow(i.on, i.row)
    /\ j.pc = "update" => FreshText(j.item.copy.id, j.item.copy.text)

JobsOK == \A s \in Session : PhaseOf(job[s]) /\ HeldOf(job[s])

IInv == TypeOK /\ JobsOK /\ LostOnlyWhileHeld /\ OneLinkPerRemote

\* The step of a session leaves its job in order, and the other jobs alone.
JobStep(s, I, R) ==
    /\ job' \in [Session -> JobOf(I, R)]
    /\ \A t \in Session \ {s} : job'[t] = job[t]
    /\ PhaseOf(job'[s]) /\ HeldOf(job'[s])

LEMMA BoardIsFresh ==
    ASSUME TypeOK, LostOnlyWhileHeld
    PROVE  /\ \A l \in Issues : FreshRow(l, rows[l])
           /\ \A r \in Remotes : FreshText(r, remotes[r].text)
           /\ \A row : FreshRow(0, row)
           /\ \A l, row : l \notin Issues => FreshRow(l, row)
           /\ \A r, text : r \notin Remotes => FreshText(r, text)
<1>1. \A m \in made : /\ m.what = "tick" => m.on \in Issues
                      /\ m.what = "text" => m.on \in Remotes
  BY DEF TypeOK
<1>2. 0 \notin Issues
  BY DEF TypeOK, Issues
<1>3. QED
  BY <1>1, <1>2 DEF FreshRow, FreshText, LostOnlyWhileHeld

LEMMA FreshAsExposedGrows ==
    ASSUME made' = made, exposed \subseteq exposed'
    PROVE  /\ \A l, row : FreshRow(l, row) => FreshRow(l, row)'
           /\ \A r, text : FreshText(r, text) => FreshText(r, text)'
BY DEF FreshRow, FreshText

(***************************************************************************)
(* Steps that only move a job on.                                          *)
(***************************************************************************)
LEMMA QuietStep ==
    ASSUME IInv, NEW s \in Session, JobStep(s, Issues, Remotes),
           UNCHANGED <<board, linear, edits, made>>,
           exposed \subseteq exposed', exposed' \subseteq Nat,
           used' \in Nat, faults' \in Nat, mishaps' \in Nat
    PROVE  IInv'
<1>1. /\ Issues' = Issues /\ Remotes' = Remotes /\ rows' = rows /\ links' = links
      /\ remotes' = remotes /\ heard' = heard /\ comments' = comments
      /\ made' = made /\ edits' = edits
  BY DEF board, linear, Issues, Remotes
<1>2. TypeOK'
  <2>1. (Job' = JobOf(Issues', Remotes')) /\ (Link' = Link)
    BY <1>1, JobIsJobOf DEF Job, JobOf, Item, ItemOf, Link, LinkOf, Copy, CopyIn,
                            Requests, RequestsOf
  <2>2. job' \in [Session -> Job']
    BY <1>1, <2>1 DEF JobStep
  <2>3. QED
    BY <1>1, <2>1, <2>2 DEF IInv, TypeOK
<1>3. JobsOK'
  <2>1. SUFFICES ASSUME NEW t \in Session PROVE PhaseOf(job[t])' /\ HeldOf(job[t])'
    BY DEF JobsOK
  <2>2. PhaseOf(job'[t]) /\ HeldOf(job'[t])
    BY DEF IInv, JobsOK, JobStep
  <2>3. HeldOf(job[t])'
    BY <1>1, <2>2, FreshAsExposedGrows DEF HeldOf
  <2>4. QED
    BY <2>2, <2>3 DEF PhaseOf
<1>4. LostOnlyWhileHeld' /\ OneLinkPerRemote'
  BY <1>1 DEF IInv, LostOnlyWhileHeld, OneLinkPerRemote, Linked
<1>5. QED
  BY <1>2, <1>3, <1>4 DEF IInv

LEMMA Views ==
    ASSUME IInv, NEW s \in Session
    PROVE  /\ job \in [Session -> JobOf(Issues, Remotes)]
           /\ job[s] \in JobOf(Issues, Remotes)
           /\ job[s].item \in ItemOf(Issues, Remotes)
           /\ PhaseOf(job[s]) /\ HeldOf(job[s])
           /\ \A l \in Issues : rows[l] \in Row /\ links[l] \in LinkOf(Remotes)
           /\ \A r \in Remotes : remotes[r] \in Remote /\ CopyOf(r) \in CopyIn(Remotes)
           /\ Issues = 1..Len(rows) /\ Remotes = 1..Len(remotes)
           /\ 0 \notin Issues /\ 0 \notin Remotes
           /\ job[s].item.copy.id \in Nat
<1>1. job \in [Session -> JobOf(Issues, Remotes)] /\ Link = LinkOf(Remotes)
  BY JobIsJobOf DEF IInv, TypeOK, Link, LinkOf
<1>2. job[s].item \in ItemOf(Issues, Remotes)
  BY <1>1 DEF JobOf
<1>3. /\ \A l \in Issues : rows[l] \in Row /\ links[l] \in LinkOf(Remotes)
      /\ \A r \in Remotes : remotes[r] \in Remote
      /\ Issues = 1..Len(rows) /\ Remotes = 1..Len(remotes)
      /\ 0 \notin Issues /\ 0 \notin Remotes
  BY <1>1 DEF IInv, TypeOK, Issues, Remotes
<1>4. ASSUME NEW r \in Remotes PROVE CopyOf(r) \in CopyIn(Remotes)
  BY <1>3 DEF CopyOf, CopyIn, Remote
<1>5. job[s].item.copy.id \in Nat
  <2>1. job[s].item.copy.id \in Remotes \cup {0}
    BY <1>2 DEF ItemOf, CopyIn
  <2>2. QED
    BY <2>1, <1>3
<1>6. QED
  BY <1>1, <1>2, <1>3, <1>4, <1>5 DEF IInv, JobsOK

LEMMA GoStep ==
    ASSUME NEW I, NEW R, NEW s \in Session, job \in [Session -> JobOf(I, R)],
           NEW pc \in PC, NEW item \in ItemOf(I, R), Go(s, pc, item),
           PhaseOf(job[s]), HeldOf(job[s]),
           pc \in {"resolve", "create", "archive", "refresh", "link", "update", "comment"}
                => item.copy.id # 0,
           pc \in {"guard", "fetchLinked"} => item.link.remote # 0,
           pc = "next" => Op(s) \in {"mine", "sync"},
           pc = "fetchLinked" => Op(s) = "sync",
           pc \in {"refresh", "archive", "fetchLinked"} => FreshRow(item.on, item.row),
           pc = "update" => FreshText(item.copy.id, item.copy.text)
    PROVE  JobStep(s, I, R)
<1>1. /\ job' \in [Session -> JobOf(I, R)]
      /\ \A t \in Session \ {s} : job'[t] = job[t]
      /\ job'[s].pc = pc /\ job'[s].item = item
      /\ job'[s].cmd = job[s].cmd /\ job'[s].todo = job[s].todo
  BY GoIsTyped
<1>2. PhaseOf(job'[s])
  BY <1>1 DEF PhaseOf, Op
<1>3. HeldOf(job'[s])
  BY <1>1 DEF HeldOf
<1>4. QED
  BY <1>1, <1>2, <1>3 DEF JobStep

LEMMA EndStep ==
    ASSUME NEW I, NEW R, NEW s \in Session, job \in [Session -> JobOf(I, R)], End(s)
    PROVE  JobStep(s, I, R)
<1>1. PhaseOf(Idle) /\ HeldOf(Idle)
  BY DEF PhaseOf, HeldOf, Idle, NoCommand
<1>2. QED
  BY <1>1, EndIsTyped DEF JobStep

(***************************************************************************)
(* One lemma per step of a session that writes nothing.                    *)
(***************************************************************************)
LEMMA BeginStep ==
    ASSUME IInv, NEW s \in Session, NEW c \in Requests, Begin(s, c)
    PROVE  IInv'
<1> DEFINE j == [Idle EXCEPT
                    !.pc = IF c.op \in {"import", "mine"} THEN "fetch" ELSE "read",
                    !.cmd = c]
<1>1. job \in [Session -> JobOf(Issues, Remotes)]
  BY Views
<1>2. /\ j \in JobOf(Issues, Remotes)
      /\ j.pc \in {"fetch", "read"} /\ j.todo = {}
  <2>1. c \in RequestsOf(Issues, Remotes)
    BY DEF Requests, RequestsOf
  <2>2. Idle \in JobOf(Issues, Remotes)
    BY NothingIsTyped
  <2>3. QED
    BY <2>1, <2>2 DEF JobOf, PC, Idle
<1>3. PhaseOf(j) /\ HeldOf(j)
  BY <1>2 DEF PhaseOf, HeldOf
<1>4. job' = [job EXCEPT ![s] = j]
  BY DEF Begin
<1>5. JobStep(s, Issues, Remotes)
  <2> HIDE DEF j
  <2>1. QED
    BY <1>1, <1>2, <1>3, <1>4 DEF JobStep
<1>6. used' \in Nat /\ mishaps' \in Nat /\ faults' \in Nat /\ exposed' = exposed
  BY DEF Begin, IInv, TypeOK, env
<1>7. QED
  BY <1>5, <1>6, QuietStep DEF Begin, env, IInv, TypeOK

LEMMA AbortStep ==
    ASSUME IInv, NEW s \in Session, Abort(s)
    PROVE  IInv'
<1>1. JobStep(s, Issues, Remotes)
  BY Views, EndStep DEF Abort
<1>2. used' \in Nat /\ mishaps' \in Nat /\ faults' \in Nat /\ exposed' = exposed
  BY DEF Abort, IInv, TypeOK, env
<1>3. QED
  BY <1>1, <1>2, QuietStep DEF Abort, env, IInv, TypeOK

\* A step that counts nothing either.
LEMMA CalmStep ==
    ASSUME IInv, NEW s \in Session, JobStep(s, Issues, Remotes),
           UNCHANGED <<board, linear, env, counts>>
    PROVE  IInv'
<1>1. used' \in Nat /\ mishaps' \in Nat /\ faults' \in Nat /\ exposed' = exposed
  BY DEF IInv, TypeOK, env, counts
<1>2. QED
  BY <1>1, QuietStep DEF env, IInv, TypeOK

LEMMA FetchIssueStep ==
    ASSUME IInv, NEW s \in Session, FetchIssue(s)
    PROVE  IInv'
<1> DEFINE r == job[s].cmd.remote
           item == [NoItem EXCEPT !.copy = CopyOf(r)]
<1>1. r \in Remotes
  BY Views DEF FetchIssue, Runs, Op, JobOf, RequestsOf, NoCommand
<1>2. item \in ItemOf(Issues, Remotes) /\ item.copy.id # 0
  BY <1>1, Views, NothingIsTyped DEF ItemOf, CopyOf
<1>3. JobStep(s, Issues, Remotes)
  <2>1. CASE End(s)
    BY <2>1, Views, EndStep
  <2>2. CASE Go(s, "resolve", item)
    <3> HIDE DEF item
    <3>1. QED
      BY <2>2, <1>2, Views, GoStep DEF PC
  <2>3. QED
    BY <2>1, <2>2 DEF FetchIssue
<1>4. QED
  BY <1>3, CalmStep DEF FetchIssue

LEMMA FetchMineStep ==
    ASSUME IInv, NEW s \in Session, FetchMine(s)
    PROVE  IInv'
<1>1. PICK A \in SUBSET Remotes :
        job' = [job EXCEPT ![s].pc = "next",
                           ![s].todo = {[NoItem EXCEPT !.copy = CopyOf(r)] : r \in A}]
  BY DEF FetchMine
<1> DEFINE T == {[NoItem EXCEPT !.copy = CopyOf(r)] : r \in A}
<1>2. \A i \in T : i \in ItemOf(Issues, Remotes) /\ i.copy.id # 0 /\ i.on = 0
  BY Views, NothingIsTyped DEF ItemOf, CopyOf, NoItem
<1>3. /\ job' \in [Session -> JobOf(Issues, Remotes)]
      /\ \A t \in Session \ {s} : job'[t] = job[t]
      /\ job'[s].pc = "next" /\ job'[s].cmd.op = "mine" /\ job'[s].todo = T
  <2> HIDE DEF T
  <2>1. QED
    BY <1>1, <1>2, Views DEF JobOf, PC, FetchMine, Runs, Op, T
<1>4. PhaseOf(job'[s]) /\ HeldOf(job'[s])
  BY <1>2, <1>3, BoardIsFresh DEF PhaseOf, HeldOf, IInv
<1>5. QED
  BY <1>3, <1>4, CalmStep DEF JobStep, FetchMine

LEMMA NextItemStep ==
    ASSUME IInv, NEW s \in Session, NextItem(s)
    PROVE  IInv'
<1>1. PICK i \in job[s].todo :
        job' = [job EXCEPT ![s].pc = IF Runs(s, "sync") THEN "fetchLinked" ELSE "resolve",
                           ![s].item = i, ![s].todo = job[s].todo \ {i}]
  BY DEF NextItem
<1>2. i \in ItemOf(Issues, Remotes) /\ FreshRow(i.on, i.row)
  BY Views DEF JobOf, HeldOf
<1>3. /\ job' \in [Session -> JobOf(Issues, Remotes)]
      /\ \A t \in Session \ {s} : job'[t] = job[t]
      /\ job'[s].pc = IF Runs(s, "sync") THEN "fetchLinked" ELSE "resolve"
      /\ job'[s].cmd = job[s].cmd /\ job'[s].item = i
      /\ job'[s].todo \subseteq job[s].todo
  BY <1>1, <1>2, Views DEF JobOf, PC
<1>4. /\ Op(s) \in {"mine", "sync"}
      /\ Op(s) = "mine" => i.copy.id # 0
      /\ Op(s) = "sync" => i.link.remote # 0
  BY Views DEF PhaseOf, NextItem, At, Op
<1>5. PhaseOf(job'[s])
  BY <1>3, <1>4, Views DEF PhaseOf, Runs, Op
<1>6. HeldOf(job'[s])
  BY <1>2, <1>3, Views DEF HeldOf
<1>7. QED
  BY <1>3, <1>5, <1>6, CalmStep DEF JobStep, NextItem

LEMMA EndingStep ==
    ASSUME IInv, NEW s \in Session,
           NoMoreItems(s) \/ LinkRefused(s) \/ RemoteIsGone(s)
    PROVE  IInv'
<1>1. JobStep(s, Issues, Remotes)
  BY Views, EndStep DEF NoMoreItems, LinkRefused, RemoteIsGone
<1>2. QED
  BY <1>1, CalmStep DEF NoMoreItems, LinkRefused, RemoteIsGone

LEMMA ResolveExistingStep ==
    ASSUME IInv, NEW s \in Session, ResolveExisting(s)
    PROVE  IInv'
<1>1. PICK l \in LinkedTo(job[s].item.copy.id) :
        \/ Go(s, "refresh", [job[s].item EXCEPT !.on = l, !.row = rows[l], !.link = links[l]])
        \/ End(s)
  BY DEF ResolveExisting
<1> DEFINE item == [job[s].item EXCEPT !.on = l, !.row = rows[l], !.link = links[l]]
<1>2. /\ item \in ItemOf(Issues, Remotes)
      /\ item.on = l /\ item.row = rows[l] /\ item.copy = job[s].item.copy
      /\ l \in Issues
  BY Views DEF ItemOf, LinkedTo
<1>3. item.copy.id # 0
  BY <1>2, Views DEF PhaseOf, ResolveExisting, At
<1>4. JobStep(s, Issues, Remotes)
  <2>1. CASE End(s)
    BY <2>1, Views, EndStep
  <2>2. CASE Go(s, "refresh", item)
    <3>1. FreshRow(item.on, item.row)
      BY <1>2, BoardIsFresh DEF IInv
    <3> HIDE DEF item
    <3>2. QED
      BY <2>2, <3>1, <1>2, <1>3, Views, GoStep DEF PC
  <2>3. QED
    BY <1>1, <2>1, <2>2
<1>5. QED
  BY <1>4, CalmStep DEF ResolveExisting

LEMMA ResolveAdoptStep ==
    ASSUME IInv, NEW s \in Session, ResolveAdopt(s)
    PROVE  IInv'
<1> DEFINE l == LinkTo(s)
           item == [job[s].item EXCEPT !.on = l, !.row = rows[l]]
<1>1. l \in Issues
  <2>1. Runs(s, "import")
    BY DEF ResolveAdopt, LinkTo
  <2>2. QED
    BY <2>1, Views DEF ResolveAdopt, LinkTo, Runs, Op, JobOf, RequestsOf, NoCommand
<1>2. /\ item \in ItemOf(Issues, Remotes)
      /\ item.on = l /\ item.row = rows[l] /\ item.copy = job[s].item.copy
  BY <1>1, Views DEF ItemOf
<1>3. item.copy.id # 0
  BY <1>2, Views DEF PhaseOf, ResolveAdopt, At
<1>4. FreshRow(item.on, item.row)
  BY <1>1, <1>2, BoardIsFresh DEF IInv
<1>5. Go(s, "refresh", item)
  BY DEF ResolveAdopt
<1>6. JobStep(s, Issues, Remotes)
  <2> HIDE DEF item
  <2>1. QED
    BY <1>2, <1>3, <1>4, <1>5, Views, GoStep DEF PC
<1>7. used' \in Nat /\ mishaps' \in Nat /\ faults' \in Nat /\ exposed' = exposed
  BY DEF ResolveAdopt, IInv, TypeOK, env
<1>8. QED
  BY <1>6, <1>7, QuietStep DEF ResolveAdopt, env, IInv, TypeOK

LEMMA ResolveCreateStep ==
    ASSUME IInv, NEW s \in Session, ResolveCreate(s)
    PROVE  IInv'
<1>1. job[s].item.copy.id # 0
  BY Views DEF PhaseOf, ResolveCreate, At
<1>2. JobStep(s, Issues, Remotes)
  BY <1>1, Views, GoStep DEF PC, ResolveCreate
<1>3. QED
  BY <1>2, CalmStep DEF ResolveCreate

LEMMA ReadLinksStep ==
    ASSUME IInv, NEW s \in Session, ReadLinks(s)
    PROVE  IInv'
<1> DEFINE T == {[on |-> l, row |-> rows[l], link |-> links[l], copy |-> NoCopy] :
                    l \in {i \in Issues : Linked(i)}}
<1>1. \A i \in T : /\ i \in ItemOf(Issues, Remotes) /\ i.link.remote # 0
                   /\ FreshRow(i.on, i.row)
  BY Views, NothingIsTyped, BoardIsFresh DEF ItemOf, Linked, IInv
<1>2. /\ job' \in [Session -> JobOf(Issues, Remotes)]
      /\ \A t \in Session \ {s} : job'[t] = job[t]
      /\ job'[s].pc = "next" /\ job'[s].cmd.op = "sync" /\ job'[s].todo = T
  <2>1. job' = [job EXCEPT ![s].pc = "next", ![s].todo = T] /\ job[s].cmd.op = "sync"
    BY DEF ReadLinks, Runs, Op
  <2> HIDE DEF T
  <2>2. QED
    BY <1>1, <2>1, Views DEF JobOf, PC
<1>3. PhaseOf(job'[s]) /\ HeldOf(job'[s])
  <2> HIDE DEF T
  <2>1. QED
    BY <1>1, <1>2 DEF PhaseOf, HeldOf
<1>4. QED
  BY <1>2, <1>3, CalmStep DEF JobStep, ReadLinks

LEMMA FetchLinkedStep ==
    ASSUME IInv, NEW s \in Session, FetchLinked(s)
    PROVE  IInv'
<1> DEFINE r == job[s].item.link.remote
           item == [job[s].item EXCEPT !.copy = CopyOf(r)]
<1>1. r \in Remotes /\ Op(s) = "sync" /\ FreshRow(job[s].item.on, job[s].item.row)
  BY Views DEF ItemOf, LinkOf, PhaseOf, HeldOf, FetchLinked, At, Op
<1>2. /\ item \in ItemOf(Issues, Remotes) /\ item.copy.id # 0
      /\ item.on = job[s].item.on /\ item.row = job[s].item.row
  BY <1>1, Views DEF ItemOf, CopyOf
<1>3. JobStep(s, Issues, Remotes)
  <2>1. CASE Go(s, "next", NoItem)
    BY <2>1, <1>1, Views, NothingIsTyped, GoStep DEF PC
  <2>2. CASE Go(s, "refresh", item)
    <3> HIDE DEF item
    <3>1. QED
      BY <2>2, <1>1, <1>2, Views, GoStep DEF PC
  <2>3. QED
    BY <2>1, <2>2 DEF FetchLinked
<1>4. QED
  BY <1>3, CalmStep DEF FetchLinked

LEMMA ReadIssueStep ==
    ASSUME IInv, NEW s \in Session, ReadIssue(s)
    PROVE  IInv'
<1> DEFINE l == Push(s).on
           pc == IF Linked(l) THEN "guard" ELSE "createRemote"
           item == [NoItem EXCEPT !.on = l, !.row = rows[l], !.link = links[l]]
<1>1. l \in Issues
  BY Views DEF ReadIssue, Push, Runs, Op, JobOf, RequestsOf, NoCommand
<1>2. /\ item \in ItemOf(Issues, Remotes)
      /\ pc \in PC /\ pc \in {"guard", "createRemote"}
      /\ pc = "guard" => item.link.remote # 0
  BY <1>1, Views, NothingIsTyped DEF ItemOf, PC, Linked
<1>3. JobStep(s, Issues, Remotes)
  <2>1. CASE End(s)
    BY <2>1, Views, EndStep
  <2>2. CASE Go(s, pc, item)
    <3> HIDE DEF item, pc
    <3>1. QED
      BY <2>2, <1>2, Views, GoStep
  <2>3. QED
    BY <2>1, <2>2 DEF ReadIssue
<1>4. QED
  BY <1>3, CalmStep DEF ReadIssue

LEMMA GuardStep ==
    ASSUME IInv, NEW s \in Session, Guard(s)
    PROVE  IInv'
<1> DEFINE r == job[s].item.link.remote
           item == [job[s].item EXCEPT !.copy = CopyOf(r)]
<1>1. r \in Remotes
  BY Views DEF ItemOf, LinkOf, PhaseOf, Guard, At
<1>2. /\ item \in ItemOf(Issues, Remotes) /\ item.copy.id # 0
      /\ item.copy.id = r /\ item.copy.text = remotes[r].text
  BY <1>1, Views DEF ItemOf, CopyOf
<1>3. JobStep(s, Issues, Remotes)
  <2>1. CASE End(s)
    BY <2>1, Views, EndStep
  <2>2. CASE Go(s, "update", item)
    <3>1. FreshText(item.copy.id, item.copy.text)
      BY <1>1, <1>2, BoardIsFresh DEF IInv
    <3> HIDE DEF item
    <3>2. QED
      BY <2>2, <3>1, <1>2, Views, GoStep DEF PC
  <2>3. QED
    BY <2>1, <2>2 DEF Guard
<1>4. exposed \subseteq exposed' /\ exposed' \subseteq Nat
  <2>1. remotes[r].last \in Nat
    BY <1>1, Views DEF Remote
  <2>2. QED
    BY <2>1 DEF Guard, IInv, TypeOK
<1>5. used' \in Nat /\ mishaps' \in Nat /\ faults' \in Nat
  BY DEF Guard, IInv, TypeOK, counts
<1>6. QED
  BY <1>3, <1>4, <1>5, QuietStep DEF Guard

LEMMA AfterUpdateIsPC ==
    ASSUME NEW s \in Session
    PROVE  AfterUpdate(s) \in PC /\ AfterUpdate(s) \in {"comment", "link"}
BY DEF AfterUpdate, PC

LEMMA NothingToUpdateStep ==
    ASSUME IInv, NEW s \in Session, NothingToUpdate(s)
    PROVE  IInv'
<1>1. job[s].item.copy.id # 0
  BY Views DEF PhaseOf, NothingToUpdate, At
<1>2. JobStep(s, Issues, Remotes)
  BY <1>1, Views, AfterUpdateIsPC, GoStep DEF NothingToUpdate
<1>3. QED
  BY <1>2, CalmStep DEF NothingToUpdate

\* The comment is noted, and the link is recorded next.
LEMMA NoteStep ==
    ASSUME IInv, NEW s \in Session, At(s, "comment"), NEW c \in Nat,
           job' = [job EXCEPT ![s].pc = "link", ![s].note = c]
    PROVE  JobStep(s, Issues, Remotes)
<1>1. /\ job' \in [Session -> JobOf(Issues, Remotes)]
      /\ \A t \in Session \ {s} : job'[t] = job[t]
      /\ job'[s].pc = "link" /\ job'[s].cmd = job[s].cmd
      /\ job'[s].item = job[s].item /\ job'[s].todo = job[s].todo
  BY Views DEF JobOf, PC
<1>2. PhaseOf(job'[s]) /\ HeldOf(job'[s])
  BY <1>1, Views DEF PhaseOf, HeldOf, At
<1>3. QED
  BY <1>1, <1>2 DEF JobStep

LEMMA EditCommentStep ==
    ASSUME IInv, NEW s \in Session, EditComment(s)
    PROVE  IInv'
<1>1. job[s].item.link.comment \in Nat
  BY Views DEF ItemOf, LinkOf
<1>2. JobStep(s, Issues, Remotes)
  BY <1>1, NoteStep DEF EditComment
<1>3. QED
  BY <1>2, CalmStep DEF EditComment

(***************************************************************************)
(* Steps that write the board.                                             *)
(***************************************************************************)
LEMMA RefreshedIsRow ==
    ASSUME NEW R, NEW row \in Row, NEW copy \in CopyIn(R), copy.id \in Nat, NEW origin
    PROVE  /\ Refreshed(row, copy, origin) \in Row
           /\ Refreshed(row, copy, origin).plan = row.plan
<1>1. ToCliban[copy.state] \in Status
  BY BridgeConstants DEF CopyIn
<1>2. (row.archived \/ IsCanceled(copy)) \in BOOLEAN
  BY DEF Row, IsCanceled
<1>3. QED
  BY <1>1, <1>2 DEF Refreshed, Row

\* A row is written that is as fresh as the one it replaces.
LEMMA RowStep ==
    ASSUME IInv, NEW s \in Session, NEW l, NEW row \in Row, FreshRow(l, row),
           rows' = [rows EXCEPT ![l] = row],
           links' = links, heard' \in Seq(Nat), Len(heard') = Len(heard),
           UNCHANGED <<linear, env, counts>>,
           JobStep(s, Issues, Remotes)
    PROVE  IInv'
<1>1. /\ Issues' = Issues /\ Remotes' = Remotes /\ Len(rows') = Len(rows)
      /\ rows' \in Seq(Row)
      /\ \A i \in Issues : rows'[i] = IF i = l THEN row ELSE rows[i]
  <2>1. rows \in Seq(Row)
    BY DEF IInv, TypeOK
  <2>2. rows' \in Seq(Row) /\ Len(rows') = Len(rows) /\ DOMAIN rows' = DOMAIN rows
    <3>1. CASE l \in 1..Len(rows)
      BY <2>1, <3>1, ExceptSeq
    <3>2. CASE l \notin 1..Len(rows)
      <4>1. DOMAIN rows = 1..Len(rows)
        BY <2>1
      <4>2. rows' = rows
        BY <2>1, <3>2, <4>1
      <4>3. QED
        BY <2>1, <4>2
    <3>3. QED
      BY <3>1, <3>2
  <2>3. QED
    BY <2>2 DEF linear, Issues, Remotes
<1>2. made' = made /\ exposed' = exposed /\ edits' = edits /\ remotes' = remotes
  BY DEF env, linear
<1>3. TypeOK'
  <2>1. (Job' = JobOf(Issues', Remotes')) /\ (Link' = Link)
    BY <1>1, JobIsJobOf DEF Job, JobOf, Item, ItemOf, Link, LinkOf, Copy, CopyIn,
                            Requests, RequestsOf
  <2>2. job' \in [Session -> Job']
    BY <1>1, <2>1 DEF JobStep
  <2>3. QED
    BY <1>1, <1>2, <2>1, <2>2 DEF IInv, TypeOK, linear, env, counts
<1>4. JobsOK'
  <2>1. SUFFICES ASSUME NEW t \in Session PROVE PhaseOf(job[t])' /\ HeldOf(job[t])'
    BY DEF JobsOK
  <2>2. PhaseOf(job'[t]) /\ HeldOf(job'[t])
    BY DEF IInv, JobsOK, JobStep
  <2>3. HeldOf(job[t])'
    BY <1>2, <2>2, FreshAsExposedGrows DEF HeldOf
  <2>4. QED
    BY <2>2, <2>3 DEF PhaseOf
<1>5. LostOnlyWhileHeld'
  BY <1>1, <1>2 DEF IInv, LostOnlyWhileHeld, FreshRow, TypeOK
<1>6. OneLinkPerRemote'
  BY <1>1 DEF IInv, OneLinkPerRemote, Linked
<1>7. QED
  BY <1>3, <1>4, <1>5, <1>6 DEF IInv

LEMMA RefreshStep ==
    ASSUME IInv, NEW s \in Session, Refresh(s)
    PROVE  IInv'
<1> DEFINE item == job[s].item
           row == Refreshed(item.row, item.copy, item.link.origin)
<1>1. /\ item.row \in Row /\ item.copy \in CopyIn(Remotes) /\ item.copy.id # 0
      /\ item.copy.id \in Nat /\ FreshRow(item.on, item.row)
  BY Views DEF ItemOf, PhaseOf, HeldOf, Refresh, At
<1>2. row \in Row /\ FreshRow(item.on, row)
  BY <1>1, RefreshedIsRow DEF FreshRow
<1>3. heard' \in Seq(Nat) /\ Len(heard') = Len(heard)
  <2>1. heard \in Seq(Nat) /\ heard' = [heard EXCEPT ![item.on] = item.copy.stamp]
    BY DEF IInv, TypeOK, Refresh
  <2>2. item.copy.stamp \in Nat
    BY <1>1 DEF CopyIn
  <2>3. CASE item.on \in 1..Len(heard)
    BY <2>1, <2>2, <2>3, ExceptSeq
  <2>4. CASE item.on \notin 1..Len(heard)
    <3>1. DOMAIN heard = 1..Len(heard)
      BY <2>1
    <3>2. heard' = heard
      BY <2>1, <2>4, <3>1
    <3>3. QED
      BY <2>1, <3>2
  <2>5. QED
    BY <2>3, <2>4
<1>4. JobStep(s, Issues, Remotes)
  BY <1>1, Views, GoStep DEF PC, Refresh
<1>5. rows' = [rows EXCEPT ![item.on] = row] /\ links' = links
  BY DEF Refresh
<1>6. QED
  <2> HIDE DEF row
  <2>1. QED
    BY <1>2, <1>3, <1>4, <1>5, RowStep DEF Refresh

LEMMA ArchiveCreatedStep ==
    ASSUME IInv, NEW s \in Session, ArchiveCreated(s)
    PROVE  IInv'
<1> DEFINE item == job[s].item
           row == [item.row EXCEPT !.archived = TRUE]
<1>1. item.row \in Row /\ item.copy.id # 0 /\ FreshRow(item.on, item.row)
  BY Views DEF ItemOf, PhaseOf, HeldOf, ArchiveCreated, At
<1>2. row \in Row /\ row.plan = item.row.plan
  BY <1>1 DEF Row
<1>3. FreshRow(item.on, row)
  BY <1>1, <1>2 DEF FreshRow
<1>4. JobStep(s, Issues, Remotes)
  BY <1>1, Views, GoStep DEF PC, ArchiveCreated
<1>5. /\ rows' = [rows EXCEPT ![item.on] = row] /\ links' = links
      /\ heard' \in Seq(Nat) /\ Len(heard') = Len(heard)
  BY DEF ArchiveCreated, IInv, TypeOK
<1>6. QED
  <2> HIDE DEF row
  <2>1. QED
    BY <1>2, <1>3, <1>4, <1>5, RowStep DEF ArchiveCreated

LEMMA JobsStayOK ==
    ASSUME IInv, NEW s \in Session, JobStep(s, Issues', Remotes'),
           made' = made, exposed' = exposed
    PROVE  job' \in [Session -> Job'] /\ JobsOK'
<1>1. Job' = JobOf(Issues', Remotes')
  BY DEF Job, JobOf, Item, ItemOf, Link, LinkOf, Copy, CopyIn, Requests, RequestsOf
<1>2. SUFFICES ASSUME NEW t \in Session PROVE PhaseOf(job[t])' /\ HeldOf(job[t])'
  BY <1>1 DEF JobsOK, JobStep
<1>3. PhaseOf(job'[t]) /\ HeldOf(job'[t])
  BY DEF IInv, JobsOK, JobStep
<1>4. HeldOf(job[t])'
  BY <1>3, FreshAsExposedGrows DEF HeldOf
<1>5. QED
  BY <1>3, <1>4 DEF PhaseOf

\* Only remote_links is written.
LEMMA LinkStep ==
    ASSUME IInv, NEW s \in Session, JobStep(s, Issues, Remotes),
           links' \in Seq(Link), Len(links') = Len(links),
           UNCHANGED <<rows, heard, linear, env, counts>>, OneLinkPerRemote'
    PROVE  IInv'
<1>1. /\ Issues' = Issues /\ Remotes' = Remotes /\ Link' = Link
      /\ made' = made /\ exposed' = exposed /\ edits' = edits /\ remotes' = remotes
      /\ comments' = comments
  BY DEF linear, env, Issues, Remotes, Link
<1>2. job' \in [Session -> Job'] /\ JobsOK'
  BY <1>1, JobsStayOK
<1>3. TypeOK'
  BY <1>1, <1>2 DEF IInv, TypeOK, counts
<1>4. LostOnlyWhileHeld'
  BY <1>1 DEF IInv, LostOnlyWhileHeld
<1>5. QED
  BY <1>2, <1>3, <1>4 DEF IInv

LEMMA ChangedLink ==
    ASSUME IInv, NEW l, NEW link \in Link, links' = [links EXCEPT ![l] = link]
    PROVE  /\ links' \in Seq(Link) /\ Len(links') = Len(links)
           /\ \A i \in Issues : links'[i] = IF i = l THEN link ELSE links[i]
<1>1. links \in Seq(Link) /\ Issues = 1..Len(links) /\ DOMAIN links = 1..Len(links)
  BY DEF IInv, TypeOK, Issues
<1>2. CASE l \in 1..Len(links)
  BY <1>1, <1>2, ExceptSeq
<1>3. CASE l \notin 1..Len(links)
  <2>1. links' = links
    BY <1>1, <1>3
  <2>2. QED
    BY <1>1, <1>3, <2>1
<1>4. QED
  BY <1>2, <1>3

LEMMA UpsertedIsLink ==
    ASSUME NEW old \in Link, NEW copy \in CopyIn(Remotes),
           NEW origin \in {"imported", "pushed"}
    PROVE  /\ Upserted(old, copy, origin) \in Link
           /\ Upserted(old, copy, origin).remote = copy.id
BY DEF Upserted, Link, CopyIn

LEMMA AfterLinkStep ==
    ASSUME IInv, NEW s \in Session, AfterLink(s)
    PROVE  JobStep(s, Issues, Remotes)
<1>1. CASE Go(s, "note", job[s].item)
  BY <1>1, Views, GoStep DEF PC
<1>2. CASE Go(s, "next", NoItem) /\ Op(s) \in {"mine", "sync"}
  BY <1>2, Views, NothingIsTyped, GoStep DEF PC
<1>3. CASE End(s)
  BY <1>3, Views, EndStep
<1>4. QED
  BY <1>1, <1>2, <1>3 DEF AfterLink

LEMMA RecordLinkStep ==
    ASSUME IInv, NEW s \in Session, RecordLink(s)
    PROVE  IInv'
<1> DEFINE item == job[s].item
           l == item.on
           link == Upserted(links[l], item.copy, Origin(s))
<1>1. JobStep(s, Issues, Remotes)
  BY AfterLinkStep DEF RecordLink
<1>2. /\ item.copy \in CopyIn(Remotes) /\ item.link \in LinkOf(Remotes)
      /\ Origin(s) \in {"imported", "pushed"}
  BY Views DEF ItemOf, LinkOf, Origin
<1>3. links' = [links EXCEPT ![l] = link]
  BY DEF RecordLink
<1>4. CASE l \in Issues
  <2>1. links[l] \in Link
    BY <1>4, Views DEF Link, LinkOf
  <2>2. link \in Link /\ link.remote = item.copy.id
    BY <1>2, <2>1, UpsertedIsLink
  <2> HIDE DEF link
  <2>3. /\ links' \in Seq(Link) /\ Len(links') = Len(links)
        /\ \A i \in Issues : links'[i] = IF i = l THEN link ELSE links[i]
    BY <1>3, <2>2, ChangedLink
  <2>4. \A i \in Issues \ {l} : links[i].remote # item.copy.id
    BY DEF RecordLink, Taken
  <2>5. Issues' = Issues
    BY DEF RecordLink, Issues
  <2>6. OneLinkPerRemote'
    BY <2>2, <2>3, <2>4, <2>5 DEF IInv, OneLinkPerRemote, Linked
  <2>7. QED
    BY <1>1, <2>3, <2>6, LinkStep DEF RecordLink
<1>5. CASE l \notin Issues
  <2>1. links' = links
    <3>1. DOMAIN links = Issues /\ links \in Seq(Link)
      BY DEF IInv, TypeOK, Issues
    <3>2. QED
      BY <1>3, <1>5, <3>1
  <2>2. Issues' = Issues
    BY DEF RecordLink, Issues
  <2>3. OneLinkPerRemote' /\ links' \in Seq(Link) /\ Len(links') = Len(links)
    BY <2>1, <2>2 DEF IInv, OneLinkPerRemote, Linked, TypeOK
  <2>4. QED
    BY <1>1, <2>3, LinkStep DEF RecordLink
<1>6. QED
  BY <1>4, <1>5

LEMMA SetCommentStep ==
    ASSUME IInv, NEW s \in Session, SetComment(s)
    PROVE  IInv'
<1> DEFINE l == job[s].item.on
           link == [links[l] EXCEPT !.comment = job[s].note]
<1>1. JobStep(s, Issues, Remotes)
  BY Views, EndStep DEF SetComment
<1>2. Issues' = Issues
  BY DEF SetComment, Issues
<1>3. links' = [links EXCEPT ![l] = link]
  BY DEF SetComment
<1>4. CASE l \in Issues
  <2>1. links[l] \in Link /\ job[s].note \in Nat
    BY <1>4, Views DEF Link, LinkOf, JobOf
  <2>2. link \in Link /\ link.remote = links[l].remote
    BY <2>1 DEF Link
  <2> HIDE DEF link
  <2>3. /\ links' \in Seq(Link) /\ Len(links') = Len(links)
        /\ \A i \in Issues : links'[i] = IF i = l THEN link ELSE links[i]
    BY <1>3, <2>2, ChangedLink
  <2>4. OneLinkPerRemote'
    BY <1>2, <2>2, <2>3 DEF IInv, OneLinkPerRemote, Linked
  <2>5. QED
    BY <1>1, <2>3, <2>4, LinkStep DEF SetComment
<1>5. CASE l \notin Issues
  <2>1. links' = links
    <3>1. DOMAIN links = Issues /\ links \in Seq(Link)
      BY DEF IInv, TypeOK, Issues
    <3>2. QED
      BY <1>3, <1>5, <3>1
  <2>2. OneLinkPerRemote' /\ links' \in Seq(Link) /\ Len(links') = Len(links)
    BY <1>2, <2>1 DEF IInv, OneLinkPerRemote, Linked, TypeOK
  <2>3. QED
    BY <1>1, <2>2, LinkStep DEF SetComment
<1>6. QED
  BY <1>4, <1>5

LEMMA CreateRowStep ==
    ASSUME IInv, NEW s \in Session, CreateRow(s)
    PROVE  IInv'
<1> DEFINE copy == job[s].item.copy
           l == Len(rows) + 1
           row == [spec |-> copy.id, status |-> ToCliban[copy.state], archived |-> FALSE,
                   plan |-> {}, from |-> copy.id]
           item == [job[s].item EXCEPT !.on = l, !.row = row]
           pc == IF IsCanceled(copy) THEN "archive" ELSE "link"
<1>1. /\ copy \in CopyIn(Remotes) /\ copy.id # 0 /\ copy.id \in Nat
      /\ rows \in Seq(Row) /\ links \in Seq(Link) /\ heard \in Seq(Nat)
      /\ Len(links) = Len(rows) /\ Len(heard) = Len(rows)
  BY Views DEF ItemOf, PhaseOf, CreateRow, At, IInv, TypeOK
<1>2. row \in Row /\ copy.stamp \in Nat
  BY <1>1, BridgeConstants DEF Row, CopyIn
<1>3. NoLink \in Link /\ NoLink.remote = 0
  BY NothingIsTyped DEF Link, LinkOf, NoLink
<1>4. /\ rows' = Append(rows, row) /\ links' = Append(links, NoLink)
      /\ heard' = Append(heard, copy.stamp)
      /\ Go(s, pc, item)
  BY DEF CreateRow
<1>5. /\ Issues = 1..Len(rows) /\ Issues' = 1..l /\ l \notin Issues
      /\ Issues \subseteq Issues' /\ l \in Issues'
  <2> HIDE DEF row
  <2>1. QED
    BY <1>1, <1>2, <1>4 DEF Issues
<1>6. Remotes' = Remotes /\ made' = made /\ exposed' = exposed /\ remotes' = remotes
  BY DEF CreateRow, linear, env, Remotes
<1>7. JobStep(s, Issues', Remotes')
  <2>1. job \in [Session -> JobOf(Issues', Remotes')]
    BY <1>5, <1>6, Views, JobGrows
  <2>2. job[s].item \in ItemOf(Issues', Remotes')
    BY <1>5, <1>6, Views, ItemGrows
  <2>3. /\ item \in ItemOf(Issues', Remotes') /\ item.copy.id # 0
        /\ item.on = l /\ item.row = row
    <3> HIDE DEF row, l
    <3>1. QED
      BY <1>1, <1>2, <1>5, <2>2 DEF ItemOf
  <2>4. FreshRow(item.on, item.row)
    BY <1>5, <2>3, BoardIsFresh DEF IInv
  <2>5. pc \in PC /\ pc \in {"archive", "link"}
    BY DEF PC
  <2> HIDE DEF item, pc
  <2>6. QED
    BY <1>4, <2>1, <2>3, <2>4, <2>5, Views, GoStep
<1>8. job' \in [Session -> Job'] /\ JobsOK'
  BY <1>6, <1>7, JobsStayOK
<1> HIDE DEF row
<1>9. /\ \A i \in Issues' : /\ rows'[i] = IF i = l THEN row ELSE rows[i]
                            /\ links'[i] = IF i = l THEN NoLink ELSE links[i]
  BY <1>1, <1>2, <1>3, <1>4, <1>5
<1>10. TypeOK'
  <2>1. /\ rows' \in Seq(Row) /\ links' \in Seq(Link) /\ heard' \in Seq(Nat)
        /\ Len(links') = Len(rows') /\ Len(heard') = Len(rows')
    BY <1>1, <1>2, <1>3, <1>4
  <2>2. Link' = Link
    BY <1>6 DEF Link
  <2>3. made' \subseteq [what: {"tick"}, on: Issues', edit: Nat]
                      \cup [what: {"text"}, on: Remotes', edit: Nat]
    BY <1>5, <1>6 DEF IInv, TypeOK
  <2>4. QED
    BY <1>6, <1>8, <2>1, <2>2, <2>3 DEF IInv, TypeOK, CreateRow, linear, env, counts
<1>11. LostOnlyWhileHeld'
  <2>1. ASSUME NEW m \in made, m.what = "tick" PROVE rows'[m.on] = rows[m.on]
    BY <1>5, <1>9, <2>1 DEF IInv, TypeOK
  <2>2. QED
    BY <1>6, <2>1 DEF IInv, LostOnlyWhileHeld
<1>12. OneLinkPerRemote'
  BY <1>3, <1>5, <1>9 DEF IInv, OneLinkPerRemote, Linked
<1>13. QED
  BY <1>8, <1>10, <1>11, <1>12 DEF IInv

(***************************************************************************)
(* Steps that write Linear.                                                *)
(***************************************************************************)
LEMMA LinksStayTyped ==
    ASSUME TypeOK, Remotes \subseteq Remotes'
    PROVE  links \in Seq(Link')
<1>1. Link \subseteq Link'
  BY DEF Link
<1>2. QED
  BY <1>1 DEF TypeOK

\* A remote issue appears or changes under a push.
LEMMA RemoteStep ==
    ASSUME IInv, NEW s \in Session, JobStep(s, Issues, Remotes'),
           remotes' \in Seq(Remote), Remotes \subseteq Remotes',
           \A r \in Remotes : FreshText(r, remotes'[r].text),
           UNCHANGED <<board, comments, env, counts>>
    PROVE  IInv'
<1>1. /\ Issues' = Issues /\ rows' = rows /\ links' = links /\ heard' = heard
      /\ made' = made /\ exposed' = exposed /\ edits' = edits /\ comments' = comments
  BY DEF board, env, Issues
<1>2. job' \in [Session -> Job'] /\ JobsOK'
  BY <1>1, JobsStayOK
<1>3. TypeOK'
  <2>1. links' \in Seq(Link')
    BY <1>1, LinksStayTyped DEF IInv
  <2>2. made' \subseteq [what: {"tick"}, on: Issues', edit: Nat]
                      \cup [what: {"text"}, on: Remotes', edit: Nat]
    BY <1>1 DEF IInv, TypeOK
  <2>3. QED
    BY <1>1, <1>2, <2>1, <2>2 DEF IInv, TypeOK, counts
<1>4. LostOnlyWhileHeld'
  BY <1>1 DEF IInv, LostOnlyWhileHeld, FreshText, TypeOK
<1>5. OneLinkPerRemote'
  BY <1>1 DEF IInv, OneLinkPerRemote, Linked
<1>6. QED
  BY <1>2, <1>3, <1>4, <1>5 DEF IInv

LEMMA CreateRemoteStep ==
    ASSUME IInv, NEW s \in Session, CreateRemote(s)
    PROVE  IInv'
<1> DEFINE r == Len(remotes) + 1
           new == [state |-> ToLinear[job[s].item.row.status], text |-> {}, stamp |-> 1,
                   gone |-> FALSE, touched |-> 0, last |-> 0, by |-> job[s].item.on]
           copy == [id |-> r, state |-> new.state, text |-> {}, stamp |-> 1]
           item == [job[s].item EXCEPT !.copy = copy]
<1>1. job[s].item \in ItemOf(Issues, Remotes) /\ Issues \subseteq Nat
  BY Views
<1>2. new \in Remote /\ new.state \in State
  <2>1. job[s].item.row.status \in Status /\ job[s].item.on \in Nat
    BY <1>1 DEF ItemOf, Row
  <2>2. QED
    BY <2>1, BridgeConstants DEF Remote
<1>3. remotes' = Append(remotes, new) /\ Go(s, "update", item)
  BY DEF CreateRemote
<1>4. /\ remotes' \in Seq(Remote) /\ Remotes = 1..Len(remotes) /\ Remotes' = 1..r
      /\ Remotes \subseteq Remotes' /\ r \in Remotes' /\ r \notin Remotes /\ r # 0
      /\ \A q \in Remotes : remotes'[q] = remotes[q]
  <2>1. remotes \in Seq(Remote)
    BY DEF IInv, TypeOK
  <2> HIDE DEF new
  <2>2. QED
    BY <1>2, <1>3, <2>1 DEF Remotes
<1>5. \A q \in Remotes : FreshText(q, remotes'[q].text)
  BY <1>4, BoardIsFresh DEF IInv
<1>6. FreshText(r, {})
  BY <1>4, BoardIsFresh DEF IInv
<1>7. JobStep(s, Issues, Remotes')
  <2>1. job \in [Session -> JobOf(Issues, Remotes')]
    BY <1>4, Views, JobGrows
  <2>2. job[s].item \in ItemOf(Issues, Remotes')
    BY <1>4, Views, ItemGrows
  <2>3. copy \in CopyIn(Remotes')
    <3> HIDE DEF r, new
    <3>1. QED
      BY <1>2, <1>4 DEF CopyIn
  <2>4. copy.id = r /\ copy.text = {}
    OBVIOUS
  <2> HIDE DEF copy
  <2>5. item \in ItemOf(Issues, Remotes') /\ item.copy = copy
    BY <2>2, <2>3 DEF ItemOf
  <2> HIDE DEF item, r
  <2>6. QED
    BY <1>3, <1>4, <1>6, <2>1, <2>4, <2>5, Views, GoStep DEF PC
<1>8. QED
  BY <1>4, <1>5, <1>7, RemoteStep DEF CreateRemote

LEMMA RemoteWith ==
    ASSUME NEW remote \in Remote, NEW st \in State, NEW tx \in SUBSET Nat
    PROVE  LET new == [remote EXCEPT !.state = st, !.text = tx, !.stamp = @ + 1]
           IN  new \in Remote /\ new.text = tx
<1> DEFINE stamp == remote.stamp + 1
<1>1. stamp \in Nat
  BY DEF Remote
<1> HIDE DEF stamp
<1>2. LET new == [remote EXCEPT !.state = st, !.text = tx, !.stamp = stamp]
      IN  new \in Remote /\ new.text = tx
  BY <1>1 DEF Remote
<1>3. QED
  BY <1>2 DEF stamp

LEMMA PatchedIsRemote ==
    ASSUME IInv, NEW s \in Session, NEW remote \in Remote
    PROVE  /\ Patched(s, remote) \in Remote
           /\ \/ Patched(s, remote).text = remote.text
              \/ Patched(s, remote).text = job[s].item.copy.text
<1>1. /\ job[s].item.copy.state \in State /\ job[s].item.copy.text \in SUBSET Nat
      /\ job[s].item.row.status \in Status
  BY Views DEF ItemOf, CopyIn, Row
<1>2. WantedState(s) \in State
  BY <1>1, BridgeConstants DEF WantedState
<1> DEFINE st == IF WantedState(s) = job[s].item.copy.state THEN remote.state
                 ELSE WantedState(s)
           tx == IF "description" \in Push(s).writes THEN job[s].item.copy.text
                 ELSE remote.text
<1>3. /\ st \in State /\ tx \in SUBSET Nat
      /\ tx = remote.text \/ tx = job[s].item.copy.text
  BY <1>1, <1>2 DEF Remote
<1>4. Patched(s, remote) = [remote EXCEPT !.state = st, !.text = tx, !.stamp = @ + 1]
  BY DEF Patched
<1> HIDE DEF st, tx
<1>5. Patched(s, remote) \in Remote /\ Patched(s, remote).text = tx
  <2>1. LET new == [remote EXCEPT !.state = st, !.text = tx, !.stamp = @ + 1]
        IN  new \in Remote /\ new.text = tx
    BY <1>3, RemoteWith
  <2>2. QED
    BY <1>4, <2>1, Zenon
<1>6. QED
  BY <1>3, <1>5

LEMMA UpdateRemoteStep ==
    ASSUME IInv, NEW s \in Session, UpdateRemote(s)
    PROVE  IInv'
<1> DEFINE r == job[s].item.copy.id
           new == Patched(s, remotes[r])
           copy == [id |-> r, state |-> new.state, text |-> new.text, stamp |-> new.stamp]
           item == [job[s].item EXCEPT !.copy = copy]
<1>1. r \in Remotes /\ r # 0 /\ FreshText(r, job[s].item.copy.text)
  BY Views DEF ItemOf, CopyIn, PhaseOf, HeldOf, UpdateRemote, At
<1>2. /\ new \in Remote
      /\ new.text = remotes[r].text \/ new.text = job[s].item.copy.text
  BY <1>1, Views, PatchedIsRemote
<1>3. remotes' = [remotes EXCEPT ![r] = new] /\ Go(s, AfterUpdate(s), item)
  BY DEF UpdateRemote
<1>4. FreshText(r, new.text)
  BY <1>1, <1>2, BoardIsFresh DEF IInv
<1> HIDE DEF new
<1>5. /\ remotes' \in Seq(Remote) /\ Remotes' = Remotes
      /\ \A q \in Remotes : remotes'[q] = IF q = r THEN new ELSE remotes[q]
  <2>1. remotes \in Seq(Remote) /\ r \in 1..Len(remotes)
    BY <1>1 DEF IInv, TypeOK, Remotes
  <2> HIDE DEF r
  <2>2. QED
    BY <1>2, <1>3, <2>1, ExceptSeq DEF Remotes
<1>6. \A q \in Remotes : FreshText(q, remotes'[q].text)
  BY <1>4, <1>5, BoardIsFresh DEF IInv
<1>7. JobStep(s, Issues, Remotes)
  <2>1. copy \in CopyIn(Remotes) /\ copy.id = r
    BY <1>1, <1>2 DEF CopyIn, Remote
  <2> HIDE DEF copy
  <2>2. item \in ItemOf(Issues, Remotes) /\ item.copy = copy
    BY <2>1, Views DEF ItemOf
  <2> HIDE DEF item, r
  <2>3. QED
    BY <1>1, <1>3, <2>1, <2>2, Views, AfterUpdateIsPC, GoStep
<1>8. QED
  BY <1>5, <1>6, <1>7, RemoteStep DEF UpdateRemote

\* Only Linear's comments are written.
LEMMA CommentsStep ==
    ASSUME IInv, comments' \in Seq(Comment), JobsOK', job' \in [Session -> Job'],
           UNCHANGED <<board, remotes, made, used, faults, mishaps>>,
           edits' \in Nat, exposed' = exposed
    PROVE  IInv'
<1>1. /\ Issues' = Issues /\ Remotes' = Remotes /\ Link' = Link /\ rows' = rows
      /\ links' = links /\ heard' = heard
  BY DEF board, Issues, Remotes, Link
<1>2. TypeOK'
  BY <1>1 DEF IInv, TypeOK
<1>3. LostOnlyWhileHeld' /\ OneLinkPerRemote'
  BY <1>1 DEF IInv, LostOnlyWhileHeld, OneLinkPerRemote, Linked
<1>4. QED
  BY <1>2, <1>3 DEF IInv

LEMMA CreateCommentStep ==
    ASSUME IInv, NEW s \in Session, CreateComment(s)
    PROVE  IInv'
<1> DEFINE c == Len(comments) + 1
           new == [on |-> job[s].item.copy.id, for |-> job[s].item.on, live |-> TRUE]
<1>1. comments \in Seq(Comment) /\ c \in Nat
  BY DEF IInv, TypeOK
<1>2. new \in Comment
  <2>1. job[s].item.on \in Issues \cup {0} /\ job[s].item.copy.id \in Nat
    BY Views DEF ItemOf
  <2>2. QED
    BY <2>1, Views DEF Comment
<1>3. comments' = Append(comments, new)
  BY DEF CreateComment
<1>4. comments' \in Seq(Comment)
  <2> HIDE DEF new
  <2>1. QED
    BY <1>1, <1>2, <1>3
<1>5. JobStep(s, Issues, Remotes)
  BY <1>1, NoteStep DEF CreateComment
<1>6. Issues' = Issues /\ Remotes' = Remotes /\ made' = made /\ exposed' = exposed
  BY DEF CreateComment, board, env, Issues, Remotes
<1>7. job' \in [Session -> Job'] /\ JobsOK'
  BY <1>5, <1>6, JobsStayOK
<1>8. QED
  BY <1>4, <1>6, <1>7, CommentsStep DEF CreateComment, env, counts, IInv, TypeOK

(***************************************************************************)
(* The others.                                                             *)
(***************************************************************************)
LEMMA JobsUntouched ==
    ASSUME IInv, UNCHANGED <<job, made>>, exposed \subseteq exposed',
           Issues' = Issues, Remotes' = Remotes
    PROVE  job' \in [Session -> Job'] /\ JobsOK'
<1>1. Job' = Job
  BY DEF Job, Item, Link, Copy, Requests
<1>2. \A t \in Session : HeldOf(job[t])'
  BY FreshAsExposedGrows DEF IInv, JobsOK, HeldOf
<1>3. QED
  BY <1>1, <1>2 DEF IInv, TypeOK, JobsOK, PhaseOf

LEMMA CommentKilled ==
    ASSUME NEW c \in Comment
    PROVE  [c EXCEPT !.live = FALSE] \in Comment
BY DEF Comment

LEMMA PersonDeletesCommentStep ==
    ASSUME IInv, NEW c \in DOMAIN comments, PersonDeletesComment(c)
    PROVE  IInv'
<1> DEFINE new == [comments[c] EXCEPT !.live = FALSE]
<1>1. comments \in Seq(Comment) /\ c \in 1..Len(comments) /\ edits \in Nat
  BY DEF IInv, TypeOK
<1>2. new \in Comment
  BY <1>1, CommentKilled
<1>3. comments' = [comments EXCEPT ![c] = new]
  BY DEF PersonDeletesComment
<1>4. comments' \in Seq(Comment)
  <2> HIDE DEF new
  <2>1. QED
    BY <1>1, <1>2, <1>3, ExceptSeq
<1>5. job' \in [Session -> Job'] /\ JobsOK'
  BY JobsUntouched DEF PersonDeletesComment, board, Issues, Remotes
<1>6. QED
  BY <1>1, <1>4, <1>5, CommentsStep DEF PersonDeletesComment, Edit, counts

LEMMA FreshAsMadeGrows ==
    ASSUME NEW m, made' = made \cup {m}, exposed \subseteq exposed'
    PROVE  /\ \A l, row :
                FreshRow(l, row) /\ (m.what = "tick" /\ m.on = l => m.edit \in exposed')
                    => FreshRow(l, row)'
           /\ \A r, text :
                FreshText(r, text) /\ (m.what = "text" /\ m.on = r => m.edit \in exposed')
                    => FreshText(r, text)'
BY DEF FreshRow, FreshText

\* A row of the board changes under no command, and keeps its ticks.
LEMMA BoardStep ==
    ASSUME IInv, NEW l \in Issues, NEW row \in Row, rows' = [rows EXCEPT ![l] = row],
           JobsOK', job' \in [Session -> Job'], rows[l].plan \subseteq row.plan,
           \A m \in made' \ made : /\ m \in [what: {"tick"}, on: Issues, edit: Nat]
                                   /\ m.on = l /\ m.edit \in row.plan,
           exposed \subseteq exposed', exposed' \subseteq Nat, edits' \in Nat,
           UNCHANGED <<links, heard, linear, counts>>
    PROVE  IInv'
<1>1. /\ rows' \in Seq(Row) /\ Len(rows') = Len(rows) /\ Issues' = Issues
      /\ \A i \in Issues : rows'[i] = IF i = l THEN row ELSE rows[i]
  <2>1. rows \in Seq(Row) /\ l \in 1..Len(rows)
    BY DEF IInv, TypeOK, Issues
  <2>2. QED
    BY <2>1, ExceptSeq DEF Issues
<1>2. Remotes' = Remotes /\ remotes' = remotes /\ comments' = comments /\ Link' = Link
  BY DEF linear, Remotes, Link
<1>3. TypeOK'
  <2>1. made' \subseteq [what: {"tick"}, on: Issues', edit: Nat]
                      \cup [what: {"text"}, on: Remotes', edit: Nat]
    BY <1>1, <1>2 DEF IInv, TypeOK
  <2>2. QED
    BY <1>1, <1>2, <2>1 DEF IInv, TypeOK, counts
<1>4. LostOnlyWhileHeld'
  <2>1. SUFFICES ASSUME NEW m \in made'
                 PROVE  \/ m.edit \in exposed'
                        \/ m.what = "tick" /\ m.edit \in rows'[m.on].plan
                        \/ m.what = "text" /\ m.edit \in remotes[m.on].text
    BY <1>2 DEF LostOnlyWhileHeld
  <2>2. CASE m \in made
    <3>1. m.what = "tick" => m.on \in Issues
      BY <2>2 DEF IInv, TypeOK
    <3>2. QED
      BY <1>1, <2>2, <3>1 DEF IInv, LostOnlyWhileHeld
  <2>3. CASE m \notin made
    BY <1>1, <2>3
  <2>4. QED
    BY <2>2, <2>3
<1>5. OneLinkPerRemote'
  BY <1>1 DEF IInv, OneLinkPerRemote, Linked
<1>6. QED
  BY <1>3, <1>4, <1>5 DEF IInv

LEMMA TickStep ==
    ASSUME IInv, NEW l \in Issues, Tick(l)
    PROVE  IInv'
<1> DEFINE e == edits + 1
           m == [what |-> "tick", on |-> l, edit |-> e]
           row == [rows[l] EXCEPT !.plan = rows[l].plan \cup {e}]
<1>1. /\ e \in Nat /\ edits' = e /\ rows[l] \in Row /\ exposed \subseteq Nat
  BY DEF Tick, Edit, IInv, TypeOK, Issues
<1>2. row \in Row /\ row.plan = rows[l].plan \cup {e}
  <2> HIDE DEF e
  <2>1. QED
    BY <1>1 DEF Row
<1>3. /\ exposed \subseteq exposed' /\ exposed' \subseteq Nat
      /\ \A s \in Session : Holds(s, l) => e \in exposed'
  BY <1>1 DEF Tick, Expose
<1>4. rows' = [rows EXCEPT ![l] = row] /\ made' = made \cup {m}
  BY DEF Tick
<1>5. m.what = "tick" /\ m.on = l /\ m.edit = e /\ m \in [what: {"tick"}, on: Issues, edit: Nat]
  BY <1>1
<1>6. job' = job /\ Issues' = Issues /\ Remotes' = Remotes /\ Link' = Link
  BY DEF Tick, linear, Issues, Remotes, Link
<1>7. job' \in [Session -> Job'] /\ JobsOK'
  <2>1. Job' = Job
    BY <1>6 DEF Job, Item, Copy, Requests
  <2>2. SUFFICES ASSUME NEW t \in Session PROVE HeldOf(job[t])'
    BY <1>6, <2>1 DEF IInv, TypeOK, JobsOK, PhaseOf
  <2>3. HeldOf(job[t])
    BY DEF IInv, JobsOK
  <2>4. job[t].pc \in {"refresh", "archive", "fetchLinked"}
            => FreshRow(job[t].item.on, job[t].item.row)'
    <3> HIDE DEF m, e
    <3>1. QED
      BY <1>3, <1>4, <1>5, <1>6, <2>3, FreshAsMadeGrows DEF HeldOf, Holds
  <2>5. ASSUME NEW i \in job[t].todo PROVE FreshRow(i.on, i.row)'
    <3>1. FreshRow(i.on, i.row) /\ (i.on = l => e \in exposed')
      BY <1>3, <2>3 DEF HeldOf, Holds
    <3> HIDE DEF m, e
    <3>2. QED
      BY <1>3, <1>4, <1>5, <3>1, FreshAsMadeGrows
  <2>6. job[t].pc = "update" => FreshText(job[t].item.copy.id, job[t].item.copy.text)'
    <3> HIDE DEF m, e
    <3>1. QED
      BY <1>3, <1>4, <1>5, <1>6, <2>3, FreshAsMadeGrows DEF HeldOf
  <2>7. QED
    BY <1>6, <2>4, <2>5, <2>6 DEF HeldOf
<1> HIDE DEF m, row, e
<1>8. \A n \in made' \ made : /\ n \in [what: {"tick"}, on: Issues, edit: Nat]
                              /\ n.on = l /\ n.edit \in row.plan
  BY <1>2, <1>4, <1>5
<1>9. /\ edits' \in Nat /\ rows[l].plan \subseteq row.plan
      /\ UNCHANGED <<links, heard, linear, counts>>
  BY <1>1, <1>2 DEF Tick
<1>10. QED
  BY <1>2, <1>3, <1>4, <1>7, <1>8, <1>9, BoardStep

LEMMA MoveIssueStep ==
    ASSUME IInv, NEW l \in Issues, NEW st \in Status, MoveIssue(l, st)
    PROVE  IInv'
<1> DEFINE row == [rows[l] EXCEPT !.status = st]
<1>1. edits' \in Nat /\ rows[l] \in Row
  BY DEF MoveIssue, Edit, IInv, TypeOK, Issues
<1>2. row \in Row /\ row.plan = rows[l].plan
  BY <1>1 DEF Row
<1>3. rows' = [rows EXCEPT ![l] = row] /\ made' = made /\ exposed' = exposed /\ job' = job
  BY DEF MoveIssue
<1>4. Issues' = Issues /\ Remotes' = Remotes
  BY DEF MoveIssue, linear, Issues, Remotes
<1>5. job' \in [Session -> Job'] /\ JobsOK'
  BY <1>3, <1>4, JobsUntouched
<1> HIDE DEF row
<1>6. exposed' \subseteq Nat
  BY <1>3 DEF IInv, TypeOK
<1>7. QED
  BY <1>1, <1>2, <1>3, <1>5, <1>6, BoardStep DEF MoveIssue

\* A remote issue changes under no command, and keeps its text.
LEMMA LinearStep ==
    ASSUME IInv, NEW r \in Remotes, NEW new \in Remote,
           remotes' = [remotes EXCEPT ![r] = new], comments' \in Seq(Comment),
           JobsOK', job' \in [Session -> Job'], remotes[r].text \subseteq new.text,
           made \subseteq made',
           \A m \in made' \ made : /\ m \in [what: {"text"}, on: Remotes, edit: Nat]
                                   /\ m.on = r /\ m.edit \in new.text,
           exposed \subseteq exposed', exposed' \subseteq Nat, edits' \in Nat,
           UNCHANGED <<board, counts>>
    PROVE  IInv'
<1>1. /\ remotes' \in Seq(Remote) /\ Remotes' = Remotes
      /\ \A q \in Remotes : remotes'[q] = IF q = r THEN new ELSE remotes[q]
  <2>1. remotes \in Seq(Remote) /\ r \in 1..Len(remotes)
    BY DEF IInv, TypeOK, Remotes
  <2>2. QED
    BY <2>1, ExceptSeq DEF Remotes
<1>2. Issues' = Issues /\ rows' = rows /\ links' = links /\ heard' = heard /\ Link' = Link
  BY <1>1 DEF board, Issues, Link
<1>3. TypeOK'
  <2>1. made' \subseteq [what: {"tick"}, on: Issues', edit: Nat]
                      \cup [what: {"text"}, on: Remotes', edit: Nat]
    BY <1>1, <1>2 DEF IInv, TypeOK
  <2>2. QED
    BY <1>1, <1>2, <2>1 DEF IInv, TypeOK, counts
<1>4. LostOnlyWhileHeld'
  <2>1. SUFFICES ASSUME NEW m \in made'
                 PROVE  \/ m.edit \in exposed'
                        \/ m.what = "tick" /\ m.edit \in rows[m.on].plan
                        \/ m.what = "text" /\ m.edit \in remotes'[m.on].text
    BY <1>2 DEF LostOnlyWhileHeld
  <2>2. CASE m \in made
    <3>1. m.what = "text" => m.on \in Remotes
      BY <2>2 DEF IInv, TypeOK
    <3>2. QED
      BY <1>1, <2>2, <3>1 DEF IInv, LostOnlyWhileHeld
  <2>3. CASE m \notin made
    BY <1>1, <2>3
  <2>4. QED
    BY <2>2, <2>3
<1>5. OneLinkPerRemote'
  BY <1>2 DEF IInv, OneLinkPerRemote, Linked
<1>6. QED
  BY <1>3, <1>4, <1>5 DEF IInv

LEMMA TouchedIsRemote ==
    ASSUME NEW remote \in Remote, edits \in Nat
    PROVE  Touched(remote) \in Remote /\ Touched(remote).text = remote.text
<1> DEFINE stamp == remote.stamp + 1  e == edits + 1
<1>1. stamp \in Nat /\ e \in Nat
  BY DEF Remote
<1>2. Touched(remote) = [remote EXCEPT !.stamp = stamp, !.touched = stamp, !.last = e]
  BY DEF Touched
<1> HIDE DEF stamp, e
<1>3. QED
  BY <1>1, <1>2 DEF Remote

LEMMA PersonWritesStep ==
    ASSUME IInv, NEW r \in Remotes, PersonWrites(r)
    PROVE  IInv'
<1> DEFINE e == edits + 1
           m == [what |-> "text", on |-> r, edit |-> e]
           written == [remotes[r] EXCEPT !.text = remotes[r].text \cup {e}]
           new == Touched(written)
<1>1. /\ edits \in Nat /\ e \in Nat /\ edits' = e /\ remotes[r] \in Remote
      /\ exposed \subseteq Nat
  BY DEF PersonWrites, PersonChanges, Edit, IInv, TypeOK, Remotes
<1>2. written \in Remote /\ written.text = remotes[r].text \cup {e}
  <2> HIDE DEF e
  <2>1. QED
    BY <1>1 DEF Remote
<1>3. new \in Remote /\ new.text = remotes[r].text \cup {e}
  BY <1>1, <1>2, TouchedIsRemote
<1>4. /\ exposed \subseteq exposed' /\ exposed' \subseteq Nat
      /\ \A s \in Session : Patches(s, r) => e \in exposed'
  BY <1>1 DEF PersonWrites, PersonChanges, Expose
<1>5. /\ remotes' = [remotes EXCEPT ![r] = new] /\ made' = made \cup {m}
      /\ UNCHANGED <<board, comments, counts, job>>
  BY DEF PersonWrites, PersonChanges
<1>6. m.what = "text" /\ m.on = r /\ m.edit = e /\ m \in [what: {"text"}, on: Remotes, edit: Nat]
  BY <1>1
<1>7. Issues' = Issues /\ Remotes' = Remotes /\ Link' = Link
  <2> HIDE DEF new
  <2>1. Issues' = Issues /\ Remotes' = Remotes
    BY <1>5 DEF board, Issues, Remotes
  <2>2. QED
    BY <2>1 DEF Link
<1>8. job' \in [Session -> Job'] /\ JobsOK'
  <2>1. Job' = Job
    BY <1>7 DEF Job, Item, Copy, Requests
  <2>2. SUFFICES ASSUME NEW t \in Session PROVE HeldOf(job[t])'
    BY <1>5, <2>1 DEF IInv, TypeOK, JobsOK, PhaseOf
  <2>3. HeldOf(job[t])
    BY DEF IInv, JobsOK
  <2>4. job[t].pc \in {"refresh", "archive", "fetchLinked"}
            => FreshRow(job[t].item.on, job[t].item.row)'
    <3> HIDE DEF m, e, new
    <3>1. QED
      BY <1>4, <1>5, <1>6, <2>3, FreshAsMadeGrows DEF HeldOf
  <2>5. ASSUME NEW i \in job[t].todo PROVE FreshRow(i.on, i.row)'
    <3>1. FreshRow(i.on, i.row)
      BY <2>3 DEF HeldOf
    <3> HIDE DEF m, e, new
    <3>2. QED
      BY <1>4, <1>5, <1>6, <3>1, FreshAsMadeGrows
  <2>6. job[t].pc = "update" => FreshText(job[t].item.copy.id, job[t].item.copy.text)'
    <3> HIDE DEF m, e, new
    <3>1. QED
      BY <1>4, <1>5, <1>6, <2>3, FreshAsMadeGrows DEF HeldOf, Patches, At
  <2>7. QED
    BY <1>5, <2>4, <2>5, <2>6 DEF HeldOf
<1> HIDE DEF m, new, e
<1>9. \A n \in made' \ made : /\ n \in [what: {"text"}, on: Remotes, edit: Nat]
                              /\ n.on = r /\ n.edit \in new.text
  BY <1>3, <1>5, <1>6
<1>10. /\ edits' \in Nat /\ comments' \in Seq(Comment) /\ remotes[r].text \subseteq new.text
       /\ made \subseteq made'
  BY <1>1, <1>3, <1>5 DEF IInv, TypeOK
<1>11. QED
  BY <1>3, <1>4, <1>5, <1>8, <1>9, <1>10, LinearStep

LEMMA PersonMovesStep ==
    ASSUME IInv, NEW r \in Remotes, NEW st \in State, PersonMoves(r, st)
    PROVE  IInv'
<1> DEFINE moved == [remotes[r] EXCEPT !.state = st]
           new == Touched(moved)
<1>1. /\ edits \in Nat /\ edits' \in Nat /\ remotes[r] \in Remote /\ exposed \subseteq Nat
      /\ comments \in Seq(Comment)
  BY DEF PersonMoves, PersonChanges, Edit, IInv, TypeOK, Remotes
<1>2. moved \in Remote /\ moved.text = remotes[r].text
  BY <1>1 DEF Remote
<1>3. new \in Remote /\ new.text = remotes[r].text
  BY <1>1, <1>2, TouchedIsRemote
<1>4. exposed \subseteq exposed' /\ exposed' \subseteq Nat
  BY <1>1 DEF PersonMoves, PersonChanges, Expose
<1>5. /\ remotes' = [remotes EXCEPT ![r] = new] /\ made' = made
      /\ UNCHANGED <<board, comments, counts, job>>
  BY DEF PersonMoves, PersonChanges
<1> HIDE DEF new
<1>6. Issues' = Issues /\ Remotes' = Remotes
  BY <1>5 DEF board, Issues, Remotes
<1>7. job' \in [Session -> Job'] /\ JobsOK'
  BY <1>4, <1>5, <1>6, JobsUntouched
<1>8. QED
  BY <1>1, <1>3, <1>4, <1>5, <1>7, LinearStep

LEMMA PersonDeletesIssueStep ==
    ASSUME IInv, NEW r \in Remotes, PersonDeletesIssue(r)
    PROVE  IInv'
<1> DEFINE new == [remotes[r] EXCEPT !.gone = TRUE]
           Left(c) == IF comments[c].on = r THEN [comments[c] EXCEPT !.live = FALSE]
                      ELSE comments[c]
<1>1. /\ edits' \in Nat /\ remotes[r] \in Remote /\ exposed \subseteq Nat
      /\ comments \in Seq(Comment)
  BY DEF PersonDeletesIssue, Edit, IInv, TypeOK, Remotes
<1>2. new \in Remote /\ new.text = remotes[r].text
  BY <1>1 DEF Remote
<1>3. comments' \in Seq(Comment)
  <2>1. \A c \in 1..Len(comments) : Left(c) \in Comment
    BY <1>1, CommentKilled
  <2>2. comments' = [c \in 1..Len(comments) |-> Left(c)]
    BY <1>1 DEF PersonDeletesIssue
  <2> HIDE DEF Left
  <2>3. QED
    BY <1>1, <2>1, <2>2
<1>4. /\ remotes' = [remotes EXCEPT ![r] = new] /\ made' = made /\ exposed' = exposed
      /\ UNCHANGED <<board, counts, job>>
  BY DEF PersonDeletesIssue
<1> HIDE DEF new
<1>5. Issues' = Issues /\ Remotes' = Remotes
  BY <1>4 DEF board, Issues, Remotes
<1>6. job' \in [Session -> Job'] /\ JobsOK'
  BY <1>4, <1>5, JobsUntouched
<1>7. QED
  BY <1>1, <1>2, <1>3, <1>4, <1>6, LinearStep

(***************************************************************************)
(* The theorems.                                                           *)
(***************************************************************************)
LEMMA RowsGrow ==
    ASSUME NEW A, NEW B, NEW C, NEW D, A \subseteq Nat, B \subseteq BOOLEAN,
           C \subseteq SUBSET Nat, D \subseteq Nat
    PROVE  [spec: A, status: Status, archived: B, plan: C, from: D] \subseteq Row
BY DEF Row

LEMMA RemotesGrow ==
    ASSUME NEW A, NEW B, NEW C, NEW D, NEW E, A \subseteq State, B \subseteq SUBSET Nat,
           C \subseteq Nat, D \subseteq BOOLEAN, E \subseteq Nat
    PROVE  [state: A, text: B, stamp: C, gone: D, touched: C, last: E, by: E]
                \subseteq Remote
BY DEF Remote

LEMMA InitIInv ==
    ASSUME Init
    PROVE  IInv
<1>1. FirstIssues \in Nat /\ FirstRemotes \in Nat /\ Open \subseteq State
  BY BridgeConstants
<1>2. rows \in Seq(Row) /\ Issues = 1..FirstIssues /\ Len(rows) = FirstIssues
  <2>1. rows \in [1..FirstIssues -> [spec: {OnBoard}, status: Status, archived: {FALSE},
                                     plan: {{}}, from: {0}]]
    BY DEF Init
  <2>2. [spec: {OnBoard}, status: Status, archived: {FALSE}, plan: {{}}, from: {0}]
            \subseteq Row
    <3>1. {OnBoard} \subseteq Nat /\ {0} \subseteq Nat /\ {{}} \subseteq SUBSET Nat
      BY DEF OnBoard
    <3>2. QED
      BY <3>1, RowsGrow
  <2>3. rows \in [1..FirstIssues -> Row]
    BY <2>1, <2>2
  <2>4. QED
    BY <1>1, <2>3 DEF Issues
<1>3. remotes \in Seq(Remote) /\ Remotes = 1..FirstRemotes
  <2>1. remotes \in [1..FirstRemotes -> [state: Open, text: {{}}, stamp: {1},
                        gone: {FALSE}, touched: {1}, last: {0}, by: {0}]]
    BY DEF Init
  <2>2. [state: Open, text: {{}}, stamp: {1}, gone: {FALSE}, touched: {1}, last: {0},
         by: {0}] \subseteq Remote
    <3>1. {0} \subseteq Nat /\ {1} \subseteq Nat /\ {{}} \subseteq SUBSET Nat
      OBVIOUS
    <3>2. QED
      BY <1>1, <3>1, RemotesGrow DEF Remote
  <2>3. remotes \in [1..FirstRemotes -> Remote]
    BY <2>1, <2>2
  <2>4. QED
    BY <1>1, <2>3 DEF Remotes
<1>4. NoLink \in Link /\ NoLink.remote = 0
  BY NothingIsTyped DEF Link, LinkOf, NoLink
<1>5. links = [l \in 1..FirstIssues |-> NoLink] /\ heard = [l \in 1..FirstIssues |-> 0]
  BY <1>2 DEF Init
<1> HIDE DEF NoLink
<1>6. /\ links \in Seq(Link) /\ Len(links) = FirstIssues
      /\ heard \in Seq(Nat) /\ Len(heard) = FirstIssues
  BY <1>1, <1>4, <1>5
<1>7. job \in [Session -> Job] /\ \A s \in Session : job[s] = Idle
  BY NothingIsTyped, JobIsJobOf DEF Init
<1>8. TypeOK
  BY <1>2, <1>3, <1>6, <1>7 DEF Init, TypeOK
<1>9. JobsOK
  BY <1>7 DEF JobsOK, PhaseOf, HeldOf, Idle, NoCommand
<1>10. LostOnlyWhileHeld
  BY DEF Init, LostOnlyWhileHeld
<1>11. OneLinkPerRemote
  BY <1>2, <1>4, <1>5 DEF OneLinkPerRemote, Linked
<1>12. QED
  BY <1>8, <1>9, <1>10, <1>11 DEF IInv

LEMMA StutterStep ==
    ASSUME IInv, UNCHANGED vars
    PROVE  IInv'
<1>1. /\ UNCHANGED <<rows, links, remotes, comments, job, used, faults, edits, made,
                     exposed, heard, mishaps>>
      /\ Issues' = Issues /\ Remotes' = Remotes
  BY DEF vars, board, linear, env, counts, Issues, Remotes
<1>2. job' \in [Session -> Job'] /\ JobsOK'
  BY <1>1, JobsUntouched
<1>3. QED
  BY <1>1, <1>2, CommentsStep DEF board, IInv, TypeOK

LEMMA NextIInv ==
    ASSUME IInv, [Next]_vars
    PROVE  IInv'
<1>1. ASSUME NEW s \in Session, NEW c \in Requests, Begin(s, c) PROVE IInv'
  BY <1>1, BeginStep
<1>2. ASSUME NEW s \in Session, Import(s) PROVE IInv'
  BY <1>2, FetchIssueStep, FetchMineStep, NextItemStep, EndingStep, ResolveExistingStep,
     ResolveAdoptStep, ResolveCreateStep, CreateRowStep, ArchiveCreatedStep, RefreshStep,
     RecordLinkStep, ReadLinksStep, FetchLinkedStep DEF Import
<1>3. ASSUME NEW s \in Session, PushStep(s) PROVE IInv'
  BY <1>3, ReadIssueStep, CreateRemoteStep, GuardStep, NothingToUpdateStep,
     UpdateRemoteStep, EndingStep, EditCommentStep, CreateCommentStep, SetCommentStep
     DEF PushStep
<1>4. ASSUME NEW s \in Session, Abort(s) PROVE IInv'
  BY <1>4, AbortStep
<1>5. ASSUME Others PROVE IInv'
  BY <1>5, TickStep, MoveIssueStep, PersonWritesStep, PersonDeletesIssueStep,
     PersonMovesStep, PersonDeletesCommentStep DEF Others
<1>6. CASE UNCHANGED vars
  BY <1>6, StutterStep
<1>7. QED
  BY <1>1, <1>2, <1>3, <1>4, <1>5, <1>6 DEF Next

\* Whatever commands, faults and people do, in any order.
LEMMA Invariance == Spec => []IInv
<1>1. Init => IInv
  BY InitIInv
<1>2. IInv /\ [Next]_vars => IInv'
  BY NextIInv
<1>3. QED
  BY <1>1, <1>2, PTL DEF Spec

\* Every link and every command names an issue, a remote and a comment's owner that
\* exist, and the board's columns stay the board's: a state of Linear reaches the
\* board through to_cliban only.
THEOREM TypeCorrect == Spec => []TypeOK
<1>1. IInv => TypeOK
  BY DEF IInv
<1>2. QED
  BY <1>1, Invariance, PTL

\* The unique index keeps one local issue per Linear issue through imports and pushes
\* that run at once, and through commands killed between two writes.
THEOREM OneLinkEach == Spec => []OneLinkPerRemote
<1>1. IInv => OneLinkPerRemote
  BY DEF IInv
<1>2. QED
  BY <1>1, Invariance, PTL

\* refresh_existing writes back every column of a row read before an HTTP call, and
\* push --description a text read before its write: ticks and text made outside those
\* windows survive, since each copy a command holds has every other change (HeldOf).
THEOREM LostOnlyInTheWindow == Spec => []LostOnlyWhileHeld
<1>1. IInv => LostOnlyWhileHeld
  BY DEF IInv
<1>2. QED
  BY <1>1, Invariance, PTL

(***************************************************************************)
(* What holds as long as nothing went wrong: no command failed, none       *)
(* overlapped another, and no linked issue was adopted again. One command  *)
(* runs then, or none; j is its job.                                       *)
(***************************************************************************)
\* Who the Spec belongs to, by the link.
Owner(link) == IF link.origin = "pushed" THEN OnBoard ELSE link.remote

\* The board has what people last did to r, or a push was told to go past it.
Known(l, r) == heard[l] >= remotes[r].touched \/ remotes[r].last \in exposed

\* An import has written the row of l and is about to link it.
Importing(j, l) ==
    j.pc \in {"archive", "link"} /\ j.cmd.op # "push" /\ j.item.on = l

LinksCalm(j) == \A l \in Issues :
    /\ ~ Linked(l) => /\ links[l].origin = "imported" /\ links[l].comment = 0
                      /\ rows[l].spec = OnBoard \/ Importing(j, l)
    /\ Linked(l) => /\ rows[l].spec = Owner(links[l])
                    /\ links[l].seen <= remotes[links[l].remote].stamp
                    /\ links[l].seen >= remotes[links[l].remote].touched
                            => Known(l, links[l].remote)

StampsCalm == \A r \in Remotes : remotes[r].touched <= remotes[r].stamp

\* Commands and the steps they come to.
OpCalm(j) ==
    /\ j.pc = "idle" => j = Idle
    /\ j.pc \in {"fetch", "resolve", "create", "archive"} => j.cmd.op \in {"import", "mine"}
    /\ j.pc = "refresh" => j.cmd.op \in {"import", "mine", "sync"}
    /\ j.pc \in {"createRemote", "guard", "update", "comment", "note"} => j.cmd.op = "push"
    /\ j.pc \in {"fetch", "read", "next"} => j.item.copy.id = 0
    /\ j.pc \in {"read", "createRemote", "guard", "update", "comment"} => j.note = 0
    /\ j.pc = "note" => j.note # 0

\* A command holds the pairing of its issue as it is.
Paired(i) ==
    /\ i.on \in Issues
    /\ i.link.remote = links[i.on].remote
    /\ i.link.origin = links[i.on].origin
    /\ i.link.comment = links[i.on].comment
Unpaired(i) == i.link.remote = 0 /\ i.link.origin = "imported" /\ i.link.comment = 0

\* What it links has that link, or nobody has.
PairCalm(j) ==
    /\ j.pc \in {"resolve", "create"} => Unpaired(j.item)
    /\ j.pc \in {"archive", "refresh", "fetchLinked", "createRemote", "guard", "update",
                 "comment", "link"} => Paired(j.item)
    /\ j.pc \in {"archive", "createRemote"} => j.item.link.remote = 0
    /\ j.pc \in {"refresh", "update", "comment", "link"} /\ j.item.link.remote # 0
            => j.item.copy.id = j.item.link.remote
    /\ j.pc \in {"create", "archive", "refresh", "update", "comment", "link"}
            /\ j.item.link.remote = 0
            => LinkedTo(j.item.copy.id) = {}
    /\ j.pc = "note" => j.item.on \in Issues /\ Linked(j.item.on)

SpecCalm(j) ==
    /\ j.pc \in {"refresh", "fetchLinked"} /\ j.item.link.remote # 0
            => j.item.row.spec = Owner(j.item.link)
    /\ j.pc = "archive" => j.item.row.spec = j.item.copy.id
    /\ j.pc = "link" /\ j.cmd.op # "push" /\ j.item.link.remote = 0
            => rows[j.item.on].spec = j.item.copy.id
    /\ j.pc \in {"createRemote", "update", "comment", "link"} /\ j.cmd.op = "push"
            /\ j.item.link.remote = 0
            => rows[j.item.on].spec = OnBoard

\* A copy is of the remote as it is or was, and not older than what links have seen.
StampCalm(copy) == copy.id # 0 => copy.stamp <= remotes[copy.id].stamp
NotOlder(copy) == \A l \in LinkedTo(copy.id) : links[l].seen <= copy.stamp

HeardCalm(j) ==
    /\ StampCalm(j.item.copy)
    /\ j.pc \in {"resolve", "refresh"} => NotOlder(j.item.copy)
    /\ j.pc \in {"archive", "link"} /\ j.cmd.op # "push"
            => heard[j.item.on] = j.item.copy.stamp
    /\ j.pc = "guard" => j.item.link.seen = links[j.item.on].seen
    /\ j.pc = "update" => Known(j.item.on, j.item.copy.id)
    /\ j.pc \in {"comment", "link"} /\ j.cmd.op = "push"
            /\ j.item.copy.stamp >= remotes[j.item.copy.id].touched
            => Known(j.item.on, j.item.copy.id)

\* What is still to be done.
MineCalm(j) ==
    j.cmd.op = "mine" =>
        /\ \A i \in j.todo : Unpaired(i) /\ StampCalm(i.copy) /\ NotOlder(i.copy)
        /\ \A i \in j.todo : i.copy.id = j.item.copy.id
                                => i.copy.stamp = j.item.copy.stamp
        /\ \A i, k \in j.todo : i.copy.id = k.copy.id => i.copy.stamp = k.copy.stamp
SyncCalm(j) ==
    j.cmd.op = "sync" =>
        \A i \in j.todo : /\ Paired(i) /\ i.link.remote # 0 /\ i.copy.id = 0
                          /\ i.row.spec = Owner(i.link)

JobCalm(j) ==
    /\ OpCalm(j) /\ PairCalm(j) /\ SpecCalm(j) /\ HeardCalm(j)
    /\ MineCalm(j) /\ SyncCalm(j)

InOrder(j) == LinksCalm(j) /\ StampsCalm /\ JobCalm(j)

Alone(s) == \A t \in Session \ {s} : job[t] = Idle

Calm ==
    mishaps = 0 =>
        \/ (\A t \in Session : job[t] = Idle) /\ InOrder(Idle)
        \/ \E s \in Session : Alone(s) /\ InOrder(job[s])

(***************************************************************************)
(* The types that the steps below need, as plain facts.                    *)
(***************************************************************************)
LEMMA Facts ==
    ASSUME IInv
    PROVE  /\ 0 \notin Issues /\ 0 \notin Remotes
           /\ Issues = 1..Len(rows) /\ Remotes = 1..Len(remotes) /\ Len(rows) \in Nat
           /\ \A l \in Issues : /\ links[l].remote \in Remotes \cup {0}
                                /\ links[l].seen \in Nat /\ links[l].comment \in Nat
                                /\ rows[l].spec \in Nat /\ rows[l].from \in Nat
                                /\ heard[l] \in Nat
           /\ \A r \in Remotes : /\ remotes[r].stamp \in Nat /\ remotes[r].touched \in Nat
                                 /\ remotes[r].by \in Nat /\ remotes[r] \in Remote
           /\ \A c \in DOMAIN comments : /\ c # 0 /\ c \in Nat
                                         /\ comments[c].for \in Nat
<1>1. /\ \A l \in Issues : rows[l] \in Row /\ links[l] \in LinkOf(Remotes)
      /\ \A r \in Remotes : remotes[r] \in Remote
      /\ 0 \notin Issues /\ 0 \notin Remotes
      /\ Issues = 1..Len(rows) /\ Remotes = 1..Len(remotes) /\ Len(rows) \in Nat
      /\ \A l \in Issues : heard[l] \in Nat
  <2>1. /\ rows \in Seq(Row) /\ remotes \in Seq(Remote) /\ links \in Seq(LinkOf(Remotes))
        /\ heard \in Seq(Nat) /\ Len(links) = Len(rows) /\ Len(heard) = Len(rows)
    BY DEF IInv, TypeOK, Link, LinkOf
  <2>2. Issues = 1..Len(rows) /\ Remotes = 1..Len(remotes) /\ Len(rows) \in Nat
    BY <2>1 DEF Issues, Remotes
  <2>3. QED
    BY <2>1, <2>2
<1>2. \A c \in DOMAIN comments : c # 0 /\ c \in Nat /\ comments[c] \in Comment
  BY DEF IInv, TypeOK
<1>3. \A c \in DOMAIN comments : comments[c].for \in Nat
  BY <1>2 DEF Comment
<1>4. \A r \in Remotes : /\ remotes[r].stamp \in Nat /\ remotes[r].touched \in Nat
                         /\ remotes[r].by \in Nat
  BY <1>1 DEF Remote
<1>5. \A l \in Issues : /\ links[l].remote \in Remotes \cup {0}
                        /\ links[l].seen \in Nat /\ links[l].comment \in Nat
                        /\ rows[l].spec \in Nat /\ rows[l].from \in Nat
  BY <1>1 DEF LinkOf, Row
<1>6. QED
  BY <1>1, <1>2, <1>3, <1>4, <1>5

LEMMA ItemFacts ==
    ASSUME IInv, NEW i \in ItemOf(Issues, Remotes)
    PROVE  /\ i.on \in Issues \cup {0}
           /\ i.link.remote \in Remotes \cup {0} /\ i.link.seen \in Nat
           /\ i.copy.id \in Remotes \cup {0} /\ i.copy.stamp \in Nat
           /\ i.row.spec \in Nat
BY DEF ItemOf, LinkOf, CopyIn, Row

LEMMA JobFacts ==
    ASSUME IInv, NEW j \in JobOf(Issues, Remotes)
    PROVE  /\ j.item \in ItemOf(Issues, Remotes) /\ j.note \in Nat
           /\ j.pc \in PC
           /\ \A i \in j.todo : i \in ItemOf(Issues, Remotes)
BY DEF JobOf

(***************************************************************************)
(* Steps of a command that leave the board and Linear alone.               *)
(***************************************************************************)
\* What is owed to the board stays owed.
Carries(j, k) ==
    \A l \in Issues : Importing(j, l) => Importing(k, l)

LEMMA SameJobCalm ==
    ASSUME NEW k, JobCalm(k), UNCHANGED <<board, linear>>, exposed \subseteq exposed'
    PROVE  JobCalm(k)'
<1>1. /\ Issues' = Issues /\ Remotes' = Remotes /\ rows' = rows /\ links' = links
      /\ remotes' = remotes /\ heard' = heard /\ comments' = comments
  BY DEF board, linear, Issues, Remotes
<1>2. \A l, r : Known(l, r) => Known(l, r)'
  BY <1>1 DEF Known
<1>3. \A r : LinkedTo(r)' = LinkedTo(r)
  BY <1>1 DEF LinkedTo
<1>4. \A i : Paired(i) => Paired(i)'
  BY <1>1 DEF Paired
<1>5. \A copy : /\ StampCalm(copy) => StampCalm(copy)'
                /\ NotOlder(copy) => NotOlder(copy)'
  BY <1>1, <1>3 DEF StampCalm, NotOlder
<1>6. PairCalm(k)'
  BY <1>1, <1>3, <1>4 DEF JobCalm, PairCalm, Linked
<1>7. SpecCalm(k)'
  BY <1>1 DEF JobCalm, SpecCalm
<1>8. HeardCalm(k)'
  BY <1>1, <1>2, <1>5 DEF JobCalm, HeardCalm
<1>9. MineCalm(k)'
  BY <1>5 DEF JobCalm, MineCalm
<1>10. SyncCalm(k)'
  BY <1>1, <1>4 DEF JobCalm, SyncCalm
<1>11. OpCalm(k)'
  BY DEF JobCalm, OpCalm
<1>12. QED
  BY <1>6, <1>7, <1>8, <1>9, <1>10, <1>11 DEF JobCalm

LEMMA QuietBoard ==
    ASSUME IInv, NEW j, NEW k, InOrder(j), Carries(j, k), JobCalm(k)',
           UNCHANGED <<board, linear>>, exposed \subseteq exposed'
    PROVE  InOrder(k)'
<1>1. /\ Issues' = Issues /\ Remotes' = Remotes /\ rows' = rows /\ links' = links
      /\ remotes' = remotes /\ heard' = heard /\ comments' = comments
  BY DEF board, linear, Issues, Remotes
<1>2. \A l, r : Known(l, r) => Known(l, r)'
  BY <1>1 DEF Known
<1>3. LinksCalm(k)'
  <2>1. SUFFICES ASSUME NEW l \in Issues
        PROVE  /\ ~ Linked(l) => /\ links[l].origin = "imported" /\ links[l].comment = 0
                                 /\ rows[l].spec = OnBoard \/ Importing(k, l)
               /\ Linked(l) => /\ rows[l].spec = Owner(links[l])
                               /\ links[l].seen <= remotes[links[l].remote].stamp
                               /\ links[l].seen >= remotes[links[l].remote].touched
                                        => Known(l, links[l].remote)'
    BY <1>1 DEF LinksCalm, Linked, Importing
  <2>2. QED
    BY <1>1, <1>2 DEF InOrder, LinksCalm, Carries
<1>4. StampsCalm'
  BY <1>1 DEF InOrder, StampsCalm
<1>5. QED
  BY <1>3, <1>4 DEF InOrder

LEMMA QuietCalm ==
    ASSUME IInv, NEW j, NEW k, InOrder(j), Carries(j, k), JobCalm(k),
           UNCHANGED <<board, linear>>, exposed \subseteq exposed'
    PROVE  InOrder(k)'
BY SameJobCalm, QuietBoard

LEMMA QuietJob ==
    ASSUME IInv, NEW s \in Session, InOrder(job[s]), Carries(job[s], job'[s]),
           JobCalm(job'[s]), UNCHANGED <<board, linear>>, exposed \subseteq exposed'
    PROVE  InOrder(job[s])'
BY QuietCalm

\* No board write is waiting for its link.
Owing == {"archive", "link"}

LEMMA NothingOwed ==
    ASSUME NEW j, NEW k, j.pc \notin Owing
    PROVE  Carries(j, k)
BY DEF Owing, Carries, Importing

LEMMA IdleIsCalm == JobCalm(Idle)
<1>1. /\ Idle.pc = "idle" /\ Idle.cmd.op = "none" /\ Idle.item.copy.id = 0
      /\ Idle.todo = {}
  BY DEF Idle, NoCommand, NoItem, NoCopy
<1>2. OpCalm(Idle)
  BY <1>1 DEF OpCalm
<1>3. PairCalm(Idle) /\ SpecCalm(Idle)
  BY <1>1 DEF PairCalm, SpecCalm
<1>4. HeardCalm(Idle) /\ MineCalm(Idle) /\ SyncCalm(Idle)
  BY <1>1 DEF HeardCalm, StampCalm, MineCalm, SyncCalm
<1>5. QED
  BY <1>2, <1>3, <1>4 DEF JobCalm

LEMMA EndCalm ==
    ASSUME IInv, NEW s \in Session, InOrder(job[s]), End(s),
           Carries(job[s], Idle), UNCHANGED <<board, linear>>, exposed \subseteq exposed'
    PROVE  InOrder(job[s])'
<1>1. job'[s] = Idle
  BY Views, EndIsTyped
<1>2. QED
  BY <1>1, IdleIsCalm, QuietJob

\* A command that has no to-do list has nothing to say of it.
LEMMA NoTodo ==
    ASSUME NEW j, j.cmd.op \notin {"mine", "sync"}
    PROVE  MineCalm(j) /\ SyncCalm(j)
BY DEF MineCalm, SyncCalm

\* The list goes on as it was, and the item is another or the same copy.
LEMMA SameTodo ==
    ASSUME NEW j, NEW k, MineCalm(j), SyncCalm(j), k.cmd = j.cmd, k.todo = j.todo,
           k.item.copy = j.item.copy \/ (k.cmd.op = "mine" => k.item.copy.id = 0),
           PhaseOf(j)
    PROVE  MineCalm(k) /\ SyncCalm(k)
BY DEF MineCalm, SyncCalm, PhaseOf

(***************************************************************************)
(* One lemma per step of that kind.                                        *)
(***************************************************************************)
LEMMA BeginCalm ==
    ASSUME IInv, NEW s \in Session, NEW c \in Requests, InOrder(Idle), Begin(s, c)
    PROVE  InOrder(job[s])'
<1> DEFINE k == [Idle EXCEPT
                    !.pc = IF c.op \in {"import", "mine"} THEN "fetch" ELSE "read",
                    !.cmd = c]
<1>1. job' = [job EXCEPT ![s] = k]
  BY DEF Begin
<1>2. job'[s] = k
  BY <1>1, Views
<1>3. /\ (k.pc = "fetch" /\ c.op \in {"import", "mine"}) \/ k.pc = "read"
      /\ k.cmd = c /\ k.item = NoItem /\ k.note = 0 /\ k.todo = {}
  BY DEF Idle
<1> HIDE DEF k
<1>4. NoItem.copy.id = 0
  BY DEF NoItem, NoCopy
<1>5. OpCalm(k)
  BY <1>3, <1>4 DEF OpCalm
<1>6. PairCalm(k) /\ SpecCalm(k)
  BY <1>3 DEF PairCalm, SpecCalm
<1>7. HeardCalm(k) /\ MineCalm(k) /\ SyncCalm(k)
  BY <1>3, <1>4 DEF HeardCalm, StampCalm, MineCalm, SyncCalm
<1>8. Carries(Idle, k)
  BY NothingOwed DEF Owing, Idle
<1>9. QED
  BY <1>2, <1>5, <1>6, <1>7, <1>8, QuietCalm DEF JobCalm, Begin, env

LEMMA FetchIssueCalm ==
    ASSUME IInv, NEW s \in Session, InOrder(job[s]), FetchIssue(s)
    PROVE  InOrder(job[s])'
<1> DEFINE r == job[s].cmd.remote
           item == [NoItem EXCEPT !.copy = CopyOf(r)]
<1>1. Carries(job[s], Idle) /\ Carries(job[s], job'[s])
  BY NothingOwed DEF Owing, FetchIssue, At
<1>2. CASE End(s)
  BY <1>1, <1>2, EndCalm DEF FetchIssue, env
<1>3. CASE Go(s, "resolve", item)
  <2>1. r \in Remotes /\ r # 0
    BY Views DEF FetchIssue, Runs, Op, JobOf, RequestsOf, NoCommand
  <2>2. /\ item.copy = CopyOf(r) /\ item.link = NoLink
        /\ item \in ItemOf(Issues, Remotes)
    BY <2>1, Views, NothingIsTyped DEF NoItem, ItemOf
  <2>3. item.copy.id = r /\ item.copy.stamp = remotes[r].stamp
    BY <2>2 DEF CopyOf
  <2> HIDE DEF item
  <2>4. /\ job'[s].pc = "resolve" /\ job'[s].item = item /\ job'[s].cmd = job[s].cmd
        /\ job[s].cmd.op = "import"
    BY <1>3, <2>2, Views, GoIsTyped DEF PC, FetchIssue, Runs, Op
  <2> DEFINE k == job'[s]
  <2> HIDE DEF k
  <2>5. OpCalm(k)
    BY <2>4 DEF OpCalm, k
  <2>6. PairCalm(k) /\ SpecCalm(k)
    BY <2>2, <2>4 DEF PairCalm, SpecCalm, k, Unpaired, NoLink
  <2>7. StampCalm(item.copy) /\ NotOlder(item.copy)
    <3>1. remotes[r].stamp \in Nat
      BY <2>1, Facts
    <3>2. \A l \in LinkedTo(r) : links[l].seen <= remotes[r].stamp
      BY <2>1 DEF InOrder, LinksCalm, LinkedTo, Linked
    <3>3. QED
      BY <2>3, <3>1, <3>2 DEF StampCalm, NotOlder
  <2>8. HeardCalm(k)
    BY <2>4, <2>7 DEF HeardCalm, k
  <2>9. MineCalm(k) /\ SyncCalm(k)
    BY <2>4, NoTodo DEF k
  <2>10. JobCalm(k)
    BY <2>5, <2>6, <2>8, <2>9 DEF JobCalm
  <2>11. QED
    BY <1>1, <2>10, QuietJob DEF FetchIssue, env, k
<1>4. QED
  BY <1>2, <1>3 DEF FetchIssue

LEMMA FetchMineCalm ==
    ASSUME IInv, NEW s \in Session, InOrder(job[s]), FetchMine(s)
    PROVE  InOrder(job[s])'
<1>1. PICK A \in SUBSET Remotes :
        job' = [job EXCEPT ![s].pc = "next",
                           ![s].todo = {[NoItem EXCEPT !.copy = CopyOf(r)] : r \in A}]
  BY DEF FetchMine
<1> DEFINE T == {[NoItem EXCEPT !.copy = CopyOf(r)] : r \in A}
           k == job'[s]
<1>2. ASSUME NEW i \in T
      PROVE  \E r \in Remotes : i.copy = CopyOf(r) /\ i.link = NoLink
  BY DEF NoItem
<1>3. \A i \in T : /\ Unpaired(i) /\ i.copy.id \in Remotes
                   /\ i.copy.stamp = remotes[i.copy.id].stamp
  <2> HIDE DEF T
  <2>1. SUFFICES ASSUME NEW i \in T
        PROVE  /\ Unpaired(i) /\ i.copy.id \in Remotes
               /\ i.copy.stamp = remotes[i.copy.id].stamp
    OBVIOUS
  <2>2. PICK r \in Remotes : i.copy = CopyOf(r) /\ i.link = NoLink
    BY <1>2
  <2>3. i.copy.id = r /\ i.copy.stamp = remotes[r].stamp
    BY <2>2 DEF CopyOf
  <2>4. QED
    BY <2>2, <2>3 DEF Unpaired, NoLink
<1>4. /\ k.pc = "next" /\ k.cmd.op = "mine" /\ k.todo = T /\ k.item = job[s].item
  <2>1. job' = [job EXCEPT ![s].pc = "next", ![s].todo = T] /\ job[s].cmd.op = "mine"
    BY <1>1 DEF FetchMine, Runs, Op
  <2> HIDE DEF T
  <2>2. QED
    BY <2>1, Views DEF JobOf
<1> HIDE DEF T, k
<1>5. job[s].item.copy.id = 0 /\ Carries(job[s], k)
  BY NothingOwed DEF InOrder, JobCalm, OpCalm, FetchMine, At, Owing
<1>6. OpCalm(k)
  BY <1>4, <1>5 DEF OpCalm
<1>7. PairCalm(k) /\ SpecCalm(k)
  BY <1>4 DEF PairCalm, SpecCalm
<1>8. HeardCalm(k)
  BY <1>4, <1>5 DEF HeardCalm, StampCalm
<1>9. ASSUME NEW i \in T PROVE StampCalm(i.copy) /\ NotOlder(i.copy)
  <2>1. \A l \in LinkedTo(i.copy.id) : links[l].seen <= remotes[i.copy.id].stamp
    BY <1>3, Facts DEF InOrder, LinksCalm, LinkedTo, Linked
  <2>2. remotes[i.copy.id].stamp \in Nat
    BY <1>3, Facts
  <2>3. QED
    BY <1>3, <2>1, <2>2 DEF StampCalm, NotOlder
<1>10. MineCalm(k)
  <2>1. \A i \in T : i.copy.id # 0
    BY <1>3, Facts
  <2>2. QED
    BY <1>3, <1>4, <1>5, <1>9, <2>1 DEF MineCalm
<1>11. SyncCalm(k)
  BY <1>4 DEF SyncCalm
<1>12. JobCalm(k)
  BY <1>6, <1>7, <1>8, <1>10, <1>11 DEF JobCalm
<1>13. QED
  BY <1>5, <1>12, QuietJob DEF k, FetchMine, env

LEMMA NextItemCalm ==
    ASSUME IInv, NEW s \in Session, InOrder(job[s]), NextItem(s)
    PROVE  InOrder(job[s])'
<1>1. PICK i \in job[s].todo :
        job' = [job EXCEPT ![s].pc = IF Runs(s, "sync") THEN "fetchLinked" ELSE "resolve",
                           ![s].item = i, ![s].todo = job[s].todo \ {i}]
  BY DEF NextItem
<1> DEFINE j == job[s]  k == job'[s]
<1>2. /\ k.pc = IF j.cmd.op = "sync" THEN "fetchLinked" ELSE "resolve"
      /\ k.cmd = j.cmd /\ k.item = i /\ k.todo = j.todo \ {i}
  BY <1>1, Views DEF JobOf, Runs, Op
<1>3. j.cmd.op \in {"mine", "sync"} /\ j.pc = "next"
  BY Views DEF PhaseOf, NextItem, At
<1>4. MineCalm(j) /\ SyncCalm(j) /\ i \in j.todo /\ Carries(j, k)
  BY <1>3, NothingOwed DEF InOrder, JobCalm, Owing
<1>5. PhaseOf(j)
  BY Views
<1> HIDE DEF j, k
<1>6. OpCalm(k)
  BY <1>2, <1>3 DEF OpCalm
<1>7. PairCalm(k)
  BY <1>2, <1>3, <1>4 DEF PairCalm, MineCalm, SyncCalm
<1>8. SpecCalm(k)
  BY <1>2, <1>3, <1>4 DEF SpecCalm, SyncCalm
<1>9. HeardCalm(k)
  BY <1>2, <1>3, <1>4 DEF HeardCalm, StampCalm, MineCalm, SyncCalm
<1>10. MineCalm(k) /\ SyncCalm(k)
  BY <1>2, <1>3, <1>4 DEF MineCalm, SyncCalm
<1>11. JobCalm(k)
  BY <1>6, <1>7, <1>8, <1>9, <1>10 DEF JobCalm
<1>12. QED
  BY <1>4, <1>11, QuietJob DEF j, k, NextItem, env

LEMMA NoMoreItemsCalm ==
    ASSUME IInv, NEW s \in Session, InOrder(job[s]), NoMoreItems(s)
    PROVE  InOrder(job[s])'
<1>1. Carries(job[s], Idle)
  BY NothingOwed DEF Owing, NoMoreItems, At
<1>2. QED
  BY <1>1, EndCalm DEF NoMoreItems, env

LEMMA ResolveExistingCalm ==
    ASSUME IInv, NEW s \in Session, InOrder(job[s]), ResolveExisting(s)
    PROVE  InOrder(job[s])'
<1> DEFINE j == job[s]  k == job'[s]
<1>1. PICK l \in LinkedTo(j.item.copy.id) :
        \/ Go(s, "refresh", [j.item EXCEPT !.on = l, !.row = rows[l], !.link = links[l]])
        \/ End(s)
  BY DEF ResolveExisting
<1> DEFINE item == [j.item EXCEPT !.on = l, !.row = rows[l], !.link = links[l]]
<1>2. Carries(j, Idle) /\ Carries(j, k) /\ j.pc = "resolve" /\ j.item.copy.id # 0
  BY NothingOwed, Views DEF Owing, ResolveExisting, At, PhaseOf
<1>3. CASE End(s)
  BY <1>2, <1>3, EndCalm DEF ResolveExisting, env
<1>4. CASE Go(s, "refresh", item)
  <2>1. /\ item \in ItemOf(Issues, Remotes)
        /\ item.on = l /\ item.row = rows[l] /\ item.link = links[l]
        /\ item.copy = j.item.copy
        /\ l \in Issues /\ links[l].remote = j.item.copy.id
    BY Views DEF ItemOf, LinkedTo
  <2> HIDE DEF item
  <2>2. /\ k.pc = "refresh" /\ k.item = item /\ k.cmd = j.cmd /\ k.todo = j.todo
    BY <1>4, <2>1, Views, GoIsTyped DEF PC
  <2>3. JobCalm(j) /\ PhaseOf(j) /\ LinksCalm(j)
    BY Views DEF InOrder
  <2> HIDE DEF j, k
  <2>4. OpCalm(k)
    BY <1>2, <2>2, <2>3 DEF OpCalm, JobCalm
  <2>5. PairCalm(k)
    BY <1>2, <2>1, <2>2 DEF PairCalm, Paired
  <2>6. SpecCalm(k)
    BY <1>2, <2>1, <2>2, <2>3 DEF SpecCalm, LinksCalm, Linked
  <2>7. HeardCalm(k)
    BY <1>2, <2>1, <2>2, <2>3 DEF HeardCalm, JobCalm
  <2>8. MineCalm(k) /\ SyncCalm(k)
    BY <2>1, <2>2, <2>3, SameTodo DEF JobCalm
  <2>9. JobCalm(k)
    BY <2>4, <2>5, <2>6, <2>7, <2>8 DEF JobCalm
  <2>10. QED
    BY <1>2, <2>9, QuietJob DEF j, k, ResolveExisting, env
<1>5. QED
  BY <1>1, <1>3, <1>4

LEMMA ResolveAdoptCalm ==
    ASSUME IInv, NEW s \in Session, InOrder(job[s]), ResolveAdopt(s), ~ Linked(LinkTo(s))
    PROVE  InOrder(job[s])'
<1> DEFINE j == job[s]  k == job'[s]
           l == LinkTo(s)
           item == [j.item EXCEPT !.on = l, !.row = rows[l]]
<1>1. l \in Issues
  <2>1. Runs(s, "import")
    BY DEF ResolveAdopt, LinkTo
  <2>2. QED
    BY <2>1, Views DEF ResolveAdopt, LinkTo, Runs, Op, JobOf, RequestsOf, NoCommand
<1>2. /\ item \in ItemOf(Issues, Remotes)
      /\ item.on = l /\ item.row = rows[l] /\ item.link = j.item.link
      /\ item.copy = j.item.copy
  BY <1>1, Views DEF ItemOf
<1>3. Go(s, "refresh", item) /\ LinkedTo(j.item.copy.id) = {} /\ links[l].remote = 0
  BY DEF ResolveAdopt, Linked
<1> HIDE DEF item, l
<1>4. k.pc = "refresh" /\ k.item = item /\ k.cmd = j.cmd /\ k.todo = j.todo
  BY <1>2, <1>3, Views, GoIsTyped DEF PC
<1>5. /\ JobCalm(j) /\ PhaseOf(j) /\ LinksCalm(j) /\ j.pc = "resolve" /\ Carries(j, k)
  BY Views, NothingOwed DEF InOrder, ResolveAdopt, At, Owing
<1> HIDE DEF j, k
<1>6. Unpaired(j.item)
  BY <1>5 DEF JobCalm, PairCalm
<1>7. OpCalm(k)
  BY <1>4, <1>5 DEF OpCalm, JobCalm
<1>8. PairCalm(k)
  BY <1>1, <1>2, <1>3, <1>4, <1>5, <1>6
     DEF PairCalm, Paired, Unpaired, LinksCalm, Linked
<1>9. SpecCalm(k)
  BY <1>2, <1>4, <1>6 DEF SpecCalm, Unpaired
<1>10. HeardCalm(k)
  BY <1>2, <1>4, <1>5 DEF HeardCalm, JobCalm
<1>11. MineCalm(k) /\ SyncCalm(k)
  BY <1>2, <1>4, <1>5, SameTodo DEF JobCalm
<1>12. JobCalm(k)
  BY <1>7, <1>8, <1>9, <1>10, <1>11 DEF JobCalm
<1>13. QED
  BY <1>5, <1>12, QuietJob DEF j, k, ResolveAdopt, env

LEMMA ResolveCreateCalm ==
    ASSUME IInv, NEW s \in Session, InOrder(job[s]), ResolveCreate(s)
    PROVE  InOrder(job[s])'
<1> DEFINE j == job[s]  k == job'[s]
<1>1. /\ k.pc = "create" /\ k.item = j.item /\ k.cmd = j.cmd /\ k.todo = j.todo
      /\ LinkedTo(j.item.copy.id) = {}
  BY Views, GoIsTyped DEF PC, ResolveCreate
<1>2. JobCalm(j) /\ PhaseOf(j) /\ j.pc = "resolve" /\ Carries(j, k)
  BY Views, NothingOwed DEF InOrder, ResolveCreate, At, Owing
<1> HIDE DEF j, k
<1>3. OpCalm(k) /\ PairCalm(k)
  BY <1>1, <1>2 DEF OpCalm, PairCalm, JobCalm
<1>4. SpecCalm(k)
  BY <1>1 DEF SpecCalm
<1>5. HeardCalm(k)
  BY <1>1, <1>2 DEF HeardCalm, JobCalm
<1>6. MineCalm(k) /\ SyncCalm(k)
  BY <1>1, <1>2, SameTodo DEF JobCalm
<1>7. JobCalm(k)
  BY <1>3, <1>4, <1>5, <1>6 DEF JobCalm
<1>8. QED
  BY <1>2, <1>7, QuietJob DEF j, k, ResolveCreate, env

\* In calm the unique index has nothing to refuse.
LEMMA LinkIsFree ==
    ASSUME IInv, NEW s \in Session, InOrder(job[s]), At(s, "link")
    PROVE  ~ Taken(job[s].item.on, job[s].item.copy.id)
<1> DEFINE item == job[s].item
<1>1. /\ Paired(item) /\ item.copy.id # 0
      /\ item.link.remote # 0 => item.copy.id = item.link.remote
      /\ item.link.remote = 0 => LinkedTo(item.copy.id) = {}
  BY Views DEF InOrder, JobCalm, PairCalm, At, PhaseOf
<1>2. CASE item.link.remote # 0
  BY <1>1, <1>2 DEF Taken, Paired, IInv, OneLinkPerRemote, Linked
<1>3. CASE item.link.remote = 0
  BY <1>1, <1>3 DEF Taken, LinkedTo
<1>4. QED
  BY <1>2, <1>3

LEMMA LinkRefusedCalm ==
    ASSUME IInv, NEW s \in Session, InOrder(job[s]), LinkRefused(s)
    PROVE  InOrder(job[s])'
BY LinkIsFree DEF LinkRefused

LEMMA ReadLinksCalm ==
    ASSUME IInv, NEW s \in Session, InOrder(job[s]), ReadLinks(s)
    PROVE  InOrder(job[s])'
<1> DEFINE j == job[s]  k == job'[s]
           T == {[on |-> l, row |-> rows[l], link |-> links[l], copy |-> NoCopy] :
                    l \in {i \in Issues : Linked(i)}}
<1>1. /\ k.pc = "next" /\ k.cmd.op = "sync" /\ k.todo = T /\ k.item = j.item
  <2>1. job' = [job EXCEPT ![s].pc = "next", ![s].todo = T] /\ j.cmd.op = "sync"
    BY DEF ReadLinks, Runs, Op
  <2> HIDE DEF T
  <2>2. QED
    BY <2>1, Views DEF JobOf
<1>2. JobCalm(j) /\ LinksCalm(j) /\ j.pc = "read" /\ Carries(j, k)
  BY NothingOwed DEF InOrder, ReadLinks, At, Owing
<1>3. \A i \in T : /\ i.on \in Issues /\ Linked(i.on) /\ i.row = rows[i.on]
                   /\ i.link = links[i.on] /\ i.copy.id = 0
  BY DEF NoCopy
<1> HIDE DEF j, k, T
<1>4. OpCalm(k)
  BY <1>1, <1>2 DEF OpCalm, JobCalm
<1>5. PairCalm(k) /\ SpecCalm(k)
  BY <1>1 DEF PairCalm, SpecCalm
<1>6. HeardCalm(k) /\ MineCalm(k)
  BY <1>1, <1>2 DEF HeardCalm, StampCalm, MineCalm, OpCalm, JobCalm
<1>7. SyncCalm(k)
  BY <1>1, <1>2, <1>3 DEF SyncCalm, Paired, LinksCalm, Linked
<1>8. JobCalm(k)
  BY <1>4, <1>5, <1>6, <1>7 DEF JobCalm
<1>9. QED
  BY <1>2, <1>8, QuietJob DEF j, k, ReadLinks, env

LEMMA FetchLinkedCalm ==
    ASSUME IInv, NEW s \in Session, InOrder(job[s]), FetchLinked(s)
    PROVE  InOrder(job[s])'
<1> DEFINE j == job[s]  k == job'[s]
           r == j.item.link.remote
           item == [j.item EXCEPT !.copy = CopyOf(r)]
<1>1. /\ r \in Remotes /\ r # 0 /\ j.pc = "fetchLinked" /\ j.cmd.op = "sync"
      /\ JobCalm(j) /\ PhaseOf(j) /\ LinksCalm(j) /\ Carries(j, k)
  BY Views, Facts, NothingOwed
     DEF ItemOf, LinkOf, PhaseOf, FetchLinked, At, InOrder, Owing
<1>2. CASE Go(s, "next", NoItem)
  <2>1. /\ k.pc = "next" /\ k.item = NoItem /\ k.cmd = j.cmd /\ k.todo = j.todo
        /\ NoItem.copy.id = 0
    <3>1. NoItem.copy.id = 0
      BY DEF NoItem, NoCopy
    <3>2. NoItem \in ItemOf(Issues, Remotes)
      BY NothingIsTyped
    <3>3. QED
      BY <1>2, <3>1, <3>2, Views, GoIsTyped DEF PC
  <2> HIDE DEF j, k, r
  <2>2. OpCalm(k) /\ PairCalm(k) /\ SpecCalm(k)
    BY <2>1 DEF OpCalm, PairCalm, SpecCalm
  <2>3. HeardCalm(k)
    BY <2>1 DEF HeardCalm, StampCalm
  <2>4. MineCalm(k) /\ SyncCalm(k)
    BY <1>1, <2>1, SameTodo DEF JobCalm
  <2>5. JobCalm(k)
    BY <2>2, <2>3, <2>4 DEF JobCalm
  <2>6. QED
    BY <1>1, <2>5, QuietJob DEF j, k, FetchLinked, env
<1>3. CASE Go(s, "refresh", item)
  <2>1. /\ item \in ItemOf(Issues, Remotes) /\ item.copy = CopyOf(r)
        /\ item.on = j.item.on /\ item.row = j.item.row /\ item.link = j.item.link
    BY <1>1, Views DEF ItemOf
  <2>2. item.copy.id = r /\ item.copy.stamp = remotes[r].stamp
    BY <2>1 DEF CopyOf
  <2> HIDE DEF item
  <2>3. k.pc = "refresh" /\ k.item = item /\ k.cmd = j.cmd /\ k.todo = j.todo
    BY <1>3, <2>1, Views, GoIsTyped DEF PC
  <2> HIDE DEF j, k, r
  <2>4. OpCalm(k)
    BY <1>1, <2>3 DEF OpCalm
  <2>5. PairCalm(k)
    BY <1>1, <2>1, <2>2, <2>3 DEF PairCalm, Paired, JobCalm, r
  <2>6. SpecCalm(k)
    BY <1>1, <2>1, <2>3 DEF SpecCalm, JobCalm
  <2>7. StampCalm(item.copy) /\ NotOlder(item.copy)
    <3>1. remotes[r].stamp \in Nat
      BY <1>1, Facts
    <3>2. \A l \in LinkedTo(r) : links[l].seen <= remotes[r].stamp
      BY <1>1 DEF LinksCalm, LinkedTo, Linked
    <3>3. QED
      BY <2>2, <3>1, <3>2 DEF StampCalm, NotOlder
  <2>8. HeardCalm(k)
    BY <2>3, <2>7 DEF HeardCalm
  <2>9. MineCalm(k) /\ SyncCalm(k)
    BY <1>1, <2>3, SameTodo DEF JobCalm
  <2>10. JobCalm(k)
    BY <2>4, <2>5, <2>6, <2>8, <2>9 DEF JobCalm
  <2>11. QED
    BY <1>1, <2>10, QuietJob DEF j, k, FetchLinked, env
<1>4. QED
  BY <1>2, <1>3 DEF FetchLinked

LEMMA ReadIssueCalm ==
    ASSUME IInv, NEW s \in Session, InOrder(job[s]), ReadIssue(s)
    PROVE  InOrder(job[s])'
<1> DEFINE j == job[s]  k == job'[s]
           l == Push(s).on
           pc == IF Linked(l) THEN "guard" ELSE "createRemote"
           item == [NoItem EXCEPT !.on = l, !.row = rows[l], !.link = links[l]]
<1>1. l \in Issues
  BY Views DEF ReadIssue, Push, Runs, Op, JobOf, RequestsOf, NoCommand
<1>2. /\ Carries(j, Idle) /\ Carries(j, k) /\ j.cmd.op = "push" /\ LinksCalm(j)
      /\ j.note = 0
  BY NothingOwed DEF Owing, ReadIssue, At, InOrder, Runs, Op, JobCalm, OpCalm
<1>3. CASE End(s)
  BY <1>2, <1>3, EndCalm DEF ReadIssue, env
<1>4. CASE Go(s, pc, item)
  <2>1. /\ item \in ItemOf(Issues, Remotes) /\ item.copy = NoCopy
        /\ item.on = l /\ item.row = rows[l] /\ item.link = links[l]
        /\ pc \in PC
    BY <1>1, Views, NothingIsTyped DEF ItemOf, PC, NoItem
  <2> HIDE DEF item
  <2>2. /\ \/ Linked(l) /\ k.pc = "guard"
           \/ ~ Linked(l) /\ k.pc = "createRemote"
        /\ k.item = item /\ k.cmd = j.cmd /\ k.note = j.note
    <3>1. \/ Linked(l) /\ pc = "guard"
          \/ ~ Linked(l) /\ pc = "createRemote"
      BY DEF Linked
    <3> HIDE DEF pc
    <3>2. k.pc = pc /\ k.item = item /\ k.cmd = j.cmd /\ k.note = j.note
      BY <1>4, <2>1, Views, GoIsTyped
    <3>3. QED
      BY <3>1, <3>2
  <2> HIDE DEF j, k, l, pc
  <2>3. OpCalm(k)
    BY <1>2, <2>2 DEF OpCalm
  <2>4. PairCalm(k)
    BY <1>1, <2>1, <2>2 DEF PairCalm, Paired, Linked
  <2>5. SpecCalm(k)
    BY <1>1, <1>2, <2>1, <2>2 DEF SpecCalm, LinksCalm, Importing, Linked
  <2>6. HeardCalm(k)
    BY <2>1, <2>2 DEF HeardCalm, StampCalm, NoCopy
  <2>7. MineCalm(k) /\ SyncCalm(k)
    BY <1>2, <2>2, NoTodo
  <2>8. JobCalm(k)
    BY <2>3, <2>4, <2>5, <2>6, <2>7 DEF JobCalm
  <2>9. QED
    BY <1>2, <2>8, QuietJob DEF j, k, ReadIssue, env
<1>5. QED
  BY <1>3, <1>4 DEF ReadIssue

\* A push that the guard lets pass knows what people did last, or was forced.
LEMMA PassedIsCalm ==
    ASSUME IInv, NEW k, k.pc = "update", k.cmd.op = "push", k.note = 0, Paired(k.item),
           k.item.copy.id \in Remotes, k.item.link.remote = k.item.copy.id,
           k.item.copy.stamp = remotes[k.item.copy.id].stamp,
           \/ heard[k.item.on] >= remotes[k.item.copy.id].touched
           \/ remotes[k.item.copy.id].last \in exposed',
           UNCHANGED <<board, linear>>
    PROVE  JobCalm(k)'
<1>1. /\ Issues' = Issues /\ rows' = rows /\ links' = links
      /\ remotes' = remotes /\ heard' = heard /\ comments' = comments
  BY DEF board, linear, Issues
<1>2. k.item.copy.id # 0 /\ remotes[k.item.copy.id].stamp \in Nat
  BY Facts
<1>3. OpCalm(k)'
  BY DEF OpCalm
<1>4. PairCalm(k)'
  BY <1>1, <1>2 DEF PairCalm, Paired
<1>5. SpecCalm(k)'
  BY <1>2 DEF SpecCalm
<1>6. StampCalm(k.item.copy)'
  BY <1>1, <1>2 DEF StampCalm
<1>7. Known(k.item.on, k.item.copy.id)'
  BY <1>1 DEF Known
<1>8. HeardCalm(k)'
  BY <1>6, <1>7 DEF HeardCalm
<1>9. MineCalm(k)' /\ SyncCalm(k)'
  BY DEF MineCalm, SyncCalm
<1>10. QED
  BY <1>3, <1>4, <1>5, <1>8, <1>9 DEF JobCalm

LEMMA GuardCalm ==
    ASSUME IInv, NEW s \in Session, InOrder(job[s]), Guard(s)
    PROVE  InOrder(job[s])'
<1> DEFINE j == job[s]
           r == j.item.link.remote
           item == [j.item EXCEPT !.copy = CopyOf(r)]
<1>0. PICK k : k = job'[s]
  OBVIOUS
<1>1. /\ r \in Remotes /\ r # 0 /\ j.pc = "guard" /\ j.cmd.op = "push"
      /\ JobCalm(j) /\ PhaseOf(j) /\ LinksCalm(j) /\ Carries(j, Idle) /\ Carries(j, k)
      /\ j.note = 0
  <2>1. r \in Remotes /\ r # 0 /\ j.pc = "guard" /\ JobCalm(j) /\ PhaseOf(j) /\ LinksCalm(j)
    BY Views, Facts DEF ItemOf, LinkOf, PhaseOf, Guard, At, InOrder
  <2>2. j.cmd.op = "push" /\ Carries(j, Idle) /\ Carries(j, k) /\ j.note = 0
    BY <2>1, NothingOwed DEF Owing, JobCalm, OpCalm
  <2>3. QED
    BY <2>1, <2>2
<1>2. /\ exposed \subseteq exposed' /\ UNCHANGED <<board, linear>>
  BY DEF Guard
<1>3. CASE End(s)
  BY <1>1, <1>2, <1>3, EndCalm
<1>4. CASE Go(s, "update", item) /\ (Push(s).force \/ NotStale(j.item.link, r))
  <2>1. /\ item \in ItemOf(Issues, Remotes) /\ item.copy = CopyOf(r)
        /\ item.on = j.item.on /\ item.row = j.item.row /\ item.link = j.item.link
    BY <1>1, Views DEF ItemOf
  <2>2. item.copy.id = r /\ item.copy.stamp = remotes[r].stamp
    BY <2>1 DEF CopyOf
  <2> HIDE DEF item
  <2>3. k.pc = "update" /\ k.item = item /\ k.cmd = j.cmd /\ k.note = j.note
    BY <1>0, <1>4, <2>1, Views, GoIsTyped DEF PC
  <2>4. Paired(item) /\ item.on \in Issues /\ links[item.on].remote = r
    BY <1>1, <2>1 DEF JobCalm, PairCalm, Paired
  <2>5. heard[item.on] >= remotes[r].touched \/ remotes[r].last \in exposed'
    <3>1. CASE NotStale(j.item.link, r)
      <4>1. j.item.link.seen = links[item.on].seen
        BY <1>1, <2>1 DEF JobCalm, HeardCalm
      <4>2. links[item.on].seen >= remotes[r].touched => Known(item.on, r)
        BY <1>1, <2>4 DEF LinksCalm, Linked
      <4>3. /\ remotes[r].touched <= remotes[r].stamp
            /\ remotes[r].touched \in Nat /\ remotes[r].stamp \in Nat
            /\ links[item.on].seen \in Nat
        BY <1>1, <2>4, Facts DEF InOrder, StampsCalm
      <4>4. Known(item.on, r)
        BY <3>1, <4>1, <4>2, <4>3 DEF NotStale
      <4>5. QED
        BY <1>2, <4>4 DEF Known
    <3>2. CASE ~ NotStale(j.item.link, r)
      BY <1>4, <3>2 DEF Guard
    <3>3. QED
      BY <3>1, <3>2
  <2> HIDE DEF j, r
  <2>6. JobCalm(k)'
    BY <1>1, <1>2, <2>1, <2>2, <2>3, <2>4, <2>5, PassedIsCalm DEF r
  <2>7. InOrder(k)'
    BY <1>1, <1>2, <2>6, QuietBoard DEF j
  <2>8. QED
    BY <1>0, <2>7
<1>5. QED
  BY <1>3, <1>4 DEF Guard

LEMMA AfterUpdateIs ==
    ASSUME NEW s \in Session
    PROVE  AfterUpdate(s) = "comment" \/ AfterUpdate(s) = "link"
BY DEF AfterUpdate

\* The push goes on: it holds the pairing it held, and has written no comment yet.
LEMMA NothingToUpdateCalm ==
    ASSUME IInv, NEW s \in Session, InOrder(job[s]), NothingToUpdate(s)
    PROVE  InOrder(job[s])'
<1> DEFINE j == job[s]
<1>1. PICK k : k = job'[s]
  OBVIOUS
<1>2. /\ k.pc = "comment" \/ k.pc = "link"
      /\ k.item = j.item /\ k.cmd = j.cmd /\ k.note = j.note
  BY <1>1, Views, GoIsTyped, AfterUpdateIsPC, AfterUpdateIs DEF NothingToUpdate
<1>3. j.pc = "update" /\ JobCalm(j) /\ j.cmd.op = "push" /\ j.note = 0
  BY DEF InOrder, NothingToUpdate, At, JobCalm, OpCalm
<1> HIDE DEF j
<1>4. OpCalm(k) /\ PairCalm(k)
  BY <1>2, <1>3 DEF OpCalm, PairCalm, JobCalm
<1>5. SpecCalm(k)
  BY <1>2, <1>3 DEF SpecCalm, JobCalm
<1>6. HeardCalm(k)
  BY <1>2, <1>3 DEF HeardCalm, JobCalm
<1>7. MineCalm(k) /\ SyncCalm(k)
  BY <1>2, <1>3, NoTodo
<1>8. JobCalm(k)
  BY <1>4, <1>5, <1>6, <1>7 DEF JobCalm
<1>9. Carries(j, k)
  BY <1>2, <1>3 DEF Carries, Importing
<1>10. QED
  BY <1>1, <1>8, <1>9, QuietJob DEF j, NothingToUpdate, env

LEMMA RemoteIsGoneCalm ==
    ASSUME IInv, NEW s \in Session, InOrder(job[s]), RemoteIsGone(s)
    PROVE  InOrder(job[s])'
<1> DEFINE j == job[s]
<1>1. /\ j.pc \in {"update", "comment"} /\ JobCalm(j) /\ j.cmd.op = "push"
      /\ remotes[j.item.copy.id].gone
  BY DEF InOrder, RemoteIsGone, At, JobCalm, OpCalm
<1>2. Carries(j, Idle)
  BY <1>1 DEF Carries, Importing
<1>3. QED
  BY <1>2, EndCalm DEF RemoteIsGone, env

LEMMA EditCommentCalm ==
    ASSUME IInv, NEW s \in Session, InOrder(job[s]), EditComment(s)
    PROVE  InOrder(job[s])'
<1> DEFINE j == job[s]
           c == j.item.link.comment
<1>1. PICK k : k = job'[s]
  OBVIOUS
<1>2. k.pc = "link" /\ k.note = c /\ k.item = j.item /\ k.cmd = j.cmd
  BY <1>1, Views DEF EditComment, JobOf
<1>3. /\ j.pc = "comment" /\ JobCalm(j) /\ j.cmd.op = "push" /\ Paired(j.item)
  BY DEF InOrder, EditComment, At, JobCalm, OpCalm, PairCalm
<1> HIDE DEF j, c
<1>4. OpCalm(k) /\ PairCalm(k)
  BY <1>2, <1>3 DEF OpCalm, PairCalm, JobCalm
<1>5. SpecCalm(k)
  BY <1>2, <1>3 DEF SpecCalm, JobCalm
<1>6. HeardCalm(k)
  BY <1>2, <1>3 DEF HeardCalm, JobCalm
<1>7. MineCalm(k) /\ SyncCalm(k)
  BY <1>2, <1>3, NoTodo
<1>8. JobCalm(k)
  BY <1>4, <1>5, <1>6, <1>7 DEF JobCalm
<1>9. Carries(j, k)
  BY <1>2, <1>3 DEF Carries, Importing
<1>10. QED
  BY <1>1, <1>8, <1>9, QuietJob DEF j, EditComment, env

(***************************************************************************)
(* Steps that write the board.                                             *)
(***************************************************************************)
\* A command writes the row of its issue and goes on to the link.
LEMMA RowWritten ==
    ASSUME IInv, NEW j \in JobOf(Issues, Remotes), NEW k, NEW row, InOrder(j), PhaseOf(j),
           j.pc \in {"archive", "refresh"}, k.pc = "link", k.cmd = j.cmd,
           k.item = j.item, k.todo = j.todo,
           row.spec = IF j.item.link.remote = 0 THEN j.item.copy.id
                      ELSE Owner(j.item.link),
           \A l \in Issues : /\ rows'[l] = IF l = j.item.on THEN row ELSE rows[l]
                             /\ heard'[l] = IF l = j.item.on THEN j.item.copy.stamp
                                            ELSE heard[l],
           Issues' = Issues, UNCHANGED <<links, linear, env>>
    PROVE  InOrder(k)'
<1> DEFINE on == j.item.on
           copy == j.item.copy
<1>1. /\ links' = links /\ Remotes' = Remotes /\ remotes' = remotes
      /\ comments' = comments /\ exposed' = exposed
      /\ \A i : Paired(i)' <=> Paired(i)
      /\ \A r : LinkedTo(r)' = LinkedTo(r)
      /\ \A c : (StampCalm(c)' <=> StampCalm(c)) /\ (NotOlder(c)' <=> NotOlder(c))
  <2>1. /\ links' = links /\ Remotes' = Remotes /\ remotes' = remotes
        /\ comments' = comments /\ exposed' = exposed
    BY DEF linear, env, Remotes
  <2>2. \A r : LinkedTo(r)' = LinkedTo(r)
    BY <2>1 DEF LinkedTo
  <2>3. QED
    BY <2>1, <2>2 DEF Paired, StampCalm, NotOlder
<1>2. /\ j.cmd.op \in {"import", "mine", "sync"} /\ Paired(j.item) /\ on \in Issues
      /\ copy.id # 0 /\ copy.id \in Remotes
      /\ j.item.link.remote # 0 => copy.id = j.item.link.remote
      /\ copy.stamp \in Nat /\ copy.stamp <= remotes[copy.id].stamp
      /\ j.item.link.origin = links[on].origin /\ j.item.link.remote = links[on].remote
      /\ links[on].remote = 0 => LinkedTo(copy.id) = {}
  <2>1. j.cmd.op \in {"import", "mine", "sync"} /\ Paired(j.item) /\ copy.id # 0
    BY DEF InOrder, JobCalm, OpCalm, PairCalm, PhaseOf
  <2>2. copy.id \in Remotes /\ copy.stamp \in Nat
    BY <2>1, JobFacts, ItemFacts
  <2>3. /\ j.item.link.remote # 0 => copy.id = j.item.link.remote
        /\ j.item.link.remote = 0 => LinkedTo(copy.id) = {}
    BY DEF InOrder, JobCalm, PairCalm
  <2>4. copy.stamp <= remotes[copy.id].stamp
    BY <2>1 DEF InOrder, JobCalm, HeardCalm, StampCalm
  <2>5. QED
    BY <2>1, <2>2, <2>3, <2>4 DEF Paired
<1>3. rows'[on] = row /\ heard'[on] = copy.stamp
  BY <1>2
<1>4. LinksCalm(k)'
  <2>1. SUFFICES ASSUME NEW l \in Issues
        PROVE  /\ ~ Linked(l) => /\ links[l].origin = "imported" /\ links[l].comment = 0
                                 /\ rows'[l].spec = OnBoard \/ Importing(k, l)
               /\ Linked(l) => /\ rows'[l].spec = Owner(links[l])
                               /\ links[l].seen <= remotes[links[l].remote].stamp
                               /\ links[l].seen >= remotes[links[l].remote].touched
                                        => Known(l, links[l].remote)'
    BY <1>1 DEF LinksCalm, Linked, Importing
  <2>2. CASE l = on
    <3>1. Importing(k, l)
      BY <1>2, <2>2 DEF Importing
    <3>2. Linked(l) => rows'[l].spec = Owner(links[l])
      BY <1>2, <1>3, <2>2 DEF Owner, Linked
    <3>3. ASSUME Linked(l), links[l].seen >= remotes[links[l].remote].touched
          PROVE  heard'[l] >= remotes[links[l].remote].touched
      <4>1. links[l].remote = copy.id
        BY <1>2, <2>2, <3>3 DEF Linked
      <4>2. links[l].seen <= copy.stamp
        <5>1. l \in LinkedTo(copy.id)
          BY <4>1 DEF LinkedTo
        <5>2. j.pc = "refresh"
          BY <1>2, <2>2, <3>3 DEF InOrder, JobCalm, PairCalm, Linked
        <5>3. QED
          BY <5>1, <5>2 DEF InOrder, JobCalm, HeardCalm, NotOlder
      <4>3. /\ links[l].seen \in Nat /\ copy.stamp \in Nat
            /\ remotes[links[l].remote].touched \in Nat
        BY <1>2, <4>1, Facts
      <4>4. QED
        BY <1>3, <2>2, <3>3, <4>2, <4>3
    <3>4. QED
      BY <1>1, <3>1, <3>2, <3>3 DEF InOrder, LinksCalm, Known
  <2>3. CASE l # on
    <3>1. rows'[l] = rows[l] /\ heard'[l] = heard[l]
      BY <2>3
    <3>2. Importing(j, l) => Importing(k, l)
      BY <2>3 DEF Importing
    <3>3. QED
      BY <1>1, <3>1, <3>2 DEF InOrder, LinksCalm, Known
  <2>4. QED
    BY <2>2, <2>3
<1>5. OpCalm(k)' /\ StampsCalm'
  BY <1>1 DEF OpCalm, InOrder, StampsCalm
<1>6. PairCalm(k)'
  BY <1>1, <1>2 DEF PairCalm
<1>7. SpecCalm(k)'
  BY <1>2, <1>3 DEF SpecCalm
<1>8. HeardCalm(k)'
  BY <1>1, <1>2, <1>3 DEF HeardCalm, InOrder, JobCalm
<1>9. MineCalm(k)'
  BY <1>1 DEF MineCalm, InOrder, JobCalm
<1>10. SyncCalm(k)'
  BY <1>1 DEF SyncCalm, InOrder, JobCalm
<1>11. QED
  BY <1>4, <1>5, <1>6, <1>7, <1>8, <1>9, <1>10 DEF InOrder, JobCalm

LEMMA RefreshCalm ==
    ASSUME IInv, IInv', NEW s \in Session, InOrder(job[s]), Refresh(s)
    PROVE  InOrder(job[s])'
<1> DEFINE j == job[s]
           row == Refreshed(j.item.row, j.item.copy, j.item.link.origin)
<1>1. PICK k : k = job'[s]
  OBVIOUS
<1>2. /\ j \in JobOf(Issues, Remotes) /\ PhaseOf(j) /\ j.pc = "refresh"
      /\ k.pc = "link" /\ k.cmd = j.cmd /\ k.item = j.item /\ k.todo = j.todo
  BY <1>1, Views, GoIsTyped DEF Refresh, At, PC
<1>3. /\ j.item.row \in Row /\ j.item.link \in LinkOf(Remotes)
      /\ Paired(j.item) /\ j.item.on \in Issues
      /\ j.item.link.remote # 0 => /\ j.item.copy.id = j.item.link.remote
                                   /\ j.item.row.spec = Owner(j.item.link)
  BY <1>2, Views DEF ItemOf, InOrder, JobCalm, PairCalm, SpecCalm, Paired
<1>4. j.item.link.remote = 0 => j.item.link.origin = "imported"
  BY <1>3 DEF InOrder, LinksCalm, Linked, Paired
<1>5. row.spec = IF j.item.link.origin = "imported" THEN j.item.copy.id
                 ELSE j.item.row.spec
  BY <1>3 DEF Refreshed, Row
<1>6. row.spec = IF j.item.link.remote = 0 THEN j.item.copy.id ELSE Owner(j.item.link)
  BY <1>3, <1>4, <1>5 DEF Owner, LinkOf
<1>7. /\ rows' = [rows EXCEPT ![j.item.on] = row]
      /\ heard' = [heard EXCEPT ![j.item.on] = j.item.copy.stamp]
      /\ UNCHANGED <<links, linear, env>>
  BY DEF Refresh
<1> HIDE DEF row
<1>8. /\ Issues' = Issues
      /\ \A l \in Issues : /\ rows'[l] = IF l = j.item.on THEN row ELSE rows[l]
                           /\ heard'[l] = IF l = j.item.on THEN j.item.copy.stamp
                                          ELSE heard[l]
  <2>1. DOMAIN heard = Issues
    BY DEF IInv, TypeOK, Issues
  <2>2. QED
    BY <1>7, <2>1 DEF Issues
<1> HIDE DEF j
<1>9. InOrder(k)'
  BY <1>2, <1>5, <1>6, <1>7, <1>8, RowWritten DEF j
<1>10. QED
  BY <1>1, <1>9

LEMMA ArchiveCreatedCalm ==
    ASSUME IInv, NEW s \in Session, InOrder(job[s]), ArchiveCreated(s)
    PROVE  InOrder(job[s])'
<1> DEFINE j == job[s]
           row == [j.item.row EXCEPT !.archived = TRUE]
<1>1. PICK k : k = job'[s]
  OBVIOUS
<1>2. /\ j \in JobOf(Issues, Remotes) /\ PhaseOf(j) /\ j.pc = "archive"
      /\ k.pc = "link" /\ k.cmd = j.cmd /\ k.item = j.item /\ k.todo = j.todo
  BY <1>1, Views, GoIsTyped DEF ArchiveCreated, At, PC
<1>3. /\ j.item.row \in Row /\ Paired(j.item) /\ j.item.on \in Issues
      /\ j.item.link.remote = 0 /\ j.item.row.spec = j.item.copy.id
      /\ heard[j.item.on] = j.item.copy.stamp
  BY <1>2, Views DEF ItemOf, InOrder, JobCalm, OpCalm, PairCalm, SpecCalm, HeardCalm, Paired
<1>4. row.spec = j.item.row.spec
  BY <1>3 DEF Row
<1>5. /\ rows' = [rows EXCEPT ![j.item.on] = row] /\ heard' = heard
      /\ UNCHANGED <<links, linear, env>>
  BY DEF ArchiveCreated
<1> HIDE DEF row
<1>6. /\ Issues' = Issues
      /\ \A l \in Issues : /\ rows'[l] = IF l = j.item.on THEN row ELSE rows[l]
                           /\ heard'[l] = IF l = j.item.on THEN j.item.copy.stamp
                                          ELSE heard[l]
  BY <1>3, <1>5 DEF Issues
<1> HIDE DEF j
<1>7. InOrder(k)'
  BY <1>2, <1>3, <1>4, <1>5, <1>6, RowWritten DEF j
<1>8. QED
  BY <1>1, <1>7

LEMMA CreateRowCalm ==
    ASSUME IInv, IInv', NEW s \in Session, InOrder(job[s]), CreateRow(s)
    PROVE  InOrder(job[s])'
<1> DEFINE j == job[s]
           copy == j.item.copy
           new == Len(rows) + 1
           row == [spec |-> copy.id, status |-> ToCliban[copy.state], archived |-> FALSE,
                   plan |-> {}, from |-> copy.id]
           item == [j.item EXCEPT !.on = new, !.row = row]
           pc == IF IsCanceled(copy) THEN "archive" ELSE "link"
<1>1. PICK k : k = job'[s]
  OBVIOUS
<1>2. /\ j.pc = "create" /\ JobCalm(j) /\ PhaseOf(j) /\ Unpaired(j.item)
      /\ j.cmd.op \in {"import", "mine"} /\ LinkedTo(copy.id) = {}
      /\ copy.id # 0 /\ copy.id \in Remotes /\ copy.stamp \in Nat
  <2>1. j.pc = "create" /\ JobCalm(j) /\ PhaseOf(j) /\ copy.id # 0
    BY Views DEF InOrder, CreateRow, At, PhaseOf
  <2>2. /\ Unpaired(j.item) /\ j.cmd.op \in {"import", "mine"}
        /\ j.item.link.remote = 0 => LinkedTo(copy.id) = {}
    BY <2>1 DEF JobCalm, PairCalm, OpCalm
  <2>3. copy.id \in Remotes /\ copy.stamp \in Nat
    BY <2>1, Views, ItemFacts
  <2>4. QED
    BY <2>1, <2>2, <2>3 DEF Unpaired
<1>3. /\ rows \in Seq(Row) /\ links \in Seq(Link) /\ heard \in Seq(Nat) /\ row \in Row
      /\ NoLink \in Link
      /\ Len(links) = Len(rows) /\ Len(heard) = Len(rows)
  BY <1>2, Facts, Views, NothingIsTyped, BridgeConstants
     DEF IInv, TypeOK, Link, LinkOf, Row, ItemOf, CopyIn
<1>4. row.spec = copy.id
  OBVIOUS
<1>5. /\ rows' = Append(rows, row) /\ links' = Append(links, NoLink)
      /\ heard' = Append(heard, copy.stamp) /\ UNCHANGED <<linear, env>>
      /\ Go(s, pc, item)
  BY DEF CreateRow
<1>6. /\ Issues = 1..Len(rows) /\ Issues' = 1..new /\ new \notin Issues
      /\ Issues \subseteq Issues' /\ new \in Issues' /\ new # 0
      /\ \A l \in Issues' : l = new \/ l \in Issues
  <2> HIDE DEF row
  <2>1. QED
    BY <1>3, <1>5 DEF Issues
<1>7. /\ k.pc = "archive" \/ k.pc = "link"
      /\ k.item.on = new /\ k.item.row = row /\ k.item.link = j.item.link
      /\ k.item.copy = copy /\ k.cmd = j.cmd /\ k.todo = j.todo
  <2>1. job' = [job EXCEPT ![s].pc = pc, ![s].item = item]
    BY <1>5 DEF Go
  <2>2. j \in JobOf(Issues, Remotes) /\ j.item \in ItemOf(Issues, Remotes)
    BY Views
  <2>3. pc = "archive" \/ pc = "link"
    OBVIOUS
  <2>4. /\ item.on = new /\ item.row = row /\ item.link = j.item.link
        /\ item.copy = copy
    <3> HIDE DEF row, new
    <3>1. QED
      BY <2>2 DEF ItemOf
  <2> HIDE DEF pc, item
  <2>5. k.pc = pc /\ k.item = item /\ k.cmd = j.cmd /\ k.todo = j.todo
    BY <1>1, <2>1, <2>2, Views DEF JobOf
  <2>6. QED
    BY <2>3, <2>4, <2>5
<1> HIDE DEF j, row, item, pc
<1>8. /\ rows'[new] = row /\ links'[new] = NoLink /\ heard'[new] = copy.stamp
      /\ \A l \in Issues : rows'[l] = rows[l] /\ links'[l] = links[l] /\ heard'[l] = heard[l]
  BY <1>2, <1>3, <1>5, <1>6
<1>9. /\ Remotes' = Remotes /\ remotes' = remotes /\ comments' = comments
      /\ exposed' = exposed
  BY <1>5 DEF linear, env, Remotes
<1> HIDE DEF new, copy
<1>10. /\ NoLink.remote = 0 /\ NoLink.origin = "imported" /\ NoLink.comment = 0
  BY DEF NoLink
<1>11. /\ \A i : Paired(i) => Paired(i)'
       /\ \A r : r # 0 => LinkedTo(r)' = LinkedTo(r)
       /\ \A c : c.id # 0 => /\ StampCalm(c)' <=> StampCalm(c)
                             /\ NotOlder(c)' <=> NotOlder(c)
  <2>1. \A r : r # 0 => LinkedTo(r)' = LinkedTo(r)
    BY <1>6, <1>8, <1>10 DEF LinkedTo
  <2>2. \A i : Paired(i) => Paired(i)'
    BY <1>6, <1>8 DEF Paired
  <2>3. \A c : StampCalm(c)' <=> StampCalm(c)
    BY <1>9 DEF StampCalm
  <2>4. ASSUME NEW c, c.id # 0 PROVE NotOlder(c)' <=> NotOlder(c)
    <3>1. \A l \in LinkedTo(c.id) : links'[l].seen = links[l].seen
      BY <1>8 DEF LinkedTo
    <3>2. QED
      BY <2>1, <2>4, <3>1 DEF NotOlder
  <2>5. QED
    BY <2>1, <2>2, <2>3, <2>4
<1>12. Importing(k, new)
  BY <1>2, <1>7 DEF Importing
<1>13. LinksCalm(k)'
  <2>1. SUFFICES ASSUME NEW l \in Issues'
        PROVE  /\ ~ Linked(l)' => /\ links'[l].origin = "imported" /\ links'[l].comment = 0
                                  /\ rows'[l].spec = OnBoard \/ Importing(k, l)
               /\ Linked(l)' => /\ rows'[l].spec = Owner(links'[l])
                                /\ links'[l].seen <= remotes'[links'[l].remote].stamp
                                /\ links'[l].seen >= remotes'[links'[l].remote].touched
                                        => Known(l, links[l].remote)'
    BY DEF LinksCalm, Importing, Owner
  <2>2. CASE l = new
    BY <1>8, <1>10, <1>12, <2>2 DEF Linked
  <2>3. CASE l \in Issues
    <3>1. ~ Importing(j, l)
      BY <1>2 DEF Importing
    <3>2. /\ rows'[l] = rows[l] /\ links'[l] = links[l] /\ heard'[l] = heard[l]
      BY <1>8, <2>3
    <3>3. QED
      BY <1>9, <2>3, <3>1, <3>2 DEF InOrder, LinksCalm, Linked, Known, j
  <2>4. QED
    BY <1>6, <2>2, <2>3
<1>14. OpCalm(k)' /\ StampsCalm'
  BY <1>2, <1>7, <1>9 DEF OpCalm, InOrder, StampsCalm
<1>15. PairCalm(k)'
  <2>1. Paired(k.item)'
    BY <1>2, <1>6, <1>7, <1>8, <1>10 DEF Paired, Unpaired
  <2>2. LinkedTo(k.item.copy.id)' = {}
    BY <1>2, <1>7, <1>11
  <2>3. QED
    BY <1>2, <1>7, <2>1, <2>2 DEF PairCalm, Unpaired
<1>16. SpecCalm(k)'
  BY <1>2, <1>4, <1>7, <1>8 DEF SpecCalm
<1>17. HeardCalm(k)'
  BY <1>2, <1>7, <1>8, <1>11 DEF HeardCalm, JobCalm, copy
<1>18. MineCalm(k)'
  <2>1. j.cmd.op = "mine" => \A i \in j.todo : i.copy.id # 0
    BY <1>2 DEF PhaseOf
  <2>2. QED
    BY <1>2, <1>7, <1>11, <2>1 DEF MineCalm, JobCalm, copy
<1>19. SyncCalm(k)'
  BY <1>2, <1>7 DEF SyncCalm
<1>20. InOrder(k)'
  BY <1>13, <1>14, <1>15, <1>16, <1>17, <1>18, <1>19
     DEF InOrder, JobCalm
<1>21. QED
  BY <1>1, <1>20

\* What a command that linked its issue has left to do.
Follows(j, k) ==
    /\ k.cmd = j.cmd /\ k.todo = j.todo /\ k.note = j.note
    /\ \/ k.pc = "note" /\ k.item = j.item /\ j.cmd.op = "push" /\ j.note # 0
       \/ k.pc = "next" /\ k.item = NoItem /\ j.cmd.op \in {"mine", "sync"}

LEMMA AfterLinkIs ==
    ASSUME IInv, NEW s \in Session, AfterLink(s)
    PROVE  \/ Follows(job[s], job'[s])
           \/ job'[s] = Idle /\ ~ (Op(s) = "push" /\ job[s].note # 0)
<1>1. CASE Go(s, "note", job[s].item) /\ Op(s) = "push" /\ job[s].note # 0
  <2>1. /\ job'[s].pc = "note" /\ job'[s].item = job[s].item
        /\ job'[s].cmd = job[s].cmd /\ job'[s].todo = job[s].todo
        /\ job'[s].note = job[s].note
    BY <1>1, Views, GoIsTyped DEF PC
  <2>2. QED
    BY <1>1, <2>1 DEF Follows, Op
<1>2. CASE Go(s, "next", NoItem) /\ Op(s) \in {"mine", "sync"}
  <2>1. /\ job'[s].pc = "next" /\ job'[s].item = NoItem
        /\ job'[s].cmd = job[s].cmd /\ job'[s].todo = job[s].todo
        /\ job'[s].note = job[s].note
    BY <1>2, Views, NothingIsTyped, GoIsTyped DEF PC
  <2>2. QED
    BY <1>2, <2>1 DEF Follows, Op
<1>3. CASE End(s) /\ ~ (Op(s) = "push" /\ job[s].note # 0)
  BY <1>3, Views, EndIsTyped
<1>4. QED
  BY <1>1, <1>2, <1>3 DEF AfterLink, Runs, Op

\* The link of an issue, as the command that knows its pairing writes it.
LEMMA LinkWritten ==
    ASSUME IInv, NEW j \in JobOf(Issues, Remotes), NEW k, NEW link, InOrder(j), PhaseOf(j),
           j.pc = "link",
           \/ Follows(j, k)
           \/ k = Idle /\ ~ (j.cmd.op = "push" /\ j.note # 0),
           link.remote = j.item.copy.id, link.seen = j.item.copy.stamp,
           link.comment = links[j.item.on].comment,
           link.origin = IF j.cmd.op = "push" /\ j.item.link.remote = 0 THEN "pushed"
                         ELSE j.item.link.origin,
           \A l \in Issues : links'[l] = IF l = j.item.on THEN link ELSE links[l],
           Issues' = Issues, UNCHANGED <<rows, heard, linear, env>>
    PROVE  InOrder(k)'
<1> DEFINE on == j.item.on
           copy == j.item.copy
<1>1. /\ rows' = rows /\ heard' = heard /\ Remotes' = Remotes /\ remotes' = remotes
      /\ comments' = comments /\ exposed' = exposed
  BY DEF linear, env, Remotes
<1>2. /\ Paired(j.item) /\ on \in Issues /\ copy.id # 0 /\ copy.id \in Remotes
      /\ copy.stamp \in Nat /\ copy.stamp <= remotes[copy.id].stamp
      /\ j.item.link.origin = links[on].origin /\ j.item.link.remote = links[on].remote
      /\ links[on].remote # 0 => copy.id = links[on].remote
      /\ links[on].remote = 0 => LinkedTo(copy.id) = {} /\ links[on].origin = "imported"
                                 /\ links[on].comment = 0
  <2>1. Paired(j.item) /\ copy.id # 0 /\ on \in Issues
    BY DEF InOrder, JobCalm, PairCalm, PhaseOf, Paired
  <2>2. copy.id \in Remotes /\ copy.stamp \in Nat
    BY <2>1, JobFacts, ItemFacts
  <2>3. copy.stamp <= remotes[copy.id].stamp
    BY <2>1 DEF InOrder, JobCalm, HeardCalm, StampCalm
  <2>4. /\ j.item.link.remote # 0 => copy.id = j.item.link.remote
        /\ j.item.link.remote = 0 => LinkedTo(copy.id) = {}
    BY DEF InOrder, JobCalm, PairCalm
  <2>5. links[on].remote = 0 => links[on].origin = "imported" /\ links[on].comment = 0
    BY <2>1 DEF InOrder, LinksCalm, Linked
  <2>6. QED
    BY <2>1, <2>2, <2>3, <2>4, <2>5 DEF Paired
<1>3. links'[on] = link /\ link.remote # 0
  BY <1>2
\* Only what the link has seen is new, where there was one.
<1>4. /\ \A l \in Issues : /\ links'[l].comment = links[l].comment
                           /\ l # on => links'[l] = links[l]
                           /\ links[l].remote # 0 =>
                                /\ links'[l].remote = links[l].remote
                                /\ links'[l].origin = links[l].origin
  BY <1>2
<1>5. rows[on].spec = Owner(link)
  <2>1. CASE links[on].remote # 0
    BY <1>2, <2>1 DEF Owner, InOrder, LinksCalm, Linked
  <2>2. CASE links[on].remote = 0
    <3>1. CASE j.cmd.op = "push"
      BY <1>2, <2>2, <3>1 DEF Owner, InOrder, JobCalm, SpecCalm
    <3>2. CASE j.cmd.op # "push"
      BY <1>2, <2>2, <3>2 DEF Owner, InOrder, JobCalm, SpecCalm
    <3>3. QED
      BY <3>1, <3>2
  <2>3. QED
    BY <2>1, <2>2
<1>6. copy.stamp >= remotes[copy.id].touched => Known(on, copy.id)
  <2>1. CASE j.cmd.op = "push"
    BY <2>1 DEF InOrder, JobCalm, HeardCalm
  <2>2. CASE j.cmd.op # "push"
    BY <2>2 DEF InOrder, JobCalm, HeardCalm, Known
  <2>3. QED
    BY <2>1, <2>2
<1>7. LinksCalm(k)'
  <2>1. SUFFICES ASSUME NEW l \in Issues
        PROVE  /\ ~ Linked(l)' => /\ links'[l].origin = "imported" /\ links'[l].comment = 0
                                  /\ rows[l].spec = OnBoard \/ Importing(k, l)
               /\ Linked(l)' => /\ rows[l].spec = Owner(links'[l])
                                /\ links'[l].seen <= remotes[links'[l].remote].stamp
                                /\ links'[l].seen >= remotes[links'[l].remote].touched
                                        => Known(l, links'[l].remote)
    BY <1>1 DEF LinksCalm, Importing, Owner, Known
  <2>2. CASE l = on
    BY <1>2, <1>3, <1>5, <1>6, <2>2 DEF Linked
  <2>3. CASE l # on
    <3>1. ~ Importing(j, l) /\ links'[l] = links[l]
      BY <1>4, <2>3 DEF Importing
    <3>2. QED
      BY <3>1 DEF InOrder, LinksCalm, Linked
  <2>4. QED
    BY <2>2, <2>3
<1>8. StampsCalm'
  BY <1>1 DEF InOrder, StampsCalm
<1>9. CASE k = Idle
  <2>1. JobCalm(k)'
    <3>1. /\ Idle.pc = "idle" /\ Idle.cmd.op = "none" /\ Idle.item.copy.id = 0
          /\ Idle.todo = {}
      BY DEF Idle, NoCommand, NoItem, NoCopy
    <3>2. OpCalm(k)'
      BY <1>9, <3>1 DEF OpCalm
    <3>3. PairCalm(k)' /\ SpecCalm(k)'
      BY <1>9, <3>1 DEF PairCalm, SpecCalm
    <3>4. HeardCalm(k)' /\ MineCalm(k)' /\ SyncCalm(k)'
      BY <1>9, <3>1 DEF HeardCalm, StampCalm, MineCalm, SyncCalm
    <3>5. QED
      BY <3>2, <3>3, <3>4 DEF JobCalm
  <2>2. QED
    BY <1>7, <1>8, <2>1 DEF InOrder
<1>10. CASE Follows(j, k)
  <2>1. JobCalm(j)
    BY DEF InOrder
  <2>2. \A i : Paired(i) /\ (i.on = on => i.link.remote # 0) => Paired(i)'
    BY <1>1, <1>2, <1>4 DEF Paired
  <2>3. ASSUME NEW i \in j.todo, j.cmd.op = "mine"
        PROVE  NotOlder(i.copy)'
    <3>1. SUFFICES ASSUME NEW l \in Issues, links'[l].remote = i.copy.id
          PROVE  links'[l].seen <= i.copy.stamp
      BY DEF NotOlder, LinkedTo
    <3>2. CASE l = on
      <4>1. i.copy.id = copy.id
        BY <1>3, <3>1, <3>2
      <4>2. i.copy.stamp = copy.stamp
        BY <2>1, <2>3, <4>1 DEF JobCalm, MineCalm
      <4>3. QED
        BY <1>2, <1>3, <3>2, <4>2
    <3>3. CASE l # on
      BY <1>4, <2>1, <2>3, <3>1, <3>3 DEF JobCalm, MineCalm, NotOlder, LinkedTo
    <3>4. QED
      BY <3>2, <3>3
  <2>4. OpCalm(k)'
    BY <1>10 DEF OpCalm, Follows, NoItem, NoCopy
  <2>5. PairCalm(k)'
    BY <1>2, <1>3, <1>10 DEF PairCalm, Follows, Linked
  <2>6. SpecCalm(k)'
    BY <1>1, <1>10, <2>1 DEF SpecCalm, Follows, JobCalm
  <2>7. HeardCalm(k)'
    BY <1>1, <1>10, <2>1 DEF HeardCalm, Follows, JobCalm, StampCalm, NoItem, NoCopy
  <2>8. MineCalm(k)'
    <3>1. \A c : StampCalm(c)' <=> StampCalm(c)
      BY <1>1 DEF StampCalm
    <3>2. k.cmd.op = "mine" => k.pc = "next" /\ k.item.copy.id = 0
      BY <1>10 DEF Follows, NoItem, NoCopy
    <3>3. j.cmd.op = "mine" => \A i \in j.todo : i.copy.id # 0
      BY DEF PhaseOf
    <3>4. k.cmd = j.cmd /\ k.todo = j.todo
      BY <1>10 DEF Follows
    <3>5. QED
      BY <2>1, <2>3, <3>1, <3>2, <3>3, <3>4 DEF MineCalm, JobCalm
  <2>9. SyncCalm(k)'
    <3>1. k.cmd = j.cmd /\ k.todo = j.todo
      BY <1>10 DEF Follows
    <3>2. QED
      BY <1>1, <2>1, <2>2, <3>1 DEF SyncCalm, JobCalm
  <2>10. QED
    BY <1>7, <1>8, <2>4, <2>5, <2>6, <2>7, <2>8, <2>9
       DEF InOrder, JobCalm
<1>11. QED
  BY <1>9, <1>10

LEMMA RecordLinkCalm ==
    ASSUME IInv, NEW s \in Session, InOrder(job[s]), RecordLink(s)
    PROVE  InOrder(job[s])'
<1> DEFINE j == job[s]
           on == j.item.on
           link == Upserted(links[on], j.item.copy, Origin(s))
<1>1. PICK k : k = job'[s]
  OBVIOUS
<1>2. j \in JobOf(Issues, Remotes) /\ PhaseOf(j) /\ j.pc = "link"
  BY Views DEF RecordLink, At
<1>3. \/ Follows(j, k)
      \/ k = Idle /\ ~ (j.cmd.op = "push" /\ j.note # 0)
  BY <1>1, AfterLinkIs DEF RecordLink, Op
<1>4. /\ Paired(j.item) /\ on \in Issues /\ links[on] \in LinkOf(Remotes)
      /\ j.item.link.remote = links[on].remote /\ j.item.link.origin = links[on].origin
      /\ links[on].remote = 0 => links[on].comment = 0
  <2>1. Paired(j.item) /\ on \in Issues
    BY <1>2 DEF InOrder, JobCalm, PairCalm, Paired
  <2>2. QED
    BY <2>1, Views DEF Paired, InOrder, LinksCalm, Linked
<1>5. /\ link.remote = j.item.copy.id /\ link.seen = j.item.copy.stamp
      /\ link.comment = links[on].comment
      /\ link.origin = IF j.cmd.op = "push" /\ j.item.link.remote = 0 THEN "pushed"
                       ELSE j.item.link.origin
  BY <1>4 DEF Upserted, LinkOf, Origin, Runs, Op
<1>6. /\ links' = [links EXCEPT ![on] = link]
      /\ UNCHANGED <<rows, heard, linear, env>>
  BY DEF RecordLink
<1> HIDE DEF link
<1>7. /\ Issues' = Issues
      /\ \A l \in Issues : links'[l] = IF l = on THEN link ELSE links[l]
  <2>1. DOMAIN links = Issues
    BY DEF IInv, TypeOK, Issues
  <2>2. QED
    BY <1>6, <2>1 DEF Issues
<1> HIDE DEF j
<1>8. InOrder(k)'
  BY <1>2, <1>3, <1>5, <1>6, <1>7, LinkWritten DEF j
<1>9. QED
  BY <1>1, <1>8

\* The comment is the link's from now on.
LEMMA SetCommentCalm ==
    ASSUME IInv, NEW s \in Session, InOrder(job[s]), SetComment(s)
    PROVE  InOrder(job[s])'
<1> DEFINE j == job[s]
           on == j.item.on
           link == [links[on] EXCEPT !.comment = j.note]
<1>1. /\ j.pc = "note" /\ j.cmd.op = "push" /\ j.note # 0 /\ on \in Issues /\ Linked(on)
      /\ links[on] \in LinkOf(Remotes)
  BY Views DEF SetComment, At, InOrder, JobCalm, PairCalm, OpCalm
<1>2. job'[s] = Idle
  BY Views, EndIsTyped DEF SetComment
<1>3. /\ link.remote = links[on].remote /\ link.seen = links[on].seen
      /\ link.origin = links[on].origin /\ link.comment = j.note
  BY <1>1 DEF LinkOf
<1>4. /\ links' = [links EXCEPT ![on] = link]
      /\ UNCHANGED <<rows, heard, linear, env>>
  BY DEF SetComment
<1> HIDE DEF link
<1>5. /\ rows' = rows /\ heard' = heard /\ Remotes' = Remotes /\ remotes' = remotes
      /\ comments' = comments /\ exposed' = exposed /\ Issues' = Issues
      /\ \A l \in Issues : links'[l] = IF l = on THEN link ELSE links[l]
  <2>1. DOMAIN links = Issues
    BY DEF IInv, TypeOK, Issues
  <2>2. QED
    BY <1>4, <2>1 DEF linear, env, Issues, Remotes
<1>6. /\ \A l \in Issues : /\ links'[l].remote = links[l].remote
                           /\ links'[l].seen = links[l].seen
                           /\ links'[l].origin = links[l].origin
      /\ \A l : ~ Importing(j, l)
  BY <1>1, <1>3, <1>5 DEF Importing
<1>7. LinksCalm(Idle)'
  <2>1. SUFFICES ASSUME NEW l \in Issues
        PROVE  /\ ~ Linked(l) => /\ links'[l].origin = "imported" /\ links'[l].comment = 0
                                 /\ rows[l].spec = OnBoard
               /\ Linked(l) => /\ rows[l].spec = Owner(links[l])
                               /\ links[l].seen <= remotes[links[l].remote].stamp
                               /\ links[l].seen >= remotes[links[l].remote].touched
                                        => Known(l, links[l].remote)
    BY <1>5, <1>6 DEF LinksCalm, Linked, Owner, Known
  <2>2. ~ Linked(l) => links'[l] = links[l]
    BY <1>1, <1>5
  <2>3. QED
    BY <1>6, <2>2 DEF InOrder, LinksCalm
<1>8. StampsCalm'
  BY <1>5, <1>6 DEF InOrder, StampsCalm
<1>9. JobCalm(Idle)'
  <2>1. /\ Idle.pc = "idle" /\ Idle.cmd.op = "none" /\ Idle.item.copy.id = 0
        /\ Idle.todo = {}
    BY DEF Idle, NoCommand, NoItem, NoCopy
  <2>2. OpCalm(Idle)' /\ PairCalm(Idle)' /\ SpecCalm(Idle)'
    BY <2>1 DEF OpCalm, PairCalm, SpecCalm
  <2>3. HeardCalm(Idle)' /\ MineCalm(Idle)' /\ SyncCalm(Idle)'
    BY <2>1 DEF HeardCalm, StampCalm, MineCalm, SyncCalm
  <2>4. QED
    BY <2>2, <2>3 DEF JobCalm
<1>10. InOrder(Idle)'
  BY <1>7, <1>8, <1>9 DEF InOrder
<1>11. PICK k : k = job'[s]
  OBVIOUS
<1>12. InOrder(k)'
  BY <1>2, <1>10, <1>11
<1>13. QED
  BY <1>11, <1>12

(***************************************************************************)
(* Steps that write to Linear.                                             *)
(***************************************************************************)
\* A remote issue is newer, and what people did to it last is as known as it was, or
\* newer than all that was read of it, or exposed.
Onward(j, r) ==
    /\ remotes'[r].stamp \in Nat /\ remotes'[r].touched \in Nat
    /\ remotes'[r].stamp >= remotes[r].stamp
    /\ \/ remotes'[r].touched = remotes[r].touched /\ remotes'[r].last = remotes[r].last
       \/ /\ remotes'[r].touched > remotes[r].stamp
          /\ remotes'[r].touched <= remotes'[r].stamp
          /\ j.pc = "update" /\ j.item.copy.id = r => remotes'[r].last \in exposed'

LEMMA RemotesWritten ==
    ASSUME IInv, NEW j \in JobOf(Issues, Remotes), InOrder(j), PhaseOf(j),
           \A r \in Remotes : Onward(j, r), Remotes' = Remotes,
           exposed \subseteq exposed', UNCHANGED board
    PROVE  InOrder(j)'
<1>1. /\ rows' = rows /\ heard' = heard /\ links' = links /\ Issues' = Issues
      /\ \A i : Paired(i)' <=> Paired(i)
      /\ \A r : LinkedTo(r)' = LinkedTo(r)
      /\ \A c : NotOlder(c)' <=> NotOlder(c)
  <2>1. rows' = rows /\ heard' = heard /\ links' = links /\ Issues' = Issues
    BY DEF board, Issues
  <2>2. \A r : LinkedTo(r)' = LinkedTo(r)
    BY <2>1 DEF LinkedTo
  <2>3. QED
    BY <2>1, <2>2 DEF Paired, NotOlder
<1>2. JobCalm(j)
  BY DEF InOrder
<1>3. ASSUME NEW l \in Issues, NEW r \in Remotes, NEW n \in Nat, n <= remotes[r].stamp,
             n >= remotes'[r].touched, n >= remotes[r].touched => Known(l, r)
      PROVE  heard[l] >= remotes'[r].touched \/ remotes'[r].last \in exposed'
  <2>1. remotes[r].stamp \in Nat /\ remotes'[r].touched \in Nat
    BY Facts DEF Onward
  <2>2. remotes'[r].touched = remotes[r].touched /\ remotes'[r].last = remotes[r].last
    BY <1>3, <2>1 DEF Onward
  <2>3. QED
    BY <1>3, <2>2 DEF Known
<1>4. LinksCalm(j)'
  <2>1. SUFFICES ASSUME NEW l \in Issues
        PROVE  /\ ~ Linked(l) => /\ links[l].origin = "imported" /\ links[l].comment = 0
                                 /\ rows[l].spec = OnBoard \/ Importing(j, l)
               /\ Linked(l) => /\ rows[l].spec = Owner(links[l])
                               /\ links[l].seen <= remotes'[links[l].remote].stamp
                               /\ links[l].seen >= remotes'[links[l].remote].touched
                                    => \/ heard[l] >= remotes'[links[l].remote].touched
                                       \/ remotes'[links[l].remote].last \in exposed'
    BY <1>1 DEF LinksCalm, Linked, Importing, Owner, Known
  <2>2. CASE ~ Linked(l)
    BY <2>2 DEF InOrder, LinksCalm
  <2>3. CASE Linked(l)
    <3>1. links[l].remote \in Remotes /\ links[l].seen \in Nat
      BY <2>3, Facts DEF Linked
    <3>2. /\ rows[l].spec = Owner(links[l])
          /\ links[l].seen <= remotes[links[l].remote].stamp
          /\ links[l].seen >= remotes[links[l].remote].touched => Known(l, links[l].remote)
      BY <2>3 DEF InOrder, LinksCalm
    <3>3. links[l].seen <= remotes'[links[l].remote].stamp
      BY <3>1, <3>2, Facts DEF Onward
    <3>4. QED
      BY <1>3, <2>3, <3>1, <3>2, <3>3
  <2>4. QED
    BY <2>2, <2>3
<1>5. StampsCalm'
  BY Facts DEF InOrder, StampsCalm, Onward
<1>6. OpCalm(j)'
  BY <1>2 DEF OpCalm, JobCalm
<1>7. PairCalm(j)'
  BY <1>1, <1>2 DEF PairCalm, JobCalm, Linked
<1>8. SpecCalm(j)'
  BY <1>1, <1>2 DEF SpecCalm, JobCalm
<1>9. ASSUME NEW i \in ItemOf(Issues, Remotes), StampCalm(i.copy) PROVE StampCalm(i.copy)'
  <2>1. i.copy.id # 0 => i.copy.id \in Remotes /\ i.copy.stamp \in Nat
    BY ItemFacts
  <2>2. QED
    BY <1>9, <2>1, Facts DEF StampCalm, Onward
<1>10. j.item \in ItemOf(Issues, Remotes) /\ \A i \in j.todo : i \in ItemOf(Issues, Remotes)
  BY JobFacts
<1>11. HeardCalm(j)'
  <2>1. j.pc = "update" => Known(j.item.on, j.item.copy.id)'
    <3>1. SUFFICES ASSUME j.pc = "update" PROVE Known(j.item.on, j.item.copy.id)'
      OBVIOUS
    <3>2. j.item.copy.id \in Remotes /\ Known(j.item.on, j.item.copy.id)
      BY <1>2, <1>10, <3>1, ItemFacts DEF JobCalm, HeardCalm, PhaseOf
    <3>3. QED
      BY <1>1, <3>1, <3>2 DEF Onward, Known
  <2>2. ASSUME j.pc \in {"comment", "link"}, j.cmd.op = "push",
               j.item.copy.stamp >= remotes'[j.item.copy.id].touched
        PROVE  Known(j.item.on, j.item.copy.id)'
    <3>1. /\ j.item.copy.id \in Remotes /\ j.item.copy.stamp \in Nat
          /\ j.item.on \in Issues
      BY <1>2, <1>10, <2>2, ItemFacts DEF PhaseOf, JobCalm, PairCalm, Paired
    <3>2. /\ j.item.copy.stamp <= remotes[j.item.copy.id].stamp
          /\ j.item.copy.stamp >= remotes[j.item.copy.id].touched
                => Known(j.item.on, j.item.copy.id)
      BY <1>2, <2>2, <3>1, Facts DEF JobCalm, HeardCalm, StampCalm
    <3>3. QED
      BY <1>1, <1>3, <2>2, <3>1, <3>2 DEF Known
  <2>3. StampCalm(j.item.copy)'
    BY <1>2, <1>9, <1>10 DEF JobCalm, HeardCalm
  <2>4. QED
    BY <1>1, <1>2, <2>1, <2>2, <2>3 DEF HeardCalm, JobCalm
<1>12. MineCalm(j)'
  BY <1>1, <1>2, <1>9, <1>10 DEF MineCalm, JobCalm
<1>13. SyncCalm(j)'
  BY <1>1, <1>2 DEF SyncCalm, JobCalm
<1>14. QED
  BY <1>4, <1>5, <1>6, <1>7, <1>8, <1>11, <1>12, <1>13
     DEF InOrder, JobCalm

LEMMA UpdateRemoteCalm ==
    ASSUME IInv, IInv', NEW s \in Session, InOrder(job[s]), UpdateRemote(s)
    PROVE  InOrder(job[s])'
<1>0. PICK j : j = job[s]
  OBVIOUS
<1> DEFINE r == j.item.copy.id
           new == Patched(s, remotes[r])
           copy == [id |-> r, state |-> new.state, text |-> new.text, stamp |-> new.stamp]
           item == [j.item EXCEPT !.copy = copy]
<1>1. PICK k : k = job'[s]
  OBVIOUS
<1>2. /\ j \in JobOf(Issues, Remotes) /\ PhaseOf(j) /\ j.pc = "update" /\ j.cmd.op = "push"
      /\ j.note = 0 /\ r \in Remotes /\ r # 0 /\ JobCalm(j) /\ Paired(j.item)
      /\ remotes[r] \in Remote /\ j.item.on \in Issues
  <2>1. /\ j \in JobOf(Issues, Remotes) /\ PhaseOf(j) /\ j.pc = "update" /\ r # 0
        /\ JobCalm(j)
    BY <1>0, Views DEF UpdateRemote, At, InOrder, PhaseOf
  <2>2. r \in Remotes
    BY <1>0, <2>1, Views, ItemFacts
  <2>3. j.cmd.op = "push" /\ j.note = 0 /\ Paired(j.item)
    BY <2>1 DEF JobCalm, OpCalm, PairCalm
  <2>4. QED
    BY <2>1, <2>2, <2>3, Views DEF Paired
<1>3. /\ new.stamp = remotes[r].stamp + 1 /\ new.touched = remotes[r].touched
      /\ new.last = remotes[r].last
  BY <1>2 DEF Patched, Remote
<1>4. /\ remotes' = [remotes EXCEPT ![r] = new]
      /\ Go(s, AfterUpdate(s), item)
      /\ UNCHANGED <<board, comments, env>>
  BY <1>0 DEF UpdateRemote
<1>5. /\ k.pc = "comment" \/ k.pc = "link"
      /\ k.cmd = j.cmd /\ k.note = j.note /\ k.todo = j.todo
      /\ k.item.on = j.item.on /\ k.item.row = j.item.row /\ k.item.link = j.item.link
      /\ k.item.copy.id = r /\ k.item.copy.stamp = new.stamp
  <2>1. job' = [job EXCEPT ![s].pc = AfterUpdate(s), ![s].item = item]
    BY <1>4 DEF Go
  <2>2. /\ item.copy.id = r /\ item.copy.stamp = new.stamp
        /\ item.on = j.item.on /\ item.row = j.item.row /\ item.link = j.item.link
    <3>1. copy.id = r /\ copy.stamp = new.stamp
      OBVIOUS
    <3> HIDE DEF copy
    <3>2. QED
      BY <1>0, <3>1, Views DEF ItemOf
  <2> HIDE DEF item
  <2>3. /\ k.pc = AfterUpdate(s) /\ k.item = item /\ k.cmd = j.cmd /\ k.note = j.note
        /\ k.todo = j.todo
    BY <1>0, <1>1, <2>1, Views DEF JobOf
  <2>4. QED
    BY <2>2, <2>3, AfterUpdateIs
<1> HIDE DEF new, copy, item
<1>6. /\ Remotes' = Remotes /\ exposed' = exposed
      /\ rows' = rows /\ heard' = heard /\ links' = links /\ Issues' = Issues
      /\ comments' = comments
      /\ \A q \in Remotes : remotes'[q] = IF q = r THEN new ELSE remotes[q]
  BY <1>4 DEF Remotes, env, board, Issues
<1>7. ASSUME NEW q \in Remotes PROVE Onward(j, q)
  <2>1. remotes[q].stamp \in Nat /\ remotes[q].touched \in Nat
    BY Facts
  <2>2. QED
    BY <1>3, <1>6, <2>1 DEF Onward
<1>8. InOrder(j)'
  BY <1>0, <1>2, <1>4, <1>6, <1>7, RemotesWritten
<1>9. \A l : Importing(k, l) <=> Importing(j, l)
  BY <1>2, <1>5 DEF Importing
<1>10. LinksCalm(k)'
  BY <1>8, <1>9 DEF InOrder, LinksCalm, Importing
<1>11. StampsCalm'
  BY <1>8 DEF InOrder
<1>12. PairCalm(k)'
  <2>1. PairCalm(j)'
    BY <1>8 DEF InOrder, JobCalm
  <2>2. Paired(k.item)'
    BY <1>2, <1>5, <2>1 DEF PairCalm, Paired
  <2>3. QED
    BY <1>2, <1>5, <2>1, <2>2 DEF PairCalm
<1>13. SpecCalm(k)'
  BY <1>2, <1>5, <1>8 DEF InOrder, JobCalm, SpecCalm
<1>14. OpCalm(k)'
  BY <1>2, <1>5 DEF OpCalm
<1>15. HeardCalm(k)'
  <2>1. StampCalm(k.item.copy)'
    <3>1. remotes[r].stamp \in Nat
      BY <1>2, Facts
    <3>2. QED
      BY <1>2, <1>3, <1>5, <1>6, <3>1 DEF StampCalm
  <2>2. Known(j.item.on, r)'
    BY <1>2, <1>8 DEF InOrder, JobCalm, HeardCalm
  <2>3. QED
    BY <1>2, <1>5, <2>1, <2>2 DEF HeardCalm
<1>16. MineCalm(k)' /\ SyncCalm(k)'
  BY <1>2, <1>5 DEF MineCalm, SyncCalm
<1>17. InOrder(k)'
  BY <1>10, <1>11, <1>12, <1>13, <1>14, <1>15, <1>16 DEF InOrder, JobCalm
<1>18. QED
  BY <1>1, <1>17

LEMMA CreateRemoteCalm ==
    ASSUME IInv, NEW s \in Session, InOrder(job[s]), CreateRemote(s)
    PROVE  InOrder(job[s])'
<1>0. PICK j : j = job[s]
  OBVIOUS
<1>r. PICK r : r = Len(remotes) + 1
  OBVIOUS
<1> DEFINE new == [state |-> ToLinear[j.item.row.status], text |-> {}, stamp |-> 1,
                   gone |-> FALSE, touched |-> 0, last |-> 0, by |-> j.item.on]
           copy == [id |-> r, state |-> new.state, text |-> {}, stamp |-> 1]
           item == [j.item EXCEPT !.copy = copy]
<1>1. PICK k : k = job'[s]
  OBVIOUS
<1>2. /\ j.pc = "createRemote" /\ j.cmd.op = "push" /\ j.note = 0 /\ JobCalm(j)
      /\ j.item.link.remote = 0 /\ Paired(j.item) /\ j.item.on \in Issues
      /\ rows[j.item.on].spec = OnBoard
  <2>1. j.pc = "createRemote" /\ JobCalm(j)
    BY <1>0 DEF CreateRemote, At, InOrder
  <2>2. /\ j.cmd.op = "push" /\ j.note = 0 /\ j.item.link.remote = 0 /\ Paired(j.item)
    BY <2>1 DEF JobCalm, OpCalm, PairCalm
  <2>3. QED
    BY <2>1, <2>2 DEF JobCalm, SpecCalm, Paired
<1>3. /\ new.stamp = 1 /\ new.touched = 0
      /\ remotes \in Seq(Remote) /\ remotes' = Append(remotes, new)
      /\ Go(s, "update", item) /\ UNCHANGED <<board, comments, env>>
  BY <1>0, <1>r DEF CreateRemote, IInv, TypeOK
<1>4. /\ k.pc = "update" /\ k.cmd = j.cmd /\ k.note = j.note /\ k.todo = j.todo
      /\ k.item.on = j.item.on /\ k.item.link = j.item.link
      /\ k.item.copy.id = r /\ k.item.copy.stamp = 1
  <2>1. job' = [job EXCEPT ![s].pc = "update", ![s].item = item]
    BY <1>3 DEF Go
  <2>2. /\ item.copy.id = r /\ item.copy.stamp = 1
        /\ item.on = j.item.on /\ item.row = j.item.row /\ item.link = j.item.link
    <3>1. copy.id = r /\ copy.stamp = 1
      OBVIOUS
    <3> HIDE DEF copy
    <3>2. QED
      BY <1>0, <3>1, Views DEF ItemOf
  <2> HIDE DEF item
  <2>3. /\ k.pc = "update" /\ k.item = item /\ k.cmd = j.cmd /\ k.note = j.note
        /\ k.todo = j.todo
    BY <1>0, <1>1, <2>1, Views DEF JobOf
  <2>4. QED
    BY <2>2, <2>3
<1> HIDE DEF copy, item, new
<1>5. /\ Remotes = 1..Len(remotes) /\ Remotes' = 1..r /\ r \notin Remotes /\ r # 0
      /\ remotes'[r] = new
      /\ \A q \in Remotes : q \in Remotes' /\ remotes'[q] = remotes[q]
      /\ \A q \in Remotes' : q = r \/ q \in Remotes
  BY <1>r, <1>3 DEF Remotes
<1>6. /\ rows' = rows /\ heard' = heard /\ links' = links /\ Issues' = Issues
      /\ comments' = comments /\ exposed' = exposed
      /\ \A l \in Issues : links[l].remote \in Remotes \cup {0} /\ heard[l] \in Nat
  BY <1>3, Facts DEF env, board, Issues
<1>7. /\ \A l \in Issues : links[l].remote # r
      /\ LinkedTo(r)' = {}
  BY <1>5, <1>6 DEF LinkedTo
<1>8. \A l : Importing(k, l) <=> Importing(j, l)
  BY <1>2, <1>4 DEF Importing
<1>9. LinksCalm(k)'
  <2>1. SUFFICES ASSUME NEW l \in Issues
        PROVE  /\ ~ Linked(l) => /\ links[l].origin = "imported" /\ links[l].comment = 0
                                 /\ rows[l].spec = OnBoard \/ Importing(j, l)
               /\ Linked(l) => /\ rows[l].spec = Owner(links[l])
                               /\ links[l].seen <= remotes'[links[l].remote].stamp
                               /\ links[l].seen >= remotes'[links[l].remote].touched
                                    => \/ heard[l] >= remotes'[links[l].remote].touched
                                       \/ remotes'[links[l].remote].last \in exposed
    BY <1>6, <1>8 DEF LinksCalm, Linked, Importing, Owner, Known
  <2>2. Linked(l) => remotes'[links[l].remote] = remotes[links[l].remote]
    BY <1>5, <1>6 DEF Linked
  <2>3. LinksCalm(j)
    BY <1>0 DEF InOrder
  <2>4. QED
    BY <2>2, <2>3 DEF LinksCalm, Known
<1>10. StampsCalm'
  BY <1>3, <1>5 DEF InOrder, StampsCalm
<1>11. OpCalm(k)'
  BY <1>2, <1>4 DEF OpCalm
<1>12. PairCalm(k)'
  BY <1>2, <1>4, <1>6, <1>7 DEF PairCalm, Paired
<1>13. SpecCalm(k)'
  BY <1>2, <1>4, <1>6 DEF SpecCalm
<1>14. HeardCalm(k)'
  <2>1. StampCalm(k.item.copy)'
    BY <1>3, <1>4, <1>5 DEF StampCalm
  <2>2. Known(j.item.on, r)'
    BY <1>2, <1>3, <1>5, <1>6 DEF Known
  <2>3. QED
    BY <1>4, <2>1, <2>2 DEF HeardCalm
<1>15. MineCalm(k)' /\ SyncCalm(k)'
  BY <1>2, <1>4 DEF MineCalm, SyncCalm
<1>16. InOrder(k)'
  BY <1>9, <1>10, <1>11, <1>12, <1>13, <1>14, <1>15
     DEF InOrder, JobCalm
<1>17. QED
  BY <1>1, <1>16

LEMMA CreateCommentCalm ==
    ASSUME IInv, NEW s \in Session, InOrder(job[s]), CreateComment(s)
    PROVE  InOrder(job[s])'
<1>0. PICK j : j = job[s]
  OBVIOUS
<1>1. PICK k : k = job'[s]
  OBVIOUS
<1>2. /\ j.pc = "comment" /\ j.cmd.op = "push" /\ JobCalm(j)
      /\ Paired(j.item) /\ j.item.on \in Issues
  BY <1>0 DEF CreateComment, At, InOrder, JobCalm, OpCalm, PairCalm, Paired
<1>3. UNCHANGED <<board, remotes, env>>
  BY DEF CreateComment
<1>4. k.pc = "link" /\ k.item = j.item /\ k.cmd = j.cmd
  <2> DEFINE c == Len(comments) + 1
  <2> HIDE DEF c
  <2>1. job' = [job EXCEPT ![s].pc = "link", ![s].note = c]
    BY DEF CreateComment, c
  <2>2. QED
    BY <1>0, <1>1, <2>1, Views DEF JobOf
<1>5. /\ rows' = rows /\ heard' = heard /\ links' = links /\ Issues' = Issues
      /\ Remotes' = Remotes /\ remotes' = remotes /\ exposed' = exposed
      /\ \A i : Paired(i)' <=> Paired(i)
      /\ \A r : LinkedTo(r)' = LinkedTo(r)
      /\ \A l, r : Known(l, r)' <=> Known(l, r)
  <2>1. /\ rows' = rows /\ heard' = heard /\ links' = links /\ Issues' = Issues
        /\ Remotes' = Remotes /\ remotes' = remotes /\ exposed' = exposed
    BY <1>3 DEF board, env, Issues, Remotes
  <2>2. QED
    BY <2>1 DEF Paired, LinkedTo, Known
<1>6. \A l : Importing(k, l) <=> Importing(j, l)
  BY <1>2, <1>4 DEF Importing
<1>7. LinksCalm(k)' /\ StampsCalm'
  <2>1. LinksCalm(j)
    BY <1>0 DEF InOrder
  <2>2. SUFFICES ASSUME NEW l \in Issues
        PROVE  /\ ~ Linked(l) => /\ links[l].origin = "imported" /\ links[l].comment = 0
                                 /\ rows[l].spec = OnBoard \/ Importing(j, l)
               /\ Linked(l) => /\ rows[l].spec = Owner(links[l])
                               /\ links[l].seen <= remotes[links[l].remote].stamp
                               /\ links[l].seen >= remotes[links[l].remote].touched
                                        => Known(l, links[l].remote)
    BY <1>0, <1>5, <1>6 DEF LinksCalm, Linked, Importing, Owner, InOrder, StampsCalm
  <2>3. QED
    BY <2>1 DEF LinksCalm
<1>8. OpCalm(k)' /\ MineCalm(k)' /\ SyncCalm(k)'
  BY <1>2, <1>4 DEF OpCalm, MineCalm, SyncCalm
<1>9. PairCalm(k)' /\ SpecCalm(k)'
  BY <1>2, <1>4, <1>5 DEF PairCalm, SpecCalm, JobCalm
<1>10. HeardCalm(k)'
  BY <1>2, <1>4, <1>5 DEF HeardCalm, StampCalm, JobCalm
<1>11. InOrder(k)'
  BY <1>7, <1>8, <1>9, <1>10 DEF InOrder, JobCalm
<1>12. QED
  BY <1>1, <1>11

(***************************************************************************)
(* Others. The command that runs holds what it held.                       *)
(***************************************************************************)
LEMMA RowsKept ==
    ASSUME IInv, NEW j, InOrder(j), Issues' = Issues,
           \A l \in Issues : rows'[l].spec = rows[l].spec,
           exposed \subseteq exposed', UNCHANGED <<links, heard, linear>>
    PROVE  InOrder(j)'
<1>1. /\ links' = links /\ heard' = heard /\ Remotes' = Remotes /\ remotes' = remotes
      /\ comments' = comments
      /\ \A i : Paired(i)' <=> Paired(i)
      /\ \A r : LinkedTo(r)' = LinkedTo(r)
      /\ \A l, r : Known(l, r) => Known(l, r)'
      /\ \A c : (StampCalm(c)' <=> StampCalm(c)) /\ (NotOlder(c)' <=> NotOlder(c))
  <2>1. /\ links' = links /\ heard' = heard /\ Remotes' = Remotes /\ remotes' = remotes
        /\ comments' = comments
    BY DEF linear, Remotes
  <2>2. \A r : LinkedTo(r)' = LinkedTo(r)
    BY <2>1 DEF LinkedTo
  <2>3. QED
    BY <2>1, <2>2 DEF Paired, Known, StampCalm, NotOlder
<1>2. JobCalm(j) /\ PairCalm(j)
  BY DEF InOrder, JobCalm
<1>3. LinksCalm(j)'
  <2>1. SUFFICES ASSUME NEW l \in Issues
        PROVE  /\ ~ Linked(l) => /\ links[l].origin = "imported" /\ links[l].comment = 0
                                 /\ rows[l].spec = OnBoard \/ Importing(j, l)
               /\ Linked(l) => /\ rows[l].spec = Owner(links[l])
                               /\ links[l].seen <= remotes[links[l].remote].stamp
                               /\ links[l].seen >= remotes[links[l].remote].touched
                                        => Known(l, links[l].remote)
    BY <1>1 DEF LinksCalm, Linked, Importing, Owner
  <2>2. QED
    BY DEF InOrder, LinksCalm
<1>4. StampsCalm'
  BY <1>1 DEF InOrder, StampsCalm
<1>5. OpCalm(j)' /\ PairCalm(j)'
  BY <1>1, <1>2 DEF OpCalm, PairCalm, JobCalm, Linked
<1>6. SpecCalm(j)'
  <2>1. j.pc \in {"link", "createRemote", "update", "comment"} => j.item.on \in Issues
    BY <1>2 DEF PairCalm, Paired
  <2>2. QED
    BY <1>2, <2>1 DEF SpecCalm, JobCalm
<1>7. HeardCalm(j)'
  BY <1>1, <1>2 DEF HeardCalm, JobCalm
<1>8. MineCalm(j)'
  BY <1>1, <1>2 DEF MineCalm, JobCalm
<1>9. SyncCalm(j)'
  BY <1>1, <1>2 DEF SyncCalm, JobCalm
<1>10. QED
  BY <1>3, <1>4, <1>5, <1>6, <1>7, <1>8, <1>9 DEF InOrder, JobCalm

LEMMA TickCalm ==
    ASSUME IInv, NEW j, InOrder(j), NEW l \in Issues, Tick(l)
    PROVE  InOrder(j)'
<1> DEFINE row == [rows[l] EXCEPT !.plan = @ \cup {edits + 1}]
<1>1. rows' = [rows EXCEPT ![l] = row] /\ UNCHANGED <<links, heard, linear>>
  BY DEF Tick
<1>2. row.spec = rows[l].spec
  BY DEF IInv, TypeOK, Issues, Row
<1>3. exposed \subseteq exposed'
  BY DEF Tick, Expose
<1> HIDE DEF row
<1>4. Issues' = Issues /\ \A i \in Issues : rows'[i].spec = rows[i].spec
  BY <1>1, <1>2 DEF Issues
<1>5. QED
  BY <1>1, <1>3, <1>4, RowsKept

LEMMA MoveIssueCalm ==
    ASSUME IInv, NEW j, InOrder(j), NEW l \in Issues, NEW st \in Status, MoveIssue(l, st)
    PROVE  InOrder(j)'
<1> DEFINE row == [rows[l] EXCEPT !.status = st]
<1>1. /\ rows' = [rows EXCEPT ![l] = row] /\ UNCHANGED <<links, heard, linear>>
      /\ exposed' = exposed
  BY DEF MoveIssue
<1>2. row.spec = rows[l].spec
  BY DEF IInv, TypeOK, Issues, Row
<1> HIDE DEF row
<1>3. Issues' = Issues /\ \A i \in Issues : rows'[i].spec = rows[i].spec
  BY <1>1, <1>2 DEF Issues
<1>4. QED
  BY <1>1, <1>3, RowsKept

\* j is the job of the command that runs, or nothing runs.
Held(j) == j = Idle \/ \E s \in Session : job[s] = j

LEMMA HeldIsTyped ==
    ASSUME IInv, NEW j, Held(j)
    PROVE  j \in JobOf(Issues, Remotes) /\ PhaseOf(j)
<1>1. CASE j = Idle
  <2>1. PhaseOf(Idle)
    BY DEF PhaseOf, Idle, NoCommand
  <2>2. QED
    BY <1>1, <2>1, NothingIsTyped
<1>2. CASE \E s \in Session : job[s] = j
  BY <1>2, Views
<1>3. QED
  BY <1>1, <1>2 DEF Held

\* A person's change is newer than every copy of the remote, and exposed when a push
\* holds one to patch it.
LEMMA PersonChangesCalm ==
    ASSUME IInv, NEW j, InOrder(j), Held(j),
           NEW r \in Remotes, NEW new \in Remote, PersonChanges(r, new),
           new.stamp = remotes[r].stamp
    PROVE  InOrder(j)'
<1>1. j \in JobOf(Issues, Remotes) /\ PhaseOf(j)
  BY HeldIsTyped
<1> DEFINE t == Touched(new)
<1>2. /\ remotes' = [remotes EXCEPT ![r] = t] /\ UNCHANGED board
      /\ exposed \subseteq exposed'
  BY DEF PersonChanges, Expose
<1>3. t.stamp = new.stamp + 1 /\ t.touched = new.stamp + 1 /\ t.last = edits + 1
  BY DEF Touched, Remote
<1>4. j.pc = "update" /\ j.item.copy.id = r => edits + 1 \in exposed'
  <2>1. Idle.pc = "idle"
    BY DEF Idle
  <2>2. QED
    BY <2>1 DEF PersonChanges, Expose, Patches, At, Held
<1> HIDE DEF t
<1>5. /\ Remotes' = Remotes
      /\ \A q \in Remotes : remotes'[q] = IF q = r THEN t ELSE remotes[q]
  BY <1>2 DEF Remotes
<1>6. ASSUME NEW q \in Remotes PROVE Onward(j, q)
  <2>1. remotes[q].stamp \in Nat /\ remotes[q].touched \in Nat
    BY Facts
  <2>2. CASE q = r
    BY <1>3, <1>4, <1>5, <2>1, <2>2 DEF Onward
  <2>3. CASE q # r
    BY <1>5, <2>1, <2>3 DEF Onward
  <2>4. QED
    BY <2>2, <2>3
<1>7. QED
  BY <1>1, <1>2, <1>5, <1>6, RemotesWritten

LEMMA PersonWritesCalm ==
    ASSUME IInv, NEW j, InOrder(j), Held(j), NEW r \in Remotes, PersonWrites(r)
    PROVE  InOrder(j)'
<1> DEFINE new == [remotes[r] EXCEPT !.text = remotes[r].text \cup {edits + 1}]
<1>1. remotes[r] \in Remote /\ edits + 1 \in Nat
  BY Facts DEF IInv, TypeOK
<1>2. new \in Remote /\ new.stamp = remotes[r].stamp
  BY <1>1 DEF Remote
<1>3. PersonChanges(r, new)
  BY DEF PersonWrites
<1> HIDE DEF new
<1>4. QED
  BY <1>2, <1>3, PersonChangesCalm

LEMMA PersonMovesCalm ==
    ASSUME IInv, NEW j, InOrder(j), Held(j), NEW r \in Remotes, NEW st \in State,
           PersonMoves(r, st)
    PROVE  InOrder(j)'
<1> DEFINE new == [remotes[r] EXCEPT !.state = st]
<1>1. remotes[r] \in Remote
  BY Facts
<1>2. new \in Remote /\ new.stamp = remotes[r].stamp
  BY <1>1 DEF Remote
<1>3. PersonChanges(r, new)
  BY DEF PersonMoves
<1> HIDE DEF new
<1>4. QED
  BY <1>2, <1>3, PersonChangesCalm

LEMMA PersonDeletesIssueCalm ==
    ASSUME IInv, NEW j, InOrder(j), Held(j), NEW r \in Remotes, PersonDeletesIssue(r)
    PROVE  InOrder(j)'
<1> DEFINE new == [remotes[r] EXCEPT !.gone = TRUE]
<1>1. j \in JobOf(Issues, Remotes) /\ PhaseOf(j)
  BY HeldIsTyped
<1>2. remotes' = [remotes EXCEPT ![r] = new] /\ UNCHANGED board /\ exposed' = exposed
  BY DEF PersonDeletesIssue
<1>3. /\ new.stamp = remotes[r].stamp /\ new.touched = remotes[r].touched
      /\ new.last = remotes[r].last
  <2>1. remotes[r] \in Remote
    BY Facts
  <2>2. QED
    BY <2>1 DEF Remote
<1> HIDE DEF new
<1>4. /\ Remotes' = Remotes
      /\ \A q \in Remotes : remotes'[q] = IF q = r THEN new ELSE remotes[q]
  BY <1>2 DEF Remotes
<1>5. ASSUME NEW q \in Remotes PROVE Onward(j, q)
  <2>1. remotes[q].stamp \in Nat /\ remotes[q].touched \in Nat
    BY Facts
  <2>2. QED
    BY <1>3, <1>4, <2>1 DEF Onward
<1>6. QED
  BY <1>1, <1>2, <1>4, <1>5, RemotesWritten

LEMMA PersonDeletesCommentCalm ==
    ASSUME IInv, NEW j, InOrder(j), Held(j), NEW d \in DOMAIN comments,
           PersonDeletesComment(d)
    PROVE  InOrder(j)'
<1>1. j \in JobOf(Issues, Remotes) /\ PhaseOf(j)
  BY HeldIsTyped
<1>2. /\ UNCHANGED board /\ exposed' = exposed
      /\ remotes' = remotes /\ Remotes' = Remotes
  BY DEF PersonDeletesComment, Remotes
<1>3. ASSUME NEW q \in Remotes PROVE Onward(j, q)
  <2>1. remotes[q].stamp \in Nat /\ remotes[q].touched \in Nat
    BY Facts
  <2>2. QED
    BY <1>2, <2>1 DEF Onward
<1>4. QED
  BY <1>1, <1>2, <1>3, RemotesWritten

(***************************************************************************)
(* Calm is kept.                                                           *)
(***************************************************************************)
\* A command moves its own job only, and not before it began.
LEMMA OwnJob ==
    ASSUME IInv, NEW s \in Session, Import(s) \/ PushStep(s)
    PROVE  job[s].pc # "idle" /\ \A t \in Session \ {s} : job'[t] = job[t]
<1>1. job \in [Session -> JobOf(Issues, Remotes)]
  BY Views
<1>2. \A pc, item : Go(s, pc, item) => \A t \in Session \ {s} : job'[t] = job[t]
  BY <1>1 DEF Go
<1>3. End(s) => \A t \in Session \ {s} : job'[t] = job[t]
  BY <1>1 DEF End
<1>4. CASE FetchIssue(s) \/ FetchMine(s) \/ NextItem(s) \/ NoMoreItems(s)
  BY <1>1, <1>2, <1>3, <1>4 DEF FetchIssue, FetchMine, NextItem, NoMoreItems, At
<1>5. CASE ResolveExisting(s) \/ ResolveAdopt(s) \/ ResolveCreate(s)
  BY <1>1, <1>2, <1>3, <1>5 DEF ResolveExisting, ResolveAdopt, ResolveCreate, At
<1>6. CASE CreateRow(s) \/ ArchiveCreated(s) \/ Refresh(s) \/ LinkRefused(s)
  BY <1>1, <1>2, <1>3, <1>6 DEF CreateRow, ArchiveCreated, Refresh, LinkRefused, At
<1>7. CASE RecordLink(s)
  BY <1>1, <1>2, <1>3, <1>7 DEF RecordLink, AfterLink, At
<1>8. CASE ReadLinks(s) \/ FetchLinked(s) \/ ReadIssue(s)
  BY <1>1, <1>2, <1>3, <1>8 DEF ReadLinks, FetchLinked, ReadIssue, At
<1>9. CASE CreateRemote(s) \/ Guard(s) \/ NothingToUpdate(s)
  BY <1>1, <1>2, <1>3, <1>9 DEF CreateRemote, Guard, NothingToUpdate, At
<1>10. CASE UpdateRemote(s) \/ RemoteIsGone(s) \/ EditComment(s)
  BY <1>1, <1>2, <1>3, <1>10 DEF UpdateRemote, RemoteIsGone, EditComment, At
<1>11. CASE CreateComment(s) \/ SetComment(s)
  BY <1>1, <1>2, <1>3, <1>11 DEF CreateComment, SetComment, At
<1>12. QED
  BY <1>4, <1>5, <1>6, <1>7, <1>8, <1>9, <1>10, <1>11 DEF Import, PushStep

\* Mishaps are only ever counted, and by three steps.
LEMMA MishapsCount ==
    ASSUME IInv, [Next]_vars
    PROVE  mishaps' >= mishaps
<1>1. mishaps \in Nat
  BY DEF IInv, TypeOK
<1>2. mishaps' = mishaps => mishaps' >= mishaps
  BY <1>1
<1>3. ASSUME NEW s \in Session, NEW c \in Requests, Begin(s, c) PROVE mishaps' >= mishaps
  BY <1>1, <1>3 DEF Begin
<1>4. ASSUME NEW s \in Session, Abort(s) PROVE mishaps' >= mishaps
  BY <1>1, <1>4 DEF Abort
<1>5. ASSUME NEW s \in Session, Import(s) PROVE mishaps' >= mishaps
  <2>1. CASE ResolveAdopt(s)
    BY <1>1, <2>1 DEF ResolveAdopt
  <2>2. CASE FetchIssue(s) \/ FetchMine(s) \/ NextItem(s) \/ NoMoreItems(s)
             \/ ResolveExisting(s) \/ ResolveCreate(s)
    BY <1>2, <2>2 DEF FetchIssue, FetchMine, NextItem, NoMoreItems, ResolveExisting,
                      ResolveCreate, counts
  <2>3. CASE CreateRow(s) \/ ArchiveCreated(s) \/ Refresh(s) \/ RecordLink(s)
             \/ LinkRefused(s) \/ ReadLinks(s) \/ FetchLinked(s)
    BY <1>2, <2>3 DEF CreateRow, ArchiveCreated, Refresh, RecordLink, LinkRefused,
                      ReadLinks, FetchLinked, counts
  <2>4. QED
    BY <1>5, <2>1, <2>2, <2>3 DEF Import
<1>6. ASSUME NEW s \in Session, PushStep(s) PROVE mishaps' >= mishaps
  <2>1. CASE ReadIssue(s) \/ CreateRemote(s) \/ Guard(s) \/ NothingToUpdate(s)
    BY <1>2, <2>1 DEF ReadIssue, CreateRemote, Guard, NothingToUpdate, counts
  <2>2. CASE UpdateRemote(s) \/ RemoteIsGone(s) \/ EditComment(s) \/ CreateComment(s)
             \/ SetComment(s)
    BY <1>2, <2>2 DEF UpdateRemote, RemoteIsGone, EditComment, CreateComment, SetComment,
                      counts
  <2>3. QED
    BY <1>6, <2>1, <2>2 DEF PushStep
<1>7. ASSUME Others PROVE mishaps' >= mishaps
  BY <1>2, <1>7 DEF Others, Tick, MoveIssue, PersonWrites, PersonMoves, PersonChanges,
                    PersonDeletesIssue, PersonDeletesComment, counts
<1>8. CASE UNCHANGED vars
  BY <1>2, <1>8 DEF vars, counts
<1>9. QED
  BY <1>3, <1>4, <1>5, <1>6, <1>7, <1>8 DEF Next

LEMMA OthersCalm ==
    ASSUME IInv, NEW j, InOrder(j), Held(j), Others
    PROVE  InOrder(j)' /\ job' = job
<1>1. InOrder(j)'
  BY TickCalm, MoveIssueCalm, PersonWritesCalm, PersonMovesCalm, PersonDeletesIssueCalm,
     PersonDeletesCommentCalm DEF Others
<1>2. job' = job
  BY DEF Others, Tick, MoveIssue, PersonWrites, PersonMoves, PersonChanges,
         PersonDeletesIssue, PersonDeletesComment
<1>3. QED
  BY <1>1, <1>2

LEMMA CommandCalm ==
    ASSUME IInv, IInv', NEW s \in Session, InOrder(job[s]), mishaps = 0, mishaps' = 0,
           Import(s) \/ PushStep(s)
    PROVE  InOrder(job[s])'
<1>1. CASE Import(s)
  <2>1. ResolveAdopt(s) => ~ Linked(LinkTo(s))
    BY DEF ResolveAdopt
  <2>2. QED
    BY <1>1, <2>1, FetchIssueCalm, FetchMineCalm, NextItemCalm, NoMoreItemsCalm,
       ResolveExistingCalm, ResolveAdoptCalm, ResolveCreateCalm, CreateRowCalm,
       ArchiveCreatedCalm, RefreshCalm, RecordLinkCalm, LinkRefusedCalm, ReadLinksCalm,
       FetchLinkedCalm DEF Import
<1>2. CASE PushStep(s)
  BY <1>2, ReadIssueCalm, CreateRemoteCalm, GuardCalm, NothingToUpdateCalm,
     UpdateRemoteCalm, RemoteIsGoneCalm, EditCommentCalm, CreateCommentCalm,
     SetCommentCalm DEF PushStep
<1>3. QED
  BY <1>1, <1>2

LEMMA InitCalm ==
    ASSUME Init
    PROVE  Calm
<1>1. IInv /\ \A s \in Session : job[s] = Idle
  BY InitIInv DEF Init
<1>2. /\ Issues = 1..FirstIssues /\ Remotes = 1..FirstRemotes /\ DOMAIN comments = {}
      /\ \A l \in Issues : links[l] = NoLink /\ rows[l].spec = OnBoard
      /\ \A r \in Remotes : remotes[r].touched = 1 /\ remotes[r].stamp = 1
  <2>1. FirstIssues \in Nat /\ FirstRemotes \in Nat
    BY BridgeConstants
  <2>2. rows \in [1..FirstIssues -> [spec: {OnBoard}, status: Status, archived: {FALSE},
                                     plan: {{}}, from: {0}]]
    BY DEF Init
  <2>3. remotes \in [1..FirstRemotes -> [state: Open, text: {{}}, stamp: {1},
                        gone: {FALSE}, touched: {1}, last: {0}, by: {0}]]
    BY DEF Init
  <2>4. Issues = 1..FirstIssues /\ Remotes = 1..FirstRemotes
    BY <2>2, <2>3 DEF Issues, Remotes
  <2>5. ASSUME NEW l \in Issues PROVE rows[l].spec = OnBoard
    <3>1. rows[l] \in [spec: {OnBoard}, status: Status, archived: {FALSE}, plan: {{}},
                       from: {0}]
      BY <2>2, <2>4
    <3>2. QED
      BY <3>1
  <2>6. ASSUME NEW r \in Remotes
        PROVE  remotes[r].touched = 1 /\ remotes[r].stamp = 1
    <3>1. remotes[r] \in [state: Open, text: {{}}, stamp: {1}, gone: {FALSE},
                          touched: {1}, last: {0}, by: {0}]
      BY <2>3, <2>4
    <3>2. QED
      BY <3>1
  <2>7. DOMAIN comments = {} /\ \A l \in Issues : links[l] = NoLink
    BY DEF Init
  <2>8. QED
    BY <2>4, <2>5, <2>6, <2>7
<1>3. NoLink.remote = 0 /\ NoLink.origin = "imported" /\ NoLink.comment = 0
  BY DEF NoLink
<1> HIDE DEF NoLink
<1>4. LinksCalm(Idle)
  BY <1>2, <1>3 DEF LinksCalm, Linked
<1>5. StampsCalm
  BY <1>2 DEF StampsCalm
<1>6. InOrder(Idle)
  BY <1>4, <1>5, IdleIsCalm DEF InOrder
<1>7. QED
  BY <1>1, <1>6 DEF Calm

LEMMA StutterCalm ==
    ASSUME IInv, NEW j, InOrder(j), UNCHANGED vars
    PROVE  InOrder(j)'
<1>1. Issues' = Issues /\ UNCHANGED <<links, heard, linear>> /\ rows' = rows
      /\ exposed' = exposed
  BY DEF vars, board, env, Issues
<1>2. QED
  BY <1>1, RowsKept

LEMMA NextCalm ==
    ASSUME IInv, IInv', Calm, [Next]_vars
    PROVE  Calm'
<1>1. SUFFICES ASSUME mishaps' = 0
      PROVE  \/ (\A t \in Session : job'[t] = Idle) /\ InOrder(Idle)'
             \/ \E s \in Session : Alone(s)' /\ InOrder(job[s])'
  BY DEF Calm
<1>2. mishaps = 0
  BY <1>1, MishapsCount DEF IInv, TypeOK
<1>3. CASE (\A t \in Session : job[t] = Idle) /\ InOrder(Idle)
  <2>0. Held(Idle)
    BY DEF Held
  <2>1. CASE Others
    BY <1>3, <2>0, <2>1, OthersCalm
  <2>2. CASE UNCHANGED vars
    BY <1>3, <2>2, StutterCalm DEF vars
  <2>3. ASSUME NEW s \in Session, NEW c \in Requests, Begin(s, c)
        PROVE  Alone(s)' /\ InOrder(job[s])'
    <3>1. InOrder(job[s])'
      BY <1>3, <2>3, BeginCalm
    <3>2. Alone(s)'
      BY <1>3, <2>3, Views DEF Begin, Alone
    <3>3. QED
      BY <3>1, <3>2
  <2>4. ASSUME NEW s \in Session, Import(s) \/ PushStep(s) \/ Abort(s) PROVE FALSE
    <3>1. job[s].pc = "idle"
      BY <1>3 DEF Idle
    <3>2. QED
      BY <2>4, <3>1, OwnJob DEF Abort, At
  <2>5. QED
    BY <2>1, <2>2, <2>3, <2>4 DEF Next
<1>4. ASSUME NEW s \in Session, Alone(s), InOrder(job[s])
      PROVE  \/ (\A t \in Session : job'[t] = Idle) /\ InOrder(Idle)'
             \/ \E t \in Session : Alone(t)' /\ InOrder(job[t])'
  <2>0. PICK j : j = job[s]
    OBVIOUS
  <2>1. Held(j) /\ InOrder(j)
    BY <1>4, <2>0 DEF Held
  <2>2. CASE Others
    <3>1. InOrder(j)' /\ job' = job
      BY <2>1, <2>2, OthersCalm
    <3>2. InOrder(job[s])' /\ Alone(s)'
      BY <1>4, <2>0, <3>1 DEF Alone
    <3>3. QED
      BY <3>2
  <2>3. CASE UNCHANGED vars
    <3>1. InOrder(j)' /\ job' = job
      BY <2>1, <2>3, StutterCalm DEF vars
    <3>2. InOrder(job[s])' /\ Alone(s)'
      BY <1>4, <2>0, <3>1 DEF Alone
    <3>3. QED
      BY <3>2
  <2>4. ASSUME NEW t \in Session, NEW c \in Requests, Begin(t, c)
        PROVE  Alone(t)' /\ InOrder(job[t])'
    <3>1. \A u \in Session : At(u, "idle")
      BY <1>1, <1>2, <2>4 DEF Begin
    <3>2. job[s] = Idle
      BY <1>4, <3>1 DEF InOrder, JobCalm, OpCalm, At
    <3>3. \A u \in Session : job[u] = Idle
      BY <1>4, <3>2 DEF Alone
    <3>4. InOrder(job[t])'
      BY <1>4, <2>4, <3>2, BeginCalm
    <3>5. Alone(t)'
      BY <2>4, <3>3, Views DEF Begin, Alone
    <3>6. QED
      BY <3>4, <3>5
  <2>5. ASSUME NEW t \in Session, Import(t) \/ PushStep(t)
        PROVE  Alone(s)' /\ InOrder(job[s])'
    <3>1. t = s
      BY <1>4, <2>5, OwnJob DEF Alone, Idle
    <3>2. InOrder(job[s])'
      BY <1>1, <1>2, <1>4, <2>5, <3>1, CommandCalm
    <3>3. Alone(s)'
      BY <1>4, <2>5, <3>1, OwnJob DEF Alone
    <3>4. QED
      BY <3>2, <3>3
  <2>6. ASSUME NEW t \in Session, Abort(t) PROVE FALSE
    BY <1>1, <1>2, <2>6 DEF Abort
  <2>7. QED
    BY <2>2, <2>3, <2>4, <2>5, <2>6 DEF Next
<1>5. QED
  BY <1>2, <1>3, <1>4 DEF Calm

LEMMA CalmIsKept == Spec => []Calm
<1>1. Init => IInv /\ Calm
  BY InitIInv, InitCalm
<1>2. IInv /\ Calm /\ [Next]_vars => (IInv /\ Calm)'
  BY NextIInv, NextCalm
<1>3. QED
  BY <1>1, <1>2, PTL DEF Spec

(***************************************************************************)
(* What calm gives.                                                        *)
(***************************************************************************)
LEMMA CalmIsInOrder ==
    ASSUME Calm, mishaps = 0
    PROVE  \E j : InOrder(j)
BY DEF Calm

\* An import and a push keep the owner of the Spec through reads, HTTP calls and
\* writes that other sessions' work interleaves, as long as one command runs at a time
\* and none fails: what a command writes back belongs to whom its link says.
THEOREM SpecStaysWithItsOwner == Spec => []SpecHasItsOwner
<1>1. Calm => SpecHasItsOwner
  <2>1. SUFFICES ASSUME Calm, mishaps = 0, NEW l \in Issues, Linked(l)
                 PROVE  rows[l].spec = Owner(links[l])
    BY DEF SpecHasItsOwner, Owner
  <2>2. PICK j : InOrder(j)
    BY <2>1, CalmIsInOrder
  <2>3. QED
    BY <2>1, <2>2 DEF InOrder, LinksCalm
<1>2. QED
  BY <1>1, CalmIsKept, PTL

\* A push passes its guard only over changes of the remote issue that the board was
\* refreshed from, or that the person told it to pass over, under the same condition.
THEOREM SeenMeansHeard == Spec => []SeenIsHeard
<1>1. Calm => SeenIsHeard
  <2>1. SUFFICES ASSUME Calm, mishaps = 0, NEW l \in Issues, Linked(l),
                        links[l].seen >= remotes[links[l].remote].touched
                 PROVE  Known(l, links[l].remote)
    BY DEF SeenIsHeard, Known
  <2>2. PICK j : InOrder(j)
    BY <2>1, CalmIsInOrder
  <2>3. QED
    BY <2>1, <2>2 DEF InOrder, LinksCalm
<1>2. QED
  BY <1>1, CalmIsKept, PTL

(***************************************************************************)
(* What every job keeps in order, whatever fails, overlaps or is adopted.  *)
(***************************************************************************)
\* A command holds an issue of the board, to write it or to link it.
Holding == {"archive", "refresh", "fetchLinked", "createRemote", "guard", "update",
            "comment", "link"}

\* The remote issue that a command means to link what it holds to.
Target(i) == IF i.copy.id # 0 THEN i.copy.id ELSE i.link.remote

\* Commands, the steps they come to, and what they have read by then.
Ready(j) ==
    /\ j.pc = "idle" => j = Idle
    /\ j.pc \in {"fetch", "resolve", "create", "archive"} => j.cmd.op \in {"import", "mine"}
    /\ j.pc = "refresh" => j.cmd.op \in {"import", "mine", "sync"}
    /\ j.pc \in {"createRemote", "guard", "update", "comment", "note"} => j.cmd.op = "push"
    /\ j.pc \in {"read", "fetch"} => j.item = NoItem /\ j.todo = {}
    /\ j.todo # {} => j.cmd.op \in {"mine", "sync"}
    /\ j.note # 0 => j.cmd.op = "push" /\ j.pc \in {"link", "note"}
    /\ j.pc = "note" => j.note # 0 /\ j.item.on \in Issues /\ Linked(j.item.on)

\* A link it has read is the link of an issue that has one still; only a push and an
\* import that adopts or creates come without.
Read(i) == i.link.remote # 0 => i.on \in Issues /\ Linked(i.on)
Grounded(j) ==
    /\ Read(j.item) /\ \A i \in j.todo : Read(i)
    /\ j.pc \in Holding => j.item.on \in Issues
    /\ j.pc \in {"resolve", "create", "archive", "createRemote"} => j.item.link.remote = 0
    /\ j.pc \in {"fetchLinked", "guard", "createRemote"} => j.item.copy.id = 0
    /\ j.cmd.op = "push" /\ j.pc \in Holding => j.item.on = j.cmd.on
    /\ j.cmd.op = "sync" => /\ \A i \in j.todo : i.copy.id = 0
                            /\ j.pc \in Holding => j.item.link.remote # 0
    /\ j.cmd.op = "mine" => \A i \in j.todo : i.on = 0 /\ i.link.remote = 0

\* Where the row it writes back came from, and that it links a row to what it was
\* created from unless it was told otherwise.
Rooted(j) ==
    /\ j.pc \in {"refresh", "archive", "fetchLinked"} => j.item.row.from = rows[j.item.on].from
    /\ \A i \in j.todo : i.on # 0 => i.on \in Issues /\ i.row.from = rows[i.on].from
    /\ j.cmd.op = "mine" /\ j.pc \in Holding /\ j.item.link.remote = 0
            => j.item.copy.id = rows[j.item.on].from
    /\ j.cmd.op = "push" /\ j.pc \in {"update", "comment", "link"} /\ j.item.link.remote = 0
            => j.item.copy.id # rows[j.item.on].from

\* Comments it knows of exist.
Cites(j) == /\ j.note \in DOMAIN comments \cup {0}
            /\ j.cmd.op = "push" => j.item.link.comment \in DOMAIN comments \cup {0}

Sources ==
    /\ \A l \in Issues : /\ rows[l].from \in Remotes \cup {0}
                         /\ links[l].comment \in DOMAIN comments \cup {0}
                         /\ ~ Linked(l) => links[l].comment = 0
    /\ \A r \in Remotes : remotes[r].by \in Issues \cup {0}
    /\ \A c \in DOMAIN comments : comments[c].for \in Issues

Tidy(j) == Ready(j) /\ Grounded(j) /\ Rooted(j) /\ Cites(j)

Active == {s \in Session : job[s].pc # "idle"}
Linking == {s \in Session : job[s].pc \notin {"idle", "note"}}

Order == Sources /\ \A s \in Session : Tidy(job[s])

Within(X, D, n) ==
    IsFiniteSet(X) /\ IsFiniteSet(D) /\ Cardinality(X) + Cardinality(D) <= n

(***************************************************************************)
(* Comments                                                                *)
(***************************************************************************)
\* The push j on l has posted a comment that it has still to record.
Posted(j, l) ==
    /\ j.cmd.op = "push" /\ j.item.on = l /\ j.pc \in {"link", "note"}
    /\ j.note \notin {0, j.item.link.comment}
Living(l) == {c \in DOMAIN comments : comments[c].for = l /\ comments[c].live}

\* Nobody knows the comment any more.
LostComments(l) ==
    {c \in Living(l) : /\ c # links[l].comment
                       /\ \A s \in Session : Posted(job[s], l) => job[s].note # c}
Doomed(j, l) ==
    /\ j.cmd.op = "push" /\ j.item.on = l /\ j.pc \in {"guard", "update", "comment", "link"}
    /\ Taken(l, Target(j.item))
DoomedPosts(l) == {s \in Session : Doomed(job[s], l)}

\* The push will record another comment than the one that is recorded.
Replaces(j, l) ==
    /\ j.cmd.op = "push" /\ j.item.on = l
    /\ \/ /\ j.pc \in {"createRemote", "guard", "update", "comment"}
          /\ j.item.link.comment # links[l].comment
       \/ j.pc \in {"link", "note"} /\ j.note \notin {0, links[l].comment}

CommentsPaid(l) ==
    /\ Within(LostComments(l), DoomedPosts(l), mishaps)
    /\ Within(LostComments(l), Active, mishaps + 1)
    /\ links[l].comment \in Living(l) /\ (\E s \in Session : Replaces(job[s], l))
            => Within(LostComments(l), Active, mishaps)

(***************************************************************************)
(* Remote issues                                                           *)
(***************************************************************************)
Making(j, l) ==
    /\ j.cmd.op = "push" /\ j.item.on = l /\ j.pc \in {"update", "comment", "link"}
    /\ j.item.link.remote = 0
MadeFor(l) == {r \in Remotes : remotes[r].by = l /\ ~ remotes[r].gone}
InHand(l, r) == \E s \in Session : Making(job[s], l) /\ job[s].item.copy.id = r
LostRemotes(l) == {r \in MadeFor(l) : r # links[l].remote /\ ~ InHand(l, r)}
DoomedMakers(l) ==
    {s \in Session : Making(job[s], l) /\ Taken(l, job[s].item.copy.id)}

\* j means to link l to r, or to something else.
Aims(j, l, r) ==
    \/ j.pc \in Holding /\ j.item.on = l /\ Target(j.item) = r
    \/ \E i \in j.todo : i.on = l /\ Target(i) = r
Moves(j, l, r) ==
    \/ j.pc \in Holding /\ j.item.on = l /\ Target(j.item) # r
    \/ \E i \in j.todo : i.on = l /\ Target(i) # r
Moving(l) == \E s \in Session : Moves(job[s], l, links[l].remote)

RemotesPaid(l) ==
    /\ Within(LostRemotes(l), DoomedMakers(l), mishaps)
    /\ Within(LostRemotes(l), Linking, mishaps + 1)
    /\ links[l].remote \in MadeFor(l) /\ ~ InHand(l, links[l].remote) /\ Moving(l)
            => Within(LostRemotes(l), Linking, mishaps)

(***************************************************************************)
(* Rows                                                                    *)
(***************************************************************************)
MadeFrom(r) == {l \in Issues : rows[l].from = r}

\* l is linked to r, or will be, and nobody means to link it to anything else.
OnlyTo(l, r) ==
    /\ links[l].remote \in {0, r}
    /\ \A s \in Session : ~ Moves(job[s], l, r)
    /\ links[l].remote = r \/ \E s \in Session : Aims(job[s], l, r)
LostRows(r) == {l \in MadeFrom(r) : ~ OnlyTo(l, r)}
Refused(j, r) ==
    /\ j.pc \in Holding /\ j.item.on \in MadeFrom(r) /\ Target(j.item) = r
    /\ OnlyTo(j.item.on, r) /\ Taken(j.item.on, r)
Late(j, r) == j.pc = "create" /\ j.item.copy.id = r /\ LinkedTo(r) # {}
DoomedRows(r) == {s \in Session : Refused(job[s], r) \/ Late(job[s], r)}

\* j holds a row that was created from r, and means to link it to another remote.
Diverts(j, r) ==
    /\ j.pc \in Holding /\ j.item.on \in MadeFrom(r) /\ Target(j.item) # r
    /\ j.item.link.remote = 0
Straight(r) == {s \in Linking : ~ Diverts(job[s], r)}

RowsPaid(r) ==
    /\ Within(LostRows(r), DoomedRows(r), mishaps)
    /\ Within(LostRows(r), Straight(r), mishaps + 1)

CommentsArePaid == \A l \in Issues : CommentsPaid(l)
RemotesArePaid == \A l \in Issues : RemotesPaid(l)
RowsArePaid == \A r \in Remotes : RowsPaid(r)

Paid == Within({}, Active, mishaps + 1) /\ CommentsArePaid /\ RemotesArePaid /\ RowsArePaid

LEMMA NothingIs ==
    /\ NoItem.on = 0 /\ NoItem.row = NoRow /\ NoItem.link = NoLink /\ NoItem.copy = NoCopy
    /\ NoLink.remote = 0 /\ NoLink.comment = 0 /\ NoCopy.id = 0
    /\ Idle.pc = "idle" /\ Idle.item = NoItem /\ Idle.note = 0 /\ Idle.todo = {}
    /\ Idle.cmd.op = "none"
BY DEF NoItem, NoLink, NoCopy, Idle, NoCommand

LEMMA IdleIsTidy == Tidy(Idle)
BY NothingIs DEF Tidy, Ready, Grounded, Read, Rooted, Cites, Holding

\* What a job keeps in order stays so while the board and the comments only grow.
Grows ==
    /\ Issues \subseteq Issues' /\ DOMAIN comments \subseteq DOMAIN comments'
    /\ \A l \in Issues : rows'[l].from = rows[l].from /\ (Linked(l) => Linked(l)')

LEMMA TidyGrows ==
    ASSUME NEW j, Tidy(j), Grows, 0 \notin Issues
    PROVE  Tidy(j)'
<1>1. /\ Issues \subseteq Issues' /\ DOMAIN comments \subseteq DOMAIN comments'
      /\ \A l \in Issues : rows'[l].from = rows[l].from /\ (Linked(l) => Linked(l)')
  BY DEF Grows
<1>2. Ready(j)'
  BY <1>1 DEF Tidy, Ready
<1>3. ASSUME NEW i, Read(i) PROVE Read(i)'
  BY <1>1, <1>3 DEF Read
<1>4. Grounded(j)'
  <2>1. Read(j.item)' /\ \A i \in j.todo : Read(i)'
    BY <1>3 DEF Tidy, Grounded
  <2>2. QED
    BY <1>1, <2>1 DEF Tidy, Grounded
<1>5. Rooted(j)'
  <2>1. j.pc \in Holding => j.item.on \in Issues
    BY DEF Tidy, Grounded
  <2>2. \A i \in j.todo : i.on # 0 => i.on \in Issues' /\ i.row.from = rows'[i.on].from
    BY <1>1 DEF Tidy, Rooted
  <2>3. j.pc \in Holding => rows'[j.item.on].from = rows[j.item.on].from
    BY <1>1, <2>1
  <2>4. QED
    BY <2>2, <2>3 DEF Tidy, Rooted, Holding
<1>6. Cites(j)'
  BY <1>1 DEF Tidy, Cites
<1>7. QED
  BY <1>2, <1>4, <1>5, <1>6 DEF Tidy

LEMMA OnIssues ==
    ASSUME IInv, NEW s \in Session, Tidy(job[s])
    PROVE  /\ 0 \notin Issues /\ 0 \notin Remotes
           /\ job[s].pc \in Holding => job[s].item.on \in Issues
           /\ job[s].item.link.remote \in Remotes \cup {0}
           /\ job[s].item.copy.id \in Remotes \cup {0}
BY Facts, Views, ItemFacts DEF Tidy, Grounded

LEMMA BeginTidy ==
    ASSUME IInv, NEW s \in Session, NEW c \in Requests, Begin(s, c)
    PROVE  Tidy(job'[s]) /\ job'[s].pc \in {"fetch", "read"}
<1>1. job'[s] = [Idle EXCEPT !.pc = IF c.op \in {"import", "mine"} THEN "fetch" ELSE "read",
                             !.cmd = c]
  BY Views DEF Begin
<1>2. PICK k : k = job'[s]
  OBVIOUS
<1>3. /\ k.pc = IF c.op \in {"import", "mine"} THEN "fetch" ELSE "read"
      /\ k.item = NoItem /\ k.note = 0 /\ k.todo = {} /\ k.cmd = c
  BY <1>1, <1>2 DEF Idle
<1>4. Tidy(k)
  BY <1>3, NothingIs DEF Tidy, Ready, Grounded, Read, Rooted, Cites, Holding
<1>5. QED
  BY <1>2, <1>3, <1>4

LEMMA EndTidy ==
    ASSUME IInv, NEW s \in Session, End(s)
    PROVE  Tidy(job'[s])
BY IdleIsTidy, EndIsTyped, Views

LEMMA FetchTidy ==
    ASSUME IInv, NEW s \in Session, Tidy(job[s]),
           FetchIssue(s) \/ FetchMine(s) \/ NoMoreItems(s)
    PROVE  Tidy(job'[s])
<1>1. CASE End(s)
  BY <1>1, EndTidy
<1>2. ASSUME FetchIssue(s), ~ End(s) PROVE Tidy(job'[s])
  <2> DEFINE item == [NoItem EXCEPT !.copy = CopyOf(job[s].cmd.remote)]
  <2>1. Go(s, "resolve", item)
    BY <1>2 DEF FetchIssue
  <2>2. item \in ItemOf(Issues, Remotes)
    <3>1. job[s].cmd.remote \in Remotes
      BY <1>2, Views DEF FetchIssue, Runs, Op, JobOf, RequestsOf, NoCommand
    <3>2. QED
      BY <3>1, Views, NothingIsTyped DEF ItemOf, CopyOf
  <2>3. item.on = 0 /\ item.link = NoLink
    BY NothingIs DEF NoItem
  <2> HIDE DEF item
  <2>4. /\ job'[s].pc = "resolve" /\ job'[s].item = item /\ job'[s].cmd = job[s].cmd
        /\ job'[s].note = job[s].note /\ job'[s].todo = job[s].todo
    BY <2>1, <2>2, GoIsTyped, Views DEF PC
  <2>5. job[s].pc = "fetch" /\ job[s].cmd.op = "import" /\ job[s].note = 0
        /\ job[s].todo = {}
    BY <1>2 DEF FetchIssue, At, Runs, Op, Tidy, Ready
  <2>6. QED
    BY <2>3, <2>4, <2>5, NothingIs DEF Tidy, Ready, Grounded, Read, Rooted, Cites, Holding
<1>3. ASSUME FetchMine(s) PROVE Tidy(job'[s])
  <2>1. PICK A \in SUBSET Remotes :
          job' = [job EXCEPT ![s].pc = "next",
                             ![s].todo = {[NoItem EXCEPT !.copy = CopyOf(r)] : r \in A}]
    BY <1>3 DEF FetchMine
  <2>2. job[s].pc = "fetch" /\ job[s].cmd.op = "mine" /\ job[s].item = NoItem
        /\ job[s].note = 0
    BY <1>3 DEF FetchMine, At, Runs, Op, Tidy, Ready
  <2> DEFINE T == {[NoItem EXCEPT !.copy = CopyOf(r)] : r \in A}
  <2>3. \A i \in T : i.on = 0 /\ i.link = NoLink
    BY DEF NoItem
  <2> HIDE DEF T
  <2>4. /\ job'[s].pc = "next" /\ job'[s].item = NoItem /\ job'[s].cmd.op = "mine"
        /\ job'[s].note = 0 /\ job'[s].todo = T
    BY <2>1, <2>2, Views DEF JobOf, T
  <2>5. QED
    BY <2>3, <2>4, NothingIs DEF Tidy, Ready, Grounded, Read, Rooted, Cites, Holding
<1>4. QED
  BY <1>1, <1>2, <1>3 DEF NoMoreItems

LEMMA NextItemTidy ==
    ASSUME IInv, NEW s \in Session, Tidy(job[s]), NextItem(s)
    PROVE  Tidy(job'[s])
<1>1. PICK i \in job[s].todo :
        job' = [job EXCEPT ![s].pc = IF Runs(s, "sync") THEN "fetchLinked" ELSE "resolve",
                           ![s].item = i, ![s].todo = job[s].todo \ {i}]
  BY DEF NextItem
<1>2. /\ job'[s].pc = IF Runs(s, "sync") THEN "fetchLinked" ELSE "resolve"
      /\ job'[s].item = i /\ job'[s].cmd = job[s].cmd /\ job'[s].note = job[s].note
      /\ job'[s].todo \subseteq job[s].todo
  BY <1>1, Views DEF JobOf
<1>3. job[s].pc = "next" /\ job[s].cmd.op \in {"mine", "sync"} /\ job[s].note = 0
  BY DEF NextItem, At, Tidy, Ready
<1>4. /\ job[s].cmd.op = "sync" => /\ i.link.remote # 0 /\ i.copy.id = 0 /\ Read(i)
                                   /\ i.row.from = rows[i.on].from
      /\ job[s].cmd.op = "mine" => i.link.remote = 0
  BY <1>3, Views, OnIssues DEF PhaseOf, Tidy, Grounded, Rooted, Read
<1>5. Ready(job'[s])
  BY <1>2, <1>3, Views DEF Tidy, Ready, Runs, Op
<1>6. Grounded(job'[s])
  BY <1>2, <1>3, <1>4 DEF Tidy, Grounded, Runs, Op, Holding, Read
<1>7. Rooted(job'[s])
  BY <1>2, <1>3, <1>4 DEF Tidy, Rooted, Runs, Op, Holding
<1>8. QED
  BY <1>2, <1>3, <1>5, <1>6, <1>7 DEF Tidy, Cites

\* A step that writes nothing leaves the board and the comments as they were.
LEMMA ResolveTidy ==
    ASSUME IInv, NEW s \in Session, Tidy(job[s]),
           ResolveExisting(s) \/ ResolveAdopt(s) \/ ResolveCreate(s)
    PROVE  Tidy(job'[s])
<1>0. /\ job[s].pc = "resolve" /\ job[s].cmd.op \in {"import", "mine"} /\ job[s].note = 0
      /\ job[s].item.link.remote = 0 /\ job[s].item.copy.id # 0
  BY Views DEF ResolveExisting, ResolveAdopt, ResolveCreate, At, Tidy, Ready, Grounded,
               PhaseOf
<1>1. CASE End(s)
  BY <1>1, EndTidy
<1>2. ASSUME ResolveExisting(s), ~ End(s) PROVE Tidy(job'[s])
  <2>1. PICK l \in LinkedTo(job[s].item.copy.id) :
          Go(s, "refresh", [job[s].item EXCEPT !.on = l, !.row = rows[l], !.link = links[l]])
    BY <1>2 DEF ResolveExisting
  <2> DEFINE item == [job[s].item EXCEPT !.on = l, !.row = rows[l], !.link = links[l]]
  <2>2. /\ item \in ItemOf(Issues, Remotes) /\ item.on = l /\ item.row = rows[l]
        /\ item.link = links[l] /\ item.copy = job[s].item.copy
        /\ l \in Issues /\ links[l].remote = job[s].item.copy.id
    BY Views DEF ItemOf, LinkedTo
  <2> HIDE DEF item
  <2>3. /\ job'[s].pc = "refresh" /\ job'[s].item = item /\ job'[s].cmd = job[s].cmd
        /\ job'[s].note = job[s].note /\ job'[s].todo = job[s].todo
    BY <2>1, <2>2, GoIsTyped, Views DEF PC, item
  <2>4. QED
    BY <1>0, <2>2, <2>3 DEF Tidy, Ready, Grounded, Read, Rooted, Cites, Holding, Linked
<1>3. ASSUME ResolveAdopt(s) PROVE Tidy(job'[s])
  <2> DEFINE l == LinkTo(s)
             item == [job[s].item EXCEPT !.on = l, !.row = rows[l]]
  <2>1. Go(s, "refresh", item) /\ job[s].cmd.op = "import" /\ l \in Issues
    <3>1. Runs(s, "import")
      BY <1>3 DEF ResolveAdopt, LinkTo
    <3>2. QED
      BY <1>3, <3>1, Views DEF ResolveAdopt, LinkTo, Runs, Op, JobOf, RequestsOf, NoCommand
  <2>2. /\ item \in ItemOf(Issues, Remotes) /\ item.on = l /\ item.row = rows[l]
        /\ item.link = job[s].item.link /\ item.copy = job[s].item.copy
    BY <2>1, Views DEF ItemOf
  <2> HIDE DEF item, l
  <2>3. /\ job'[s].pc = "refresh" /\ job'[s].item = item /\ job'[s].cmd = job[s].cmd
        /\ job'[s].note = job[s].note /\ job'[s].todo = job[s].todo
    BY <2>1, <2>2, GoIsTyped, Views DEF PC
  <2>4. QED
    BY <1>0, <2>1, <2>2, <2>3 DEF Tidy, Ready, Grounded, Read, Rooted, Cites, Holding
<1>4. ASSUME ResolveCreate(s) PROVE Tidy(job'[s])
  <2>1. /\ job'[s].pc = "create" /\ job'[s].item = job[s].item /\ job'[s].cmd = job[s].cmd
        /\ job'[s].note = job[s].note /\ job'[s].todo = job[s].todo
    BY <1>4, GoIsTyped, Views DEF ResolveCreate, PC
  <2>2. QED
    BY <1>0, <2>1 DEF Tidy, Ready, Grounded, Read, Rooted, Cites, Holding
<1>5. QED
  BY <1>1, <1>2, <1>3, <1>4

LEMMA ReadLinksTidy ==
    ASSUME IInv, NEW s \in Session, Tidy(job[s]), ReadLinks(s)
    PROVE  Tidy(job'[s])
<1> DEFINE T == {[on |-> l, row |-> rows[l], link |-> links[l], copy |-> NoCopy] :
                    l \in {i \in Issues : Linked(i)}}
<1>1. \A i \in T : /\ i.on \in Issues /\ i.link = links[i.on] /\ i.copy = NoCopy
                   /\ i.row = rows[i.on] /\ Linked(i.on)
  OBVIOUS
<1>2. job[s].pc = "read" /\ job[s].cmd.op = "sync" /\ job[s].item = NoItem /\ job[s].note = 0
  BY DEF ReadLinks, At, Runs, Op, Tidy, Ready
<1>3. job' = [job EXCEPT ![s].pc = "next", ![s].todo = T]
  BY DEF ReadLinks
<1> HIDE DEF T
<1>4. /\ job'[s].pc = "next" /\ job'[s].item = NoItem /\ job'[s].cmd.op = "sync"
      /\ job'[s].note = 0 /\ job'[s].todo = T
  BY <1>2, <1>3, Views DEF JobOf
<1>5. QED
  BY <1>1, <1>4, NothingIs DEF Tidy, Ready, Grounded, Read, Rooted, Cites, Holding, Linked

LEMMA FetchLinkedTidy ==
    ASSUME IInv, NEW s \in Session, Tidy(job[s]), FetchLinked(s)
    PROVE  Tidy(job'[s])
<1>1. /\ job[s].pc = "fetchLinked" /\ job[s].cmd.op = "sync" /\ job[s].note = 0
      /\ job[s].item.link.remote \in Remotes
  BY Views, OnIssues DEF FetchLinked, At, PhaseOf, Tidy, Ready
<1>2. CASE Go(s, "next", NoItem)
  <2>1. /\ job'[s].pc = "next" /\ job'[s].item = NoItem /\ job'[s].cmd = job[s].cmd
        /\ job'[s].note = job[s].note /\ job'[s].todo = job[s].todo
    BY <1>2, GoIsTyped, NothingIsTyped, Views DEF PC
  <2>2. QED
    BY <1>1, <2>1, NothingIs DEF Tidy, Ready, Grounded, Read, Rooted, Cites, Holding
<1>3. ASSUME ~ Go(s, "next", NoItem) PROVE Tidy(job'[s])
  <2> DEFINE item == [job[s].item EXCEPT !.copy = CopyOf(job[s].item.link.remote)]
  <2>1. Go(s, "refresh", item)
    BY <1>3 DEF FetchLinked
  <2>2. /\ item \in ItemOf(Issues, Remotes) /\ item.on = job[s].item.on
        /\ item.row = job[s].item.row /\ item.link = job[s].item.link
    BY <1>1, Views DEF ItemOf
  <2> HIDE DEF item
  <2>3. /\ job'[s].pc = "refresh" /\ job'[s].item = item /\ job'[s].cmd = job[s].cmd
        /\ job'[s].note = job[s].note /\ job'[s].todo = job[s].todo
    BY <2>1, <2>2, GoIsTyped, Views DEF PC
  <2>4. QED
    BY <1>1, <2>2, <2>3 DEF Tidy, Ready, Grounded, Read, Rooted, Cites, Holding
<1>4. QED
  BY <1>2, <1>3

LEMMA ReadIssueTidy ==
    ASSUME IInv, Sources, NEW s \in Session, Tidy(job[s]), ReadIssue(s)
    PROVE  Tidy(job'[s])
<1>1. /\ job[s].pc = "read" /\ job[s].cmd.op = "push" /\ job[s].note = 0 /\ job[s].todo = {}
      /\ Push(s).on \in Issues
  BY Views DEF ReadIssue, At, Runs, Op, Tidy, Ready, Push, JobOf, RequestsOf, NoCommand
<1>2. CASE End(s)
  BY <1>2, EndTidy
<1>3. ASSUME ~ End(s) PROVE Tidy(job'[s])
  <2> DEFINE l == Push(s).on
             item == [NoItem EXCEPT !.on = l, !.row = rows[l], !.link = links[l]]
             pc == IF Linked(l) THEN "guard" ELSE "createRemote"
  <2>1. Go(s, pc, item) /\ pc \in PC
    BY <1>3 DEF ReadIssue, PC
  <2>2. /\ item \in ItemOf(Issues, Remotes) /\ item.on = l /\ item.row = rows[l]
        /\ item.link = links[l] /\ item.copy = NoCopy
    BY <1>1, Views, NothingIsTyped, NothingIs DEF ItemOf
  <2> HIDE DEF item
  <2>3. /\ job'[s].pc = pc /\ job'[s].item = item /\ job'[s].cmd = job[s].cmd
        /\ job'[s].note = job[s].note /\ job'[s].todo = job[s].todo
    BY <2>1, <2>2, GoIsTyped, Views
  <2>4. links[l].comment \in DOMAIN comments \cup {0}
    BY <1>1 DEF Sources
  <2>5. QED
    BY <1>1, <2>2, <2>3, <2>4, NothingIs DEF Tidy, Ready, Grounded, Read, Rooted, Cites,
       Holding, Linked, Push
<1>4. QED
  BY <1>2, <1>3

\* A push that goes on to its next call holds what it held.
LEMMA OnwardTidy ==
    ASSUME NEW j, NEW k, Tidy(j), j.cmd.op = "push", k.cmd = j.cmd, k.todo = j.todo,
           j.pc \in {"guard", "update", "comment"}, k.pc \in {"update", "comment", "link"},
           k.item.on = j.item.on, k.item.link = j.item.link,
           k.note \in DOMAIN comments \cup {0}, k.pc # "link" => k.note = 0,
           \/ k.item.copy.id = j.item.copy.id
           \/ k.item.link.remote # 0,
           j.pc = "guard" => k.item.link.remote # 0
    PROVE  Tidy(k)
BY DEF Tidy, Ready, Grounded, Read, Rooted, Cites, Holding

LEMMA GuardTidy ==
    ASSUME IInv, NEW s \in Session, Tidy(job[s]), Guard(s)
    PROVE  Tidy(job'[s])
<1>1. /\ job[s].pc = "guard" /\ job[s].cmd.op = "push" /\ job[s].note = 0
      /\ job[s].item.link.remote # 0 /\ job[s].item.link.remote \in Remotes
  BY Views, OnIssues DEF Guard, At, Tidy, Ready, PhaseOf
<1>2. CASE End(s)
  BY <1>2, EndTidy
<1>3. ASSUME ~ End(s) PROVE Tidy(job'[s])
  <2> DEFINE item == [job[s].item EXCEPT !.copy = CopyOf(job[s].item.link.remote)]
  <2>1. Go(s, "update", item)
    BY <1>3 DEF Guard
  <2>2. /\ item \in ItemOf(Issues, Remotes) /\ item.on = job[s].item.on
        /\ item.link = job[s].item.link
    BY <1>1, Views DEF ItemOf
  <2> HIDE DEF item
  <2>3. /\ job'[s].pc = "update" /\ job'[s].item = item /\ job'[s].cmd = job[s].cmd
        /\ job'[s].note = job[s].note /\ job'[s].todo = job[s].todo
    BY <2>1, <2>2, GoIsTyped, Views DEF PC
  <2>4. QED
    BY <1>1, <2>2, <2>3, OnwardTidy
<1>4. QED
  BY <1>2, <1>3

LEMMA UpdateTidy ==
    ASSUME IInv, NEW s \in Session, Tidy(job[s]),
           NothingToUpdate(s) \/ UpdateRemote(s) \/ RemoteIsGone(s) \/ EditComment(s)
           \/ LinkRefused(s)
    PROVE  Tidy(job'[s])
<1>1. CASE End(s)
  BY <1>1, EndTidy
<1>2. ASSUME NothingToUpdate(s) PROVE Tidy(job'[s])
  <2>1. /\ job[s].pc = "update" /\ job[s].cmd.op = "push" /\ job[s].note = 0
        /\ Go(s, AfterUpdate(s), job[s].item)
    BY <1>2 DEF NothingToUpdate, At, Tidy, Ready
  <2>2. /\ job'[s].pc = AfterUpdate(s) /\ job'[s].item = job[s].item
        /\ job'[s].cmd = job[s].cmd /\ job'[s].note = job[s].note
        /\ job'[s].todo = job[s].todo /\ AfterUpdate(s) \in {"comment", "link"}
    BY <2>1, AfterUpdateIsPC, GoIsTyped, Views
  <2>3. QED
    BY <2>1, <2>2, OnwardTidy
<1>3. ASSUME UpdateRemote(s) PROVE Tidy(job'[s])
  <2> DEFINE new == Patched(s, remotes[job[s].item.copy.id])
             item == [job[s].item EXCEPT !.copy = [id |-> job[s].item.copy.id,
                          state |-> new.state, text |-> new.text, stamp |-> new.stamp]]
  <2>1. /\ job[s].pc = "update" /\ job[s].cmd.op = "push" /\ job[s].note = 0
        /\ Go(s, AfterUpdate(s), item)
    BY <1>3 DEF UpdateRemote, At, Tidy, Ready
  <2>2. new \in Remote
    <3>1. job[s].item.copy.id \in Remotes
      BY <2>1, OnIssues, Views DEF PhaseOf
    <3>2. QED
      BY <3>1, PatchedIsRemote, Views
  <2>3. /\ item \in ItemOf(Issues, Remotes) /\ item.on = job[s].item.on
        /\ item.link = job[s].item.link /\ item.copy.id = job[s].item.copy.id
    <3>1. job[s].item.copy.id \in Remotes \cup {0}
      BY OnIssues
    <3>2. /\ new.state \in State /\ new.text \in SUBSET Nat /\ new.stamp \in Nat
      BY <2>2 DEF Remote
    <3> HIDE DEF new
    <3>3. QED
      BY <3>1, <3>2, Views DEF ItemOf, CopyIn
  <2> HIDE DEF item
  <2>4. /\ job'[s].pc = AfterUpdate(s) /\ job'[s].item = item
        /\ job'[s].cmd = job[s].cmd /\ job'[s].note = job[s].note
        /\ job'[s].todo = job[s].todo /\ AfterUpdate(s) \in {"comment", "link"}
    BY <2>1, <2>3, AfterUpdateIsPC, GoIsTyped, Views
  <2>5. QED
    BY <2>1, <2>3, <2>4, OnwardTidy
<1>4. ASSUME EditComment(s) PROVE Tidy(job'[s])
  <2>1. /\ job[s].pc = "comment" /\ job[s].cmd.op = "push"
        /\ job[s].item.link.comment \in DOMAIN comments \cup {0}
    BY <1>4 DEF EditComment, At, Tidy, Ready, Cites
  <2>2. /\ job'[s].pc = "link" /\ job'[s].item = job[s].item /\ job'[s].cmd = job[s].cmd
        /\ job'[s].note = job[s].item.link.comment /\ job'[s].todo = job[s].todo
    BY <1>4, Views DEF EditComment, JobOf
  <2>3. QED
    BY <2>1, <2>2, OnwardTidy
<1>5. QED
  BY <1>1, <1>2, <1>3, <1>4 DEF RemoteIsGone, LinkRefused

(***************************************************************************)
(* What the writing steps change, as plain facts.                          *)
(***************************************************************************)
\* The fields of j that the counts below look at, as a next call leaves them.
Keeps(j, k) ==
    /\ k.cmd = j.cmd /\ k.todo = j.todo /\ k.item.on = j.item.on
    /\ k.item.link = j.item.link /\ k.item.copy.id = j.item.copy.id

\* A row is written back: where it came from stays.
LEMMA RowWriteIs ==
    ASSUME IInv, NEW s \in Session, Tidy(job[s]), Refresh(s) \/ ArchiveCreated(s)
    PROVE  /\ job[s].pc \in {"refresh", "archive"} /\ job'[s].pc = "link"
           /\ job'[s].item = job[s].item /\ job'[s].cmd = job[s].cmd
           /\ job'[s].todo = job[s].todo /\ job'[s].note = job[s].note
           /\ Issues' = Issues /\ \A l \in Issues : rows'[l].from = rows[l].from
           /\ UNCHANGED <<links, linear, counts>>
<1>1. /\ job[s].pc \in {"refresh", "archive"} /\ UNCHANGED <<links, linear, counts>>
      /\ Go(s, "link", job[s].item)
  BY DEF Refresh, ArchiveCreated, At
<1>2. /\ job'[s].pc = "link" /\ job'[s].item = job[s].item /\ job'[s].cmd = job[s].cmd
      /\ job'[s].todo = job[s].todo /\ job'[s].note = job[s].note
  BY <1>1, GoIsTyped, Views DEF PC
<1>3. /\ job[s].item.row.from = rows[job[s].item.on].from /\ job[s].item.on \in Issues
      /\ job[s].item.row \in Row
  BY <1>1, Views DEF Tidy, Rooted, Grounded, Holding, ItemOf
<1>4. PICK row : /\ rows' = [rows EXCEPT ![job[s].item.on] = row]
                 /\ row.from = job[s].item.row.from
  <2>1. Refreshed(job[s].item.row, job[s].item.copy, job[s].item.link.origin).from
          = job[s].item.row.from
    BY <1>3 DEF Refreshed, Row
  <2>2. [job[s].item.row EXCEPT !.archived = TRUE].from = job[s].item.row.from
    BY <1>3 DEF Row
  <2>3. QED
    BY <2>1, <2>2 DEF Refresh, ArchiveCreated
<1>5. Issues' = Issues /\ \A l \in Issues : rows'[l].from = rows[l].from
  BY <1>3, <1>4 DEF Issues
<1>6. QED
  BY <1>1, <1>2, <1>5

LEMMA CreateRowIs ==
    ASSUME IInv, NEW s \in Session, Tidy(job[s]), CreateRow(s)
    PROVE  \E l : /\ l \notin Issues /\ Issues' = Issues \cup {l} /\ l # 0
                  /\ rows'[l].from = job[s].item.copy.id
                  /\ links'[l].remote = 0 /\ links'[l].comment = 0
                  /\ \A i \in Issues : rows'[i] = rows[i] /\ links'[i] = links[i]
                  /\ job[s].pc = "create" /\ job'[s].pc \in {"archive", "link"}
                  /\ job'[s].item.on = l /\ job'[s].item.row.from = job[s].item.copy.id
                  /\ job'[s].item.copy = job[s].item.copy
                  /\ job'[s].item.link = job[s].item.link
                  /\ job'[s].cmd = job[s].cmd /\ job'[s].todo = job[s].todo
                  /\ job'[s].note = job[s].note
                  /\ job[s].item.copy.id \in Remotes
                  /\ UNCHANGED <<linear, counts>>
<1> DEFINE copy == job[s].item.copy
           l == Len(rows) + 1
           row == [spec |-> copy.id, status |-> ToCliban[copy.state], archived |-> FALSE,
                   plan |-> {}, from |-> copy.id]
           item == [job[s].item EXCEPT !.on = l, !.row = row]
           pc == IF IsCanceled(copy) THEN "archive" ELSE "link"
<1>1. /\ copy \in CopyIn(Remotes) /\ copy.id # 0 /\ copy.id \in Remotes
      /\ rows \in Seq(Row) /\ links \in Seq(Link) /\ Len(links) = Len(rows)
      /\ job[s].pc = "create" /\ copy.id \in Nat
  BY Views, OnIssues DEF ItemOf, PhaseOf, CreateRow, At, IInv, TypeOK
<1>2. row \in Row
  BY <1>1, BridgeConstants DEF Row, CopyIn
<1>3. NoLink \in Link
  BY NothingIsTyped DEF Link, LinkOf
<1>4. /\ rows' = Append(rows, row) /\ links' = Append(links, NoLink)
      /\ Go(s, pc, item) /\ UNCHANGED <<linear, counts>>
  BY DEF CreateRow
<1>5. /\ Issues = 1..Len(rows) /\ Issues' = 1..l /\ l \notin Issues /\ l # 0
      /\ Issues' = Issues \cup {l} /\ Issues \subseteq Issues' /\ l \in Issues'
  <2> HIDE DEF row
  <2>1. QED
    BY <1>1, <1>2, <1>4 DEF Issues
<1>6. Remotes' = Remotes
  BY <1>4 DEF linear, Remotes
<1>7. /\ job'[s].pc = pc /\ job'[s].item = item /\ job'[s].cmd = job[s].cmd
      /\ job'[s].todo = job[s].todo /\ job'[s].note = job[s].note
      /\ item.on = l /\ item.row = row /\ item.copy = copy /\ item.link = job[s].item.link
  <2>1. job \in [Session -> JobOf(Issues', Remotes')]
    BY <1>5, <1>6, Views, JobGrows
  <2>2. job[s].item \in ItemOf(Issues', Remotes')
    BY <1>5, <1>6, Views, ItemGrows
  <2>3. /\ item \in ItemOf(Issues', Remotes')
        /\ item.on = l /\ item.row = row /\ item.copy = copy /\ item.link = job[s].item.link
    <3> HIDE DEF row, l
    <3>1. QED
      BY <1>1, <1>2, <1>5, <2>2 DEF ItemOf
  <2>4. pc \in PC
    BY DEF PC
  <2> HIDE DEF item, pc
  <2>5. QED
    BY <1>4, <2>1, <2>3, <2>4, GoIsTyped
<1>8. row.from = copy.id
  OBVIOUS
<1> HIDE DEF row
<1>9. \A i \in Issues' : /\ rows'[i] = IF i = l THEN row ELSE rows[i]
                         /\ links'[i] = IF i = l THEN NoLink ELSE links[i]
  BY <1>1, <1>2, <1>3, <1>4, <1>5
<1> HIDE DEF l, item
<1>10. pc \in {"archive", "link"}
  OBVIOUS
<1> HIDE DEF pc, copy
<1>11. /\ rows'[l].from = copy.id /\ links'[l].remote = 0 /\ links'[l].comment = 0
       /\ \A i \in Issues : rows'[i] = rows[i] /\ links'[i] = links[i]
  BY <1>5, <1>8, <1>9, NothingIs
<1>12. /\ job'[s].pc \in {"archive", "link"} /\ job'[s].item.on = l
       /\ job'[s].item.row.from = copy.id /\ job'[s].item.copy = copy
       /\ job'[s].item.link = job[s].item.link
  BY <1>7, <1>8, <1>10
<1>13. QED
  BY <1>1, <1>4, <1>5, <1>7, <1>11, <1>12 DEF copy

LEMMA RecordLinkIs ==
    ASSUME IInv, Sources, NEW s \in Session, Tidy(job[s]), RecordLink(s)
    PROVE  \E l, r : /\ l = job[s].item.on /\ r = job[s].item.copy.id
                     /\ l \in Issues /\ r \in Remotes /\ ~ Taken(l, r)
                     /\ \A i \in Issues :
                            /\ links'[i].remote = IF i = l THEN r ELSE links[i].remote
                            /\ links'[i].comment = links[i].comment
                     /\ Issues' = Issues /\ job[s].pc = "link"
                     /\ \/ Follows(job[s], job'[s])
                        \/ job'[s] = Idle /\ ~ (Op(s) = "push" /\ job[s].note # 0)
                     /\ UNCHANGED <<rows, linear, counts>>
<1> DEFINE item == job[s].item
           l == item.on
           link == Upserted(links[l], item.copy, Origin(s))
<1>1. /\ \/ Follows(job[s], job'[s])
         \/ job'[s] = Idle /\ ~ (Op(s) = "push" /\ job[s].note # 0)
      /\ Issues' = Issues /\ job[s].pc = "link" /\ ~ Taken(l, item.copy.id)
      /\ UNCHANGED <<rows, linear, counts>>
  BY AfterLinkIs DEF RecordLink, Issues, At
<1>2. /\ item.copy \in CopyIn(Remotes) /\ item.link \in LinkOf(Remotes)
      /\ Origin(s) \in {"imported", "pushed"}
  BY Views DEF ItemOf, LinkOf, Origin
<1>3. links' = [links EXCEPT ![l] = link]
  BY DEF RecordLink
<1>4. l \in Issues /\ item.copy.id \in Remotes
  BY <1>1, OnIssues, Views DEF Holding, PhaseOf
<1>5. links[l] \in Link
  BY <1>4, Views DEF Link, LinkOf
<1>6. link \in Link /\ link.remote = item.copy.id
  BY <1>2, <1>5, UpsertedIsLink
<1>7. link.comment = links[l].comment
  BY <1>4, <1>5 DEF Upserted, Link, Sources, Linked
<1> HIDE DEF link
<1>8. \A i \in Issues : links'[i] = IF i = l THEN link ELSE links[i]
  BY <1>3, <1>6, ChangedLink
<1>9. QED
  BY <1>1, <1>4, <1>6, <1>7, <1>8

LEMMA SetCommentIs ==
    ASSUME IInv, NEW s \in Session, Tidy(job[s]), SetComment(s)
    PROVE  /\ job[s].item.on \in Issues /\ Issues' = Issues
           /\ \A i \in Issues :
                /\ links'[i].remote = links[i].remote
                /\ links'[i].comment = IF i = job[s].item.on THEN job[s].note
                                       ELSE links[i].comment
           /\ job[s].pc = "note" /\ job'[s] = Idle
           /\ UNCHANGED <<rows, linear, counts>>
<1> DEFINE l == job[s].item.on
           link == [links[l] EXCEPT !.comment = job[s].note]
<1>1. /\ links' = [links EXCEPT ![l] = link] /\ Issues' = Issues /\ job[s].pc = "note"
      /\ UNCHANGED <<rows, linear, counts>>
  BY DEF SetComment, Issues, At
<1>2. l \in Issues /\ job'[s] = Idle
  BY <1>1, EndIsTyped, Views DEF SetComment, Tidy, Ready
<1>3. links[l] \in Link /\ job[s].note \in Nat
  BY <1>2, Views DEF Link, LinkOf, JobOf
<1>4. link \in Link /\ link.remote = links[l].remote /\ link.comment = job[s].note
  BY <1>3 DEF Link
<1> HIDE DEF link
<1>5. \A i \in Issues : links'[i] = IF i = l THEN link ELSE links[i]
  BY <1>1, <1>4, ChangedLink
<1>6. QED
  BY <1>1, <1>2, <1>4, <1>5

LEMMA CreateRemoteIs ==
    ASSUME IInv, NEW s \in Session, Tidy(job[s]), CreateRemote(s)
    PROVE  \E r : /\ r \notin Remotes /\ Remotes' = Remotes \cup {r} /\ r # 0
                  /\ remotes'[r].by = job[s].item.on /\ ~ remotes'[r].gone
                  /\ \A q \in Remotes : remotes'[q] = remotes[q]
                  /\ job[s].pc = "createRemote" /\ job'[s].pc = "update"
                  /\ job'[s].item.on = job[s].item.on
                  /\ job'[s].item.link = job[s].item.link
                  /\ job'[s].item.copy.id = r
                  /\ job'[s].cmd = job[s].cmd /\ job'[s].todo = job[s].todo
                  /\ job'[s].note = job[s].note
                  /\ UNCHANGED <<board, comments, counts>>
<1> DEFINE r == Len(remotes) + 1
           new == [state |-> ToLinear[job[s].item.row.status], text |-> {}, stamp |-> 1,
                   gone |-> FALSE, touched |-> 0, last |-> 0, by |-> job[s].item.on]
           copy == [id |-> r, state |-> new.state, text |-> {}, stamp |-> 1]
           item == [job[s].item EXCEPT !.copy = copy]
<1>1. job[s].item \in ItemOf(Issues, Remotes) /\ Issues \subseteq Nat
  BY Views
<1>2. new \in Remote /\ new.state \in State
  <2>1. job[s].item.row.status \in Status /\ job[s].item.on \in Nat
    BY <1>1 DEF ItemOf, Row
  <2>2. QED
    BY <2>1, BridgeConstants DEF Remote
<1>3. /\ remotes' = Append(remotes, new) /\ Go(s, "update", item)
      /\ job[s].pc = "createRemote" /\ UNCHANGED <<board, comments, counts>>
  BY DEF CreateRemote, At
<1>4. new.by = job[s].item.on /\ new.gone = FALSE /\ copy.id = r
  OBVIOUS
<1>5. /\ Remotes = 1..Len(remotes) /\ Remotes' = 1..r /\ Remotes' = Remotes \cup {r}
      /\ r \notin Remotes /\ r # 0 /\ remotes'[r] = new /\ r \in Nat
      /\ \A q \in Remotes : remotes'[q] = remotes[q]
  <2>1. remotes \in Seq(Remote)
    BY DEF IInv, TypeOK
  <2> HIDE DEF new
  <2>2. QED
    BY <1>2, <1>3, <2>1 DEF Remotes
<1>6. /\ job'[s].pc = "update" /\ job'[s].item = item /\ job'[s].cmd = job[s].cmd
      /\ job'[s].todo = job[s].todo /\ job'[s].note = job[s].note
      /\ item.on = job[s].item.on /\ item.link = job[s].item.link /\ item.copy = copy
  <2>1. job \in [Session -> JobOf(Issues, Remotes')]
    BY <1>5, Views, JobGrows
  <2>2. job[s].item \in ItemOf(Issues, Remotes')
    BY <1>5, Views, ItemGrows
  <2>3. copy \in CopyIn(Remotes')
    <3> HIDE DEF r, new
    <3>1. QED
      BY <1>2, <1>5 DEF CopyIn
  <2> HIDE DEF copy
  <2>4. /\ item \in ItemOf(Issues, Remotes') /\ item.copy = copy
        /\ item.on = job[s].item.on /\ item.link = job[s].item.link
    BY <2>2, <2>3 DEF ItemOf
  <2> HIDE DEF item
  <2>5. QED
    BY <1>3, <2>1, <2>4, GoIsTyped DEF PC
<1> HIDE DEF r, new, copy, item
<1>7. QED
  BY <1>3, <1>4, <1>5, <1>6

LEMMA CreateCommentIs ==
    ASSUME IInv, NEW s \in Session, Tidy(job[s]), CreateComment(s)
    PROVE  \E c : /\ c \notin DOMAIN comments /\ DOMAIN comments' = DOMAIN comments \cup {c}
                  /\ c # 0 /\ comments'[c].for = job[s].item.on /\ comments'[c].live
                  /\ \A b \in DOMAIN comments : comments'[b] = comments[b]
                  /\ ~ CanEdit(job[s].item.link.comment)
                  /\ job[s].pc = "comment" /\ job'[s].pc = "link"
                  /\ job'[s].item = job[s].item /\ job'[s].cmd = job[s].cmd
                  /\ job'[s].todo = job[s].todo /\ job'[s].note = c
                  /\ UNCHANGED <<board, remotes, counts>>
<1> DEFINE c == Len(comments) + 1
           new == [on |-> job[s].item.copy.id, for |-> job[s].item.on, live |-> TRUE]
<1>1. comments \in Seq(Comment) /\ c \in Nat
  BY DEF IInv, TypeOK
<1>2. new \in Comment
  <2>1. job[s].item.on \in Issues \cup {0} /\ job[s].item.copy.id \in Nat
    BY Views DEF ItemOf
  <2>2. QED
    BY <2>1, Views DEF Comment
<1>3. /\ comments' = Append(comments, new) /\ ~ CanEdit(job[s].item.link.comment)
      /\ job[s].pc = "comment" /\ UNCHANGED <<board, remotes, counts>>
      /\ job' = [job EXCEPT ![s].pc = "link", ![s].note = c]
  BY DEF CreateComment, At
<1>4. new.for = job[s].item.on /\ new.live
  OBVIOUS
<1> HIDE DEF new
<1>5. /\ c \notin DOMAIN comments /\ DOMAIN comments' = DOMAIN comments \cup {c} /\ c # 0
      /\ comments'[c] = new /\ \A b \in DOMAIN comments : comments'[b] = comments[b]
  BY <1>1, <1>2, <1>3
<1> HIDE DEF c
<1>6. /\ job'[s].pc = "link" /\ job'[s].item = job[s].item /\ job'[s].cmd = job[s].cmd
      /\ job'[s].todo = job[s].todo /\ job'[s].note = c
  BY <1>3, Views DEF JobOf
<1>7. QED
  BY <1>3, <1>4, <1>5, <1>6

(***************************************************************************)
(* Order is kept.                                                          *)
(***************************************************************************)
\* Issues and comments of Linear may go, but none comes.
Dwindles ==
    /\ Remotes' = Remotes
    /\ \A r \in Remotes : /\ remotes'[r].by = remotes[r].by
                          /\ remotes[r].gone => remotes'[r].gone
    /\ DOMAIN comments' = DOMAIN comments
    /\ \A c \in DOMAIN comments : /\ comments'[c].for = comments[c].for
                                  /\ comments'[c].live => comments[c].live

\* What a step leaves of the board: neither pairings nor where rows come from change.
SamePairs ==
    /\ Issues' = Issues
    /\ \A l \in Issues : /\ rows'[l].from = rows[l].from
                         /\ links'[l].remote = links[l].remote
                         /\ links'[l].comment = links[l].comment

LEMMA NothingDwindles == UNCHANGED linear => Dwindles
BY DEF Dwindles, linear, Remotes

LEMMA SameBoard == UNCHANGED board => SamePairs
BY DEF SamePairs, board, Issues

LEMMA PlainGrows ==
    ASSUME SamePairs, Dwindles
    PROVE  Grows /\ (Sources => Sources')
<1>1. Grows
  BY DEF SamePairs, Dwindles, Grows, Linked
<1>2. Sources => Sources'
  BY DEF SamePairs, Dwindles, Sources, Linked
<1>3. QED
  BY <1>1, <1>2

LEMMA ChangedRemote ==
    ASSUME IInv, NEW r \in Remotes, NEW new, remotes' = [remotes EXCEPT ![r] = new],
           new.by = remotes[r].by, new.gone = remotes[r].gone \/ new.gone = TRUE,
           comments' = comments
    PROVE  Dwindles
<1>1. /\ Remotes' = Remotes
      /\ \A q \in Remotes : remotes'[q] = IF q = r THEN new ELSE remotes[q]
  BY DEF Remotes
<1>2. QED
  BY <1>1 DEF Dwindles

LEMMA OthersArePlain ==
    ASSUME IInv, Others
    PROVE  SamePairs /\ Dwindles /\ job' = job /\ mishaps' = mishaps
<1>1. job' = job /\ mishaps' = mishaps
  BY DEF Others, Tick, MoveIssue, PersonWrites, PersonMoves, PersonChanges,
         PersonDeletesIssue, PersonDeletesComment, counts
<1>2. ASSUME NEW l \in Issues, Tick(l) PROVE SamePairs /\ Dwindles
  <2>1. rows' = [rows EXCEPT ![l].plan = @ \cup {edits + 1}]
    BY <1>2 DEF Tick
  <2>2. \A i \in Issues : rows'[i].from = rows[i].from
    BY <2>1, Views DEF IInv, TypeOK, Row, Issues
  <2>3. Issues' = Issues /\ links' = links /\ UNCHANGED linear
    BY <1>2, <2>1 DEF Tick, Issues
  <2>4. QED
    BY <2>2, <2>3, NothingDwindles DEF SamePairs
<1>3. ASSUME NEW l \in Issues, NEW st \in Status, MoveIssue(l, st) PROVE SamePairs /\ Dwindles
  <2>1. rows' = [rows EXCEPT ![l].status = st]
    BY <1>3 DEF MoveIssue
  <2>2. \A i \in Issues : rows'[i].from = rows[i].from
    BY <2>1, Views DEF IInv, TypeOK, Row, Issues
  <2>3. Issues' = Issues /\ links' = links /\ UNCHANGED linear
    BY <1>3, <2>1 DEF MoveIssue, Issues
  <2>4. QED
    BY <2>2, <2>3, NothingDwindles DEF SamePairs
<1>4. ASSUME NEW r \in Remotes, NEW new, PersonChanges(r, new), new \in Remote,
             new.by = remotes[r].by, new.gone = remotes[r].gone
      PROVE  SamePairs /\ Dwindles
  <2>1. Touched(new).by = new.by /\ Touched(new).gone = new.gone
    BY <1>4 DEF Touched, Remote
  <2>2. remotes' = [remotes EXCEPT ![r] = Touched(new)] /\ comments' = comments
        /\ UNCHANGED board
    BY <1>4 DEF PersonChanges
  <2>3. QED
    BY <1>4, <2>1, <2>2, ChangedRemote, SameBoard
<1>5. ASSUME NEW r \in Remotes, PersonWrites(r) PROVE SamePairs /\ Dwindles
  <2> DEFINE new == [remotes[r] EXCEPT !.text = remotes[r].text \cup {edits + 1}]
  <2>1. remotes[r] \in Remote /\ edits + 1 \in Nat
    BY Facts DEF IInv, TypeOK
  <2>2. new \in Remote /\ new.by = remotes[r].by /\ new.gone = remotes[r].gone
    BY <2>1 DEF Remote
  <2>3. PersonChanges(r, new)
    BY <1>5 DEF PersonWrites
  <2> HIDE DEF new
  <2>4. QED
    BY <1>4, <2>2, <2>3
<1>6. ASSUME NEW r \in Remotes, NEW st \in State, PersonMoves(r, st)
      PROVE  SamePairs /\ Dwindles
  <2> DEFINE new == [remotes[r] EXCEPT !.state = st]
  <2>1. remotes[r] \in Remote
    BY Facts
  <2>2. new \in Remote /\ new.by = remotes[r].by /\ new.gone = remotes[r].gone
    BY <2>1 DEF Remote
  <2>3. PersonChanges(r, new)
    BY <1>6 DEF PersonMoves
  <2> HIDE DEF new
  <2>4. QED
    BY <1>4, <2>2, <2>3
<1>7. ASSUME NEW r \in Remotes, PersonDeletesIssue(r) PROVE SamePairs /\ Dwindles
  <2> DEFINE new == [remotes[r] EXCEPT !.gone = TRUE]
             Left(c) == IF comments[c].on = r THEN [comments[c] EXCEPT !.live = FALSE]
                        ELSE comments[c]
  <2>1. new.by = remotes[r].by /\ new.gone = TRUE
    <3>1. remotes[r] \in Remote
      BY Facts
    <3>2. QED
      BY <3>1 DEF Remote
  <2>2. ASSUME NEW c \in DOMAIN comments
        PROVE  Left(c).for = comments[c].for /\ (Left(c).live => comments[c].live)
    <3>1. comments[c] \in Comment
      BY DEF IInv, TypeOK
    <3>2. CASE comments[c].on = r
      <4>1. /\ [comments[c] EXCEPT !.live = FALSE].for = comments[c].for
            /\ ~ [comments[c] EXCEPT !.live = FALSE].live
        BY <3>1 DEF Comment
      <4>2. QED
        BY <3>2, <4>1
    <3>3. CASE comments[c].on # r
      BY <3>3
    <3>4. QED
      BY <3>2, <3>3
  <2>3. /\ comments' = [c \in DOMAIN comments |-> Left(c)]
        /\ remotes' = [remotes EXCEPT ![r] = new] /\ UNCHANGED board
    BY <1>7 DEF PersonDeletesIssue
  <2> HIDE DEF new, Left
  <2>4. /\ DOMAIN comments' = DOMAIN comments
        /\ \A c \in DOMAIN comments : /\ comments'[c].for = comments[c].for
                                      /\ comments'[c].live => comments[c].live
    BY <2>2, <2>3
  <2>5. /\ Remotes' = Remotes
        /\ \A q \in Remotes : remotes'[q] = IF q = r THEN new ELSE remotes[q]
    BY <2>3 DEF Remotes
  <2>6. QED
    BY <2>1, <2>3, <2>4, <2>5, SameBoard DEF Dwindles
<1>8. ASSUME NEW d \in DOMAIN comments, PersonDeletesComment(d) PROVE SamePairs /\ Dwindles
  <2> DEFINE new == [comments[d] EXCEPT !.live = FALSE]
  <2>1. new.for = comments[d].for /\ ~ new.live
    <3>1. comments[d] \in Comment
      BY DEF IInv, TypeOK
    <3>2. QED
      BY <3>1 DEF Comment
  <2>2. comments' = [comments EXCEPT ![d] = new] /\ remotes' = remotes /\ UNCHANGED board
    BY <1>8 DEF PersonDeletesComment
  <2> HIDE DEF new
  <2>3. QED
    BY <2>1, <2>2, SameBoard DEF Dwindles, Remotes
<1>9. QED
  BY <1>1, <1>2, <1>3, <1>5, <1>6, <1>7, <1>8 DEF Others

LEMMA UpdateRemoteDwindles ==
    ASSUME IInv, NEW s \in Session, Tidy(job[s]), UpdateRemote(s)
    PROVE  Dwindles
<1>1. job[s].item.copy.id \in Remotes
  BY OnIssues, Views DEF UpdateRemote, At, PhaseOf
<1> DEFINE r == job[s].item.copy.id
           new == Patched(s, remotes[r])
<1>2. remotes[r] \in Remote
  BY <1>1, Facts
<1>3. new.by = remotes[r].by /\ new.gone = remotes[r].gone
  BY <1>2 DEF Patched, Remote
<1>4. remotes' = [remotes EXCEPT ![r] = new] /\ comments' = comments
  BY DEF UpdateRemote
<1> HIDE DEF new
<1>5. QED
  BY <1>1, <1>3, <1>4, ChangedRemote

\* The steps that change neither a pairing nor what there is.
PlainStep(s) ==
    \/ FetchIssue(s) \/ FetchMine(s) \/ NextItem(s) \/ NoMoreItems(s)
    \/ ResolveExisting(s) \/ ResolveAdopt(s) \/ ResolveCreate(s)
    \/ ArchiveCreated(s) \/ Refresh(s) \/ LinkRefused(s) \/ ReadLinks(s) \/ FetchLinked(s)
    \/ ReadIssue(s) \/ Guard(s) \/ NothingToUpdate(s) \/ UpdateRemote(s)
    \/ RemoteIsGone(s) \/ EditComment(s)

LEMMA PlainStepIs ==
    ASSUME IInv, Sources, NEW s \in Session, Tidy(job[s]), PlainStep(s)
    PROVE  SamePairs /\ Dwindles /\ Tidy(job'[s])
<1>1. CASE Refresh(s) \/ ArchiveCreated(s)
  <2>1. /\ job[s].pc \in {"refresh", "archive"} /\ job'[s].pc = "link"
        /\ job'[s].item = job[s].item /\ job'[s].cmd = job[s].cmd
        /\ job'[s].todo = job[s].todo /\ job'[s].note = job[s].note
        /\ Issues' = Issues /\ \A l \in Issues : rows'[l].from = rows[l].from
        /\ UNCHANGED <<links, linear>>
    BY <1>1, RowWriteIs
  <2>2. SamePairs /\ Dwindles
    BY <2>1, NothingDwindles DEF SamePairs
  <2>3. Tidy(job'[s])
    BY <2>1 DEF Tidy, Ready, Grounded, Rooted, Cites, Holding
  <2>4. QED
    BY <2>2, <2>3
<1>2. CASE UpdateRemote(s)
  BY <1>2, UpdateRemoteDwindles, UpdateTidy, SameBoard DEF UpdateRemote
<1>3. CASE FetchIssue(s) \/ FetchMine(s) \/ NextItem(s) \/ NoMoreItems(s)
  <2>1. UNCHANGED board /\ UNCHANGED linear
    BY <1>3 DEF FetchIssue, FetchMine, NextItem, NoMoreItems
  <2>2. QED
    BY <1>3, <2>1, SameBoard, NothingDwindles, FetchTidy, NextItemTidy
<1>4. CASE ResolveExisting(s) \/ ResolveAdopt(s) \/ ResolveCreate(s)
  <2>1. UNCHANGED board /\ UNCHANGED linear
    BY <1>4 DEF ResolveExisting, ResolveAdopt, ResolveCreate
  <2>2. QED
    BY <1>4, <2>1, SameBoard, NothingDwindles, ResolveTidy
<1>5. CASE LinkRefused(s) \/ ReadLinks(s) \/ FetchLinked(s)
  <2>1. UNCHANGED board /\ UNCHANGED linear
    BY <1>5 DEF LinkRefused, ReadLinks, FetchLinked
  <2>2. QED
    BY <1>5, <2>1, SameBoard, NothingDwindles, UpdateTidy, ReadLinksTidy, FetchLinkedTidy
<1>6. CASE ReadIssue(s) \/ Guard(s)
  <2>1. UNCHANGED board /\ UNCHANGED linear
    BY <1>6 DEF ReadIssue, Guard
  <2>2. QED
    BY <1>6, <2>1, SameBoard, NothingDwindles, ReadIssueTidy, GuardTidy
<1>7. CASE NothingToUpdate(s) \/ RemoteIsGone(s) \/ EditComment(s)
  <2>1. UNCHANGED board /\ UNCHANGED linear
    BY <1>7 DEF NothingToUpdate, RemoteIsGone, EditComment
  <2>2. QED
    BY <1>7, <2>1, SameBoard, NothingDwindles, UpdateTidy
<1>8. QED
  BY <1>1, <1>2, <1>3, <1>4, <1>5, <1>6, <1>7 DEF PlainStep

LEMMA StepsOfOne ==
    ASSUME NEW s \in Session, Import(s) \/ PushStep(s)
    PROVE  \/ PlainStep(s) \/ CreateRow(s) \/ RecordLink(s)
           \/ CreateRemote(s) \/ CreateComment(s) \/ SetComment(s)
BY DEF Import, PushStep, PlainStep

\* One session's job is in order again, and what the others keep only grew.
LEMMA OrderOfAll ==
    ASSUME IInv, Order, Grows, Sources', NEW s \in Session, Tidy(job[s])',
           \A t \in Session \ {s} : job'[t] = job[t]
    PROVE  Order'
<1>1. SUFFICES ASSUME NEW t \in Session PROVE Tidy(job[t])'
  BY DEF Order
<1>2. CASE t = s
  BY <1>2
<1>3. CASE t # s
  <2>1. PICK j : j = job[t]
    OBVIOUS
  <2>2. Tidy(j)'
    BY <2>1, TidyGrows, Facts DEF Order
  <2>3. job'[t] = j
    BY <1>3, <2>1
  <2>4. QED
    BY <2>2, <2>3
<1>4. QED
  BY <1>2, <1>3

LEMMA TidyThen ==
    ASSUME IInv, Grows, NEW s \in Session, Tidy(job'[s])
    PROVE  Tidy(job[s])'
<1>1. PICK k : k = job'[s]
  OBVIOUS
<1>2. Tidy(k)'
  BY <1>1, TidyGrows, Facts
<1>3. QED
  BY <1>1, <1>2

LEMMA PlainOrder ==
    ASSUME IInv, Order, NEW s \in Session, SamePairs, Dwindles, Tidy(job'[s]),
           \A t \in Session \ {s} : job'[t] = job[t]
    PROVE  Order'
BY PlainGrows, TidyThen, OrderOfAll DEF Order

LEMMA CreateRowOrder ==
    ASSUME IInv, Order, NEW s \in Session, CreateRow(s)
    PROVE  Order'
<1>1. Tidy(job[s]) /\ Sources
  BY DEF Order
<1>2. PICK l : /\ l \notin Issues /\ Issues' = Issues \cup {l} /\ l # 0
               /\ rows'[l].from = job[s].item.copy.id
               /\ links'[l].remote = 0 /\ links'[l].comment = 0
               /\ \A i \in Issues : rows'[i] = rows[i] /\ links'[i] = links[i]
               /\ job[s].pc = "create" /\ job'[s].pc \in {"archive", "link"}
               /\ job'[s].item.on = l /\ job'[s].item.row.from = job[s].item.copy.id
               /\ job'[s].item.copy = job[s].item.copy
               /\ job'[s].item.link = job[s].item.link
               /\ job'[s].cmd = job[s].cmd /\ job'[s].todo = job[s].todo
               /\ job'[s].note = job[s].note
               /\ job[s].item.copy.id \in Remotes
               /\ UNCHANGED <<linear, counts>>
  BY <1>1, CreateRowIs
<1>3. Remotes' = Remotes /\ remotes' = remotes /\ comments' = comments
  BY <1>2 DEF linear, Remotes
<1>4. Grows
  BY <1>2, <1>3 DEF Grows, Linked
<1>5. Sources'
  BY <1>1, <1>2, <1>3 DEF Sources, Linked
<1>6. Tidy(job[s])'
  <2>1. job[s].cmd.op \in {"import", "mine"} /\ job[s].note = 0 /\ job[s].item.link.remote = 0
    BY <1>1, <1>2 DEF Tidy, Ready, Grounded
  <2>2. Ready(job[s])'
    BY <1>1, <1>2, <2>1 DEF Tidy, Ready
  <2>3. PICK j : j = job[s]
    OBVIOUS
  <2>4. Tidy(j)'
    BY <1>1, <1>4, <2>3, TidyGrows, Facts
  <2>5. \A i \in j.todo : Read(i)'
    BY <2>4 DEF Tidy, Grounded
  <2>6. Grounded(job[s])'
    BY <1>2, <2>1, <2>3, <2>4, <2>5 DEF Tidy, Grounded, Read, Holding
  <2>7. Rooted(job[s])'
    BY <1>2, <2>1, <2>3, <2>4 DEF Tidy, Rooted
  <2>8. Cites(job[s])'
    BY <1>2, <2>1 DEF Cites
  <2>9. QED
    BY <2>2, <2>6, <2>7, <2>8 DEF Tidy
<1>7. QED
  BY <1>4, <1>5, <1>6, OrderOfAll, OwnJob DEF Import

LEMMA RecordLinkOrder ==
    ASSUME IInv, Order, NEW s \in Session, RecordLink(s)
    PROVE  Order'
<1>1. Tidy(job[s]) /\ Sources
  BY DEF Order
<1>2. PICK l, r : /\ l = job[s].item.on /\ r = job[s].item.copy.id
                  /\ l \in Issues /\ r \in Remotes /\ ~ Taken(l, r)
                  /\ \A i \in Issues :
                         /\ links'[i].remote = IF i = l THEN r ELSE links[i].remote
                         /\ links'[i].comment = links[i].comment
                  /\ Issues' = Issues /\ job[s].pc = "link"
                  /\ \/ Follows(job[s], job'[s])
                     \/ job'[s] = Idle /\ ~ (Op(s) = "push" /\ job[s].note # 0)
                  /\ UNCHANGED <<rows, linear, counts>>
  BY <1>1, RecordLinkIs
<1>3. Remotes' = Remotes /\ remotes' = remotes /\ comments' = comments /\ 0 \notin Remotes
  BY <1>2, Facts DEF linear, Remotes
<1>4. Grows
  BY <1>2, <1>3 DEF Grows, Linked
<1>5. Sources'
  BY <1>1, <1>2, <1>3 DEF Sources, Linked
<1>6. Tidy(job[s])'
  <2>1. CASE job'[s] = Idle
    BY <1>4, <2>1, IdleIsTidy, TidyThen
  <2>2. CASE Follows(job[s], job'[s])
    <3>1. PICK j : j = job[s]
      OBVIOUS
    <3>2. Tidy(j)' /\ j.pc = "link"
      BY <1>1, <1>2, <1>4, <3>1, TidyGrows, Facts
    <3>3. /\ job'[s].cmd = j.cmd /\ job'[s].todo = j.todo /\ job'[s].note = j.note
          /\ \/ /\ job'[s].pc = "note" /\ job'[s].item = j.item /\ j.cmd.op = "push"
                /\ j.note # 0
             \/ /\ job'[s].pc = "next" /\ job'[s].item = NoItem
                /\ j.cmd.op \in {"mine", "sync"}
      BY <2>2, <3>1 DEF Follows
    <3>4. j.item.on \in Issues' /\ links'[j.item.on].remote # 0
      BY <1>2, <1>3, <3>1
    <3>5. Ready(job[s])'
      BY <3>2, <3>3, <3>4 DEF Tidy, Ready, Linked
    <3>6. Read(job[s].item)' /\ \A i \in job'[s].todo : Read(i)'
      BY <3>2, <3>3, NothingIs DEF Tidy, Grounded, Read
    <3>7. Grounded(job[s])'
      BY <3>2, <3>3, <3>6 DEF Tidy, Grounded, Holding
    <3>8. Rooted(job[s])'
      BY <3>2, <3>3 DEF Tidy, Rooted, Holding
    <3>9. Cites(job[s])'
      BY <3>2, <3>3, NothingIs DEF Tidy, Cites
    <3>10. QED
      BY <3>5, <3>7, <3>8, <3>9 DEF Tidy
  <2>3. QED
    BY <1>2, <2>1, <2>2
<1>7. QED
  BY <1>4, <1>5, <1>6, OrderOfAll, OwnJob DEF Import

LEMMA LinearOrder ==
    ASSUME IInv, Order, NEW s \in Session, CreateRemote(s) \/ CreateComment(s) \/ SetComment(s)
    PROVE  Order'
<1>1. Tidy(job[s]) /\ Sources /\ \A t \in Session \ {s} : job'[t] = job[t]
  BY OwnJob DEF Order, PushStep
<1>2. ASSUME CreateRemote(s) PROVE Order'
  <2>1. PICK r : /\ r \notin Remotes /\ Remotes' = Remotes \cup {r} /\ r # 0
                 /\ remotes'[r].by = job[s].item.on /\ ~ remotes'[r].gone
                 /\ \A q \in Remotes : remotes'[q] = remotes[q]
                 /\ job[s].pc = "createRemote" /\ job'[s].pc = "update"
                 /\ job'[s].item.on = job[s].item.on
                 /\ job'[s].item.link = job[s].item.link
                 /\ job'[s].item.copy.id = r
                 /\ job'[s].cmd = job[s].cmd /\ job'[s].todo = job[s].todo
                 /\ job'[s].note = job[s].note
                 /\ UNCHANGED <<board, comments, counts>>
    BY <1>1, <1>2, CreateRemoteIs
  <2>2. /\ Issues' = Issues /\ rows' = rows /\ links' = links /\ comments' = comments
        /\ job[s].item.on \in Issues /\ job[s].cmd.op = "push" /\ job[s].note = 0
        /\ job[s].item.link.remote = 0
    BY <1>1, <2>1 DEF board, Issues, Tidy, Grounded, Holding, Ready
  <2>3. Grows /\ Sources'
    BY <1>1, <2>1, <2>2 DEF Grows, Sources, Linked
  <2>4. job'[s].item.copy.id # rows[job[s].item.on].from
    BY <1>1, <2>1, <2>2 DEF Sources
  <2>5. Tidy(job'[s])
    BY <1>1, <2>1, <2>2, <2>4 DEF Tidy, Ready, Grounded, Read, Rooted, Cites, Holding
  <2>6. QED
    BY <1>1, <2>3, <2>5, TidyThen, OrderOfAll
<1>3. ASSUME CreateComment(s) PROVE Order'
  <2>1. PICK c : /\ c \notin DOMAIN comments /\ DOMAIN comments' = DOMAIN comments \cup {c}
                 /\ c # 0 /\ comments'[c].for = job[s].item.on /\ comments'[c].live
                 /\ \A b \in DOMAIN comments : comments'[b] = comments[b]
                 /\ ~ CanEdit(job[s].item.link.comment)
                 /\ job[s].pc = "comment" /\ job'[s].pc = "link"
                 /\ job'[s].item = job[s].item /\ job'[s].cmd = job[s].cmd
                 /\ job'[s].todo = job[s].todo /\ job'[s].note = c
                 /\ UNCHANGED <<board, remotes, counts>>
    BY <1>1, <1>3, CreateCommentIs
  <2>2. /\ Issues' = Issues /\ rows' = rows /\ links' = links /\ Remotes' = Remotes
        /\ remotes' = remotes /\ job[s].cmd.op = "push" /\ job[s].item.on \in Issues
    BY <1>1, <2>1 DEF board, Issues, Remotes, Tidy, Ready, Grounded, Holding
  <2>3. Grows /\ Sources'
    <3>1. \A b \in DOMAIN comments' : comments'[b].for \in Issues
      BY <1>1, <2>1, <2>2 DEF Sources
    <3>2. QED
      BY <1>1, <2>1, <2>2, <3>1 DEF Grows, Sources, Linked
  <2>4. PICK j : j = job[s]
    OBVIOUS
  <2>5. Tidy(j)'
    BY <1>1, <2>3, <2>4, TidyGrows, Facts
  <2>6. Tidy(job[s])'
    BY <2>1, <2>2, <2>4, <2>5 DEF Tidy, Ready, Grounded, Rooted, Cites, Holding
  <2>7. QED
    BY <1>1, <2>3, <2>6, OrderOfAll
<1>4. ASSUME SetComment(s) PROVE Order'
  <2>1. /\ job[s].item.on \in Issues /\ Issues' = Issues
        /\ \A i \in Issues :
             /\ links'[i].remote = links[i].remote
             /\ links'[i].comment = IF i = job[s].item.on THEN job[s].note
                                    ELSE links[i].comment
        /\ job[s].pc = "note" /\ job'[s] = Idle
        /\ UNCHANGED <<rows, linear, counts>>
    BY <1>1, <1>4, SetCommentIs
  <2>2. Remotes' = Remotes /\ remotes' = remotes /\ comments' = comments
    BY <2>1 DEF linear, Remotes
  <2>3. Linked(job[s].item.on) /\ job[s].note \in DOMAIN comments \cup {0}
    BY <1>1, <2>1 DEF Tidy, Ready, Cites
  <2>4. Grows
    BY <2>1, <2>2 DEF Grows, Linked
  <2>5. Sources'
    BY <1>1, <2>1, <2>2, <2>3 DEF Sources, Linked
  <2>6. QED
    BY <1>1, <2>1, <2>4, <2>5, IdleIsTidy, TidyThen, OrderOfAll
<1>5. QED
  BY <1>2, <1>3, <1>4

LEMMA InitOrder ==
    ASSUME Init
    PROVE  Order
<1>1. /\ Issues = 1..FirstIssues /\ Remotes = 1..FirstRemotes /\ DOMAIN comments = {}
      /\ \A l \in Issues : links[l] = NoLink /\ rows[l].from = 0
      /\ \A r \in Remotes : remotes[r].by = 0
  <2>1. FirstIssues \in Nat /\ FirstRemotes \in Nat
    BY BridgeConstants
  <2>2. rows \in [1..FirstIssues -> [spec: {OnBoard}, status: Status, archived: {FALSE},
                                     plan: {{}}, from: {0}]]
    BY DEF Init
  <2>3. remotes \in [1..FirstRemotes -> [state: Open, text: {{}}, stamp: {1},
                        gone: {FALSE}, touched: {1}, last: {0}, by: {0}]]
    BY DEF Init
  <2>4. Issues = 1..FirstIssues /\ Remotes = 1..FirstRemotes
    BY <2>2, <2>3 DEF Issues, Remotes
  <2>5. ASSUME NEW l \in Issues PROVE rows[l].from = 0
    <3>1. rows[l] \in [spec: {OnBoard}, status: Status, archived: {FALSE}, plan: {{}},
                       from: {0}]
      BY <2>2, <2>4
    <3>2. QED
      BY <3>1
  <2>6. ASSUME NEW r \in Remotes PROVE remotes[r].by = 0
    <3>1. remotes[r] \in [state: Open, text: {{}}, stamp: {1}, gone: {FALSE},
                          touched: {1}, last: {0}, by: {0}]
      BY <2>3, <2>4
    <3>2. QED
      BY <3>1
  <2>7. DOMAIN comments = {} /\ \A l \in Issues : links[l] = NoLink
    BY DEF Init
  <2>8. QED
    BY <2>4, <2>5, <2>6, <2>7
<1>2. Sources
  BY <1>1, NothingIs DEF Sources, Linked
<1>3. \A s \in Session : job[s] = Idle
  BY DEF Init
<1>4. QED
  BY <1>2, <1>3, IdleIsTidy DEF Order

LEMMA OrderStep ==
    ASSUME IInv, Order, [Next]_vars
    PROVE  Order'
<1>1. ASSUME NEW s \in Session, NEW c \in Requests, Begin(s, c) PROVE Order'
  <2>1. SamePairs /\ Dwindles
    BY <1>1, SameBoard, NothingDwindles DEF Begin
  <2>2. \A t \in Session \ {s} : job'[t] = job[t]
    BY <1>1, Views DEF Begin
  <2>3. QED
    BY <1>1, <2>1, <2>2, BeginTidy, PlainOrder
<1>2. ASSUME NEW s \in Session, Abort(s) PROVE Order'
  <2>1. SamePairs /\ Dwindles
    BY <1>2, SameBoard, NothingDwindles DEF Abort
  <2>2. \A t \in Session \ {s} : job'[t] = job[t]
    BY <1>2, EndIsTyped, Views DEF Abort
  <2>3. QED
    BY <1>2, <2>1, <2>2, EndTidy, PlainOrder DEF Abort
<1>3. ASSUME NEW s \in Session, Import(s) \/ PushStep(s) PROVE Order'
  <2>1. Tidy(job[s]) /\ Sources /\ \A t \in Session \ {s} : job'[t] = job[t]
    BY <1>3, OwnJob DEF Order
  <2>2. CASE PlainStep(s)
    BY <2>1, <2>2, PlainStepIs, PlainOrder
  <2>3. QED
    BY <1>3, <2>2, StepsOfOne, CreateRowOrder, RecordLinkOrder, LinearOrder
<1>4. ASSUME SamePairs, Dwindles, job' = job PROVE Order'
  <2>1. Grows /\ Sources'
    BY <1>4, PlainGrows DEF Order
  <2>2. ASSUME NEW t \in Session PROVE Tidy(job[t])'
    BY <1>4, <2>1, TidyThen DEF Order
  <2>3. QED
    BY <2>1, <2>2 DEF Order
<1>5. CASE Others
  BY <1>4, <1>5, OthersArePlain
<1>6. CASE UNCHANGED vars
  <2>1. SamePairs /\ Dwindles /\ job' = job
    BY <1>6, SameBoard, NothingDwindles DEF vars
  <2>2. QED
    BY <1>4, <2>1
<1>7. QED
  BY <1>1, <1>2, <1>3, <1>5, <1>6 DEF Next

(***************************************************************************)
(* Counting.                                                               *)
(***************************************************************************)
LEMMA Fewer ==
    ASSUME NEW X, NEW D, NEW n \in Int, Within(X, D, n), NEW m \in Int, n <= m,
           NEW Y, Y \subseteq X, NEW E, E \subseteq D
    PROVE  Within(Y, E, m)
<1>1. /\ IsFiniteSet(X) /\ IsFiniteSet(D) /\ Cardinality(X) \in Nat /\ Cardinality(D) \in Nat
      /\ Cardinality(X) + Cardinality(D) <= n
  BY FS_CardinalityType DEF Within
<1>2. IsFiniteSet(Y) /\ Cardinality(Y) <= Cardinality(X) /\ Cardinality(Y) \in Nat
  BY <1>1, FS_Subset, FS_CardinalityType
<1>3. IsFiniteSet(E) /\ Cardinality(E) <= Cardinality(D) /\ Cardinality(E) \in Nat
  BY <1>1, FS_Subset, FS_CardinalityType
<1>4. QED
  BY <1>1, <1>2, <1>3 DEF Within

\* One more on the left, or on the right, costs one more.
LEMMA OneMore ==
    ASSUME NEW X, NEW D, NEW n \in Int, Within(X, D, n),
           NEW x, NEW Y, Y \subseteq X \cup {x}, NEW E, E \subseteq D
    PROVE  Within(Y, E, n + 1)
<1>1. Within(X \cup {x}, D, n + 1)
  <2>1. IsFiniteSet(X) /\ IsFiniteSet(D) /\ Cardinality(X) \in Nat /\ Cardinality(D) \in Nat
        /\ Cardinality(X) + Cardinality(D) <= n
    BY FS_CardinalityType DEF Within
  <2>2. IsFiniteSet(X \cup {x}) /\ Cardinality(X \cup {x}) <= Cardinality(X) + 1
        /\ Cardinality(X \cup {x}) \in Nat
    BY <2>1, FS_AddElement, FS_CardinalityType
  <2>3. QED
    BY <2>1, <2>2 DEF Within
<1>2. QED
  BY <1>1, Fewer

LEMMA Mirrored ==
    ASSUME NEW X, NEW D, NEW n \in Int, Within(X, D, n)
    PROVE  Within(D, X, n)
<1>1. IsFiniteSet(X) /\ IsFiniteSet(D) /\ Cardinality(X) \in Nat /\ Cardinality(D) \in Nat
  BY FS_CardinalityType DEF Within
<1>2. QED
  BY <1>1 DEF Within

LEMMA OneMoreRight ==
    ASSUME NEW X, NEW D, NEW n \in Int, Within(X, D, n),
           NEW d, NEW Y, Y \subseteq X, NEW E, E \subseteq D \cup {d}
    PROVE  Within(Y, E, n + 1)
<1>1. Within(E, Y, n + 1)
  BY Mirrored, OneMore
<1>2. QED
  BY <1>1, Mirrored

\* One less on the right, or on the left.
LEMMA Drop ==
    ASSUME NEW X, NEW D, NEW n \in Int, Within(X, D, n),
           NEW d \in D, NEW Y, Y \subseteq X, NEW E, E \subseteq D \ {d}
    PROVE  Within(Y, E, n - 1)
<1>1. Within(X, D \ {d}, n - 1)
  <2>1. IsFiniteSet(X) /\ IsFiniteSet(D) /\ Cardinality(X) \in Nat /\ Cardinality(D) \in Nat
        /\ Cardinality(X) + Cardinality(D) <= n
    BY FS_CardinalityType DEF Within
  <2>2. IsFiniteSet(D \ {d}) /\ Cardinality(D \ {d}) = Cardinality(D) - 1
    BY <2>1, FS_RemoveElement
  <2>3. QED
    BY <2>1, <2>2 DEF Within
<1>2. QED
  BY <1>1, Fewer

LEMMA DropLeft ==
    ASSUME NEW X, NEW D, NEW n \in Int, Within(X, D, n),
           NEW x \in X, NEW Y, Y \subseteq X \ {x}, NEW E, E \subseteq D
    PROVE  Within(Y, E, n - 1)
<1>1. Within(E, Y, n - 1)
  BY Mirrored, Drop
<1>2. QED
  BY <1>1, Mirrored

\* One goes from the right and one comes on the left, or the other way round.
LEMMA Swap ==
    ASSUME NEW X, NEW D, NEW n \in Int, Within(X, D, n), NEW Y, NEW E,
           \E x : Y \subseteq X \cup {x}, \E d \in D : E \subseteq D \ {d}
    PROVE  Within(Y, E, n)
<1>1. PICK m \in Int : m = n - 1
  OBVIOUS
<1>2. PICK d \in D : E \subseteq D \ {d}
  OBVIOUS
<1>3. PICK x : Y \subseteq X \cup {x}
  OBVIOUS
<1>4. Within(X, D \ {d}, m)
  BY <1>1, Drop
<1>5. Within(Y, E, m + 1)
  BY <1>1, <1>2, <1>3, <1>4, OneMore
<1>6. m + 1 = n
  BY <1>1
<1>7. QED
  BY <1>5, <1>6

\* A set is no larger than what it is made of: some, and what the members of D name.
LEMMA Named ==
    ASSUME NEW X, NEW D, NEW n \in Int, Within(X, D, n), NEW f,
           NEW S, S \subseteq X \cup {f[d] : d \in D}
    PROVE  Cardinality(S) <= n
<1> DEFINE T == {f[d] : d \in D}
           g == [d \in D |-> f[d]]
<1>1. /\ IsFiniteSet(X) /\ IsFiniteSet(D) /\ Cardinality(X) \in Nat /\ Cardinality(D) \in Nat
      /\ Cardinality(X) + Cardinality(D) <= n
  BY FS_CardinalityType DEF Within
<1>2. g \in Surjection(D, T)
  BY DEF Surjection
<1> HIDE DEF g, T
<1>3. IsFiniteSet(T) /\ Cardinality(T) <= Cardinality(D) /\ Cardinality(T) \in Nat
  BY <1>1, <1>2, FS_Surjection, FS_CardinalityType
<1>4. /\ IsFiniteSet(X \cup T) /\ Cardinality(X \cup T) <= Cardinality(X) + Cardinality(T)
      /\ Cardinality(X \cup T) \in Nat
  <2>1. IsFiniteSet(X \cap T) /\ Cardinality(X \cap T) \in Nat
    BY <1>1, FS_Intersection, FS_CardinalityType
  <2> DEFINE u == Cardinality(X \cup T)
             i == Cardinality(X \cap T)
  <2>2. IsFiniteSet(X \cup T) /\ u \in Nat
    BY <1>1, <1>3, FS_Union, FS_CardinalityType
  <2>3. u = Cardinality(X) + Cardinality(T) - i
    BY <1>1, <1>3, FS_Union
  <2>4. i \in Nat
    BY <2>1
  <2> HIDE DEF u, i
  <2>5. u <= Cardinality(X) + Cardinality(T)
    BY <1>1, <1>3, <2>2, <2>3, <2>4
  <2>6. QED
    BY <2>2, <2>5 DEF u
<1>5. S \subseteq X \cup T
  BY DEF T
<1>6. IsFiniteSet(S) /\ Cardinality(S) <= Cardinality(X \cup T) /\ Cardinality(S) \in Nat
  BY <1>4, <1>5, FS_Subset, FS_CardinalityType
<1>7. QED
  BY <1>1, <1>3, <1>4, <1>6

(***************************************************************************)
(* What each plain step makes of the job j of its session.                 *)
(***************************************************************************)
\* A command stays what it is until it ends.
LEMMA SameCommand ==
    ASSUME IInv, NEW s \in Session, PlainStep(s)
    PROVE  job'[s] = Idle \/ job'[s].cmd = job[s].cmd
<1>1. \A pc, item : Go(s, pc, item) => job'[s].cmd = job[s].cmd
  BY Views DEF Go, JobOf
<1>2. End(s) => job'[s] = Idle
  BY Views DEF End
<1>3. CASE FetchMine(s) \/ ReadLinks(s) \/ NextItem(s) \/ EditComment(s)
  BY <1>3, Views DEF FetchMine, ReadLinks, NextItem, EditComment, JobOf
<1>4. CASE FetchIssue(s) \/ NoMoreItems(s) \/ ResolveExisting(s) \/ ResolveAdopt(s)
           \/ ResolveCreate(s)
  BY <1>1, <1>2, <1>4 DEF FetchIssue, NoMoreItems, ResolveExisting, ResolveAdopt, ResolveCreate
<1>5. CASE ArchiveCreated(s) \/ Refresh(s) \/ LinkRefused(s) \/ FetchLinked(s)
           \/ ReadIssue(s)
  BY <1>1, <1>2, <1>5 DEF ArchiveCreated, Refresh, LinkRefused, FetchLinked, ReadIssue
<1>6. CASE Guard(s) \/ NothingToUpdate(s) \/ UpdateRemote(s) \/ RemoteIsGone(s)
  BY <1>1, <1>2, <1>6 DEF Guard, NothingToUpdate, UpdateRemote, RemoteIsGone
<1>7. QED
  BY <1>3, <1>4, <1>5, <1>6 DEF PlainStep

\* The steps of a push, but for those that write the board or create something.
PushOnly(s) ==
    ReadIssue(s) \/ Guard(s) \/ NothingToUpdate(s) \/ UpdateRemote(s) \/ RemoteIsGone(s)
    \/ EditComment(s)

LEMMA ReadIssueIs ==
    ASSUME IInv, NEW s \in Session, Tidy(job[s]), ReadIssue(s)
    PROVE  /\ job[s].pc = "read" /\ job[s].cmd.op = "push"
           /\ job[s].todo = {} /\ job[s].note = 0
           /\ \/ job'[s] = Idle
              \/ \E l \in Issues :
                   /\ job'[s].pc = IF Linked(l) THEN "guard" ELSE "createRemote"
                   /\ job'[s].item.on = l /\ job'[s].item.link = links[l]
                   /\ job'[s].item.copy.id = 0 /\ job'[s].cmd = job[s].cmd
                   /\ job'[s].todo = {} /\ job'[s].note = 0
<1>1. /\ job[s].pc = "read" /\ job[s].cmd.op = "push" /\ job[s].note = 0 /\ job[s].todo = {}
      /\ Push(s).on \in Issues
  BY Views DEF ReadIssue, At, Runs, Op, Tidy, Ready, Push, JobOf, RequestsOf, NoCommand
<1>2. CASE End(s)
  BY <1>1, <1>2, EndIsTyped, Views
<1>3. CASE ~ End(s)
  <2> DEFINE l == Push(s).on
             item == [NoItem EXCEPT !.on = l, !.row = rows[l], !.link = links[l]]
             pc == IF Linked(l) THEN "guard" ELSE "createRemote"
  <2>1. Go(s, pc, item) /\ pc \in PC
    BY <1>3 DEF ReadIssue, PC
  <2>2. /\ item \in ItemOf(Issues, Remotes) /\ item.on = l /\ item.link = links[l]
        /\ item.copy = NoCopy
    BY <1>1, Views, NothingIsTyped, NothingIs DEF ItemOf
  <2> HIDE DEF item
  <2>3. /\ job'[s].pc = pc /\ job'[s].item = item /\ job'[s].cmd = job[s].cmd
        /\ job'[s].note = job[s].note /\ job'[s].todo = job[s].todo
    BY <2>1, <2>2, GoIsTyped, Views
  <2>4. QED
    BY <1>1, <2>2, <2>3, NothingIs
<1>4. QED
  BY <1>2, <1>3

LEMMA GuardIs ==
    ASSUME IInv, NEW s \in Session, Tidy(job[s]), Guard(s)
    PROVE  /\ job[s].pc = "guard" /\ job[s].cmd.op = "push" /\ job[s].note = 0
           /\ job[s].item.link.remote # 0 /\ job[s].item.copy.id = 0
           /\ job[s].item.on \in Issues /\ job[s].todo = {}
           /\ \/ job'[s] = Idle
              \/ /\ job'[s].pc = "update" /\ job'[s].item.on = job[s].item.on
                 /\ job'[s].item.link = job[s].item.link
                 /\ job'[s].item.copy.id = job[s].item.link.remote
                 /\ job'[s].cmd = job[s].cmd /\ job'[s].note = 0 /\ job'[s].todo = {}
<1>1. /\ job[s].pc = "guard" /\ job[s].cmd.op = "push" /\ job[s].note = 0
      /\ job[s].item.link.remote # 0 /\ job[s].item.link.remote \in Remotes
      /\ job[s].item.copy.id = 0 /\ job[s].item.on \in Issues /\ job[s].todo = {}
  BY Views, OnIssues DEF Guard, At, Tidy, Ready, Grounded, Holding, PhaseOf
<1>2. CASE End(s)
  BY <1>1, <1>2, EndIsTyped, Views
<1>3. CASE ~ End(s)
  <2> DEFINE item == [job[s].item EXCEPT !.copy = CopyOf(job[s].item.link.remote)]
  <2>1. Go(s, "update", item)
    BY <1>3 DEF Guard
  <2>2. /\ item \in ItemOf(Issues, Remotes) /\ item.on = job[s].item.on
        /\ item.link = job[s].item.link /\ item.copy.id = job[s].item.link.remote
    BY <1>1, Views DEF ItemOf, CopyOf
  <2> HIDE DEF item
  <2>3. /\ job'[s].pc = "update" /\ job'[s].item = item /\ job'[s].cmd = job[s].cmd
        /\ job'[s].note = job[s].note /\ job'[s].todo = job[s].todo
    BY <2>1, <2>2, GoIsTyped, Views DEF PC
  <2>4. QED
    BY <1>1, <2>2, <2>3
<1>4. QED
  BY <1>2, <1>3

\* A push with its copy goes on, with its comment known where there is one.
LEMMA OnwardIs ==
    ASSUME IInv, NEW s \in Session, Tidy(job[s]),
           NothingToUpdate(s) \/ UpdateRemote(s) \/ EditComment(s)
    PROVE  /\ job[s].pc \in {"update", "comment"} /\ job'[s].pc \in {"comment", "link"}
           /\ job[s].cmd.op = "push" /\ Keeps(job[s], job'[s])
           /\ job'[s].note = 0 \/ job'[s].note = job[s].item.link.comment
<1>1. ASSUME NothingToUpdate(s)
      PROVE  /\ job[s].pc = "update" /\ job[s].cmd.op = "push" /\ job[s].note = 0
             /\ job'[s].pc \in {"comment", "link"} /\ job'[s].note = 0
             /\ Keeps(job[s], job'[s])
  <2>1. /\ job[s].pc = "update" /\ job[s].cmd.op = "push" /\ job[s].note = 0
        /\ Go(s, AfterUpdate(s), job[s].item)
    BY <1>1 DEF NothingToUpdate, At, Tidy, Ready
  <2>2. /\ job'[s].pc = AfterUpdate(s) /\ job'[s].item = job[s].item
        /\ job'[s].cmd = job[s].cmd /\ job'[s].note = job[s].note
        /\ job'[s].todo = job[s].todo /\ AfterUpdate(s) \in {"comment", "link"}
    BY <2>1, AfterUpdateIsPC, GoIsTyped, Views
  <2>3. QED
    BY <2>1, <2>2 DEF Keeps
<1>2. ASSUME UpdateRemote(s)
      PROVE  /\ job[s].pc = "update" /\ job[s].cmd.op = "push" /\ job[s].note = 0
             /\ job'[s].pc \in {"comment", "link"} /\ job'[s].note = 0
             /\ Keeps(job[s], job'[s])
  <2> DEFINE new == Patched(s, remotes[job[s].item.copy.id])
             item == [job[s].item EXCEPT !.copy = [id |-> job[s].item.copy.id,
                          state |-> new.state, text |-> new.text, stamp |-> new.stamp]]
  <2>1. /\ job[s].pc = "update" /\ job[s].cmd.op = "push" /\ job[s].note = 0
        /\ Go(s, AfterUpdate(s), item)
    BY <1>2 DEF UpdateRemote, At, Tidy, Ready
  <2>2. new \in Remote
    <3>1. job[s].item.copy.id \in Remotes
      BY <2>1, OnIssues, Views DEF PhaseOf
    <3>2. QED
      BY <3>1, PatchedIsRemote, Views
  <2>3. /\ item \in ItemOf(Issues, Remotes) /\ item.on = job[s].item.on
        /\ item.link = job[s].item.link /\ item.copy.id = job[s].item.copy.id
    <3>1. job[s].item.copy.id \in Remotes \cup {0}
      BY OnIssues
    <3>2. /\ new.state \in State /\ new.text \in SUBSET Nat /\ new.stamp \in Nat
      BY <2>2 DEF Remote
    <3> HIDE DEF new
    <3>3. QED
      BY <3>1, <3>2, Views DEF ItemOf, CopyIn
  <2> HIDE DEF item
  <2>4. /\ job'[s].pc = AfterUpdate(s) /\ job'[s].item = item
        /\ job'[s].cmd = job[s].cmd /\ job'[s].note = job[s].note
        /\ job'[s].todo = job[s].todo /\ AfterUpdate(s) \in {"comment", "link"}
    BY <2>1, <2>3, AfterUpdateIsPC, GoIsTyped, Views
  <2>5. QED
    BY <2>1, <2>3, <2>4 DEF Keeps
<1>3. ASSUME EditComment(s)
      PROVE  /\ job[s].pc = "comment" /\ job[s].cmd.op = "push" /\ job'[s].pc = "link"
             /\ job'[s].note = job[s].item.link.comment /\ Keeps(job[s], job'[s])
  <2>1. job[s].pc = "comment" /\ job[s].cmd.op = "push"
    BY <1>3 DEF EditComment, At, Tidy, Ready
  <2>2. /\ job'[s].pc = "link" /\ job'[s].item = job[s].item /\ job'[s].cmd = job[s].cmd
        /\ job'[s].note = job[s].item.link.comment /\ job'[s].todo = job[s].todo
    BY <1>3, Views DEF EditComment, JobOf
  <2>3. QED
    BY <2>1, <2>2 DEF Keeps
<1>4. QED
  BY <1>1, <1>2, <1>3

LEMMA RemoteIsGoneIs ==
    ASSUME IInv, NEW s \in Session, Tidy(job[s]), RemoteIsGone(s)
    PROVE  /\ job[s].pc \in {"update", "comment"} /\ job[s].cmd.op = "push"
           /\ remotes[job[s].item.copy.id].gone /\ job'[s] = Idle
BY EndIsTyped, Views DEF RemoteIsGone, At, Tidy, Ready

LEMMA LinkRefusedIs ==
    ASSUME IInv, NEW s \in Session, Tidy(job[s]), LinkRefused(s)
    PROVE  /\ job[s].pc = "link" /\ Taken(job[s].item.on, job[s].item.copy.id)
           /\ job[s].item.copy.id # 0 /\ job[s].item.on \in Issues /\ job'[s] = Idle
BY EndIsTyped, Views DEF LinkRefused, At, PhaseOf, Tidy, Grounded, Holding

\* What a push holds it means to link to a remote issue that there is.
LEMMA TargetIs ==
    ASSUME IInv, NEW s \in Session, Tidy(job[s])
    PROVE  /\ job[s].pc \in Holding \ {"createRemote"} => Target(job[s].item) \in Remotes
           /\ job[s].pc = "createRemote" => Target(job[s].item) = 0
           /\ job[s].pc \in {"update", "comment", "link", "archive", "refresh"}
                  => Target(job[s].item) = job[s].item.copy.id
<1>1. /\ job[s].item.link.remote \in Remotes \cup {0}
      /\ job[s].item.copy.id \in Remotes \cup {0} /\ PhaseOf(job[s])
  BY OnIssues, Views
<1>2. QED
  BY <1>1 DEF Target, PhaseOf, Holding, Tidy, Grounded

\* Nobody else comes to have the remote of a link while pairings stay.
LEMMA SameTaken ==
    ASSUME SamePairs, NEW l, NEW r
    PROVE  Taken(l, r)' <=> Taken(l, r)
BY DEF SamePairs, Taken

\* Being underway costs as much as being active.
LEMMA Counting ==
    ASSUME IInv, [Next]_vars
    PROVE  mishaps \in Int /\ mishaps' \in Int /\ 0 <= mishaps /\ mishaps <= mishaps'
BY MishapsCount, NextIInv DEF IInv, TypeOK

(***************************************************************************)
(* The comments of l are paid for.                                         *)
(***************************************************************************)
LEMMA NothingPosted ==
    ASSUME NEW j, NEW l, j.cmd.op # "push" \/ j.pc = "idle"
    PROVE  ~ Posted(j, l) /\ ~ Doomed(j, l) /\ ~ Replaces(j, l)
BY DEF Posted, Doomed, Replaces

LEMMA DoomedAreActive ==
    ASSUME NEW l
    PROVE  DoomedPosts(l) \subseteq Active
BY DEF DoomedPosts, Doomed, Active

\* Every count of one moment follows from that of another that it does not exceed.
LEMMA CommentsNoMore ==
    ASSUME IInv, [Next]_vars, NEW l, CommentsPaid(l),
           LostComments(l)' \subseteq LostComments(l),
           DoomedPosts(l)' \subseteq DoomedPosts(l), Active' \subseteq Active,
           (links[l].comment \in Living(l) /\ \E s \in Session : Replaces(job[s], l))'
               => links[l].comment \in Living(l) /\ \E s \in Session : Replaces(job[s], l)
    PROVE  CommentsPaid(l)'
<1>1. /\ mishaps \in Int /\ mishaps' \in Int /\ mishaps <= mishaps'
      /\ mishaps + 1 \in Int /\ mishaps' + 1 \in Int /\ mishaps + 1 <= mishaps' + 1
  BY Counting
<1>2. Within(LostComments(l)', DoomedPosts(l)', mishaps')
  BY <1>1, Fewer DEF CommentsPaid
<1>3. Within(LostComments(l)', Active', mishaps' + 1)
  BY <1>1, Fewer DEF CommentsPaid
<1>4. Within(LostComments(l), Active, mishaps) => Within(LostComments(l)', Active', mishaps')
  BY <1>1, Fewer
<1>5. QED
  BY <1>2, <1>3, <1>4 DEF CommentsPaid, Within

\* The other sessions see what they saw.
CommentStep(s, l) ==
    /\ \A t \in Session \ {s} : job'[t] = job[t]
    /\ links'[l].comment = links[l].comment
    /\ Living(l)' \subseteq Living(l)
    /\ \A t \in Session \ {s} : Doomed(job[t], l)' => Doomed(job[t], l)

LEMMA CommentsQuiet ==
    ASSUME IInv, [Next]_vars, NEW l, CommentsPaid(l), NEW s \in Session, CommentStep(s, l),
           job'[s].pc # "idle" => job[s].pc # "idle",
           Posted(job[s], l) => Posted(job'[s], l) /\ job'[s].note = job[s].note,
           Doomed(job[s], l)' => Doomed(job[s], l),
           Replaces(job'[s], l) => Replaces(job[s], l)
    PROVE  CommentsPaid(l)'
<1>1. LostComments(l)' \subseteq LostComments(l)
  <2>1. SUFFICES ASSUME NEW c \in LostComments(l)' PROVE c \in LostComments(l)
    OBVIOUS
  <2>2. c \in Living(l) /\ c # links[l].comment
    BY <2>1 DEF LostComments, CommentStep
  <2>3. \A t \in Session : Posted(job'[t], l) => job'[t].note # c
    BY <2>1 DEF LostComments, Posted
  <2>4. ASSUME NEW t \in Session, Posted(job[t], l) PROVE job[t].note # c
    <3>1. CASE t = s
      BY <2>3, <2>4, <3>1
    <3>2. CASE t # s
      BY <2>3, <2>4, <3>2 DEF CommentStep
    <3>3. QED
      BY <3>1, <3>2
  <2>5. QED
    BY <2>2, <2>4 DEF LostComments
<1>2. DoomedPosts(l)' \subseteq DoomedPosts(l)
  BY DEF DoomedPosts, CommentStep
<1>3. Active' \subseteq Active
  BY DEF Active, CommentStep
<1>4. ASSUME (\E t \in Session : Replaces(job[t], l))'
      PROVE  \E t \in Session : Replaces(job[t], l)
  <2>1. PICK t \in Session : Replaces(job[t], l)'
    BY <1>4
  <2>2. Replaces(job'[t], l)
    BY <2>1 DEF Replaces, CommentStep
  <2>3. QED
    BY <2>2 DEF CommentStep
<1>5. (links[l].comment \in Living(l))' => links[l].comment \in Living(l)
  BY DEF CommentStep
<1>6. QED
  BY <1>1, <1>2, <1>3, <1>4, <1>5, CommentsNoMore

\* A command that ends leaves at most the comment it had posted: that costs its place.
LEMMA CommentsEnd ==
    ASSUME IInv, [Next]_vars, NEW l, CommentsPaid(l), NEW s \in Session, CommentStep(s, l),
           job[s].pc # "idle", job'[s] = Idle,
           Posted(job[s], l) => s \in DoomedPosts(l) \/ mishaps' = mishaps + 1
    PROVE  CommentsPaid(l)'
<1>1. CASE ~ Posted(job[s], l)
  <2>1. ~ Doomed(job'[s], l) /\ ~ Replaces(job'[s], l) /\ job'[s].pc = "idle"
    BY NothingPosted, NothingIs
  <2>2. ~ Doomed(job[s], l)'
    BY NothingIs DEF Doomed
  <2>3. QED
    BY <1>1, <2>1, <2>2, CommentsQuiet
<1>2. CASE Posted(job[s], l)
  <2> DEFINE c == job[s].note
  <2>1. LostComments(l)' \subseteq LostComments(l) \cup {c}
    BY DEF LostComments, CommentStep, Posted
  <2>2. DoomedPosts(l)' \subseteq DoomedPosts(l) \ {s}
    BY NothingIs DEF DoomedPosts, Doomed, CommentStep
  <2>9. s \in Active /\ Active' \subseteq Active \ {s}
    BY NothingIs DEF Active, CommentStep
  <2>3. /\ mishaps \in Int /\ mishaps' \in Int /\ mishaps <= mishaps'
        /\ mishaps + 1 \in Int /\ mishaps' + 1 \in Int /\ mishaps + 1 <= mishaps' + 1
    BY Counting
  <2> HIDE DEF c
  <2>10. \E x : LostComments(l)' \subseteq LostComments(l) \cup {x}
    BY <2>1
  <2>4. Within(LostComments(l)', DoomedPosts(l)', mishaps')
    <3>1. CASE s \in DoomedPosts(l)
      <4>0. Within(LostComments(l), DoomedPosts(l), mishaps)
        BY DEF CommentsPaid
      <4>1. Within(LostComments(l)', DoomedPosts(l)', mishaps)
        BY <2>2, <2>3, <2>10, <3>1, <4>0, Swap
      <4>2. QED
        BY <2>3, <4>1, Fewer
    <3>2. CASE mishaps' = mishaps + 1
      <4>1. Within(LostComments(l)', DoomedPosts(l)', mishaps + 1)
        BY <2>1, <2>2, <2>3, OneMore DEF CommentsPaid
      <4>2. QED
        BY <3>2, <4>1
    <3>3. QED
      BY <1>2, <3>1, <3>2
  <2>5. \A n \in Int : Within(LostComments(l), Active, n) => Within(LostComments(l)', Active', n)
    BY <2>9, <2>10, Swap
  <2>6. Within(LostComments(l)', Active', mishaps' + 1)
    <3>1. Within(LostComments(l)', Active', mishaps + 1)
      BY <2>3, <2>5 DEF CommentsPaid
    <3>2. QED
      BY <2>3, <3>1, Fewer
  <2>7. ASSUME (links[l].comment \in Living(l) /\ \E t \in Session : Replaces(job[t], l))'
        PROVE  Within(LostComments(l)', Active', mishaps')
    <3>1. links[l].comment \in Living(l)
      BY <2>7 DEF CommentStep
    <3>2. PICK t \in Session : Replaces(job[t], l)'
      BY <2>7
    <3>3. Replaces(job'[t], l)
      BY <3>2 DEF Replaces, CommentStep
    <3>4. t # s
      BY <3>3, NothingPosted, NothingIs
    <3>5. Within(LostComments(l), Active, mishaps)
      BY <3>1, <3>3, <3>4 DEF CommentStep, CommentsPaid
    <3>6. Within(LostComments(l)', Active', mishaps)
      BY <2>3, <2>5, <3>5
    <3>7. QED
      BY <2>3, <3>6, Fewer
  <2>8. QED
    BY <2>4, <2>6, <2>7 DEF CommentsPaid, Within
<1>3. QED
  BY <1>1, <1>2

LEMMA PlainCommentStep ==
    ASSUME NEW l \in Issues, NEW s \in Session, SamePairs, Dwindles,
           \A t \in Session \ {s} : job'[t] = job[t]
    PROVE  /\ CommentStep(s, l)
           /\ \A j : Doomed(j, l)' <=> Doomed(j, l)
           /\ Living(l)' \subseteq Living(l)
<1>1. Living(l)' \subseteq Living(l) /\ links'[l].comment = links[l].comment
  BY DEF Dwindles, SamePairs, Living
<1>2. \A r : Taken(l, r)' <=> Taken(l, r)
  BY SameTaken
<1>3. \A j : Doomed(j, l)' <=> Doomed(j, l)
  BY <1>2 DEF Doomed
<1>4. ASSUME NEW t \in Session \ {s} PROVE Doomed(job[t], l)' => Doomed(job[t], l)
  <2>1. PICK j : j = job[t]
    OBVIOUS
  <2>2. job'[t] = j
    BY <2>1
  <2>3. QED
    BY <1>3, <2>1, <2>2 DEF Doomed
<1>5. QED
  BY <1>1, <1>3, <1>4 DEF CommentStep

LEMMA CommentsPlain ==
    ASSUME IInv, Order, [Next]_vars, NEW l \in Issues, CommentsPaid(l),
           NEW s \in Session, PlainStep(s)
    PROVE  CommentsPaid(l)'
<1>1. Tidy(job[s]) /\ Sources
  BY DEF Order
<1>2. job[s].pc # "idle" /\ \A t \in Session \ {s} : job'[t] = job[t]
  BY OwnJob DEF PlainStep, Import, PushStep
<1>3. SamePairs /\ Dwindles
  BY <1>1, PlainStepIs
<1>4. CommentStep(s, l) /\ \A j : Doomed(j, l)' <=> Doomed(j, l)
  BY <1>2, <1>3, PlainCommentStep
<1>5. Doomed(job[s], l)' <=> Doomed(job'[s], l)
  <2>1. PICK k : k = job'[s]
    OBVIOUS
  <2>2. Doomed(k, l)' <=> Doomed(k, l)
    BY <1>4
  <2>3. QED
    BY <2>1, <2>2 DEF Doomed
<1>6. CASE job[s].cmd.op # "push"
  <2>1. job'[s].pc = "idle" \/ job'[s].cmd.op # "push"
    BY <1>6, SameCommand, NothingIs
  <2>2. /\ ~ Posted(job[s], l) /\ ~ Doomed(job'[s], l) /\ ~ Replaces(job'[s], l)
    BY <1>6, <2>1, NothingPosted
  <2>3. QED
    BY <1>2, <1>4, <1>5, <2>2, CommentsQuiet
<1>7. CASE job'[s] = Idle /\ ~ LinkRefused(s) /\ job[s].pc # "link" /\ job[s].pc # "note"
  <2>1. ~ Posted(job[s], l)
    BY <1>7 DEF Posted
  <2>2. QED
    BY <1>2, <1>4, <1>7, <2>1, CommentsEnd
<1>8. ASSUME ReadIssue(s) PROVE CommentsPaid(l)'
  <2>1. /\ job[s].pc = "read" /\ job[s].cmd.op = "push"
        /\ \/ job'[s] = Idle
           \/ \E i \in Issues :
                /\ job'[s].pc = IF Linked(i) THEN "guard" ELSE "createRemote"
                /\ job'[s].item.on = i /\ job'[s].item.link = links[i]
                /\ job'[s].item.copy.id = 0
    BY <1>1, <1>8, ReadIssueIs
  <2>2. CASE job'[s] = Idle
    BY <1>7, <2>1, <2>2 DEF LinkRefused, At
  <2>3. ASSUME NEW i \in Issues,
               job'[s].pc = IF Linked(i) THEN "guard" ELSE "createRemote",
               job'[s].item.on = i, job'[s].item.link = links[i], job'[s].item.copy.id = 0
        PROVE  CommentsPaid(l)'
    <3>1. ~ Posted(job[s], l)
      BY <2>1 DEF Posted
    <3>2. ~ Replaces(job'[s], l)
      BY <2>3 DEF Replaces
    <3>3. ~ Doomed(job'[s], l)
      <4>1. Linked(i) => ~ Taken(i, links[i].remote)
        BY DEF IInv, OneLinkPerRemote, Taken, Linked
      <4>2. Target(job'[s].item) = links[i].remote
        BY <2>3 DEF Target
      <4>3. QED
        BY <2>3, <4>1, <4>2 DEF Doomed
    <3>4. QED
      BY <1>2, <1>4, <1>5, <3>1, <3>2, <3>3, CommentsQuiet
  <2>4. QED
    BY <2>1, <2>2, <2>3
<1>9. ASSUME Guard(s) PROVE CommentsPaid(l)'
  <2>1. /\ job[s].pc = "guard" /\ job[s].cmd.op = "push"
        /\ job[s].item.copy.id = 0
        /\ \/ job'[s] = Idle
           \/ /\ job'[s].pc = "update" /\ job'[s].item.on = job[s].item.on
              /\ job'[s].item.link = job[s].item.link
              /\ job'[s].item.copy.id = job[s].item.link.remote
              /\ job'[s].cmd = job[s].cmd
    BY <1>1, <1>9, GuardIs
  <2>2. CASE job'[s] = Idle
    BY <1>7, <2>1, <2>2 DEF LinkRefused, At
  <2>3. CASE /\ job'[s].pc = "update" /\ job'[s].item.on = job[s].item.on
             /\ job'[s].item.link = job[s].item.link
             /\ job'[s].item.copy.id = job[s].item.link.remote
             /\ job'[s].cmd = job[s].cmd
    <3>1. ~ Posted(job[s], l)
      BY <2>1 DEF Posted
    <3>2. Replaces(job'[s], l) => Replaces(job[s], l)
      BY <2>1, <2>3 DEF Replaces
    <3>3. Doomed(job'[s], l) => Doomed(job[s], l)
      BY <2>1, <2>3 DEF Doomed, Target
    <3>4. QED
      BY <1>2, <1>4, <1>5, <3>1, <3>2, <3>3, CommentsQuiet
  <2>4. QED
    BY <2>1, <2>2, <2>3
<1>10. ASSUME NothingToUpdate(s) \/ UpdateRemote(s) \/ EditComment(s) PROVE CommentsPaid(l)'
  <2>1. /\ job[s].pc \in {"update", "comment"} /\ job'[s].pc \in {"comment", "link"}
        /\ job[s].cmd.op = "push" /\ Keeps(job[s], job'[s])
        /\ job'[s].note = 0 \/ job'[s].note = job[s].item.link.comment
    BY <1>1, <1>10, OnwardIs
  <2>2. ~ Posted(job[s], l)
    BY <2>1 DEF Posted
  <2>3. Replaces(job'[s], l) => Replaces(job[s], l)
    BY <2>1 DEF Replaces, Keeps
  <2>4. Doomed(job'[s], l) => Doomed(job[s], l)
    BY <2>1 DEF Doomed, Target, Keeps
  <2>5. QED
    BY <1>2, <1>4, <1>5, <2>2, <2>3, <2>4, CommentsQuiet
<1>11. ASSUME RemoteIsGone(s) PROVE CommentsPaid(l)'
  <2>1. job[s].pc \in {"update", "comment"} /\ job'[s] = Idle
    BY <1>1, <1>11, RemoteIsGoneIs
  <2>2. QED
    BY <1>7, <2>1 DEF LinkRefused, At
<1>12. ASSUME LinkRefused(s), job[s].cmd.op = "push" PROVE CommentsPaid(l)'
  <2>1. /\ job[s].pc = "link" /\ Taken(job[s].item.on, job[s].item.copy.id)
        /\ job[s].item.copy.id # 0 /\ job'[s] = Idle
    BY <1>1, <1>12, LinkRefusedIs
  <2>2. Posted(job[s], l) => s \in DoomedPosts(l)
    BY <1>12, <2>1 DEF Posted, DoomedPosts, Doomed, Target
  <2>3. QED
    BY <1>2, <1>4, <2>1, <2>2, CommentsEnd
<1>13. ASSUME job[s].cmd.op = "push" PROVE PushOnly(s) \/ LinkRefused(s)
  <2>1. /\ job[s].pc \notin {"fetch", "resolve", "create", "archive", "refresh", "next",
                             "fetchLinked"}
    BY <1>1, <1>13, Views DEF Tidy, Ready, PhaseOf
  <2>2. QED
    BY <1>13, <2>1 DEF PlainStep, PushOnly, FetchIssue, FetchMine, NextItem, NoMoreItems,
       ResolveExisting, ResolveAdopt, ResolveCreate, ArchiveCreated, Refresh, ReadLinks,
       FetchLinked, At, Runs, Op
<1>14. QED
  BY <1>6, <1>8, <1>9, <1>10, <1>11, <1>12, <1>13 DEF PushOnly

\* Commands that are underway at once, and failures, cost a mishap.
LEMMA BeginIs ==
    ASSUME IInv, NEW s \in Session, NEW c \in Requests, Begin(s, c)
    PROVE  /\ job[s].pc = "idle" /\ job'[s].pc \in {"fetch", "read"}
           /\ job'[s].todo = {} /\ job'[s].note = 0 /\ job'[s].item = NoItem
           /\ \A t \in Session \ {s} : job'[t] = job[t]
           /\ Active' = Active \cup {s} /\ Linking' = Linking \cup {s}
           /\ \/ mishaps' = mishaps + 1
              \/ mishaps' = mishaps /\ Active = {} /\ Linking = {}
           /\ UNCHANGED <<board, linear>>
<1>1. job'[s] = [Idle EXCEPT !.pc = IF c.op \in {"import", "mine"} THEN "fetch" ELSE "read",
                             !.cmd = c]
  BY Views DEF Begin
<1>2. PICK k : k = job'[s]
  OBVIOUS
<1>3. /\ k.pc = IF c.op \in {"import", "mine"} THEN "fetch" ELSE "read"
      /\ k.item = NoItem /\ k.note = 0 /\ k.todo = {} /\ k.cmd = c
  BY <1>1, <1>2 DEF Idle
<1>4. \A t \in Session \ {s} : job'[t] = job[t]
  BY Views DEF Begin
<1>5. job[s].pc = "idle" /\ UNCHANGED <<board, linear>>
  BY DEF Begin, At
<1>6. Active' = Active \cup {s} /\ Linking' = Linking \cup {s}
  BY <1>2, <1>3, <1>4 DEF Active, Linking
<1>7. mishaps' = mishaps + 1 \/ (mishaps' = mishaps /\ Active = {} /\ Linking = {})
  <2>1. mishaps \in Nat
    BY DEF IInv, TypeOK
  <2>2. CASE \A t \in Session : At(t, "idle")
    BY <2>1, <2>2 DEF Begin, Active, Linking, At
  <2>3. CASE ~ \A t \in Session : At(t, "idle")
    BY <2>3 DEF Begin
  <2>4. QED
    BY <2>2, <2>3
<1>8. QED
  BY <1>2, <1>3, <1>4, <1>5, <1>6, <1>7

LEMMA CommentsBegin ==
    ASSUME IInv, Order, [Next]_vars, NEW l \in Issues, CommentsPaid(l),
           NEW s \in Session, NEW c \in Requests, Begin(s, c)
    PROVE  CommentsPaid(l)'
<1>1. /\ job[s].pc = "idle" /\ job'[s].pc \in {"fetch", "read"}
      /\ \A t \in Session \ {s} : job'[t] = job[t]
      /\ Active' = Active \cup {s}
      /\ \/ mishaps' = mishaps + 1
         \/ mishaps' = mishaps /\ Active = {}
      /\ UNCHANGED <<board, linear>>
  BY BeginIs
<1>2. mishaps \in Int /\ mishaps + 1 \in Int /\ mishaps <= mishaps + 1
      /\ mishaps + 1 <= mishaps + 1 + 1
  BY Counting
<1>3. ~ Posted(job'[s], l) /\ ~ Doomed(job'[s], l) /\ ~ Replaces(job'[s], l)
      /\ ~ Posted(job[s], l) /\ ~ Doomed(job[s], l)'
  BY <1>1 DEF Posted, Doomed, Replaces
<1>4. LostComments(l)' = LostComments(l) /\ Living(l)' = Living(l)
      /\ links'[l].comment = links[l].comment
  BY <1>1, <1>3 DEF LostComments, Living, board, linear, Posted
<1>5. DoomedPosts(l)' \subseteq DoomedPosts(l)
  BY <1>1, <1>3 DEF DoomedPosts, Doomed, board, Taken, Issues
<1>6. CASE mishaps' = mishaps + 1
  <2>1. Within(LostComments(l)', DoomedPosts(l)', mishaps')
    BY <1>2, <1>4, <1>5, <1>6, Fewer DEF CommentsPaid
  <2>2. Within(LostComments(l)', Active', mishaps' + 1)
    <3>1. Within(LostComments(l)', Active', mishaps + 1 + 1)
      BY <1>1, <1>2, <1>4, OneMoreRight DEF CommentsPaid
    <3>2. QED
      BY <1>6, <3>1
  <2>3. ASSUME (links[l].comment \in Living(l) /\ \E t \in Session : Replaces(job[t], l))'
        PROVE  Within(LostComments(l)', Active', mishaps')
    <3>1. PICK t \in Session : Replaces(job[t], l)'
      BY <2>3
    <3>2. Replaces(job'[t], l) /\ links[l].comment \in Living(l)
      BY <1>4, <2>3, <3>1 DEF Replaces
    <3>3. t # s /\ Replaces(job[t], l)
      BY <1>1, <1>3, <3>2
    <3>4. Within(LostComments(l), Active, mishaps)
      BY <3>2, <3>3 DEF CommentsPaid
    <3>5. Within(LostComments(l)', Active', mishaps + 1)
      BY <1>1, <1>2, <1>4, <3>4, OneMoreRight
    <3>6. QED
      BY <1>6, <3>5
  <2>4. QED
    BY <2>1, <2>2, <2>3 DEF CommentsPaid, Within
<1>7. CASE mishaps' = mishaps /\ Active = {}
  <2>1. Within(LostComments(l)', DoomedPosts(l)', mishaps')
    BY <1>2, <1>4, <1>5, <1>7, Fewer DEF CommentsPaid
  <2>2. Within(LostComments(l), {}, mishaps)
    BY <1>2, Fewer DEF CommentsPaid
  <2>3. Within(LostComments(l)', Active', mishaps' + 1)
    <3>1. Within(LostComments(l)', Active', mishaps + 1)
      BY <1>1, <1>2, <1>4, <1>7, <2>2, OneMoreRight
    <3>2. QED
      BY <1>7, <3>1
  <2>4. ~ (\E t \in Session : Replaces(job[t], l))'
    <3>1. ASSUME NEW t \in Session PROVE ~ Replaces(job'[t], l)
      <4>1. CASE t = s
        BY <1>3, <4>1
      <4>2. CASE t # s
        <5>1. job'[t].pc = "idle"
          BY <1>1, <1>7, <4>2 DEF Active
        <5>2. QED
          BY <5>1, NothingPosted
      <4>3. QED
        BY <4>1, <4>2
    <3>2. QED
      BY <1>4, <3>1 DEF Replaces
  <2>5. QED
    BY <2>1, <2>3, <2>4 DEF CommentsPaid, Within
<1>8. QED
  BY <1>1, <1>6, <1>7

LEMMA AbortIs ==
    ASSUME IInv, NEW s \in Session, Abort(s)
    PROVE  /\ job[s].pc # "idle" /\ job'[s] = Idle /\ mishaps' = mishaps + 1
           /\ \A t \in Session \ {s} : job'[t] = job[t]
           /\ SamePairs /\ Dwindles /\ UNCHANGED <<board, linear>>
BY EndIsTyped, Views, SameBoard, NothingDwindles DEF Abort, At

LEMMA CommentsAbort ==
    ASSUME IInv, [Next]_vars, NEW l \in Issues, CommentsPaid(l), NEW s \in Session, Abort(s)
    PROVE  CommentsPaid(l)'
BY AbortIs, PlainCommentStep, CommentsEnd

LEMMA CommentsOthers ==
    ASSUME IInv, [Next]_vars, NEW l \in Issues, CommentsPaid(l),
           SamePairs, Dwindles, job' = job
    PROVE  CommentsPaid(l)'
<1>1. Living(l)' \subseteq Living(l) /\ links'[l].comment = links[l].comment
  BY DEF Dwindles, SamePairs, Living
<1>2. LostComments(l)' \subseteq LostComments(l)
  BY <1>1 DEF LostComments, Posted
<1>3. \A r : Taken(l, r)' <=> Taken(l, r)
  BY SameTaken
<1>4. DoomedPosts(l)' \subseteq DoomedPosts(l)
  BY <1>3 DEF DoomedPosts, Doomed
<1>5. Active' \subseteq Active
  BY DEF Active
<1>6. (links[l].comment \in Living(l) /\ \E s \in Session : Replaces(job[s], l))'
          => links[l].comment \in Living(l) /\ \E s \in Session : Replaces(job[s], l)
  BY <1>1 DEF Replaces
<1>7. QED
  BY <1>2, <1>4, <1>5, <1>6, CommentsNoMore

LEMMA NoneIsPaid ==
    ASSUME IInv
    PROVE  Within({}, {}, mishaps)
BY FS_EmptySet DEF Within, IInv, TypeOK

\* As many commands are underway as mishaps have paid for, and one.
LEMMA ActiveStep ==
    ASSUME IInv, [Next]_vars, Within({}, Active, mishaps + 1)
    PROVE  Within({}, Active, mishaps + 1)'
<1>1. /\ mishaps \in Int /\ mishaps' \in Int /\ mishaps <= mishaps'
      /\ mishaps + 1 \in Int /\ mishaps' + 1 \in Int /\ mishaps + 1 <= mishaps' + 1
  BY Counting
<1>2. ASSUME Active' \subseteq Active PROVE Within({}, Active', mishaps' + 1)
  BY <1>1, <1>2, Fewer
<1>3. ASSUME NEW s \in Session, NEW c \in Requests, Begin(s, c)
      PROVE  Within({}, Active', mishaps' + 1)
  <2>1. /\ Active' = Active \cup {s}
        /\ \/ mishaps' = mishaps + 1
           \/ mishaps' = mishaps /\ Active = {}
    BY <1>3, BeginIs
  <2>2. CASE mishaps' = mishaps + 1
    <3>1. Within({}, Active', (mishaps + 1) + 1)
      BY <1>1, <2>1, OneMoreRight
    <3>2. QED
      BY <2>2, <3>1
  <2>3. CASE mishaps' = mishaps /\ Active = {}
    <3>1. Within({}, Active', mishaps + 1)
      BY <1>1, <2>1, <2>3, NoneIsPaid, OneMoreRight
    <3>2. QED
      BY <2>3, <3>1
  <2>4. QED
    BY <2>1, <2>2, <2>3
<1>4. ASSUME NEW s \in Session, job[s].pc # "idle",
             \A t \in Session \ {s} : job'[t] = job[t]
      PROVE  Active' \subseteq Active
  BY <1>4 DEF Active
<1>5. ASSUME NEW s \in Session, Import(s) \/ PushStep(s) \/ Abort(s)
      PROVE  Active' \subseteq Active
  BY <1>4, <1>5, OwnJob, AbortIs
<1>6. CASE Others
  BY <1>2, <1>6, OthersArePlain DEF Active
<1>7. CASE UNCHANGED vars
  BY <1>2, <1>7 DEF Active, vars
<1>8. Within({}, Active', mishaps' + 1)
  BY <1>2, <1>3, <1>5, <1>6, <1>7 DEF Next
<1>9. QED
  BY <1>8 DEF Within

LEMMA CommentsCreateComment ==
    ASSUME IInv, Order, [Next]_vars, NEW l \in Issues, CommentsPaid(l),
           NEW s \in Session, CreateComment(s)
    PROVE  CommentsPaid(l)'
<1>1. Tidy(job[s]) /\ Sources /\ job[s].pc # "idle"
      /\ \A t \in Session \ {s} : job'[t] = job[t]
  BY OwnJob DEF Order, PushStep
<1>2. PICK c : /\ c \notin DOMAIN comments /\ DOMAIN comments' = DOMAIN comments \cup {c}
               /\ c # 0 /\ comments'[c].for = job[s].item.on /\ comments'[c].live
               /\ \A b \in DOMAIN comments : comments'[b] = comments[b]
               /\ ~ CanEdit(job[s].item.link.comment)
               /\ job[s].pc = "comment" /\ job'[s].pc = "link"
               /\ job'[s].item = job[s].item /\ job'[s].cmd = job[s].cmd
               /\ job'[s].todo = job[s].todo /\ job'[s].note = c
               /\ UNCHANGED <<board, remotes, counts>>
  BY <1>1, CreateCommentIs
<1>3. links' = links /\ Issues' = Issues
  BY <1>2 DEF board, Issues
<1>4. job[s].cmd.op = "push" /\ job[s].item.link.comment \in DOMAIN comments \cup {0}
      /\ links[l].comment \in DOMAIN comments \cup {0}
  BY <1>1, <1>2 DEF Tidy, Ready, Cites, Sources
<1>5. Living(l)' \subseteq Living(l) \cup {c} /\ (l # job[s].item.on => Living(l)' \subseteq Living(l))
  BY <1>2 DEF Living
<1>6. LostComments(l)' \subseteq LostComments(l)
  <2>1. SUFFICES ASSUME NEW b \in LostComments(l)' PROVE b \in LostComments(l)
    OBVIOUS
  <2>2. b \in Living(l)' /\ b # links[l].comment
    BY <1>3, <2>1 DEF LostComments
  <2>3. \A t \in Session : Posted(job'[t], l) => job'[t].note # b
    BY <2>1 DEF LostComments, Posted
  <2>4. b # c
    <3>1. CASE l = job[s].item.on
      <4>1. Posted(job'[s], l) /\ job'[s].note = c
        BY <1>2, <1>4, <3>1 DEF Posted
      <4>2. QED
        BY <2>3, <4>1
    <3>2. CASE l # job[s].item.on
      BY <1>2, <1>5, <2>2, <3>2 DEF Living
    <3>3. QED
      BY <3>1, <3>2
  <2>5. b \in Living(l)
    BY <1>5, <2>2, <2>4
  <2>6. ASSUME NEW t \in Session, Posted(job[t], l) PROVE job[t].note # b
    <3>1. t # s
      BY <1>2, <2>6 DEF Posted
    <3>2. QED
      BY <1>1, <2>3, <2>6, <3>1
  <2>7. QED
    BY <2>2, <2>5, <2>6 DEF LostComments
<1>7. DoomedPosts(l)' \subseteq DoomedPosts(l)
  <2>1. ASSUME NEW t \in Session, Doomed(job[t], l)' PROVE Doomed(job[t], l)
    <3>1. CASE t = s
      BY <1>2, <1>3, <2>1, <3>1 DEF Doomed, Taken, Issues
    <3>2. CASE t # s
      BY <1>1, <1>3, <2>1, <3>2 DEF Doomed, Taken, Issues
    <3>3. QED
      BY <3>1, <3>2
  <2>2. QED
    BY <2>1 DEF DoomedPosts
<1>8. Active' \subseteq Active
  BY <1>1 DEF Active
<1>9. ASSUME (links[l].comment \in Living(l) /\ \E t \in Session : Replaces(job[t], l))'
      PROVE  links[l].comment \in Living(l) /\ \E t \in Session : Replaces(job[t], l)
  <2>1. links[l].comment \in Living(l)
    BY <1>2, <1>3, <1>4, <1>5, <1>9, Facts DEF Living
  <2>2. PICK t \in Session : Replaces(job[t], l)'
    BY <1>9
  <2>3. Replaces(job'[t], l)
    BY <1>3, <2>2 DEF Replaces
  <2>4. CASE t # s
    BY <1>1, <2>1, <2>3, <2>4
  <2>5. CASE t = s
    <3>1. job[s].item.on = l
      BY <1>2, <2>3, <2>5 DEF Replaces
    <3>2. job[s].item.link.comment # links[l].comment
      <4>1. links[l].comment # 0 /\ comments[links[l].comment].live
        BY <2>1, Facts DEF Living
      <4>2. QED
        BY <1>2, <4>1 DEF CanEdit
    <3>3. Replaces(job[s], l)
      BY <1>2, <1>4, <3>1, <3>2 DEF Replaces
    <3>4. QED
      BY <2>1, <3>3
  <2>6. QED
    BY <2>4, <2>5
<1>10. QED
  BY <1>6, <1>7, <1>8, <1>9, CommentsNoMore

LEMMA CommentsRecordLink ==
    ASSUME IInv, Order, [Next]_vars, NEW l \in Issues, CommentsPaid(l),
           NEW s \in Session, RecordLink(s)
    PROVE  CommentsPaid(l)'
<1>1. Tidy(job[s]) /\ Sources /\ job[s].pc # "idle"
      /\ \A t \in Session \ {s} : job'[t] = job[t]
  BY OwnJob DEF Order, Import
<1>2. /\ links'[l].comment = links[l].comment /\ job[s].pc = "link"
      /\ \/ Follows(job[s], job'[s])
         \/ job'[s] = Idle /\ ~ (Op(s) = "push" /\ job[s].note # 0)
      /\ UNCHANGED <<rows, linear, counts>>
  BY <1>1, RecordLinkIs
<1>3. Living(l)' = Living(l)
  BY <1>2 DEF Living, linear
<1>4. Posted(job[s], l) => Posted(job'[s], l) /\ job'[s].note = job[s].note
  BY <1>2 DEF Posted, Follows, Op
<1>5. Replaces(job'[s], l) => Replaces(job[s], l)
  BY <1>2, NothingIs, NothingPosted DEF Replaces, Follows
<1>6. job'[s].pc \in {"idle", "next", "note"}
  BY <1>2, NothingIs DEF Follows
<1>7. LostComments(l)' \subseteq LostComments(l)
  <2>1. SUFFICES ASSUME NEW c \in LostComments(l)' PROVE c \in LostComments(l)
    OBVIOUS
  <2>2. c \in Living(l) /\ c # links[l].comment
    BY <1>2, <1>3, <2>1 DEF LostComments
  <2>3. \A t \in Session : Posted(job'[t], l) => job'[t].note # c
    BY <2>1 DEF LostComments, Posted
  <2>4. ASSUME NEW t \in Session, Posted(job[t], l) PROVE job[t].note # c
    <3>1. CASE t = s
      BY <1>4, <2>3, <2>4, <3>1
    <3>2. CASE t # s
      BY <1>1, <2>3, <2>4, <3>2
    <3>3. QED
      BY <3>1, <3>2
  <2>5. QED
    BY <2>2, <2>4 DEF LostComments
<1>8. DoomedPosts(l)' \subseteq Active \ {s} /\ s \in Active /\ Active' \subseteq Active
  BY <1>1, <1>6 DEF DoomedPosts, Doomed, Active
<1>9. /\ mishaps' = mishaps /\ mishaps \in Int /\ mishaps + 1 \in Int
      /\ mishaps + 1 <= mishaps + 1 /\ (mishaps + 1) - 1 = mishaps /\ mishaps <= mishaps
  BY <1>2, Counting DEF counts
<1>10. Within(LostComments(l)', DoomedPosts(l)', mishaps')
  <2>1. Within(LostComments(l)', DoomedPosts(l)', (mishaps + 1) - 1)
    BY <1>7, <1>8, <1>9, Drop DEF CommentsPaid
  <2>2. QED
    BY <1>9, <2>1
<1>11. Within(LostComments(l)', Active', mishaps' + 1)
  BY <1>7, <1>8, <1>9, Fewer DEF CommentsPaid
<1>12. ASSUME (links[l].comment \in Living(l) /\ \E t \in Session : Replaces(job[t], l))'
       PROVE  Within(LostComments(l)', Active', mishaps')
  <2>1. links[l].comment \in Living(l)
    BY <1>2, <1>3, <1>12
  <2>2. PICK t \in Session : Replaces(job[t], l)'
    BY <1>12
  <2>3. Replaces(job'[t], l)
    BY <1>2, <2>2 DEF Replaces
  <2>4. Replaces(job[t], l)
    BY <1>1, <1>5, <2>3
  <2>5. Within(LostComments(l), Active, mishaps)
    BY <2>1, <2>4 DEF CommentsPaid
  <2>6. QED
    BY <1>7, <1>8, <1>9, <2>5, Fewer
<1>13. QED
  BY <1>10, <1>11, <1>12 DEF CommentsPaid, Within

LEMMA CommentsSetComment ==
    ASSUME IInv, Order, [Next]_vars, NEW l \in Issues, CommentsPaid(l),
           NEW s \in Session, SetComment(s)
    PROVE  CommentsPaid(l)'
<1>1. Tidy(job[s]) /\ Sources /\ job[s].pc # "idle"
      /\ \A t \in Session \ {s} : job'[t] = job[t]
  BY OwnJob DEF Order, PushStep
<1>2. /\ job[s].item.on \in Issues /\ Issues' = Issues
      /\ \A i \in Issues :
           /\ links'[i].remote = links[i].remote
           /\ links'[i].comment = IF i = job[s].item.on THEN job[s].note
                                  ELSE links[i].comment
      /\ job[s].pc = "note" /\ job'[s] = Idle
      /\ UNCHANGED <<rows, linear, counts>>
  BY <1>1, SetCommentIs
<1>3. job[s].cmd.op = "push" /\ job[s].note # 0
  BY <1>1, <1>2 DEF Tidy, Ready
<1>4. Living(l)' = Living(l)
  BY <1>2 DEF Living, linear
<1>5. \A r : Taken(l, r)' <=> Taken(l, r)
  BY <1>2 DEF Taken
<1>6. \A t \in Session \ {s} : Doomed(job[t], l)' => Doomed(job[t], l)
  BY <1>1, <1>5 DEF Doomed
<1>7. ~ Doomed(job[s], l)' /\ ~ Replaces(job'[s], l) /\ ~ Posted(job'[s], l)
  BY <1>2, NothingIs DEF Doomed, Replaces, Posted
<1>8. CASE l # job[s].item.on
  <2>1. CommentStep(s, l)
    BY <1>1, <1>2, <1>4, <1>6, <1>8 DEF CommentStep
  <2>2. ~ Posted(job[s], l)
    BY <1>8 DEF Posted
  <2>3. QED
    BY <1>1, <1>7, <2>1, <2>2, CommentsQuiet
<1>9. CASE l = job[s].item.on
  <2> DEFINE c == links[l].comment
  <2>1. LostComments(l)' \subseteq LostComments(l) \cup (({c} \cap Living(l)) \ {job[s].note})
    <3>1. SUFFICES ASSUME NEW b \in LostComments(l)', b # c PROVE b \in LostComments(l)
      BY <1>2, <1>4, <1>9 DEF LostComments
    <3>2. b \in Living(l) /\ b # job[s].note
      BY <1>2, <1>4, <1>9, <3>1 DEF LostComments
    <3>3. \A t \in Session : Posted(job'[t], l) => job'[t].note # b
      BY <3>1 DEF LostComments, Posted
    <3>4. \A t \in Session : Posted(job[t], l) => job[t].note # b
      BY <1>1, <3>2, <3>3
    <3>5. QED
      BY <3>1, <3>2, <3>4 DEF LostComments
  <2>2. DoomedPosts(l)' \subseteq Active \ {s}
    <3>1. DoomedPosts(l)' \subseteq Active' /\ Active' \subseteq Active \ {s}
      BY <1>1, <1>2, NothingIs DEF DoomedPosts, Doomed, Active
    <3>2. QED
      BY <3>1
  <2>3. DoomedPosts(l)' \subseteq DoomedPosts(l)
    BY <1>6, <1>7 DEF DoomedPosts
  <2>4. s \in Active /\ Active' \subseteq Active \ {s}
    BY <1>1, <1>2, NothingIs DEF Active
  <2>5. /\ mishaps' = mishaps /\ mishaps \in Int /\ mishaps + 1 \in Int
        /\ mishaps <= mishaps + 1 /\ (mishaps + 1) - 1 = mishaps /\ mishaps <= mishaps
    BY <1>2, Counting DEF counts
  <2>6. CASE c \in Living(l) /\ c # job[s].note
    <3>1. Replaces(job[s], l)
      BY <1>2, <1>3, <1>9, <2>6 DEF Replaces
    <3>2. Within(LostComments(l), Active, mishaps)
      BY <2>6, <3>1 DEF CommentsPaid
    <3>3. \E x : LostComments(l)' \subseteq LostComments(l) \cup {x}
      BY <2>1
    <3>4. \E d \in Active : Active' \subseteq Active \ {d}
      BY <2>4
    <3>5. \E d \in Active : DoomedPosts(l)' \subseteq Active \ {d}
      BY <2>2, <2>4
    <3>6. Within(LostComments(l)', Active', mishaps)
      BY <2>5, <3>2, <3>3, <3>4, Swap
    <3>7. Within(LostComments(l)', DoomedPosts(l)', mishaps)
      BY <2>5, <3>2, <3>3, <3>5, Swap
    <3>8. Within(LostComments(l)', Active', mishaps + 1)
      BY <2>5, <3>6, Fewer
    <3>9. QED
      BY <2>5, <3>6, <3>7, <3>8 DEF CommentsPaid, Within
  <2>7. CASE c \notin Living(l) \/ c = job[s].note
    <3>1. LostComments(l)' \subseteq LostComments(l)
      BY <2>1, <2>7
    <3>2. Within(LostComments(l)', DoomedPosts(l)', mishaps)
      BY <2>3, <2>5, <3>1, Fewer DEF CommentsPaid
    <3>3. Within(LostComments(l)', Active', (mishaps + 1) - 1)
      BY <2>4, <2>5, <3>1, Drop DEF CommentsPaid
    <3>4. Within(LostComments(l)', Active', mishaps)
      BY <2>5, <3>3
    <3>5. Within(LostComments(l)', Active', mishaps + 1)
      BY <2>5, <3>4, Fewer
    <3>6. QED
      BY <2>5, <3>2, <3>4, <3>5 DEF CommentsPaid, Within
  <2>8. QED
    BY <2>6, <2>7
<1>10. QED
  BY <1>8, <1>9

LEMMA CommentsCreateRow ==
    ASSUME IInv, Order, [Next]_vars, Within({}, Active, mishaps + 1),
           CommentsArePaid, NEW s \in Session, CreateRow(s)
    PROVE  CommentsArePaid'
<1>1. Tidy(job[s]) /\ Sources /\ job[s].pc # "idle"
      /\ \A t \in Session \ {s} : job'[t] = job[t]
  BY OwnJob DEF Order, Import
<1>2. PICK n : /\ n \notin Issues /\ Issues' = Issues \cup {n} /\ n # 0
               /\ links'[n].remote = 0 /\ links'[n].comment = 0
               /\ \A i \in Issues : rows'[i] = rows[i] /\ links'[i] = links[i]
               /\ job[s].pc = "create" /\ job'[s].pc \in {"archive", "link"}
               /\ job'[s].item.on = n
               /\ job'[s].cmd = job[s].cmd
               /\ UNCHANGED <<linear, counts>>
  BY <1>1, CreateRowIs
<1>3. job[s].cmd.op # "push" /\ comments' = comments
  BY <1>1, <1>2 DEF Tidy, Ready, linear
<1>4. /\ ~ Posted(job[s], n) /\ ~ Doomed(job[s], n)' /\ ~ Replaces(job'[s], n)
      /\ \A l : ~ Posted(job[s], l) /\ ~ Doomed(job[s], l)' /\ ~ Replaces(job'[s], l)
  BY <1>2, <1>3 DEF Posted, Doomed, Replaces
<1>5. ASSUME NEW l \in Issues PROVE CommentsPaid(l)'
  <2>0. CommentsPaid(l)
    BY DEF CommentsArePaid
  <2>1. \A t \in Session \ {s} : Doomed(job[t], l)' => Doomed(job[t], l)
    <3>1. \A r \in Remotes : Taken(l, r)' => Taken(l, r)
      BY <1>2, Facts DEF Taken
    <3>2. ASSUME NEW t \in Session \ {s}, Doomed(job[t], l)' PROVE Doomed(job[t], l)
      <4>1. Target(job[t].item) \in Remotes
        <5>1. job[t].pc \in {"guard", "update", "comment", "link"} /\ Tidy(job[t])
          BY <1>1, <3>2 DEF Doomed, Order
        <5>2. QED
          BY <5>1, TargetIs DEF Holding
      <4>2. QED
        BY <1>1, <3>1, <3>2, <4>1 DEF Doomed
    <3>3. QED
      BY <3>2
  <2>2. CommentStep(s, l)
    BY <1>1, <1>2, <1>3, <2>1 DEF CommentStep, Living
  <2>3. QED
    BY <1>1, <1>4, <2>0, <2>2, CommentsQuiet
<1>6. CommentsPaid(n)'
  <2>1. Living(n)' = {} /\ LostComments(n)' = {}
    BY <1>1, <1>2, <1>3 DEF Living, LostComments, Sources
  <2>2. DoomedPosts(n)' = {}
    <3>1. ASSUME NEW t \in Session PROVE ~ Doomed(job[t], n)'
      <4>1. CASE t = s
        BY <1>4, <4>1
      <4>2. CASE t # s
        <5>1. job[t].pc \in Holding => job[t].item.on \in Issues
          BY DEF Order, Tidy, Grounded
        <5>2. QED
          BY <1>1, <1>2, <4>2, <5>1 DEF Doomed, Holding
      <4>3. QED
        BY <4>1, <4>2
    <3>2. QED
      BY <3>1 DEF DoomedPosts
  <2>3. Active' \subseteq Active
    BY <1>1 DEF Active
  <2>4. mishaps' = mishaps /\ mishaps + 1 \in Int /\ mishaps + 1 <= mishaps + 1
    BY <1>2, Counting DEF counts
  <2>5. Within(LostComments(n)', DoomedPosts(n)', mishaps')
    BY <2>1, <2>2, <2>4, NoneIsPaid
  <2>6. Within(LostComments(n)', Active', mishaps' + 1)
    BY <2>1, <2>3, <2>4, Fewer
  <2>7. (links[n].comment \notin Living(n))'
    BY <2>1
  <2>8. QED
    BY <2>5, <2>6, <2>7 DEF CommentsPaid, Within
<1>7. QED
  BY <1>2, <1>5, <1>6 DEF CommentsArePaid

LEMMA CommentsCreateRemote ==
    ASSUME IInv, Order, [Next]_vars, NEW l \in Issues, CommentsPaid(l),
           NEW s \in Session, CreateRemote(s)
    PROVE  CommentsPaid(l)'
<1>1. Tidy(job[s]) /\ Sources /\ job[s].pc # "idle"
      /\ \A t \in Session \ {s} : job'[t] = job[t]
  BY OwnJob DEF Order, PushStep
<1>2. PICK r : /\ r \notin Remotes /\ r # 0
               /\ job[s].pc = "createRemote" /\ job'[s].pc = "update"
               /\ job'[s].item.on = job[s].item.on
               /\ job'[s].item.link = job[s].item.link
               /\ job'[s].item.copy.id = r
               /\ job'[s].cmd = job[s].cmd
               /\ UNCHANGED <<board, comments, counts>>
  BY <1>1, CreateRemoteIs
<1>3. links' = links /\ Issues' = Issues
  BY <1>2 DEF board, Issues
<1>4. \A q : Taken(l, q)' <=> Taken(l, q)
  BY <1>3 DEF Taken
<1>5. CommentStep(s, l)
  BY <1>1, <1>2, <1>3, <1>4 DEF CommentStep, Living, Doomed
<1>6. ~ Doomed(job[s], l)'
  <2>1. ~ Taken(l, r)
    BY <1>2, Facts DEF Taken
  <2>2. QED
    BY <1>2, <1>4, <2>1 DEF Doomed, Target
<1>7. ~ Posted(job[s], l) /\ (Replaces(job'[s], l) => Replaces(job[s], l))
  BY <1>2 DEF Posted, Replaces
<1>8. QED
  BY <1>1, <1>5, <1>6, <1>7, CommentsQuiet

LEMMA CommentsPaidStep ==
    ASSUME IInv, Order, [Next]_vars, Within({}, Active, mishaps + 1),
           CommentsArePaid
    PROVE  CommentsArePaid'
<1>1. ASSUME SamePairs, \A l \in Issues : CommentsPaid(l)'
      PROVE  CommentsArePaid'
  BY <1>1 DEF SamePairs, CommentsArePaid
<1>2. ASSUME NEW s \in Session, NEW c \in Requests, Begin(s, c)
      PROVE  CommentsArePaid'
  BY <1>1, <1>2, CommentsBegin, BeginIs, SameBoard DEF CommentsArePaid
<1>3. ASSUME NEW s \in Session, Abort(s) PROVE CommentsArePaid'
  BY <1>1, <1>3, CommentsAbort, AbortIs DEF CommentsArePaid
<1>4. ASSUME NEW s \in Session, PlainStep(s) PROVE CommentsArePaid'
  <2>1. SamePairs
    BY <1>4, PlainStepIs DEF Order
  <2>2. QED
    BY <1>1, <1>4, <2>1, CommentsPlain DEF CommentsArePaid
<1>5. ASSUME NEW s \in Session,
             RecordLink(s) \/ SetComment(s) \/ CreateRemote(s) \/ CreateComment(s)
      PROVE  CommentsArePaid'
  <2>1. Issues' = Issues
    BY <1>5 DEF RecordLink, SetComment, CreateRemote, CreateComment, board, Issues
  <2>2. \A l \in Issues : CommentsPaid(l)'
    BY <1>5, CommentsRecordLink, CommentsSetComment, CommentsCreateRemote,
       CommentsCreateComment DEF CommentsArePaid
  <2>3. QED
    BY <2>1, <2>2 DEF CommentsArePaid
<1>6. CASE Others
  BY <1>1, <1>6, OthersArePlain, CommentsOthers DEF CommentsArePaid
<1>7. CASE UNCHANGED vars
  <2>1. SamePairs /\ Dwindles /\ job' = job
    BY <1>7, SameBoard, NothingDwindles DEF vars
  <2>2. QED
    BY <1>1, <2>1, CommentsOthers DEF CommentsArePaid
<1>8. ASSUME NEW s \in Session, Import(s) \/ PushStep(s)
      PROVE  CommentsArePaid'
  BY <1>4, <1>5, <1>8, StepsOfOne, CommentsCreateRow
<1>9. QED
  BY <1>2, <1>3, <1>6, <1>7, <1>8 DEF Next

\* What is paid for is one comment, and one for each mishap.
LEMMA CommentsCount ==
    ASSUME IInv, NEW l \in Issues, CommentsPaid(l)
    PROVE  Cardinality(Living(l)) <= 1 + mishaps
<1> DEFINE f == [s \in Session |-> job[s].note]
           c == links[l].comment
<1>1. mishaps \in Int /\ mishaps + 1 \in Int /\ mishaps + 1 = 1 + mishaps
  BY DEF IInv, TypeOK
<1>2. \A s \in Session : Posted(job[s], l) => s \in Active
  BY DEF Posted, Active
<1>3. \A b \in Living(l) : b \in LostComments(l) \/ b = c
          \/ \E s \in Session : Posted(job[s], l) /\ job[s].note = b
  BY DEF LostComments
<1>4. CASE \A s \in Session : Posted(job[s], l) => job[s].note = c
  <2>1. Living(l) \subseteq LostComments(l) \cup {c}
    BY <1>3, <1>4
  <2>2. Within(Living(l), {}, mishaps + 1)
    BY <1>1, <2>1, OneMore DEF CommentsPaid
  <2>3. Cardinality(Living(l)) <= mishaps + 1
    BY <1>1, <2>2, Named
  <2>4. QED
    BY <1>1, <2>3
<1>5. CASE c \notin Living(l)
  <2>1. Living(l) \subseteq LostComments(l) \cup {f[s] : s \in Active}
    BY <1>2, <1>3, <1>5 DEF Active
  <2> HIDE DEF f
  <2>2. Cardinality(Living(l)) <= mishaps + 1
    BY <1>1, <2>1, Named DEF CommentsPaid
  <2>3. QED
    BY <1>1, <2>2
<1>6. ASSUME NEW s \in Session, Posted(job[s], l), job[s].note # c, c \in Living(l)
      PROVE  Cardinality(Living(l)) <= 1 + mishaps
  <2>1. Replaces(job[s], l)
    BY <1>6 DEF Posted, Replaces
  <2>2. Within(LostComments(l), Active, mishaps)
    BY <1>6, <2>1 DEF CommentsPaid
  <2>3. Within(LostComments(l) \cup {c}, Active, mishaps + 1)
    BY <1>1, <2>2, OneMore
  <2>4. Living(l) \subseteq (LostComments(l) \cup {c}) \cup {f[t] : t \in Active}
    BY <1>2, <1>3 DEF Active
  <2> HIDE DEF f, c
  <2>5. Cardinality(Living(l)) <= mishaps + 1
    BY <1>1, <2>3, <2>4, Named
  <2>6. QED
    BY <1>1, <2>5
<1>7. QED
  BY <1>4, <1>5, <1>6

(***************************************************************************)
(* The plain steps of imports and syncs.                                   *)
(***************************************************************************)
LEMMA FetchIs ==
    ASSUME IInv, NEW s \in Session, Tidy(job[s]), FetchIssue(s) \/ FetchMine(s)
    PROVE  /\ job[s].pc = "fetch" /\ job[s].cmd.op \in {"import", "mine"} /\ job[s].todo = {}
           /\ \/ job'[s] = Idle
              \/ /\ job'[s].pc \in {"resolve", "next"} /\ job'[s].cmd = job[s].cmd
                 /\ job'[s].item.on = 0 /\ \A i \in job'[s].todo : i.on = 0
<1>1. ASSUME FetchIssue(s) PROVE /\ job[s].pc = "fetch" /\ job[s].cmd.op = "import"
                                 /\ job[s].todo = {}
                                 /\ \/ job'[s] = Idle
                                    \/ /\ job'[s].pc = "resolve" /\ job'[s].cmd = job[s].cmd
                                       /\ job'[s].item.on = 0 /\ job'[s].todo = {}
  <2> DEFINE item == [NoItem EXCEPT !.copy = CopyOf(job[s].cmd.remote)]
  <2>1. job[s].pc = "fetch" /\ job[s].cmd.op = "import" /\ job[s].todo = {}
    BY <1>1 DEF FetchIssue, At, Runs, Op, Tidy, Ready
  <2>2. CASE End(s)
    BY <2>1, <2>2, EndIsTyped, Views
  <2>3. CASE ~ End(s)
    <3>1. Go(s, "resolve", item)
      BY <1>1, <2>3 DEF FetchIssue
    <3>2. item \in ItemOf(Issues, Remotes)
      <4>1. job[s].cmd.remote \in Remotes
        BY <2>1, Views DEF JobOf, RequestsOf, NoCommand
      <4>2. QED
        BY <4>1, Views, NothingIsTyped DEF ItemOf, CopyOf
    <3>3. item.on = 0
      BY NothingIs DEF NoItem
    <3> HIDE DEF item
    <3>4. QED
      BY <2>1, <3>1, <3>2, <3>3, GoIsTyped, Views DEF PC
  <2>4. QED
    BY <2>2, <2>3
<1>2. ASSUME FetchMine(s) PROVE /\ job[s].pc = "fetch" /\ job[s].cmd.op = "mine"
                                /\ job[s].todo = {}
                                /\ job'[s].pc = "next" /\ job'[s].cmd = job[s].cmd
                                /\ job'[s].item.on = 0 /\ \A i \in job'[s].todo : i.on = 0
  <2>1. PICK A \in SUBSET Remotes :
          job' = [job EXCEPT ![s].pc = "next",
                             ![s].todo = {[NoItem EXCEPT !.copy = CopyOf(r)] : r \in A}]
    BY <1>2 DEF FetchMine
  <2>2. job[s].pc = "fetch" /\ job[s].cmd.op = "mine" /\ job[s].item = NoItem
        /\ job[s].todo = {}
    BY <1>2 DEF FetchMine, At, Runs, Op, Tidy, Ready
  <2> DEFINE T == {[NoItem EXCEPT !.copy = CopyOf(r)] : r \in A}
  <2>3. \A i \in T : i.on = 0
    BY DEF NoItem
  <2> HIDE DEF T
  <2>4. /\ job'[s].pc = "next" /\ job'[s].item = NoItem /\ job'[s].cmd = job[s].cmd
        /\ job'[s].todo = T
    BY <2>1, <2>2, Views DEF JobOf, T
  <2>5. QED
    BY <2>2, <2>3, <2>4, NothingIs
<1>3. QED
  BY <1>1, <1>2

LEMMA NextItemIs ==
    ASSUME IInv, NEW s \in Session, Tidy(job[s]), NextItem(s)
    PROVE  /\ job[s].pc = "next" /\ job[s].cmd.op \in {"mine", "sync"}
           /\ \E i \in job[s].todo :
                /\ job'[s].pc = IF Runs(s, "sync") THEN "fetchLinked" ELSE "resolve"
                /\ job'[s].item = i /\ job'[s].cmd = job[s].cmd
                /\ job'[s].todo = job[s].todo \ {i}
                /\ job[s].cmd.op = "mine" => i.on = 0
                /\ job[s].cmd.op = "sync" => i.link.remote # 0 /\ i.on \in Issues
<1>1. PICK i \in job[s].todo :
        job' = [job EXCEPT ![s].pc = IF Runs(s, "sync") THEN "fetchLinked" ELSE "resolve",
                           ![s].item = i, ![s].todo = job[s].todo \ {i}]
  BY DEF NextItem
<1>2. /\ job'[s].pc = IF Runs(s, "sync") THEN "fetchLinked" ELSE "resolve"
      /\ job'[s].item = i /\ job'[s].cmd = job[s].cmd
      /\ job'[s].todo = job[s].todo \ {i}
  BY <1>1, Views DEF JobOf
<1>3. job[s].pc = "next" /\ job[s].cmd.op \in {"mine", "sync"}
  BY DEF NextItem, At, Tidy, Ready
<1>4. /\ job[s].cmd.op = "mine" => i.on = 0
      /\ job[s].cmd.op = "sync" => i.link.remote # 0 /\ i.on \in Issues
  BY Views DEF PhaseOf, Tidy, Grounded, Read
<1>5. QED
  BY <1>2, <1>3, <1>4

LEMMA ResolveExistingIs ==
    ASSUME IInv, NEW s \in Session, Tidy(job[s]), ResolveExisting(s)
    PROVE  /\ job[s].pc = "resolve" /\ job[s].cmd.op \in {"import", "mine"}
           /\ job[s].item.copy.id # 0
           /\ \/ job'[s] = Idle /\ job[s].todo = {}
              \/ \E l \in Issues :
                   /\ links[l].remote = job[s].item.copy.id
                   /\ job'[s].pc = "refresh" /\ job'[s].item.on = l
                   /\ job'[s].item.link = links[l]
                   /\ job'[s].item.copy.id = job[s].item.copy.id
                   /\ job'[s].cmd = job[s].cmd /\ job'[s].todo = job[s].todo
<1>1. /\ job[s].pc = "resolve" /\ job[s].cmd.op \in {"import", "mine"}
      /\ job[s].item.copy.id # 0
  BY Views DEF ResolveExisting, At, Tidy, Ready, PhaseOf
<1>2. PICK l \in LinkedTo(job[s].item.copy.id) :
        IF LinkTo(s) \in {0, l}
        THEN Go(s, "refresh", [job[s].item EXCEPT !.on = l, !.row = rows[l], !.link = links[l]])
        ELSE End(s)
  BY DEF ResolveExisting
<1>3. CASE LinkTo(s) \notin {0, l}
  <2>1. job[s].cmd.op = "import"
    BY <1>3 DEF LinkTo, Runs, Op
  <2>2. job[s].todo = {}
    BY <2>1 DEF Tidy, Ready
  <2>3. QED
    BY <1>1, <1>2, <1>3, <2>2, EndIsTyped, Views
<1>4. CASE LinkTo(s) \in {0, l}
  <2> DEFINE item == [job[s].item EXCEPT !.on = l, !.row = rows[l], !.link = links[l]]
  <2>1. /\ item \in ItemOf(Issues, Remotes) /\ item.on = l
        /\ item.link = links[l] /\ item.copy = job[s].item.copy
        /\ l \in Issues /\ links[l].remote = job[s].item.copy.id
    BY Views DEF ItemOf, LinkedTo
  <2> HIDE DEF item
  <2>2. /\ job'[s].pc = "refresh" /\ job'[s].item = item /\ job'[s].cmd = job[s].cmd
        /\ job'[s].todo = job[s].todo
    BY <1>2, <1>4, <2>1, GoIsTyped, Views DEF PC, item
  <2>3. QED
    BY <1>1, <2>1, <2>2
<1>5. QED
  BY <1>3, <1>4

LEMMA ResolveAdoptIs ==
    ASSUME IInv, NEW s \in Session, Tidy(job[s]), ResolveAdopt(s)
    PROVE  /\ job[s].pc = "resolve" /\ job[s].cmd.op = "import" /\ job[s].todo = {}
           /\ job[s].item.copy.id # 0 /\ LinkedTo(job[s].item.copy.id) = {}
           /\ \E l \in Issues :
                /\ job'[s].pc = "refresh" /\ job'[s].item.on = l
                /\ job'[s].item.link.remote = 0
                /\ job'[s].item.copy.id = job[s].item.copy.id
                /\ job'[s].cmd = job[s].cmd /\ job'[s].todo = {}
                /\ mishaps' = mishaps + IF Linked(l) THEN 1 ELSE 0
<1>1. /\ job[s].pc = "resolve" /\ job[s].item.copy.id # 0
      /\ LinkedTo(job[s].item.copy.id) = {} /\ job[s].item.link.remote = 0
  BY Views DEF ResolveAdopt, At, Tidy, Grounded, PhaseOf
<1> DEFINE l == LinkTo(s)
           item == [job[s].item EXCEPT !.on = l, !.row = rows[l]]
<1>2. Go(s, "refresh", item) /\ mishaps' = mishaps + IF Linked(l) THEN 1 ELSE 0
  BY DEF ResolveAdopt
<1>3. job[s].cmd.op = "import" /\ l \in Issues
  <2>1. Runs(s, "import")
    BY DEF ResolveAdopt, LinkTo
  <2>2. QED
    BY <2>1, Views DEF ResolveAdopt, LinkTo, Runs, Op, JobOf, RequestsOf, NoCommand
<1>4. job[s].todo = {}
  BY <1>3 DEF Tidy, Ready
<1>5. /\ item \in ItemOf(Issues, Remotes) /\ item.on = l
      /\ item.link = job[s].item.link /\ item.copy = job[s].item.copy
  BY <1>3, Views DEF ItemOf
<1> HIDE DEF item, l
<1>6. /\ job'[s].pc = "refresh" /\ job'[s].item = item /\ job'[s].cmd = job[s].cmd
      /\ job'[s].todo = job[s].todo
  BY <1>2, <1>5, GoIsTyped, Views DEF PC
<1>7. QED
  BY <1>1, <1>2, <1>3, <1>4, <1>5, <1>6

LEMMA ResolveCreateIs ==
    ASSUME IInv, NEW s \in Session, Tidy(job[s]), ResolveCreate(s)
    PROVE  /\ job[s].pc = "resolve" /\ LinkedTo(job[s].item.copy.id) = {}
           /\ job'[s].pc = "create" /\ job'[s].item = job[s].item
           /\ job'[s].cmd = job[s].cmd /\ job'[s].todo = job[s].todo
BY GoIsTyped, Views DEF ResolveCreate, At, PC

LEMMA ReadLinksIs ==
    ASSUME IInv, NEW s \in Session, Tidy(job[s]), ReadLinks(s)
    PROVE  /\ job[s].pc = "read" /\ job[s].cmd.op = "sync" /\ job[s].todo = {}
           /\ job'[s].pc = "next" /\ job'[s].item = NoItem /\ job'[s].cmd = job[s].cmd
           /\ \A i \in job'[s].todo : /\ i.on \in Issues /\ Linked(i.on)
                                      /\ Target(i) = links[i.on].remote
<1> DEFINE T == {[on |-> l, row |-> rows[l], link |-> links[l], copy |-> NoCopy] :
                    l \in {i \in Issues : Linked(i)}}
<1>1. \A i \in T : /\ i.on \in Issues /\ i.link = links[i.on] /\ i.copy = NoCopy
                   /\ Linked(i.on)
  OBVIOUS
<1>2. job[s].pc = "read" /\ job[s].cmd.op = "sync" /\ job[s].item = NoItem /\ job[s].todo = {}
  BY DEF ReadLinks, At, Runs, Op, Tidy, Ready
<1>3. job' = [job EXCEPT ![s].pc = "next", ![s].todo = T]
  BY DEF ReadLinks
<1> HIDE DEF T
<1>4. /\ job'[s].pc = "next" /\ job'[s].item = NoItem /\ job'[s].cmd = job[s].cmd
      /\ job'[s].todo = T
  BY <1>2, <1>3, Views DEF JobOf
<1>5. QED
  BY <1>1, <1>2, <1>4, NothingIs DEF Target

LEMMA FetchLinkedIs ==
    ASSUME IInv, NEW s \in Session, Tidy(job[s]), FetchLinked(s)
    PROVE  /\ job[s].pc = "fetchLinked" /\ job[s].cmd.op = "sync"
           /\ job[s].item.link.remote # 0 /\ job[s].item.copy.id = 0
           /\ job[s].item.on \in Issues /\ Linked(job[s].item.on)
           /\ job'[s].cmd = job[s].cmd /\ job'[s].todo = job[s].todo
           /\ \/ job'[s].pc = "next" /\ job'[s].item = NoItem
              \/ /\ job'[s].pc = "refresh" /\ job'[s].item.on = job[s].item.on
                 /\ job'[s].item.link = job[s].item.link
                 /\ job'[s].item.copy.id = job[s].item.link.remote
<1>1. /\ job[s].pc = "fetchLinked" /\ job[s].cmd.op = "sync" /\ job[s].item.copy.id = 0
      /\ job[s].item.link.remote \in Remotes /\ job[s].item.link.remote # 0
      /\ job[s].item.on \in Issues /\ Linked(job[s].item.on)
  BY Views, OnIssues DEF FetchLinked, At, PhaseOf, Tidy, Grounded, Read
<1>2. CASE Go(s, "next", NoItem)
  BY <1>1, <1>2, GoIsTyped, NothingIsTyped, Views DEF PC
<1>3. CASE ~ Go(s, "next", NoItem)
  <2> DEFINE item == [job[s].item EXCEPT !.copy = CopyOf(job[s].item.link.remote)]
  <2>1. Go(s, "refresh", item)
    BY <1>3 DEF FetchLinked
  <2>2. /\ item \in ItemOf(Issues, Remotes) /\ item.on = job[s].item.on
        /\ item.link = job[s].item.link /\ item.copy.id = job[s].item.link.remote
    BY <1>1, Views DEF ItemOf, CopyOf
  <2> HIDE DEF item
  <2>3. /\ job'[s].pc = "refresh" /\ job'[s].item = item /\ job'[s].cmd = job[s].cmd
        /\ job'[s].todo = job[s].todo
    BY <2>1, <2>2, GoIsTyped, Views DEF PC
  <2>4. QED
    BY <1>1, <2>2, <2>3
<1>4. QED
  BY <1>2, <1>3

LEMMA NoMoreItemsIs ==
    ASSUME IInv, NEW s \in Session, NoMoreItems(s)
    PROVE  job[s].pc = "next" /\ job[s].todo = {} /\ job'[s] = Idle
BY EndIsTyped, Views DEF NoMoreItems, At

(***************************************************************************)
(* The remote issues created for l are paid for.                           *)
(***************************************************************************)
LEMMA NothingMade ==
    ASSUME NEW j, NEW l, j.cmd.op # "push" \/ j.pc \notin {"update", "comment", "link"}
    PROVE  ~ Making(j, l)
BY DEF Making

LEMMA NothingMoves ==
    ASSUME NEW j, NEW l, NEW r, j.pc \notin Holding \/ j.item.on # l,
           \A i \in j.todo : i.on # l
    PROVE  ~ Moves(j, l, r)
BY DEF Moves

LEMMA IdleMoves ==
    ASSUME NEW l, NEW r
    PROVE  ~ Moves(Idle, l, r) /\ ~ Making(Idle, l) /\ ~ Aims(Idle, l, r)
BY NothingIs DEF Moves, Making, Aims, Holding

LEMMA RemotesNoMore ==
    ASSUME IInv, [Next]_vars, NEW l, RemotesPaid(l),
           LostRemotes(l)' \subseteq LostRemotes(l),
           DoomedMakers(l)' \subseteq DoomedMakers(l), Linking' \subseteq Linking,
           (links[l].remote \in MadeFor(l) /\ ~ InHand(l, links[l].remote) /\ Moving(l))'
               => links[l].remote \in MadeFor(l) /\ ~ InHand(l, links[l].remote) /\ Moving(l)
    PROVE  RemotesPaid(l)'
<1>1. /\ mishaps \in Int /\ mishaps' \in Int /\ mishaps <= mishaps'
      /\ mishaps + 1 \in Int /\ mishaps' + 1 \in Int /\ mishaps + 1 <= mishaps' + 1
  BY Counting
<1>2. Within(LostRemotes(l)', DoomedMakers(l)', mishaps')
  BY <1>1, Fewer DEF RemotesPaid
<1>3. Within(LostRemotes(l)', Linking', mishaps' + 1)
  BY <1>1, Fewer DEF RemotesPaid
<1>4. Within(LostRemotes(l), Linking, mishaps) => Within(LostRemotes(l)', Linking', mishaps')
  BY <1>1, Fewer
<1>5. QED
  BY <1>2, <1>3, <1>4 DEF RemotesPaid, Within

\* The other sessions see what they saw.
MakerStep(s, l) ==
    /\ \A t \in Session \ {s} : job'[t] = job[t]
    /\ links'[l].remote = links[l].remote
    /\ MadeFor(l)' \subseteq MadeFor(l)
    /\ \A t \in Session \ {s} :
            Making(job[t], l) /\ Taken(l, job[t].item.copy.id)' => Taken(l, job[t].item.copy.id)

LEMMA RemotesOfOthers ==
    ASSUME NEW l, NEW s \in Session, MakerStep(s, l)
    PROVE  /\ \A r : InHand(l, r) => \/ InHand(l, r)'
                                     \/ Making(job[s], l) /\ job[s].item.copy.id = r
           /\ \A r : InHand(l, r)' => \/ InHand(l, r)
                                      \/ Making(job'[s], l) /\ job'[s].item.copy.id = r
           /\ DoomedMakers(l)' \ {s} \subseteq DoomedMakers(l)
           /\ Linking' \ {s} \subseteq Linking
           /\ Moving(l)' => \/ Moves(job'[s], l, links[l].remote)
                            \/ \E t \in Session \ {s} : Moves(job[t], l, links[l].remote)
<1>1. \A t \in Session : Making(job[t], l)' <=> Making(job'[t], l)
  BY DEF Making
<1>2. \A t \in Session : Moves(job[t], l, links[l].remote)' <=> Moves(job'[t], l, links[l].remote)
  BY DEF Moves, MakerStep
<1>3. \A r : InHand(l, r) => InHand(l, r)' \/ (Making(job[s], l) /\ job[s].item.copy.id = r)
  BY <1>1 DEF InHand, MakerStep
<1>4. \A r : InHand(l, r)' => InHand(l, r) \/ (Making(job'[s], l) /\ job'[s].item.copy.id = r)
  BY <1>1 DEF InHand, MakerStep
<1>5. DoomedMakers(l)' \ {s} \subseteq DoomedMakers(l)
  <2>1. SUFFICES ASSUME NEW t \in Session, t # s,
                        Making(job[t], l)' /\ Taken(l, job[t].item.copy.id)'
                 PROVE  Making(job[t], l) /\ Taken(l, job[t].item.copy.id)
    BY DEF DoomedMakers
  <2>2. Making(job'[t], l) /\ job'[t] = job[t]
    BY <1>1, <2>1 DEF MakerStep
  <2>3. PICK r : r = job[t].item.copy.id
    OBVIOUS
  <2>4. Taken(l, r)'
    BY <2>1, <2>2, <2>3
  <2>5. QED
    BY <2>1, <2>2, <2>3, <2>4 DEF MakerStep
<1>6. Linking' \ {s} \subseteq Linking
  BY DEF Linking, MakerStep
<1>7. Moving(l)' => \/ Moves(job'[s], l, links[l].remote)
                    \/ \E t \in Session \ {s} : Moves(job[t], l, links[l].remote)
  BY <1>2 DEF Moving, MakerStep
<1>8. QED
  BY <1>3, <1>4, <1>5, <1>6, <1>7

LEMMA RemotesQuiet ==
    ASSUME IInv, [Next]_vars, NEW l, RemotesPaid(l), NEW s \in Session, MakerStep(s, l),
           s \in Linking' => s \in Linking,
           Making(job[s], l) => \/ Making(job'[s], l) /\ job'[s].item.copy.id = job[s].item.copy.id
                                \/ job[s].item.copy.id \notin MadeFor(l)',
           s \in DoomedMakers(l)' => s \in DoomedMakers(l),
           Making(job'[s], l) => job'[s].item.copy.id = job[s].item.copy.id /\ Making(job[s], l),
           Moves(job'[s], l, links[l].remote) => Moves(job[s], l, links[l].remote)
    PROVE  RemotesPaid(l)'
<1>1. \A r \in MadeFor(l)' : InHand(l, r) => InHand(l, r)'
  <2>1. ASSUME Making(job'[s], l) PROVE \A r : r = job'[s].item.copy.id => InHand(l, r)'
    BY <2>1 DEF InHand, Making
  <2>2. QED
    BY <2>1, RemotesOfOthers
<1>2. LostRemotes(l)' \subseteq LostRemotes(l)
  BY <1>1 DEF LostRemotes, MakerStep
<1>3. DoomedMakers(l)' \subseteq DoomedMakers(l) /\ Linking' \subseteq Linking
  BY RemotesOfOthers
<1>4. Moving(l)' => Moving(l)
  BY RemotesOfOthers DEF Moving
<1>5. (links[l].remote \in MadeFor(l) /\ ~ InHand(l, links[l].remote))'
          => links[l].remote \in MadeFor(l) /\ ~ InHand(l, links[l].remote)
  <2>1. PICK r : r = links[l].remote
    OBVIOUS
  <2>2. r = links'[l].remote
    BY <2>1 DEF MakerStep
  <2>3. (r \in MadeFor(l) /\ ~ InHand(l, r))' => r \in MadeFor(l) /\ ~ InHand(l, r)
    BY <1>1 DEF MakerStep
  <2>4. QED
    BY <2>1, <2>2, <2>3
<1>6. QED
  BY <1>2, <1>3, <1>4, <1>5, RemotesNoMore

\* A command that ends leaves at most the remote issue it had made.
LEMMA RemotesEnd ==
    ASSUME IInv, [Next]_vars, NEW l, RemotesPaid(l), NEW s \in Session, MakerStep(s, l),
           job'[s] = Idle,
           Making(job[s], l) => s \in DoomedMakers(l) \/ mishaps' = mishaps + 1
    PROVE  RemotesPaid(l)'
<1>1. /\ s \notin Linking' /\ s \notin DoomedMakers(l)' /\ ~ Making(job'[s], l)
      /\ ~ Moves(job'[s], l, links[l].remote)
  BY NothingIs, IdleMoves DEF Linking, DoomedMakers, Making
<1>2. CASE ~ Making(job[s], l)
  BY <1>1, <1>2, RemotesQuiet
<1>3. CASE Making(job[s], l)
  <2> DEFINE r == job[s].item.copy.id
  <2>1. LostRemotes(l)' \subseteq LostRemotes(l) \cup ({r} \ {links[l].remote})
    <3>1. \A q : InHand(l, q) => InHand(l, q)' \/ q = r
      BY RemotesOfOthers
    <3>2. QED
      BY <3>1 DEF LostRemotes, MakerStep
  <2>2. s \in Linking /\ Linking' \subseteq Linking \ {s}
        /\ DoomedMakers(l)' \subseteq DoomedMakers(l) \ {s}
    BY <1>1, <1>3, RemotesOfOthers DEF Linking, Making
  <2>3. /\ mishaps \in Int /\ mishaps' \in Int /\ mishaps <= mishaps'
        /\ mishaps + 1 \in Int /\ mishaps' + 1 \in Int /\ mishaps + 1 <= mishaps' + 1
        /\ (mishaps + 1) - 1 = mishaps
    BY Counting
  <2>4. \E x : LostRemotes(l)' \subseteq LostRemotes(l) \cup {x}
    <3>1. LostRemotes(l)' \subseteq LostRemotes(l) \cup {r}
      BY <2>1
    <3>2. QED
      BY <3>1
  <2>5. \E d \in Linking : Linking' \subseteq Linking \ {d}
    BY <2>2
  <2>6. Within(LostRemotes(l)', DoomedMakers(l)', mishaps')
    <3>1. CASE s \in DoomedMakers(l)
      <4>1. \E d \in DoomedMakers(l) : DoomedMakers(l)' \subseteq DoomedMakers(l) \ {d}
        BY <2>2, <3>1
      <4>2. Within(LostRemotes(l)', DoomedMakers(l)', mishaps)
        BY <2>3, <2>4, <4>1, Swap DEF RemotesPaid
      <4>3. QED
        BY <2>3, <4>2, Fewer
    <3>2. CASE mishaps' = mishaps + 1
      <4>1. DoomedMakers(l)' \subseteq DoomedMakers(l)
        BY <2>2
      <4>2. PICK x : LostRemotes(l)' \subseteq LostRemotes(l) \cup {x}
        BY <2>4
      <4>3. Within(LostRemotes(l)', DoomedMakers(l)', mishaps + 1)
        BY <2>3, <4>1, <4>2, OneMore DEF RemotesPaid
      <4>4. QED
        BY <3>2, <4>3
    <3>3. QED
      BY <1>3, <3>1, <3>2
  <2>7. Within(LostRemotes(l)', Linking', mishaps' + 1)
    <3>1. Within(LostRemotes(l)', Linking', mishaps + 1)
      BY <2>3, <2>4, <2>5, Swap DEF RemotesPaid
    <3>2. QED
      BY <2>3, <3>1, Fewer
  <2>8. ASSUME (links[l].remote \in MadeFor(l) /\ ~ InHand(l, links[l].remote) /\ Moving(l))'
        PROVE  Within(LostRemotes(l)', Linking', mishaps')
    <3>1. CASE r = links[l].remote
      <4>1. LostRemotes(l)' \subseteq LostRemotes(l)
        BY <2>1, <3>1
      <4>2. Within(LostRemotes(l)', Linking', (mishaps + 1) - 1)
        BY <2>2, <2>3, <4>1, Drop DEF RemotesPaid
      <4>3. QED
        BY <2>3, <4>2, Fewer
    <3>2. CASE r # links[l].remote
      <4>1. PICK q : q = links[l].remote
        OBVIOUS
      <4>2. (q \in MadeFor(l) /\ ~ InHand(l, q) /\ Moving(l))'
        BY <2>8, <4>1 DEF MakerStep
      <4>3. q \in MadeFor(l) /\ ~ InHand(l, q) /\ Moving(l)
        BY <1>1, <3>2, <4>1, <4>2, RemotesOfOthers DEF MakerStep, Moving
      <4>4. Within(LostRemotes(l), Linking, mishaps)
        BY <4>1, <4>3 DEF RemotesPaid
      <4>5. Within(LostRemotes(l)', Linking', mishaps)
        BY <2>3, <2>4, <2>5, <4>4, Swap
      <4>6. QED
        BY <2>3, <4>5, Fewer
    <3>3. QED
      BY <3>1, <3>2
  <2>9. QED
    BY <2>6, <2>7, <2>8 DEF RemotesPaid, Within
<1>4. QED
  BY <1>2, <1>3

LEMMA PlainMakerStep ==
    ASSUME NEW l \in Issues, NEW s \in Session, SamePairs, Dwindles,
           \A t \in Session \ {s} : job'[t] = job[t]
    PROVE  /\ MakerStep(s, l) /\ \A r : Taken(l, r)' <=> Taken(l, r)
           /\ \A r \in MadeFor(l)' : ~ remotes[r].gone
<1>1. MadeFor(l)' \subseteq MadeFor(l) /\ links'[l].remote = links[l].remote
      /\ \A r \in MadeFor(l)' : ~ remotes[r].gone
  BY DEF Dwindles, SamePairs, MadeFor
<1>2. \A r : Taken(l, r)' <=> Taken(l, r)
  BY SameTaken
<1>3. ASSUME NEW t \in Session \ {s}, Taken(l, job[t].item.copy.id)'
      PROVE  Taken(l, job[t].item.copy.id)
  <2>1. PICK r : r = job[t].item.copy.id
    OBVIOUS
  <2>2. Taken(l, r)'
    BY <1>3, <2>1
  <2>3. QED
    BY <1>2, <2>1, <2>2
<1>4. QED
  BY <1>1, <1>2, <1>3 DEF MakerStep

\* A push before and after a plain step: it makes the same, if anything.
LEMMA SameMaker ==
    ASSUME NEW l, NEW s \in Session, \A r : Taken(l, r)' <=> Taken(l, r),
           Making(job'[s], l) => job'[s].item.copy.id = job[s].item.copy.id /\ Making(job[s], l)
    PROVE  s \in DoomedMakers(l)' => s \in DoomedMakers(l)
<1>1. SUFFICES ASSUME Making(job[s], l)', Taken(l, job[s].item.copy.id)'
               PROVE  Making(job[s], l) /\ Taken(l, job[s].item.copy.id)
  BY DEF DoomedMakers
<1>2. PICK r : r = job'[s].item.copy.id
  OBVIOUS
<1>3. Taken(l, r)'
  BY <1>1, <1>2
<1>4. Making(job'[s], l)
  BY <1>1 DEF Making
<1>5. QED
  BY <1>2, <1>3, <1>4

LEMMA RemotesPlain ==
    ASSUME IInv, Order, [Next]_vars, NEW l \in Issues, RemotesPaid(l),
           NEW s \in Session, PlainStep(s)
    PROVE  RemotesPaid(l)'
<1>1. Tidy(job[s]) /\ Sources /\ l # 0
  BY Facts DEF Order
<1>2. job[s].pc # "idle" /\ \A t \in Session \ {s} : job'[t] = job[t]
  BY OwnJob DEF PlainStep, Import, PushStep
<1>3. SamePairs /\ Dwindles
  BY <1>1, PlainStepIs
<1>4. /\ MakerStep(s, l) /\ \A r : Taken(l, r)' <=> Taken(l, r)
      /\ \A r \in MadeFor(l)' : ~ remotes[r].gone
  BY <1>2, <1>3, PlainMakerStep
\* What keeps the counts: it makes nothing, and moves nothing anew.
<1>5. ASSUME ~ Making(job'[s], l),
             ~ Making(job[s], l) \/ job[s].item.copy.id \notin MadeFor(l)',
             job'[s].pc \notin {"idle", "note"} => job[s].pc \notin {"idle", "note"},
             Moves(job'[s], l, links[l].remote) => Moves(job[s], l, links[l].remote)
      PROVE  RemotesPaid(l)'
  <2>1. s \in Linking' => s \in Linking
    BY <1>5 DEF Linking
  <2>2. s \in DoomedMakers(l)' => s \in DoomedMakers(l)
    BY <1>4, <1>5, SameMaker
  <2>3. QED
    BY <1>4, <1>5, <2>1, <2>2, RemotesQuiet
<1>6. ASSUME Keeps(job[s], job'[s]), job[s].pc \in {"archive", "refresh", "update", "comment"},
             job'[s].pc \in {"comment", "link"},
             job[s].cmd.op # "push" \/ job[s].pc \in {"update", "comment"}
      PROVE  RemotesPaid(l)'
  <2>1. Making(job'[s], l) <=> Making(job[s], l)
    BY <1>6 DEF Making, Keeps
  <2>2. job'[s].item.copy.id = job[s].item.copy.id
    BY <1>6 DEF Keeps
  <2>3. Moves(job'[s], l, links[l].remote) => Moves(job[s], l, links[l].remote)
    BY <1>6 DEF Moves, Keeps, Target, Holding
  <2>4. s \in Linking' => s \in Linking
    BY <1>6 DEF Linking
  <2>5. s \in DoomedMakers(l)' => s \in DoomedMakers(l)
    BY <1>4, <2>1, <2>2, SameMaker
  <2>6. QED
    BY <1>4, <2>1, <2>2, <2>3, <2>4, <2>5, RemotesQuiet
<1>7. ASSUME job'[s] = Idle, ~ Making(job[s], l) \/ job[s].item.copy.id \notin MadeFor(l)'
      PROVE  RemotesPaid(l)'
  BY <1>5, <1>7, IdleMoves, NothingIs
<1>8. ASSUME FetchIssue(s) \/ FetchMine(s) PROVE RemotesPaid(l)'
  <2>1. /\ job[s].pc = "fetch" /\ job[s].todo = {}
        /\ \/ job'[s] = Idle
           \/ /\ job'[s].pc \in {"resolve", "next"} /\ job'[s].cmd = job[s].cmd
              /\ job'[s].item.on = 0 /\ \A i \in job'[s].todo : i.on = 0
    BY <1>1, <1>8, FetchIs
  <2>2. ~ Making(job[s], l)
    BY <2>1, NothingMade
  <2>3. CASE job'[s].pc \in {"resolve", "next"} /\ job'[s].item.on = 0
             /\ \A i \in job'[s].todo : i.on = 0
    <3>1. ~ Making(job'[s], l) /\ ~ Moves(job'[s], l, links[l].remote)
      BY <1>1, <2>3, NothingMade, NothingMoves
    <3>2. QED
      BY <1>5, <2>1, <2>2, <3>1
  <2>4. QED
    BY <1>7, <2>1, <2>2, <2>3
<1>9. ASSUME NextItem(s) PROVE RemotesPaid(l)'
  <2>1. PICK i \in job[s].todo :
          /\ job[s].pc = "next" /\ job'[s].pc \in {"fetchLinked", "resolve"}
          /\ job'[s].item = i /\ job'[s].todo = job[s].todo \ {i}
    BY <1>1, <1>9, NextItemIs
  <2>2. ~ Making(job[s], l) /\ ~ Making(job'[s], l)
    BY <2>1, NothingMade
  <2>3. Moves(job'[s], l, links[l].remote) => Moves(job[s], l, links[l].remote)
    BY <2>1 DEF Moves
  <2>4. QED
    BY <1>5, <2>1, <2>2, <2>3
<1>10. ASSUME NoMoreItems(s) PROVE RemotesPaid(l)'
  BY <1>7, <1>10, NoMoreItemsIs, NothingMade
<1>11. ASSUME ResolveExisting(s) PROVE RemotesPaid(l)'
  <2>1. job[s].pc = "resolve" /\ ~ Making(job[s], l)
    BY <1>1, <1>11, ResolveExistingIs, NothingMade
  <2>2. ASSUME NEW i \in Issues, links[i].remote = job[s].item.copy.id,
               job[s].item.copy.id # 0,
               job'[s].pc = "refresh", job'[s].item.on = i,
               job'[s].item.copy.id = job[s].item.copy.id, job'[s].todo = job[s].todo
        PROVE  RemotesPaid(l)'
    <3>1. ~ Making(job'[s], l)
      BY <2>2, NothingMade
    <3>2. Moves(job'[s], l, links[l].remote) => Moves(job[s], l, links[l].remote)
      BY <2>2 DEF Moves, Target
    <3>3. QED
      BY <1>5, <2>1, <2>2, <3>1, <3>2
  <2>3. QED
    BY <1>1, <1>7, <1>11, <2>1, <2>2, ResolveExistingIs
<1>12. ASSUME ResolveAdopt(s) PROVE RemotesPaid(l)'
  <2>1. PICK i \in Issues :
          /\ job[s].pc = "resolve" /\ job[s].todo = {}
          /\ job'[s].pc = "refresh" /\ job'[s].item.on = i /\ job'[s].todo = {}
          /\ mishaps' = mishaps + IF Linked(i) THEN 1 ELSE 0
    BY <1>1, <1>12, ResolveAdoptIs
  <2>2. ~ Making(job[s], l) /\ ~ Making(job'[s], l)
    BY <2>1, NothingMade
  <2>3. CASE l # i
    <3>1. ~ Moves(job'[s], l, links[l].remote)
      BY <2>1, <2>3, NothingMoves
    <3>2. QED
      BY <1>5, <2>1, <2>2, <3>1
  <2>4. CASE l = i
    <3>1. \A r : InHand(l, r)' <=> InHand(l, r)
      BY <1>4, <2>2, RemotesOfOthers
    <3>2. LostRemotes(l)' \subseteq LostRemotes(l)
      BY <1>4, <3>1 DEF LostRemotes, MakerStep
    <3>3. s \in DoomedMakers(l)' => s \in DoomedMakers(l)
      BY <1>4, <2>2, SameMaker
    <3>4. s \in Linking /\ DoomedMakers(l)' \subseteq DoomedMakers(l) /\ Linking' \subseteq Linking
      BY <1>4, <2>1, <3>3, RemotesOfOthers DEF Linking
    <3>5. CASE ~ Linked(l)
      <4>1. ~ (links[l].remote \in MadeFor(l))'
        BY <1>4, <3>5, Facts DEF Linked, MakerStep, MadeFor
      <4>2. QED
        BY <3>2, <3>4, <4>1, RemotesNoMore
    <3>6. CASE Linked(l)
      <4>1. /\ mishaps' = mishaps + 1 /\ mishaps \in Int /\ mishaps + 1 \in Int
            /\ mishaps <= mishaps + 1 /\ mishaps + 1 <= (mishaps + 1) + 1
            /\ (mishaps + 1) + 1 \in Int /\ mishaps + 1 <= mishaps + 1
        BY <2>1, <2>4, <3>6, Counting
      <4>2. Within(LostRemotes(l)', DoomedMakers(l)', mishaps + 1)
        BY <3>2, <3>4, <4>1, Fewer DEF RemotesPaid
      <4>3. Within(LostRemotes(l)', Linking', mishaps + 1)
        BY <3>2, <3>4, <4>1, Fewer DEF RemotesPaid
      <4>4. Within(LostRemotes(l)', Linking', (mishaps + 1) + 1)
        BY <4>1, <4>3, Fewer
      <4>5. QED
        BY <4>1, <4>2, <4>3, <4>4 DEF RemotesPaid, Within
    <3>7. QED
      BY <3>5, <3>6
  <2>5. QED
    BY <2>3, <2>4
<1>13. ASSUME ResolveCreate(s) PROVE RemotesPaid(l)'
  <2>1. /\ job[s].pc = "resolve" /\ job'[s].pc = "create" /\ job'[s].todo = job[s].todo
    BY <1>1, <1>13, ResolveCreateIs
  <2>2. ~ Making(job[s], l) /\ ~ Making(job'[s], l)
    BY <2>1, NothingMade
  <2>3. Moves(job'[s], l, links[l].remote) => Moves(job[s], l, links[l].remote)
    BY <2>1 DEF Moves, Holding
  <2>4. QED
    BY <1>5, <2>1, <2>2, <2>3
<1>14. ASSUME ArchiveCreated(s) \/ Refresh(s) PROVE RemotesPaid(l)'
  <2>1. /\ job[s].pc \in {"refresh", "archive"} /\ job'[s].pc = "link"
        /\ job'[s].item = job[s].item /\ job'[s].cmd = job[s].cmd
        /\ job'[s].todo = job[s].todo
    BY <1>1, <1>14, RowWriteIs
  <2>2. job[s].cmd.op # "push"
    BY <1>1, <2>1 DEF Tidy, Ready
  <2>3. QED
    BY <1>6, <2>1, <2>2 DEF Keeps
<1>15. ASSUME LinkRefused(s) PROVE RemotesPaid(l)'
  <2>1. /\ job[s].pc = "link" /\ Taken(job[s].item.on, job[s].item.copy.id)
        /\ job'[s] = Idle
    BY <1>1, <1>15, LinkRefusedIs
  <2>2. Making(job[s], l) => s \in DoomedMakers(l)
    BY <2>1 DEF Making, DoomedMakers
  <2>3. QED
    BY <1>4, <2>1, <2>2, RemotesEnd
<1>16. ASSUME ReadLinks(s) PROVE RemotesPaid(l)'
  <2>1. /\ job[s].pc = "read" /\ job'[s].pc = "next" /\ job'[s].item = NoItem
        /\ \A i \in job'[s].todo : Target(i) = links[i.on].remote
    BY <1>1, <1>16, ReadLinksIs
  <2>2. ~ Making(job[s], l) /\ ~ Making(job'[s], l)
    BY <2>1, NothingMade
  <2>3. ~ Moves(job'[s], l, links[l].remote)
    BY <2>1 DEF Moves, Holding
  <2>4. QED
    BY <1>5, <2>1, <2>2, <2>3
<1>17. ASSUME FetchLinked(s) PROVE RemotesPaid(l)'
  <2>1. /\ job[s].pc = "fetchLinked" /\ job[s].item.link.remote # 0
        /\ job[s].item.copy.id = 0 /\ job'[s].todo = job[s].todo
        /\ \/ job'[s].pc = "next"
           \/ /\ job'[s].pc = "refresh" /\ job'[s].item.on = job[s].item.on
              /\ job'[s].item.copy.id = job[s].item.link.remote
    BY <1>1, <1>17, FetchLinkedIs
  <2>2. ~ Making(job[s], l) /\ ~ Making(job'[s], l)
    BY <2>1, NothingMade
  <2>3. Moves(job'[s], l, links[l].remote) => Moves(job[s], l, links[l].remote)
    BY <2>1 DEF Moves, Holding, Target
  <2>4. QED
    BY <1>5, <2>1, <2>2, <2>3
<1>18. ASSUME ReadIssue(s) PROVE RemotesPaid(l)'
  <2>1. job[s].pc = "read" /\ ~ Making(job[s], l)
    BY <1>1, <1>18, ReadIssueIs, NothingMade
  <2>2. ASSUME NEW i \in Issues, job'[s].pc \in {"guard", "createRemote"},
               job'[s].item.on = i, job'[s].item.link = links[i],
               job'[s].item.copy.id = 0, job'[s].todo = {}
        PROVE  RemotesPaid(l)'
    <3>1. ~ Making(job'[s], l)
      BY <2>2, NothingMade
    <3>2. ~ Moves(job'[s], l, links[l].remote)
      BY <2>2 DEF Moves, Target
    <3>3. QED
      BY <1>5, <2>1, <2>2, <3>1, <3>2
  <2>3. QED
    BY <1>1, <1>7, <1>18, <2>1, <2>2, ReadIssueIs
<1>19. ASSUME Guard(s) PROVE RemotesPaid(l)'
  <2>1. /\ job[s].pc = "guard" /\ job[s].item.link.remote # 0 /\ job[s].item.copy.id = 0
        /\ job[s].todo = {}
        /\ \/ job'[s] = Idle
           \/ /\ job'[s].pc = "update" /\ job'[s].item.on = job[s].item.on
              /\ job'[s].item.link = job[s].item.link
              /\ job'[s].item.copy.id = job[s].item.link.remote /\ job'[s].todo = {}
    BY <1>1, <1>19, GuardIs
  <2>2. ~ Making(job[s], l)
    BY <2>1, NothingMade
  <2>3. CASE job'[s] # Idle
    <3>1. ~ Making(job'[s], l)
      BY <2>1, <2>3 DEF Making
    <3>2. Moves(job'[s], l, links[l].remote) => Moves(job[s], l, links[l].remote)
      BY <2>1, <2>3 DEF Moves, Holding, Target
    <3>3. QED
      BY <1>5, <2>1, <2>2, <3>1, <3>2
  <2>4. QED
    BY <1>7, <2>2, <2>3
<1>20. ASSUME NothingToUpdate(s) \/ UpdateRemote(s) \/ EditComment(s) PROVE RemotesPaid(l)'
  BY <1>1, <1>6, <1>20, OnwardIs
<1>21. ASSUME RemoteIsGone(s) PROVE RemotesPaid(l)'
  BY <1>1, <1>4, <1>7, <1>21, RemoteIsGoneIs
<1>22. CASE FetchIssue(s) \/ FetchMine(s) \/ NextItem(s) \/ NoMoreItems(s)
            \/ ResolveExisting(s) \/ ResolveAdopt(s) \/ ResolveCreate(s)
            \/ ArchiveCreated(s) \/ Refresh(s)
  BY <1>8, <1>9, <1>10, <1>11, <1>12, <1>13, <1>14, <1>22
<1>23. QED
  BY <1>15, <1>16, <1>17, <1>18, <1>19, <1>20, <1>21, <1>22 DEF PlainStep

LEMMA RemotesBegin ==
    ASSUME IInv, Order, [Next]_vars, NEW l \in Issues, RemotesPaid(l),
           NEW s \in Session, NEW c \in Requests, Begin(s, c)
    PROVE  RemotesPaid(l)'
<1>1. /\ job[s].pc = "idle" /\ job'[s].pc \in {"fetch", "read"} /\ job'[s].todo = {}
      /\ \A t \in Session \ {s} : job'[t] = job[t]
      /\ Linking' = Linking \cup {s}
      /\ \/ mishaps' = mishaps + 1
         \/ mishaps' = mishaps /\ Active = {}
      /\ SamePairs /\ Dwindles
  BY BeginIs, SameBoard, NothingDwindles
<1>2. MakerStep(s, l) /\ \A r : Taken(l, r)' <=> Taken(l, r)
  BY <1>1, PlainMakerStep
<1>3. ~ Making(job[s], l) /\ ~ Making(job'[s], l) /\ ~ Moves(job'[s], l, links[l].remote)
  BY <1>1, NothingMade, NothingMoves DEF Holding
<1>4. \A r : InHand(l, r)' <=> InHand(l, r)
  BY <1>2, <1>3, RemotesOfOthers
<1>5. LostRemotes(l)' \subseteq LostRemotes(l)
  BY <1>2, <1>4 DEF LostRemotes, MakerStep
<1>6. DoomedMakers(l)' \subseteq DoomedMakers(l)
  <2>1. s \in DoomedMakers(l)' => s \in DoomedMakers(l)
    BY <1>2, <1>3, SameMaker
  <2>2. QED
    BY <1>2, <2>1, RemotesOfOthers
<1>7. ASSUME (links[l].remote \in MadeFor(l) /\ ~ InHand(l, links[l].remote) /\ Moving(l))'
      PROVE  /\ links[l].remote \in MadeFor(l) /\ ~ InHand(l, links[l].remote)
             /\ \E t \in Session \ {s} : Moves(job[t], l, links[l].remote)
  <2>1. PICK r : r = links[l].remote
    OBVIOUS
  <2>2. (r \in MadeFor(l) /\ ~ InHand(l, r) /\ Moving(l))'
    BY <1>2, <1>7, <2>1 DEF MakerStep
  <2>3. r \in MadeFor(l) /\ ~ InHand(l, r)
    BY <1>2, <1>4, <2>2 DEF MakerStep
  <2>4. QED
    BY <1>2, <1>3, <2>1, <2>2, <2>3, RemotesOfOthers
<1>8. /\ mishaps \in Int /\ mishaps + 1 \in Int /\ mishaps <= mishaps + 1
      /\ mishaps <= mishaps /\ mishaps + 1 <= mishaps + 1
  BY Counting
<1>9. CASE mishaps' = mishaps + 1
  <2>1. Within(LostRemotes(l)', DoomedMakers(l)', mishaps + 1)
    BY <1>5, <1>6, <1>8, Fewer DEF RemotesPaid
  <2>2. Within(LostRemotes(l)', Linking', (mishaps + 1) + 1)
    BY <1>1, <1>5, <1>8, OneMoreRight DEF RemotesPaid
  <2>3. ASSUME (links[l].remote \in MadeFor(l) /\ ~ InHand(l, links[l].remote) /\ Moving(l))'
        PROVE  Within(LostRemotes(l)', Linking', mishaps + 1)
    <3>1. Moving(l)
      BY <1>7, <2>3 DEF Moving
    <3>2. Within(LostRemotes(l), Linking, mishaps)
      BY <1>7, <2>3, <3>1 DEF RemotesPaid
    <3>3. QED
      BY <1>1, <1>5, <1>8, <3>2, OneMoreRight
  <2>4. QED
    BY <1>9, <2>1, <2>2, <2>3 DEF RemotesPaid, Within
<1>10. CASE mishaps' = mishaps /\ Active = {}
  <2>1. \A t \in Session : job[t] = Idle
    BY <1>10 DEF Active, Order, Tidy, Ready
  <2>2. Linking' \subseteq DoomedMakers(l) \cup {s}
    BY <1>1, <2>1, NothingIs DEF Linking
  <2>3. Within(LostRemotes(l)', DoomedMakers(l)', mishaps)
    BY <1>5, <1>6, <1>8, Fewer DEF RemotesPaid
  <2>4. Within(LostRemotes(l)', Linking', mishaps + 1)
    BY <1>5, <1>8, <2>2, OneMoreRight DEF RemotesPaid
  <2>5. ~ (links[l].remote \in MadeFor(l) /\ ~ InHand(l, links[l].remote) /\ Moving(l))'
    BY <1>7, <2>1, IdleMoves
  <2>6. QED
    BY <1>10, <2>3, <2>4, <2>5 DEF RemotesPaid, Within
<1>11. QED
  BY <1>1, <1>9, <1>10

LEMMA RemotesAbort ==
    ASSUME IInv, [Next]_vars, NEW l \in Issues, RemotesPaid(l), NEW s \in Session, Abort(s)
    PROVE  RemotesPaid(l)'
BY AbortIs, PlainMakerStep, RemotesEnd

LEMMA RemotesOthers ==
    ASSUME IInv, [Next]_vars, NEW l \in Issues, RemotesPaid(l),
           SamePairs, Dwindles, job' = job
    PROVE  RemotesPaid(l)'
<1>1. MadeFor(l)' \subseteq MadeFor(l) /\ links'[l].remote = links[l].remote
  BY DEF Dwindles, SamePairs, MadeFor
<1>2. \A r : InHand(l, r)' <=> InHand(l, r)
  BY DEF InHand, Making
<1>3. LostRemotes(l)' \subseteq LostRemotes(l)
  BY <1>1, <1>2 DEF LostRemotes
<1>4. \A r : Taken(l, r)' <=> Taken(l, r)
  BY SameTaken
<1>5. DoomedMakers(l)' \subseteq DoomedMakers(l)
  BY <1>4 DEF DoomedMakers, Making
<1>6. Linking' \subseteq Linking
  BY DEF Linking
<1>7. Moving(l)' => Moving(l)
  BY <1>1 DEF Moving, Moves
<1>8. (links[l].remote \in MadeFor(l) /\ ~ InHand(l, links[l].remote))'
          => links[l].remote \in MadeFor(l) /\ ~ InHand(l, links[l].remote)
  <2>1. PICK r : r = links[l].remote
    OBVIOUS
  <2>2. (r \in MadeFor(l) /\ ~ InHand(l, r))' => r \in MadeFor(l) /\ ~ InHand(l, r)
    BY <1>1, <1>2
  <2>3. QED
    BY <1>1, <2>1, <2>2
<1>9. QED
  BY <1>3, <1>5, <1>6, <1>7, <1>8, RemotesNoMore

LEMMA RemotesSetComment ==
    ASSUME IInv, Order, [Next]_vars, NEW l \in Issues, RemotesPaid(l),
           NEW s \in Session, SetComment(s)
    PROVE  RemotesPaid(l)'
<1>1. Tidy(job[s]) /\ \A t \in Session \ {s} : job'[t] = job[t]
  BY OwnJob DEF Order, PushStep
<1>2. /\ Issues' = Issues /\ \A i \in Issues : links'[i].remote = links[i].remote
      /\ job[s].pc = "note" /\ job'[s] = Idle
      /\ UNCHANGED <<rows, linear, counts>>
  BY <1>1, SetCommentIs
<1>3. MadeFor(l)' = MadeFor(l) /\ \A r : Taken(l, r)' <=> Taken(l, r)
  BY <1>2 DEF MadeFor, linear, Remotes, Taken
<1>4. ASSUME NEW t \in Session \ {s}, Taken(l, job[t].item.copy.id)'
      PROVE  Taken(l, job[t].item.copy.id)
  <2>1. PICK r : r = job[t].item.copy.id
    OBVIOUS
  <2>2. job'[t].item.copy.id = r
    BY <1>1, <2>1
  <2>3. Taken(l, r)'
    BY <1>4, <2>1, <2>2
  <2>4. QED
    BY <1>3, <2>1, <2>3
<1>5. MakerStep(s, l)
  BY <1>1, <1>2, <1>3, <1>4 DEF MakerStep
<1>6. ~ Making(job[s], l)
  BY <1>2, NothingMade
<1>7. QED
  BY <1>2, <1>5, <1>6, RemotesEnd

LEMMA RemotesCreateComment ==
    ASSUME IInv, Order, [Next]_vars, NEW l \in Issues, RemotesPaid(l),
           NEW s \in Session, CreateComment(s)
    PROVE  RemotesPaid(l)'
<1>1. Tidy(job[s]) /\ \A t \in Session \ {s} : job'[t] = job[t]
  BY OwnJob DEF Order, PushStep
<1>2. /\ job[s].pc = "comment" /\ job'[s].pc = "link"
      /\ job'[s].item = job[s].item /\ job'[s].cmd = job[s].cmd
      /\ job'[s].todo = job[s].todo /\ UNCHANGED <<board, remotes, counts>>
  BY <1>1, CreateCommentIs
<1>3. /\ links'[l].remote = links[l].remote /\ MadeFor(l)' = MadeFor(l)
      /\ \A r : Taken(l, r)' <=> Taken(l, r)
  BY <1>2 DEF MadeFor, board, Remotes, Taken, Issues
<1>4. ASSUME NEW t \in Session \ {s}, Taken(l, job[t].item.copy.id)'
      PROVE  Taken(l, job[t].item.copy.id)
  <2>1. PICK r : r = job[t].item.copy.id
    OBVIOUS
  <2>2. job'[t].item.copy.id = r
    BY <1>1, <2>1
  <2>3. Taken(l, r)'
    BY <1>4, <2>1, <2>2
  <2>4. QED
    BY <1>3, <2>1, <2>3
<1>5. MakerStep(s, l)
  BY <1>1, <1>3, <1>4 DEF MakerStep
<1>6. (Making(job'[s], l) => Making(job[s], l)) /\ (Making(job[s], l) => Making(job'[s], l))
      /\ (Moves(job'[s], l, links[l].remote) => Moves(job[s], l, links[l].remote))
  BY <1>2 DEF Making, Moves, Holding
<1>7. (s \in Linking' => s \in Linking) /\ (s \in DoomedMakers(l)' => s \in DoomedMakers(l))
  BY <1>2, <1>3, <1>6, SameMaker DEF Linking
<1>8. QED
  BY <1>2, <1>5, <1>6, <1>7, RemotesQuiet

LEMMA RemotesCreateRow ==
    ASSUME IInv, Order, [Next]_vars, Within({}, Active, mishaps + 1),
           RemotesArePaid, NEW s \in Session, CreateRow(s)
    PROVE  RemotesArePaid'
<1>1. Tidy(job[s]) /\ Sources /\ \A t \in Session \ {s} : job'[t] = job[t]
  BY OwnJob DEF Order, Import
<1>2. PICK n : /\ n \notin Issues /\ Issues' = Issues \cup {n} /\ n # 0
               /\ links'[n].remote = 0
               /\ \A i \in Issues : rows'[i] = rows[i] /\ links'[i] = links[i]
               /\ job[s].pc = "create" /\ job'[s].pc \in {"archive", "link"}
               /\ job'[s].item.on = n
               /\ job'[s].cmd = job[s].cmd /\ job'[s].todo = job[s].todo
               /\ UNCHANGED <<linear, counts>>
  BY <1>1, CreateRowIs
<1>3. \A l : /\ ~ Making(job[s], l) /\ ~ Making(job'[s], l) /\ MadeFor(l)' = MadeFor(l)
  BY <1>1, <1>2, NothingMade DEF Tidy, Ready, linear, MadeFor, Remotes
<1>4. s \in Linking' => s \in Linking
  BY <1>2 DEF Linking
<1>5. ASSUME NEW l \in Issues PROVE RemotesPaid(l)'
  <2>1. RemotesPaid(l)
    BY DEF RemotesArePaid
  <2>2. \A r \in Remotes : Taken(l, r)' => Taken(l, r)
    BY <1>2, Facts DEF Taken
  <2>3. ASSUME NEW t \in Session \ {s}, Making(job[t], l), Taken(l, job[t].item.copy.id)'
        PROVE  Taken(l, job[t].item.copy.id)
    <3>1. PICK r : r = job[t].item.copy.id
      OBVIOUS
    <3>2. r \in Remotes
      BY <2>3, <3>1, TargetIs DEF Order, Making, Holding
    <3>3. Taken(l, r)'
      BY <1>1, <2>3, <3>1
    <3>4. QED
      BY <2>2, <3>1, <3>2, <3>3
  <2>4. MakerStep(s, l)
    BY <1>1, <1>2, <1>3, <2>3 DEF MakerStep
  <2>5. Moves(job'[s], l, links[l].remote) => Moves(job[s], l, links[l].remote)
    BY <1>2 DEF Moves
  <2>6. s \notin DoomedMakers(l)'
    BY <1>3 DEF DoomedMakers, Making
  <2>7. QED
    BY <1>3, <1>4, <2>1, <2>4, <2>5, <2>6, RemotesQuiet
<1>6. RemotesPaid(n)'
  <2>1. MadeFor(n)' = {} /\ LostRemotes(n)' = {}
    BY <1>1, <1>2, <1>3 DEF MadeFor, LostRemotes, Sources
  <2>2. DoomedMakers(n)' = {}
    <3>1. ASSUME NEW t \in Session PROVE ~ Making(job'[t], n)
      <4>1. CASE t = s
        BY <1>3, <4>1
      <4>2. CASE t # s
        <5>1. job[t].pc \in Holding => job[t].item.on \in Issues
          BY DEF Order, Tidy, Grounded
        <5>2. QED
          BY <1>1, <1>2, <4>2, <5>1 DEF Making, Holding
      <4>3. QED
        BY <4>1, <4>2
    <3>2. QED
      BY <3>1 DEF DoomedMakers, Making
  <2>3. Linking' \subseteq Active
    BY <1>1, <1>4 DEF Active, Linking
  <2>4. mishaps' = mishaps /\ mishaps + 1 \in Int /\ mishaps + 1 <= mishaps + 1
    BY <1>2, Counting DEF counts
  <2>5. Within(LostRemotes(n)', DoomedMakers(n)', mishaps')
    BY <2>1, <2>2, <2>4, NoneIsPaid
  <2>6. Within(LostRemotes(n)', Linking', mishaps' + 1)
    BY <2>1, <2>3, <2>4, Fewer
  <2>7. (links[n].remote \notin MadeFor(n))'
    BY <2>1
  <2>8. QED
    BY <2>5, <2>6, <2>7 DEF RemotesPaid, Within
<1>7. QED
  BY <1>2, <1>5, <1>6 DEF RemotesArePaid

LEMMA RemotesCreateRemote ==
    ASSUME IInv, Order, [Next]_vars, NEW l \in Issues, RemotesPaid(l),
           NEW s \in Session, CreateRemote(s)
    PROVE  RemotesPaid(l)'
<1>1. Tidy(job[s]) /\ Sources /\ \A t \in Session \ {s} : job'[t] = job[t]
  BY OwnJob DEF Order, PushStep
<1>2. PICK r : /\ r \notin Remotes /\ Remotes' = Remotes \cup {r} /\ r # 0
               /\ remotes'[r].by = job[s].item.on
               /\ \A q \in Remotes : remotes'[q] = remotes[q]
               /\ job[s].pc = "createRemote" /\ job'[s].pc = "update"
               /\ job'[s].item.on = job[s].item.on
               /\ job'[s].item.link = job[s].item.link
               /\ job'[s].item.copy.id = r
               /\ job'[s].cmd = job[s].cmd /\ job'[s].todo = job[s].todo
               /\ UNCHANGED <<board, comments, counts>>
  BY <1>1, CreateRemoteIs
<1>3. /\ job[s].cmd.op = "push" /\ job[s].todo = {} /\ job[s].item.link.remote = 0
      /\ job[s].item.copy.id = 0
  BY <1>1, <1>2 DEF Tidy, Ready, Grounded
<1>4. links' = links /\ \A q : Taken(l, q)' <=> Taken(l, q)
  BY <1>2 DEF board, Taken, Issues
<1>5. MadeFor(l)' \subseteq MadeFor(l) \cup {r}
      /\ (l # job[s].item.on => MadeFor(l)' \subseteq MadeFor(l))
  BY <1>2 DEF MadeFor
<1>6. ~ Making(job[s], l) /\ (Making(job'[s], l) <=> l = job[s].item.on)
  BY <1>2, <1>3 DEF Making
<1>7. \A t \in Session : Making(job[t], l) => Making(job'[t], l) /\ job'[t] = job[t]
  BY <1>1, <1>6
<1>8. \A q : InHand(l, q) => InHand(l, q)'
  BY <1>7 DEF InHand, Making
<1>9. l = job[s].item.on => InHand(l, r)'
  BY <1>2, <1>6 DEF InHand, Making
<1>10. LostRemotes(l)' \subseteq LostRemotes(l)
  BY <1>4, <1>5, <1>8, <1>9 DEF LostRemotes
<1>11. DoomedMakers(l)' \subseteq DoomedMakers(l)
  <2>1. SUFFICES ASSUME NEW t \in Session, Making(job'[t], l), Taken(l, job[t].item.copy.id)'
                 PROVE  Making(job[t], l) /\ Taken(l, job[t].item.copy.id)
    BY DEF DoomedMakers, Making
  <2>2. PICK q : q = job'[t].item.copy.id
    OBVIOUS
  <2>3. Taken(l, q)
    BY <1>4, <2>1, <2>2
  <2>4. t # s
    BY <1>2, <2>2, <2>3, Facts DEF Taken
  <2>5. QED
    BY <1>1, <2>1, <2>2, <2>3, <2>4
<1>12. Linking' \subseteq Linking
  BY <1>1, <1>2 DEF Linking
<1>13. ASSUME (links[l].remote \in MadeFor(l) /\ ~ InHand(l, links[l].remote) /\ Moving(l))'
       PROVE  links[l].remote \in MadeFor(l) /\ ~ InHand(l, links[l].remote) /\ Moving(l)
  <2>1. PICK q : q = links[l].remote
    OBVIOUS
  <2>2. (q \in MadeFor(l) /\ ~ InHand(l, q))'
    BY <1>4, <1>13, <2>1
  <2>3. q # r /\ q # 0 /\ q \in MadeFor(l)
    BY <1>2, <1>5, <2>1, <2>2, Facts DEF MadeFor
  <2>4. ~ InHand(l, q)
    BY <1>8, <2>2
  <2>5. PICK t \in Session : Moves(job'[t], l, q)
    BY <1>4, <1>13, <2>1 DEF Moving, Moves
  <2>6. Moves(job[t], l, q)
    <3>1. CASE t # s
      BY <1>1, <2>5, <3>1
    <3>2. CASE t = s
      <4>1. l = job[s].item.on
        BY <1>2, <1>3, <2>5, <3>2 DEF Moves
      <4>2. QED
        BY <1>2, <1>3, <2>3, <3>2, <4>1 DEF Moves, Holding, Target
    <3>3. QED
      BY <3>1, <3>2
  <2>7. QED
    BY <2>1, <2>3, <2>4, <2>6 DEF Moving
<1>14. QED
  BY <1>10, <1>11, <1>12, <1>13, RemotesNoMore

LEMMA RemotesRecordLink ==
    ASSUME IInv, Order, [Next]_vars, NEW l \in Issues, RemotesPaid(l),
           NEW s \in Session, RecordLink(s)
    PROVE  RemotesPaid(l)'
<1>1. Tidy(job[s]) /\ Sources /\ \A t \in Session \ {s} : job'[t] = job[t]
  BY OwnJob DEF Order, Import
<1>2. PICK on, r : /\ on = job[s].item.on /\ r = job[s].item.copy.id
                   /\ on \in Issues /\ r \in Remotes
                   /\ \A i \in Issues : links'[i].remote = IF i = on THEN r ELSE links[i].remote
                   /\ job[s].pc = "link"
                   /\ Follows(job[s], job'[s]) \/ job'[s] = Idle
                   /\ UNCHANGED <<linear, counts>>
  BY <1>1, RecordLinkIs
<1>3. /\ job'[s].pc \in {"idle", "next", "note"}
      /\ job'[s].pc = "next" => job[s].cmd.op # "push"
      /\ \A i \in job'[s].todo : i \in job[s].todo
  BY <1>2, NothingIs DEF Follows
<1>4. MadeFor(l)' = MadeFor(l)
  BY <1>2 DEF linear, MadeFor, Remotes
<1>5. ~ Making(job'[s], l) /\ (Making(job[s], l) => l = on)
      /\ (Moves(job'[s], l, links[l].remote) => Moves(job[s], l, links[l].remote))
  BY <1>2, <1>3 DEF Making, Moves, Holding
<1>6. \A q : InHand(l, q) => InHand(l, q)' \/ (Making(job[s], l) /\ q = r)
  BY <1>1, <1>2 DEF InHand, Making
<1>7. /\ s \in Linking /\ Linking' \subseteq Linking
      /\ DoomedMakers(l)' \subseteq Linking \ {s}
  BY <1>1, <1>2, <1>3, <1>5 DEF Linking, DoomedMakers, Making
<1>8. Making(job[s], l) => Linking' \subseteq Linking \ {s}
  BY <1>1, <1>3 DEF Linking, Making
<1>9. /\ mishaps' = mishaps /\ mishaps \in Int /\ mishaps + 1 \in Int
      /\ mishaps + 1 <= mishaps + 1 /\ (mishaps + 1) - 1 = mishaps /\ mishaps <= mishaps
      /\ mishaps - 1 \in Int /\ (mishaps - 1) + 1 = mishaps
  BY <1>2, Counting DEF counts
<1>10. ASSUME LostRemotes(l)' \subseteq LostRemotes(l),
              (links[l].remote \in MadeFor(l) /\ ~ InHand(l, links[l].remote) /\ Moving(l))'
                  => Within(LostRemotes(l)', Linking', mishaps)
       PROVE  RemotesPaid(l)'
  <2>1. Within(LostRemotes(l)', DoomedMakers(l)', (mishaps + 1) - 1)
    BY <1>7, <1>9, <1>10, Drop DEF RemotesPaid
  <2>2. Within(LostRemotes(l)', DoomedMakers(l)', mishaps)
    BY <1>9, <2>1
  <2>3. Within(LostRemotes(l)', Linking', mishaps + 1)
    BY <1>7, <1>9, <1>10, Fewer DEF RemotesPaid
  <2>4. QED
    BY <1>9, <1>10, <2>2, <2>3 DEF RemotesPaid, Within
\* Neither its own link nor another's intentions are touched.
<1>11. ASSUME links'[l].remote = links[l].remote, ~ Making(job[s], l)
       PROVE  RemotesPaid(l)'
  <2>1. LostRemotes(l)' \subseteq LostRemotes(l)
    BY <1>4, <1>6, <1>11 DEF LostRemotes
  <2>2. ASSUME (links[l].remote \in MadeFor(l) /\ ~ InHand(l, links[l].remote) /\ Moving(l))'
        PROVE  Within(LostRemotes(l)', Linking', mishaps)
    <3>1. PICK q : q = links[l].remote
      OBVIOUS
    <3>2. (q \in MadeFor(l) /\ ~ InHand(l, q))'
      BY <1>11, <2>2, <3>1
    <3>3. q \in MadeFor(l) /\ ~ InHand(l, q)
      BY <1>4, <1>6, <1>11, <3>2
    <3>4. PICK t \in Session : Moves(job'[t], l, q)
      BY <1>11, <2>2, <3>1 DEF Moving, Moves
    <3>5. Moves(job[t], l, q)
      BY <1>1, <1>5, <3>1, <3>4
    <3>6. Within(LostRemotes(l), Linking, mishaps)
      BY <3>1, <3>3, <3>5 DEF RemotesPaid, Moving
    <3>7. QED
      BY <1>7, <1>9, <2>1, <3>6, Fewer
  <2>3. QED
    BY <1>10, <2>1, <2>2
<1>12. CASE l # on
  BY <1>2, <1>5, <1>11, <1>12
<1>13. CASE l = on /\ links[l].remote = r
  <2>1. CASE ~ Making(job[s], l)
    BY <1>2, <1>11, <1>13, <2>1
  <2>2. CASE Making(job[s], l)
    <3>1. LostRemotes(l)' \subseteq LostRemotes(l)
      BY <1>2, <1>4, <1>6, <1>13 DEF LostRemotes
    <3>2. Within(LostRemotes(l)', Linking', (mishaps + 1) - 1)
      BY <1>7, <1>8, <1>9, <2>2, <3>1, Drop DEF RemotesPaid
    <3>3. QED
      BY <1>9, <1>10, <3>1, <3>2
  <2>3. QED
    BY <2>1, <2>2
<1>14. CASE l = on /\ links[l].remote # r
  <2> DEFINE old == links[l].remote
  <2>1. Moving(l)
    <3>1. Target(job[s].item) = r
      BY <1>1, <1>2, TargetIs
    <3>2. QED
      BY <1>2, <1>14, <3>1 DEF Moving, Moves, Holding
  <2>2. \A q \in LostRemotes(l)' : /\ q \in MadeFor(l) /\ q # r /\ ~ InHand(l, q)
    BY <1>2, <1>4, <1>6, <1>14 DEF LostRemotes
  <2>3. ASSUME (links[l].remote \in MadeFor(l) /\ ~ InHand(l, links[l].remote) /\ Moving(l))',
               ~ Making(job[s], l)
        PROVE  r \in LostRemotes(l)
    <3>1. (r \in MadeFor(l) /\ ~ InHand(l, r))'
      BY <1>2, <1>14, <2>3
    <3>2. QED
      BY <1>4, <1>6, <1>14, <2>3, <3>1 DEF LostRemotes
  <2>4. CASE old \in MadeFor(l) /\ ~ InHand(l, old)
    <3>1. Within(LostRemotes(l), Linking, mishaps)
      BY <2>1, <2>4 DEF RemotesPaid
    <3>2. LostRemotes(l)' \subseteq LostRemotes(l) \cup {old}
      BY <2>2 DEF LostRemotes
    <3>3. \E x : LostRemotes(l)' \subseteq LostRemotes(l) \cup {x}
      BY <3>2
    <3>4. Within(LostRemotes(l), DoomedMakers(l)', mishaps - 1)
      BY <1>7, <1>9, <3>1, Drop
    <3>5. Within(LostRemotes(l)', DoomedMakers(l)', mishaps)
      <4>1. Within(LostRemotes(l)', DoomedMakers(l)', (mishaps - 1) + 1)
        BY <1>9, <3>2, <3>4, OneMore
      <4>2. QED
        BY <1>9, <4>1
    <3>6. Within(LostRemotes(l)', Linking', mishaps + 1)
      BY <1>7, <1>9, <3>1, <3>2, OneMore
    <3>7. ASSUME (links[l].remote \in MadeFor(l) /\ ~ InHand(l, links[l].remote) /\ Moving(l))'
          PROVE  Within(LostRemotes(l)', Linking', mishaps)
      <4>1. CASE Making(job[s], l)
        <5>1. \E d \in Linking : Linking' \subseteq Linking \ {d}
          BY <1>7, <1>8, <4>1
        <5>2. QED
          BY <1>9, <3>1, <3>3, <5>1, Swap
      <4>2. CASE ~ Making(job[s], l)
        <5>1. r \in LostRemotes(l)
          BY <2>3, <3>7, <4>2
        <5>2. Within(LostRemotes(l) \ {r}, Linking, mishaps - 1)
          BY <1>9, <3>1, <5>1, DropLeft
        <5>3. LostRemotes(l)' \subseteq (LostRemotes(l) \ {r}) \cup {old}
          BY <2>2, <3>2
        <5>4. Within(LostRemotes(l)', Linking', (mishaps - 1) + 1)
          BY <1>7, <1>9, <5>2, <5>3, OneMore
        <5>5. QED
          BY <1>9, <5>4
      <4>3. QED
        BY <4>1, <4>2
    <3>8. QED
      BY <1>9, <3>5, <3>6, <3>7 DEF RemotesPaid, Within
  <2>5. CASE ~ (old \in MadeFor(l) /\ ~ InHand(l, old))
    <3>1. LostRemotes(l)' \subseteq LostRemotes(l) \ {r}
      BY <2>2, <2>5 DEF LostRemotes
    <3>2. ASSUME (links[l].remote \in MadeFor(l) /\ ~ InHand(l, links[l].remote) /\ Moving(l))'
          PROVE  Within(LostRemotes(l)', Linking', (mishaps + 1) - 1)
      <4>1. CASE Making(job[s], l)
        BY <1>7, <1>8, <1>9, <3>1, <4>1, Drop DEF RemotesPaid
      <4>2. CASE ~ Making(job[s], l)
        <5>1. r \in LostRemotes(l)
          BY <2>3, <3>2, <4>2
        <5>2. QED
          BY <1>7, <1>9, <3>1, <5>1, DropLeft DEF RemotesPaid
      <4>3. QED
        BY <4>1, <4>2
    <3>3. LostRemotes(l)' \subseteq LostRemotes(l)
      BY <3>1
    <3>4. QED
      BY <1>9, <1>10, <3>2, <3>3
  <2>6. QED
    BY <2>4, <2>5
<1>15. QED
  BY <1>12, <1>13, <1>14

LEMMA RemotesPaidStep ==
    ASSUME IInv, Order, [Next]_vars, Within({}, Active, mishaps + 1),
           RemotesArePaid
    PROVE  RemotesArePaid'
<1>1. ASSUME SamePairs, \A l \in Issues : RemotesPaid(l)'
      PROVE  RemotesArePaid'
  BY <1>1 DEF SamePairs, RemotesArePaid
<1>2. ASSUME NEW s \in Session, NEW c \in Requests, Begin(s, c)
      PROVE  RemotesArePaid'
  BY <1>1, <1>2, RemotesBegin, BeginIs, SameBoard DEF RemotesArePaid
<1>3. ASSUME NEW s \in Session, Abort(s) PROVE RemotesArePaid'
  BY <1>1, <1>3, RemotesAbort, AbortIs DEF RemotesArePaid
<1>4. ASSUME NEW s \in Session, PlainStep(s) PROVE RemotesArePaid'
  <2>1. SamePairs
    BY <1>4, PlainStepIs DEF Order
  <2>2. QED
    BY <1>1, <1>4, <2>1, RemotesPlain DEF RemotesArePaid
<1>5. ASSUME NEW s \in Session,
             RecordLink(s) \/ SetComment(s) \/ CreateRemote(s) \/ CreateComment(s)
      PROVE  RemotesArePaid'
  <2>1. Issues' = Issues
    BY <1>5 DEF RecordLink, SetComment, CreateRemote, CreateComment, board, Issues
  <2>2. \A l \in Issues : RemotesPaid(l)'
    BY <1>5, RemotesRecordLink, RemotesSetComment, RemotesCreateRemote,
       RemotesCreateComment DEF RemotesArePaid
  <2>3. QED
    BY <2>1, <2>2 DEF RemotesArePaid
<1>6. CASE Others
  BY <1>1, <1>6, OthersArePlain, RemotesOthers DEF RemotesArePaid
<1>7. CASE UNCHANGED vars
  <2>1. SamePairs /\ Dwindles /\ job' = job
    BY <1>7, SameBoard, NothingDwindles DEF vars
  <2>2. QED
    BY <1>1, <2>1, RemotesOthers DEF RemotesArePaid
<1>8. ASSUME NEW s \in Session, Import(s) \/ PushStep(s)
      PROVE  RemotesArePaid'
  BY <1>4, <1>5, <1>8, StepsOfOne, RemotesCreateRow
<1>9. QED
  BY <1>2, <1>3, <1>6, <1>7, <1>8 DEF Next

\* What is paid for is one remote issue, and one for each mishap.
LEMMA RemotesCount ==
    ASSUME IInv, Order, NEW l \in Issues, RemotesPaid(l)
    PROVE  Cardinality(MadeFor(l)) <= 1 + mishaps
<1> DEFINE f == [s \in Session |-> job[s].item.copy.id]
           r == links[l].remote
<1>1. mishaps \in Int /\ mishaps + 1 \in Int /\ mishaps + 1 = 1 + mishaps
  BY DEF IInv, TypeOK
<1>2. \A s \in Session : Making(job[s], l) => s \in Linking
  BY DEF Making, Linking
<1>3. \A q \in MadeFor(l) : \/ q \in LostRemotes(l) \/ q = r
                            \/ \E s \in Session : Making(job[s], l) /\ job[s].item.copy.id = q
  BY DEF LostRemotes, InHand
<1>4. CASE \A s \in Session : Making(job[s], l) => job[s].item.copy.id = r
  <2>1. MadeFor(l) \subseteq LostRemotes(l) \cup {r}
    BY <1>3, <1>4
  <2>2. Within(MadeFor(l), {}, mishaps + 1)
    BY <1>1, <2>1, OneMore DEF RemotesPaid
  <2>3. Cardinality(MadeFor(l)) <= mishaps + 1
    BY <1>1, <2>2, Named
  <2>4. QED
    BY <1>1, <2>3
<1>5. CASE r \notin MadeFor(l) \/ InHand(l, r)
  <2>1. MadeFor(l) \subseteq LostRemotes(l) \cup {f[s] : s \in Linking}
    BY <1>2, <1>3, <1>5 DEF Linking, InHand
  <2> HIDE DEF f
  <2>2. Cardinality(MadeFor(l)) <= mishaps + 1
    BY <1>1, <2>1, Named DEF RemotesPaid
  <2>3. QED
    BY <1>1, <2>2
<1>6. ASSUME NEW s \in Session, Making(job[s], l), job[s].item.copy.id # r,
             r \in MadeFor(l), ~ InHand(l, r)
      PROVE  Cardinality(MadeFor(l)) <= 1 + mishaps
  <2>1. Moving(l)
    <3>1. Tidy(job[s]) /\ job[s].pc \in {"update", "comment", "link"}
      BY <1>6 DEF Order, Making
    <3>2. Target(job[s].item) = job[s].item.copy.id
      BY <3>1, TargetIs
    <3>3. QED
      BY <1>6, <3>1, <3>2 DEF Making, Moving, Moves, Holding
  <2>2. Within(LostRemotes(l), Linking, mishaps)
    BY <1>6, <2>1 DEF RemotesPaid
  <2>3. Within(LostRemotes(l) \cup {r}, Linking, mishaps + 1)
    BY <1>1, <2>2, OneMore
  <2>4. MadeFor(l) \subseteq (LostRemotes(l) \cup {r}) \cup {f[t] : t \in Linking}
    BY <1>2, <1>3 DEF Linking
  <2> HIDE DEF f, r
  <2>5. Cardinality(MadeFor(l)) <= mishaps + 1
    BY <1>1, <2>3, <2>4, Named
  <2>6. QED
    BY <1>1, <2>5
<1>7. QED
  BY <1>4, <1>5, <1>6

(***************************************************************************)
(* The rows created from r are paid for.                                   *)
(***************************************************************************)
\* j holds l and means to link it to r.
Grabs(j, l, r) == j.pc \in Holding /\ j.item.on = l /\ Target(j.item) = r

\* Rows come from where they came from, and links name what they named.
SameRows ==
    /\ Issues' = Issues
    /\ \A l \in Issues : rows'[l].from = rows[l].from /\ links'[l].remote = links[l].remote

LEMMA TodoIsLinked ==
    ASSUME IInv, NEW s \in Session, Tidy(job[s]), NEW i \in job[s].todo, i.on \in Issues
    PROVE  Linked(i.on)
BY Views DEF Tidy, Ready, Grounded, Read, PhaseOf

LEMMA DoomedAreStraight ==
    ASSUME NEW r
    PROVE  DoomedRows(r) \subseteq Straight(r) /\ DoomedRows(r)' \subseteq Straight(r)'
<1>1. DoomedRows(r) \subseteq Straight(r)
  BY DEF DoomedRows, Straight, Linking, Refused, Late, Diverts, Holding
<1>2. DoomedRows(r)' \subseteq Straight(r)'
  BY DEF DoomedRows, Straight, Linking, Refused, Late, Diverts, Holding
<1>3. QED
  BY <1>1, <1>2

\* A row that stops being lost pays for all that are refused by then.
LEMMA RowsNoMore ==
    ASSUME IInv, [Next]_vars, NEW r, RowsPaid(r),
           LostRows(r)' \subseteq LostRows(r), Straight(r)' \subseteq Straight(r),
           LostRows(r) \subseteq LostRows(r)' => DoomedRows(r)' \subseteq DoomedRows(r)
    PROVE  RowsPaid(r)'
<1>1. /\ mishaps \in Int /\ mishaps' \in Int /\ mishaps <= mishaps'
      /\ mishaps + 1 \in Int /\ mishaps' + 1 \in Int /\ mishaps + 1 <= mishaps' + 1
      /\ (mishaps + 1) - 1 = mishaps
  BY Counting
<1>2. Within(LostRows(r)', Straight(r)', mishaps' + 1)
  BY <1>1, Fewer DEF RowsPaid
<1>3. CASE LostRows(r) \subseteq LostRows(r)'
  <2>1. Within(LostRows(r)', DoomedRows(r)', mishaps')
    BY <1>1, <1>3, Fewer DEF RowsPaid
  <2>2. QED
    BY <1>2, <2>1 DEF RowsPaid, Within
<1>4. ASSUME NEW w \in LostRows(r), w \notin LostRows(r)'
      PROVE  RowsPaid(r)'
  <2>1. LostRows(r)' \subseteq LostRows(r) \ {w} /\ DoomedRows(r)' \subseteq Straight(r)
    BY <1>4, DoomedAreStraight
  <2>2. Within(LostRows(r)', DoomedRows(r)', (mishaps + 1) - 1)
    BY <1>1, <1>4, <2>1, DropLeft DEF RowsPaid
  <2>3. Within(LostRows(r)', DoomedRows(r)', mishaps)
    BY <1>1, <2>2
  <2>4. Within(LostRows(r)', DoomedRows(r)', mishaps')
    BY <1>1, <2>3, Fewer
  <2>5. QED
    BY <1>2, <2>4 DEF RowsPaid, Within
<1>5. QED
  BY <1>3, <1>4

\* The other sessions do what they did, with the same rows.
LEMMA RowsOfOthers ==
    ASSUME Order, NEW r, NEW s \in Session, SameRows,
           \A t \in Session \ {s} : job'[t] = job[t]
    PROVE  /\ MadeFrom(r)' = MadeFrom(r) /\ LinkedTo(r)' = LinkedTo(r)
           /\ \A l : Taken(l, r)' <=> Taken(l, r)
           /\ Straight(r)' \ {s} \subseteq Straight(r)
           /\ LostRows(r) \subseteq LostRows(r)' => DoomedRows(r)' \ {s} \subseteq DoomedRows(r)
<1>1. MadeFrom(r)' = MadeFrom(r) /\ LinkedTo(r)' = LinkedTo(r)
      /\ \A l : Taken(l, r)' <=> Taken(l, r)
  BY DEF SameRows, MadeFrom, LinkedTo, Taken
<1>2. Straight(r)' \ {s} \subseteq Straight(r)
  BY <1>1 DEF Straight, Linking, Diverts
<1>3. ASSUME LostRows(r) \subseteq LostRows(r)', NEW t \in Session \ {s}, Refused(job[t], r)'
      PROVE  Refused(job[t], r)
  <2>1. PICK l : l = job[t].item.on
    OBVIOUS
  <2>2. job'[t] = job[t] /\ job'[t].item.on = l
    BY <2>1
  <2>3. /\ job[t].pc \in Holding /\ l \in MadeFrom(r) /\ Target(job[t].item) = r
        /\ OnlyTo(l, r)' /\ Taken(l, r)'
    BY <1>1, <1>3, <2>2 DEF Refused, MadeFrom
  <2>4. l \notin LostRows(r)'
    BY <2>3 DEF LostRows
  <2>5. OnlyTo(l, r)
    BY <1>3, <2>3, <2>4 DEF LostRows
  <2>6. QED
    BY <1>1, <2>1, <2>3, <2>5 DEF Refused
<1>4. ASSUME NEW t \in Session \ {s}, Late(job[t], r)' PROVE Late(job[t], r)
  BY <1>1, <1>4 DEF Late
<1>5. LostRows(r) \subseteq LostRows(r)' => DoomedRows(r)' \ {s} \subseteq DoomedRows(r)
  BY <1>3, <1>4 DEF DoomedRows
<1>6. QED
  BY <1>1, <1>2, <1>5

\* What is only linked, or to be linked, to r stays so if s neither moves it nor drops it.
LEMMA OnlyToStays ==
    ASSUME Order, NEW r \in Remotes, NEW s \in Session, SameRows,
           \A t \in Session \ {s} : job'[t] = job[t],
           NEW l \in Issues, OnlyTo(l, r), ~ Moves(job'[s], l, r),
           Linked(l) \/ (Aims(job[s], l, r) => Aims(job'[s], l, r))
    PROVE  OnlyTo(l, r)'
<1>1. links'[l].remote = links[l].remote /\ links[l].remote \in {0, r}
  BY DEF SameRows, OnlyTo
<1>2. \A t \in Session : ~ Moves(job'[t], l, r)
  BY DEF OnlyTo
<1>3. links[l].remote = r \/ \E t \in Session : Aims(job'[t], l, r)
  <2>1. CASE Linked(l)
    BY <1>1, <2>1 DEF Linked
  <2>2. CASE ~ Linked(l) /\ links[l].remote # r
    <3>1. PICK t \in Session : Aims(job[t], l, r)
      BY <2>2 DEF OnlyTo
    <3>2. QED
      BY <2>2, <3>1
  <2>3. QED
    BY <2>1, <2>2
<1>4. QED
  BY <1>1, <1>2, <1>3 DEF OnlyTo, Moves, Aims

LEMMA RowsQuiet ==
    ASSUME IInv, Order, [Next]_vars, NEW r \in Remotes, RowsPaid(r), NEW s \in Session, SameRows,
           \A t \in Session \ {s} : job'[t] = job[t],
           \A l \in MadeFrom(r) : OnlyTo(l, r) =>
               /\ ~ Moves(job'[s], l, r)
               /\ Linked(l) \/ (Aims(job[s], l, r) => Aims(job'[s], l, r)),
           s \in Straight(r)' => s \in Straight(r),
           \A l \in MadeFrom(r) : Grabs(job'[s], l, r) =>
               Grabs(job[s], l, r) \/ Linked(l) \/ ~ Taken(l, r),
           Late(job'[s], r) => Late(job[s], r)
    PROVE  RowsPaid(r)'
<1>1. /\ MadeFrom(r)' = MadeFrom(r) /\ MadeFrom(r) \subseteq Issues
      /\ LinkedTo(r)' = LinkedTo(r)
      /\ \A l : Taken(l, r)' <=> Taken(l, r)
      /\ Straight(r)' \ {s} \subseteq Straight(r)
      /\ LostRows(r) \subseteq LostRows(r)' => DoomedRows(r)' \ {s} \subseteq DoomedRows(r)
  BY RowsOfOthers DEF MadeFrom
<1>2. LostRows(r)' \subseteq LostRows(r)
  BY <1>1, OnlyToStays DEF LostRows
<1>3. Straight(r)' \subseteq Straight(r)
  BY <1>1
<1>4. ASSUME LostRows(r) \subseteq LostRows(r)', s \in DoomedRows(r)'
      PROVE  s \in DoomedRows(r)
  <2>1. CASE Late(job[s], r)'
    <3>1. Late(job'[s], r)
      BY <1>1, <2>1 DEF Late
    <3>2. QED
      BY <3>1 DEF DoomedRows
  <2>2. CASE Refused(job[s], r)'
    <3>1. PICK l : l = job'[s].item.on
      OBVIOUS
    <3>2. Grabs(job'[s], l, r) /\ l \in MadeFrom(r) /\ OnlyTo(l, r)' /\ Taken(l, r)'
      BY <1>1, <2>2, <3>1 DEF Refused, Grabs, Target
    <3>3. OnlyTo(l, r) /\ Taken(l, r)
      BY <1>1, <1>4, <3>2 DEF LostRows
    <3>4. ~ Linked(l)
      BY <1>1, <3>2, <3>3 DEF OnlyTo, Linked, Taken, IInv, OneLinkPerRemote
    <3>5. Grabs(job[s], l, r)
      BY <1>1, <3>2, <3>3, <3>4
    <3>6. QED
      BY <3>2, <3>3, <3>5 DEF Grabs, Refused, DoomedRows
  <2>3. QED
    BY <1>4, <2>1, <2>2 DEF DoomedRows
<1>5. LostRows(r) \subseteq LostRows(r)' => DoomedRows(r)' \subseteq DoomedRows(r)
  BY <1>1, <1>4
<1>6. QED
  BY <1>2, <1>3, <1>5, RowsNoMore

LEMMA RowsOthers ==
    ASSUME IInv, [Next]_vars, NEW r, RowsPaid(r), SamePairs, job' = job
    PROVE  RowsPaid(r)'
<1>1. /\ MadeFrom(r)' = MadeFrom(r) /\ MadeFrom(r) \subseteq Issues /\ LinkedTo(r)' = LinkedTo(r)
      /\ \A l : Taken(l, r)' <=> Taken(l, r)
  BY DEF SamePairs, MadeFrom, LinkedTo, Taken
<1>2. \A l \in Issues : OnlyTo(l, r)' <=> OnlyTo(l, r)
  BY DEF SamePairs, OnlyTo, Moves, Aims
<1>3. LostRows(r)' = LostRows(r)
  BY <1>1, <1>2 DEF LostRows
<1>4. Straight(r)' \subseteq Straight(r)
  BY <1>1 DEF Straight, Linking, Diverts
<1>5. DoomedRows(r)' \subseteq DoomedRows(r)
  BY <1>1, <1>2 DEF DoomedRows, Refused, Late
<1>6. QED
  BY <1>3, <1>4, <1>5, RowsNoMore

LEMMA RowsBegin ==
    ASSUME IInv, Order, [Next]_vars, NEW r \in Remotes, RowsPaid(r),
           NEW s \in Session, NEW c \in Requests, Begin(s, c)
    PROVE  RowsPaid(r)'
<1>1. /\ job[s].pc = "idle" /\ job'[s].pc \in {"fetch", "read"} /\ job'[s].todo = {}
      /\ \A t \in Session \ {s} : job'[t] = job[t]
      /\ \/ mishaps' = mishaps + 1
         \/ mishaps' = mishaps /\ Active = {}
      /\ SameRows
  BY BeginIs, SameBoard DEF SamePairs, SameRows
<1>2. job[s] = Idle
  BY <1>1 DEF Order, Tidy, Ready
<1>3. /\ \A l : ~ Moves(job'[s], l, r) /\ ~ Aims(job[s], l, r) /\ ~ Grabs(job'[s], l, r)
      /\ ~ Late(job'[s], r)
  BY <1>1, <1>2, IdleMoves, NothingMoves DEF Grabs, Holding, Late
<1>4. /\ MadeFrom(r)' = MadeFrom(r) /\ MadeFrom(r) \subseteq Issues
      /\ LinkedTo(r)' = LinkedTo(r)
      /\ Straight(r)' \ {s} \subseteq Straight(r)
      /\ LostRows(r) \subseteq LostRows(r)' => DoomedRows(r)' \ {s} \subseteq DoomedRows(r)
  BY <1>1, RowsOfOthers DEF MadeFrom
<1>5. LostRows(r)' = LostRows(r)
  <2>1. LostRows(r)' \subseteq LostRows(r)
    BY <1>1, <1>3, <1>4, OnlyToStays DEF LostRows
  <2>2. ASSUME NEW l \in MadeFrom(r), OnlyTo(l, r)' PROVE OnlyTo(l, r)
    <3>1. \A t \in Session : (Moves(job[t], l, r) => Moves(job'[t], l, r))
                             /\ (Aims(job'[t], l, r) => Aims(job[t], l, r))
      <4>1. ~ Moves(job[s], l, r) /\ ~ Aims(job'[s], l, r)
        BY <1>1, <1>2, IdleMoves DEF Aims, Holding
      <4>2. QED
        BY <1>1, <4>1
    <3>2. /\ links[l].remote \in {0, r} /\ \A t \in Session : ~ Moves(job'[t], l, r)
          /\ links[l].remote = r \/ \E t \in Session : Aims(job'[t], l, r)
      BY <1>1, <1>4, <2>2 DEF OnlyTo, SameRows, Moves, Aims
    <3>3. QED
      BY <3>1, <3>2 DEF OnlyTo
  <2>3. QED
    BY <1>4, <2>1, <2>2 DEF LostRows
<1>6. DoomedRows(r)' \subseteq DoomedRows(r)
  <2>1. s \notin DoomedRows(r)'
    BY <1>1 DEF DoomedRows, Refused, Late, Holding
  <2>2. QED
    BY <1>4, <1>5, <2>1
<1>7. /\ mishaps \in Int /\ mishaps + 1 \in Int /\ mishaps <= mishaps + 1 /\ mishaps <= mishaps
  BY Counting
<1>8. CASE mishaps' = mishaps + 1
  <2>1. Within(LostRows(r)', DoomedRows(r)', mishaps + 1)
    BY <1>5, <1>6, <1>7, Fewer DEF RowsPaid
  <2>2. Within(LostRows(r)', Straight(r)', (mishaps + 1) + 1)
    BY <1>4, <1>5, <1>7, OneMoreRight DEF RowsPaid
  <2>3. QED
    BY <1>8, <2>1, <2>2 DEF RowsPaid, Within
<1>9. CASE mishaps' = mishaps /\ Active = {}
  <2>1. Straight(r) = {}
    BY <1>9 DEF Active, Straight, Linking
  <2>2. Straight(r)' \subseteq DoomedRows(r) \cup {s}
    BY <1>4, <2>1
  <2>3. Within(LostRows(r)', DoomedRows(r)', mishaps)
    BY <1>5, <1>6, <1>7, Fewer DEF RowsPaid
  <2>4. Within(LostRows(r)', Straight(r)', mishaps + 1)
    BY <1>5, <1>7, <2>2, OneMoreRight DEF RowsPaid
  <2>5. QED
    BY <1>9, <2>3, <2>4 DEF RowsPaid, Within
<1>10. QED
  BY <1>1, <1>8, <1>9

\* A command that ends gives up at most the row it holds: that costs its place.
LEMMA RowsEnd ==
    ASSUME IInv, Order, [Next]_vars, NEW r \in Remotes, RowsPaid(r), NEW s \in Session, SameRows,
           \A t \in Session \ {s} : job'[t] = job[t], job'[s] = Idle,
           \/ mishaps' = mishaps + 1
           \/ Grabs(job[s], job[s].item.on, r) => Taken(job[s].item.on, r)
    PROVE  RowsPaid(r)'
<1> DEFINE l == job[s].item.on
<1>1. Tidy(job[s]) /\ MadeFrom(r) \subseteq Issues
  BY DEF Order, MadeFrom
<1>2. \A i : ~ Moves(job'[s], i, r) /\ ~ Grabs(job'[s], i, r)
  BY IdleMoves, NothingIs DEF Grabs, Holding
<1>3. ~ Late(job'[s], r) /\ s \notin Straight(r)' /\ s \notin DoomedRows(r)'
  BY NothingIs DEF Late, Straight, Linking, DoomedRows, Refused, Holding
<1>4. \A i \in Issues : ~ Linked(i) /\ Aims(job[s], i, r) => i = l /\ Grabs(job[s], l, r)
  BY <1>1, TodoIsLinked DEF Aims, Grabs
<1>5. CASE ~ (l \in MadeFrom(r) /\ OnlyTo(l, r) /\ Grabs(job[s], l, r))
  <2>1. \A i \in MadeFrom(r) : OnlyTo(i, r) =>
            ~ Moves(job'[s], i, r) /\ (Linked(i) \/ (Aims(job[s], i, r) => Aims(job'[s], i, r)))
    BY <1>1, <1>2, <1>4, <1>5
  <2>2. QED
    BY <1>2, <1>3, <2>1, RowsQuiet
<1>6. CASE l \in MadeFrom(r) /\ OnlyTo(l, r) /\ Grabs(job[s], l, r)
  <2>1. /\ MadeFrom(r)' = MadeFrom(r)
        /\ Straight(r)' \subseteq Straight(r) \ {s}
        /\ LostRows(r) \subseteq LostRows(r)' => DoomedRows(r)' \subseteq DoomedRows(r) \ {s}
        /\ DoomedRows(r)' \subseteq Straight(r) \ {s}
    BY <1>3, RowsOfOthers, DoomedAreStraight
  <2>2. s \in Straight(r)
    BY <1>6 DEF Grabs, Straight, Linking, Diverts, Holding
  <2>3. LostRows(r)' \subseteq LostRows(r) \cup {l}
    <3>1. ASSUME NEW i \in MadeFrom(r), i # l, OnlyTo(i, r) PROVE OnlyTo(i, r)'
      BY <1>1, <1>2, <1>4, <3>1, OnlyToStays
    <3>2. QED
      BY <2>1, <3>1 DEF LostRows
  <2> HIDE DEF l
  <2>4. /\ mishaps \in Int /\ mishaps' \in Int /\ mishaps <= mishaps'
        /\ mishaps + 1 \in Int /\ mishaps' + 1 \in Int /\ mishaps + 1 <= mishaps' + 1
        /\ (mishaps + 1) - 1 = mishaps
    BY Counting
  <2>5. \E x : LostRows(r)' \subseteq LostRows(r) \cup {x}
    BY <2>3
  <2>6. Within(LostRows(r)', Straight(r)', mishaps' + 1)
    <3>1. \E d \in Straight(r) : Straight(r)' \subseteq Straight(r) \ {d}
      BY <2>1, <2>2
    <3>2. Within(LostRows(r)', Straight(r)', mishaps + 1)
      BY <2>4, <2>5, <3>1, Swap DEF RowsPaid
    <3>3. QED
      BY <2>4, <3>2, Fewer
  <2>7. Within(LostRows(r), DoomedRows(r)', (mishaps + 1) - 1)
    BY <2>1, <2>2, <2>4, Drop DEF RowsPaid
  <2>8. CASE mishaps' = mishaps + 1
    <3>1. Within(LostRows(r)', DoomedRows(r)', mishaps + 1)
      BY <2>3, <2>4, <2>7, OneMore
    <3>2. QED
      BY <2>6, <2>8, <3>1 DEF RowsPaid, Within
  <2>9. CASE Taken(l, r)
    <3>1. s \in DoomedRows(r)
      BY <1>6, <2>9 DEF DoomedRows, Refused, Grabs
    <3>2. Within(LostRows(r)', DoomedRows(r)', mishaps)
      <4>1. CASE LostRows(r) \subseteq LostRows(r)'
        <5>1. \E d \in DoomedRows(r) : DoomedRows(r)' \subseteq DoomedRows(r) \ {d}
          BY <2>1, <3>1, <4>1
        <5>2. QED
          BY <2>4, <2>5, <5>1, Swap DEF RowsPaid
      <4>2. ASSUME NEW w \in LostRows(r), w \notin LostRows(r)'
            PROVE  Within(LostRows(r)', DoomedRows(r)', mishaps)
        <5>1. PICK k \in Int : k = mishaps - 1
          BY <2>4
        <5>2. Within(LostRows(r), DoomedRows(r)', mishaps)
          BY <2>4, <2>7
        <5>3. Within(LostRows(r) \ {w}, DoomedRows(r)', k)
          BY <2>4, <4>2, <5>1, <5>2, DropLeft
        <5>4. LostRows(r)' \subseteq (LostRows(r) \ {w}) \cup {l}
          BY <2>3, <4>2
        <5>5. Within(LostRows(r)', DoomedRows(r)', k + 1)
          BY <5>3, <5>4, OneMore
        <5>6. QED
          BY <2>4, <5>1, <5>5
      <4>3. QED
        BY <4>1, <4>2
    <3>3. Within(LostRows(r)', DoomedRows(r)', mishaps')
      BY <2>4, <3>2, Fewer
    <3>4. QED
      BY <2>6, <3>3 DEF RowsPaid, Within
  <2>10. QED
    BY <1>6, <2>8, <2>9 DEF l
<1>7. QED
  BY <1>5, <1>6

\* A command takes hold of a row, to link it to something else than where it came from.
LEMMA RowsDivert ==
    ASSUME IInv, Order, [Next]_vars, NEW r \in Remotes, RowsPaid(r), NEW s \in Session, SameRows,
           \A t \in Session \ {s} : job'[t] = job[t],
           NEW l \in Issues, job[s].pc \notin Holding \cup {"idle", "note"}, job[s].todo = {},
           job'[s].pc \in Holding, job'[s].item.on = l, Target(job'[s].item) # r,
           job'[s].item.link.remote = 0, job'[s].todo = {},
           Linked(l) => mishaps' = mishaps + 1
    PROVE  RowsPaid(r)'
<1>1. /\ \A i : ~ Moves(job[s], i, r) /\ ~ Aims(job[s], i, r)
      /\ \A i : Moves(job'[s], i, r) => i = l
      /\ \A i : ~ Grabs(job'[s], i, r)
      /\ ~ Late(job'[s], r)
      /\ s \in Straight(r)
  BY DEF Moves, Aims, Grabs, Late, Straight, Linking, Diverts, Holding
<1>2. MadeFrom(r) \subseteq Issues
  BY DEF MadeFrom
<1>3. CASE ~ (l \in MadeFrom(r) /\ OnlyTo(l, r))
  <2>1. \A i \in MadeFrom(r) : OnlyTo(i, r) =>
            ~ Moves(job'[s], i, r) /\ (Linked(i) \/ (Aims(job[s], i, r) => Aims(job'[s], i, r)))
    BY <1>1, <1>3
  <2>2. QED
    BY <1>1, <2>1, RowsQuiet
<1>4. CASE l \in MadeFrom(r) /\ OnlyTo(l, r)
  <2>1. MadeFrom(r)' = MadeFrom(r) /\ Straight(r)' \ {s} \subseteq Straight(r)
    BY RowsOfOthers
  <2>2. Straight(r)' \subseteq Straight(r) \ {s}
    <3>1. Diverts(job[s], r)'
      BY <1>4, <2>1 DEF Diverts, Target
    <3>2. QED
      BY <2>1, <3>1 DEF Straight
  <2>3. DoomedRows(r)' \subseteq Straight(r) \ {s}
    BY <2>2, DoomedAreStraight
  <2>4. LostRows(r)' \subseteq LostRows(r) \cup {l}
    <3>1. ASSUME NEW i \in MadeFrom(r), i # l, OnlyTo(i, r) PROVE OnlyTo(i, r)'
      BY <1>1, <1>2, <3>1, OnlyToStays
    <3>2. QED
      BY <2>1, <3>1 DEF LostRows
  <2>5. /\ mishaps \in Int /\ mishaps' \in Int /\ mishaps <= mishaps'
        /\ mishaps + 1 \in Int /\ mishaps' + 1 \in Int /\ mishaps + 1 <= mishaps' + 1
        /\ (mishaps + 1) - 1 = mishaps
    BY Counting
  <2>6. \E x : LostRows(r)' \subseteq LostRows(r) \cup {x}
    BY <2>4
  <2>7. Within(LostRows(r)', Straight(r)', mishaps' + 1)
    <3>1. \E d \in Straight(r) : Straight(r)' \subseteq Straight(r) \ {d}
      BY <1>1, <2>2
    <3>2. Within(LostRows(r)', Straight(r)', mishaps + 1)
      BY <2>5, <2>6, <3>1, Swap DEF RowsPaid
    <3>3. QED
      BY <2>5, <3>2, Fewer
  <2>8. CASE Linked(l)
    <3>1. \E d \in Straight(r) : DoomedRows(r)' \subseteq Straight(r) \ {d}
      BY <1>1, <2>3
    <3>2. Within(LostRows(r)', DoomedRows(r)', mishaps + 1)
      BY <2>5, <2>6, <3>1, Swap DEF RowsPaid
    <3>3. mishaps' = mishaps + 1
      BY <2>8
    <3>4. QED
      BY <2>7, <3>2, <3>3 DEF RowsPaid, Within
  <2>9. CASE ~ Linked(l)
    <3>1. PICK t \in Session : Aims(job[t], l, r)
      BY <1>4, <2>9, Facts DEF OnlyTo, Linked
    <3>2. t # s /\ job'[t] = job[t] /\ Tidy(job[t])
      BY <1>1, <3>1 DEF Order
    <3>3. Grabs(job[t], l, r)
      BY <2>9, <3>1, <3>2, TodoIsLinked DEF Aims, Grabs
    <3>4. t \in Straight(r) \ {s}
      BY <3>2, <3>3 DEF Grabs, Straight, Linking, Diverts, Holding
    <3>5. t \notin DoomedRows(r)'
      <4>1. ~ OnlyTo(l, r)'
        <5>1. Moves(job[s], l, r)'
          BY DEF Moves, Target
        <5>2. QED
          BY <5>1 DEF OnlyTo
      <4>2. job'[t].item.on = l /\ job'[t].pc # "create"
        BY <3>2, <3>3 DEF Grabs, Holding
      <4>3. ~ Refused(job[t], r)'
        <5>1. PICK i : i = job'[t].item.on
          OBVIOUS
        <5>2. Refused(job[t], r)' => OnlyTo(i, r)'
          BY <5>1 DEF Refused
        <5>3. QED
          BY <4>1, <4>2, <5>1, <5>2
      <4>4. QED
        BY <4>2, <4>3 DEF DoomedRows, Late
    <3>6. Within(LostRows(r), Straight(r) \ {s}, mishaps)
      <4>1. Within(LostRows(r), Straight(r) \ {s}, (mishaps + 1) - 1)
        BY <1>1, <2>5, Drop DEF RowsPaid
      <4>2. QED
        BY <2>5, <4>1
    <3>7. \E d \in Straight(r) \ {s} : DoomedRows(r)' \subseteq (Straight(r) \ {s}) \ {d}
      BY <2>3, <3>4, <3>5
    <3>8. Within(LostRows(r)', DoomedRows(r)', mishaps)
      BY <2>5, <2>6, <3>6, <3>7, Swap
    <3>9. Within(LostRows(r)', DoomedRows(r)', mishaps')
      BY <2>5, <3>8, Fewer
    <3>10. QED
      BY <2>7, <3>9 DEF RowsPaid, Within
  <2>10. QED
    BY <2>8, <2>9
<1>5. QED
  BY <1>3, <1>4

LEMMA RowsPlain ==
    ASSUME IInv, Order, [Next]_vars, NEW r \in Remotes, RowsPaid(r),
           NEW s \in Session, PlainStep(s)
    PROVE  RowsPaid(r)'
<1>1. Tidy(job[s]) /\ Sources /\ r # 0
  BY Facts DEF Order
<1>2. job[s].pc # "idle" /\ \A t \in Session \ {s} : job'[t] = job[t]
  BY OwnJob DEF PlainStep, Import, PushStep
<1>3. SameRows /\ MadeFrom(r) \subseteq Issues
  BY <1>1, PlainStepIs DEF SamePairs, SameRows, MadeFrom
\* Before, it has nothing of the board in hand; after, nothing that is not linked.
<1>4. ASSUME job[s].pc \notin Holding \cup {"idle", "note"},
             \A l \in Issues : OnlyTo(l, r) => ~ Moves(job'[s], l, r),
             \A l \in Issues : Linked(l) \/ (Aims(job[s], l, r) => Aims(job'[s], l, r)),
             \A l \in Issues : Grabs(job'[s], l, r) => Linked(l) \/ ~ Taken(l, r),
             Late(job'[s], r) => Late(job[s], r)
      PROVE  RowsPaid(r)'
  <2>1. s \in Straight(r)
    BY <1>4 DEF Straight, Linking, Diverts
  <2>2. QED
    BY <1>2, <1>3, <1>4, <2>1, RowsQuiet
\* It keeps what it holds.
<1>5. ASSUME Keeps(job[s], job'[s]), job[s].pc \in {"archive", "refresh", "update", "comment"},
             job'[s].pc \in {"comment", "link"}
      PROVE  RowsPaid(r)'
  <2>1. \A l : /\ Moves(job'[s], l, r) => Moves(job[s], l, r)
               /\ Aims(job[s], l, r) => Aims(job'[s], l, r)
               /\ Grabs(job'[s], l, r) => Grabs(job[s], l, r)
    BY <1>5 DEF Keeps, Moves, Aims, Grabs, Target, Holding
  <2>2. ~ Late(job'[s], r)
    BY <1>5 DEF Late
  <2>3. s \in Straight(r)' => s \in Straight(r)
    BY <1>3, <1>5 DEF Keeps, Straight, Linking, Diverts, Target, Holding, SameRows, MadeFrom
  <2>4. QED
    BY <1>2, <1>3, <2>1, <2>2, <2>3, RowsQuiet DEF OnlyTo
\* It ends, or drops what it holds, which it was not to link to r unless it is linked.
<1>6. ASSUME \/ job'[s] = Idle
             \/ job'[s].pc = "next" /\ job'[s].item = NoItem /\ job'[s].todo = job[s].todo,
             job[s].item.on \in Issues => Linked(job[s].item.on) \/ ~ Grabs(job[s], job[s].item.on, r),
             s \in Straight(r)' => s \in Straight(r)
      PROVE  RowsPaid(r)'
  <2>1. \A l \in Issues : Aims(job[s], l, r) => Linked(l)
    BY <1>1, <1>6, TodoIsLinked DEF Aims, Grabs
  <2>2. \A l : (Moves(job'[s], l, r) => Moves(job[s], l, r)) /\ ~ Grabs(job'[s], l, r)
    BY <1>6, NothingIs DEF Moves, Grabs, Holding
  <2>3. ~ Late(job'[s], r)
    BY <1>6, NothingIs DEF Late
  <2>4. QED
    BY <1>2, <1>3, <1>6, <2>1, <2>2, <2>3, RowsQuiet DEF OnlyTo
<1>7. job'[s] = Idle => ~ (s \in Straight(r)')
  BY NothingIs DEF Straight, Linking
<1>8. ASSUME job'[s] = Idle, job[s].pc \notin Holding PROVE RowsPaid(r)'
  BY <1>6, <1>7, <1>8 DEF Grabs
<1>9. ASSUME FetchIssue(s) \/ FetchMine(s) PROVE RowsPaid(r)'
  <2>1. /\ job[s].pc = "fetch" /\ job[s].todo = {}
        /\ \/ job'[s] = Idle
           \/ /\ job'[s].pc \in {"resolve", "next"} /\ job'[s].item.on = 0
              /\ \A i \in job'[s].todo : i.on = 0
    BY <1>1, <1>9, FetchIs
  <2>2. CASE job'[s] # Idle
    <3>1. \A l \in Issues : /\ ~ Moves(job'[s], l, r) /\ ~ Aims(job[s], l, r)
                            /\ ~ Grabs(job'[s], l, r)
      BY <2>1, <2>2, Facts DEF Moves, Aims, Grabs, Holding
    <3>2. QED
      BY <1>4, <2>1, <2>2, <3>1 DEF Holding, Late
  <2>3. QED
    BY <1>8, <2>1, <2>2 DEF Holding
<1>10. ASSUME NextItem(s) PROVE RowsPaid(r)'
  <2>1. PICK i \in job[s].todo :
          /\ job[s].pc = "next" /\ job'[s].pc \in {"fetchLinked", "resolve"}
          /\ job'[s].item = i /\ job'[s].todo = job[s].todo \ {i}
          /\ i.on = 0 \/ (i.link.remote # 0 /\ i.on \in Issues)
    BY <1>1, <1>10, NextItemIs
  <2>2. \A l : Moves(job'[s], l, r) => Moves(job[s], l, r)
    BY <2>1 DEF Moves
  <2>3. \A l \in Issues : (Aims(job[s], l, r) => Linked(l)) /\ (Grabs(job'[s], l, r) => Linked(l))
    BY <1>1, <2>1, Facts, TodoIsLinked DEF Aims, Grabs, Holding
  <2>4. QED
    BY <1>4, <2>1, <2>2, <2>3 DEF OnlyTo, Holding, Late
<1>11. ASSUME NoMoreItems(s) PROVE RowsPaid(r)'
  BY <1>8, <1>11, NoMoreItemsIs DEF Holding
<1>12. ASSUME ResolveExisting(s) PROVE RowsPaid(r)'
  <2>1. job[s].pc = "resolve"
    BY <1>1, <1>12, ResolveExistingIs
  <2>2. ASSUME NEW i \in Issues, links[i].remote = job[s].item.copy.id,
               job[s].item.copy.id # 0,
               job'[s].pc = "refresh", job'[s].item.on = i,
               job'[s].item.copy.id = job[s].item.copy.id, job'[s].todo = job[s].todo
        PROVE  RowsPaid(r)'
    <3>1. Target(job'[s].item) = links[i].remote /\ Linked(i)
      BY <2>2 DEF Target, Linked
    <3>2. \A l \in Issues : OnlyTo(l, r) => ~ Moves(job'[s], l, r)
      BY <2>2, <3>1 DEF Moves, OnlyTo, Linked
    <3>3. \A l \in Issues : (Aims(job[s], l, r) => Aims(job'[s], l, r))
      BY <2>1, <2>2 DEF Aims, Holding
    <3>4. QED
      BY <1>4, <2>1, <2>2, <3>1, <3>2, <3>3 DEF Holding, Late, Grabs
  <2>3. QED
    BY <1>1, <1>8, <1>12, <2>1, <2>2, ResolveExistingIs DEF Holding
<1>13. ASSUME ResolveAdopt(s) PROVE RowsPaid(r)'
  <2>1. PICK l \in Issues :
          /\ job[s].pc = "resolve" /\ job[s].todo = {}
          /\ job[s].item.copy.id # 0 /\ LinkedTo(job[s].item.copy.id) = {}
          /\ job'[s].pc = "refresh" /\ job'[s].item.on = l /\ job'[s].todo = {}
          /\ job'[s].item.link.remote = 0
          /\ job'[s].item.copy.id = job[s].item.copy.id
          /\ mishaps' = mishaps + IF Linked(l) THEN 1 ELSE 0
    BY <1>1, <1>13, ResolveAdoptIs
  <2>2. Target(job'[s].item) = job[s].item.copy.id
    BY <2>1 DEF Target
  <2>3. CASE job[s].item.copy.id # r
    BY <1>2, <1>3, <2>1, <2>2, <2>3, RowsDivert DEF Holding
  <2>4. CASE job[s].item.copy.id = r
    <3>1. \A i \in Issues : /\ ~ Moves(job'[s], i, r) /\ ~ Aims(job[s], i, r) /\ ~ Taken(i, r)
      BY <2>1, <2>2, <2>4 DEF Moves, Aims, Taken, LinkedTo, Holding
    <3>2. QED
      BY <1>4, <2>1, <3>1 DEF Holding, Late
  <2>5. QED
    BY <2>3, <2>4
<1>14. ASSUME ResolveCreate(s) PROVE RowsPaid(r)'
  <2>1. /\ job[s].pc = "resolve" /\ job'[s].pc = "create" /\ job'[s].todo = job[s].todo
        /\ LinkedTo(job[s].item.copy.id) = {} /\ job'[s].item = job[s].item
    BY <1>1, <1>14, ResolveCreateIs
  <2>2. \A l : /\ Moves(job'[s], l, r) => Moves(job[s], l, r)
               /\ Aims(job[s], l, r) => Aims(job'[s], l, r)
               /\ ~ Grabs(job'[s], l, r)
    BY <2>1 DEF Moves, Aims, Grabs, Holding
  <2>3. ~ Late(job'[s], r)
    BY <2>1 DEF Late
  <2>4. QED
    BY <1>4, <2>1, <2>2, <2>3 DEF OnlyTo, Holding
<1>15. ASSUME ArchiveCreated(s) \/ Refresh(s) PROVE RowsPaid(r)'
  <2>1. /\ job[s].pc \in {"refresh", "archive"} /\ job'[s].pc = "link"
        /\ job'[s].item = job[s].item /\ job'[s].cmd = job[s].cmd
        /\ job'[s].todo = job[s].todo
    BY <1>1, <1>15, RowWriteIs
  <2>2. QED
    BY <1>5, <2>1 DEF Keeps
<1>16. ASSUME LinkRefused(s) PROVE RowsPaid(r)'
  <2>1. /\ job[s].pc = "link" /\ Taken(job[s].item.on, job[s].item.copy.id)
        /\ job'[s] = Idle
    BY <1>1, <1>16, LinkRefusedIs
  <2>2. Target(job[s].item) = job[s].item.copy.id
    BY <1>1, <2>1, TargetIs
  <2>3. Grabs(job[s], job[s].item.on, r) => Taken(job[s].item.on, r)
    BY <2>1, <2>2 DEF Grabs
  <2>4. QED
    BY <1>2, <1>3, <2>1, <2>3, RowsEnd
<1>17. ASSUME ReadLinks(s) PROVE RowsPaid(r)'
  <2>1. /\ job[s].pc = "read" /\ job[s].todo = {}
        /\ job'[s].pc = "next" /\ job'[s].item = NoItem
        /\ \A i \in job'[s].todo : Linked(i.on) /\ Target(i) = links[i.on].remote
    BY <1>1, <1>17, ReadLinksIs
  <2>2. \A l \in Issues : OnlyTo(l, r) => ~ Moves(job'[s], l, r)
    BY <2>1 DEF Moves, OnlyTo, Linked, Holding
  <2>3. \A l : ~ Aims(job[s], l, r) /\ ~ Grabs(job'[s], l, r)
    BY <2>1 DEF Aims, Grabs, Holding
  <2>4. QED
    BY <1>4, <2>1, <2>2, <2>3 DEF Holding, Late
<1>18. ASSUME FetchLinked(s) PROVE RowsPaid(r)'
  <2>1. /\ job[s].pc = "fetchLinked" /\ job[s].item.link.remote # 0
        /\ job[s].item.copy.id = 0 /\ job'[s].todo = job[s].todo
        /\ job[s].item.on \in Issues /\ Linked(job[s].item.on)
        /\ \/ job'[s].pc = "next" /\ job'[s].item = NoItem
           \/ /\ job'[s].pc = "refresh" /\ job'[s].item.on = job[s].item.on
              /\ job'[s].item.link = job[s].item.link
              /\ job'[s].item.copy.id = job[s].item.link.remote
    BY <1>1, <1>18, FetchLinkedIs
  <2>2. s \in Straight(r)
    BY <2>1 DEF Straight, Linking, Diverts
  <2>3. CASE job'[s].pc = "next"
    BY <1>6, <2>1, <2>2, <2>3
  <2>4. CASE job'[s].pc = "refresh"
    <3>1. \A l : /\ Moves(job'[s], l, r) => Moves(job[s], l, r)
                 /\ Aims(job[s], l, r) => Aims(job'[s], l, r)
                 /\ Grabs(job'[s], l, r) => Grabs(job[s], l, r)
      BY <2>1, <2>4 DEF Moves, Aims, Grabs, Target, Holding
    <3>2. QED
      BY <1>2, <1>3, <2>2, <2>4, <3>1, RowsQuiet DEF OnlyTo, Late
  <2>5. QED
    BY <2>1, <2>3, <2>4
<1>19. ASSUME ReadIssue(s) PROVE RowsPaid(r)'
  <2>1. job[s].pc = "read" /\ job[s].todo = {}
    BY <1>1, <1>19, ReadIssueIs
  <2>2. ASSUME NEW i \in Issues,
               job'[s].pc = IF Linked(i) THEN "guard" ELSE "createRemote",
               job'[s].item.on = i, job'[s].item.link = links[i],
               job'[s].item.copy.id = 0, job'[s].todo = {}
        PROVE  RowsPaid(r)'
    <3>1. Target(job'[s].item) = links[i].remote
      BY <2>2 DEF Target
    <3>2. CASE ~ Linked(i)
      BY <1>1, <1>2, <1>3, <2>1, <2>2, <3>1, <3>2, RowsDivert DEF Holding, Linked
    <3>3. CASE Linked(i)
      <4>1. \A l \in Issues : (OnlyTo(l, r) => ~ Moves(job'[s], l, r)) /\ ~ Aims(job[s], l, r)
        BY <2>1, <2>2, <3>1, <3>3 DEF Moves, OnlyTo, Linked, Aims, Holding
      <4>2. \A l \in Issues : Grabs(job'[s], l, r) => Linked(l)
        BY <2>2, <3>3 DEF Grabs
      <4>3. QED
        BY <1>4, <2>1, <2>2, <3>3, <4>1, <4>2 DEF Holding, Late
    <3>4. QED
      BY <3>2, <3>3
  <2>3. QED
    BY <1>1, <1>8, <1>19, <2>1, <2>2, ReadIssueIs DEF Holding
<1>20. ASSUME Guard(s) PROVE RowsPaid(r)'
  <2>1. /\ job[s].pc = "guard" /\ job[s].item.link.remote # 0 /\ job[s].item.copy.id = 0
        /\ job[s].todo = {} /\ Linked(job[s].item.on)
        /\ \/ job'[s] = Idle
           \/ /\ job'[s].pc = "update" /\ job'[s].item.on = job[s].item.on
              /\ job'[s].item.link = job[s].item.link
              /\ job'[s].item.copy.id = job[s].item.link.remote /\ job'[s].todo = {}
    BY <1>1, <1>20, GuardIs DEF Tidy, Grounded, Read
  <2>2. s \in Straight(r)
    BY <2>1 DEF Straight, Linking, Diverts
  <2>3. CASE job'[s] # Idle
    <3>1. \A l : /\ Moves(job'[s], l, r) => Moves(job[s], l, r)
                 /\ Aims(job[s], l, r) => Aims(job'[s], l, r)
                 /\ Grabs(job'[s], l, r) => Grabs(job[s], l, r)
      BY <2>1, <2>3 DEF Moves, Aims, Grabs, Target, Holding
    <3>2. QED
      BY <1>2, <1>3, <2>1, <2>2, <2>3, <3>1, RowsQuiet DEF OnlyTo, Late
  <2>4. QED
    BY <1>6, <2>1, <2>2, <2>3
<1>21. ASSUME NothingToUpdate(s) \/ UpdateRemote(s) \/ EditComment(s) PROVE RowsPaid(r)'
  BY <1>1, <1>5, <1>21, OnwardIs
<1>22. ASSUME RemoteIsGone(s) PROVE RowsPaid(r)'
  <2>1. /\ job[s].pc \in {"update", "comment"} /\ job[s].cmd.op = "push" /\ job'[s] = Idle
        /\ job[s].todo = {}
    BY <1>1, <1>22, RemoteIsGoneIs DEF Tidy, Ready
  <2>2. CASE job[s].item.link.remote # 0
    <3>1. Linked(job[s].item.on)
      BY <1>1, <2>2 DEF Tidy, Grounded, Read
    <3>2. QED
      BY <1>6, <1>7, <2>1, <3>1
  <2>3. CASE job[s].item.link.remote = 0
    <3>1. job[s].item.copy.id # rows[job[s].item.on].from
          /\ Target(job[s].item) = job[s].item.copy.id
      BY <1>1, <2>1, <2>3, TargetIs DEF Tidy, Rooted
    <3>2. \A l \in MadeFrom(r) : ~ Aims(job[s], l, r)
      BY <2>1, <3>1 DEF Aims, MadeFrom
    <3>3. \A l : ~ Moves(job'[s], l, r) /\ ~ Grabs(job'[s], l, r)
      BY <2>1, IdleMoves, NothingIs DEF Grabs, Holding
    <3>4. ~ Late(job'[s], r)
      BY <2>1, NothingIs DEF Late
    <3>5. QED
      BY <1>2, <1>3, <1>7, <2>1, <3>2, <3>3, <3>4, RowsQuiet
  <2>4. QED
    BY <2>2, <2>3
<1>23. CASE FetchIssue(s) \/ FetchMine(s) \/ NextItem(s) \/ NoMoreItems(s)
            \/ ResolveExisting(s) \/ ResolveAdopt(s) \/ ResolveCreate(s)
            \/ ArchiveCreated(s) \/ Refresh(s)
  BY <1>9, <1>10, <1>11, <1>12, <1>13, <1>14, <1>15, <1>23
<1>24. QED
  BY <1>16, <1>17, <1>18, <1>19, <1>20, <1>21, <1>22, <1>23 DEF PlainStep

LEMMA RowsSetComment ==
    ASSUME IInv, Order, [Next]_vars, NEW r \in Remotes, RowsPaid(r),
           NEW s \in Session, SetComment(s)
    PROVE  RowsPaid(r)'
<1>1. Tidy(job[s]) /\ \A t \in Session \ {s} : job'[t] = job[t]
  BY OwnJob DEF Order, PushStep
<1>2. /\ Issues' = Issues /\ \A i \in Issues : links'[i].remote = links[i].remote
      /\ job[s].pc = "note" /\ job'[s] = Idle /\ rows' = rows
  BY <1>1, SetCommentIs
<1>3. SameRows /\ ~ Grabs(job[s], job[s].item.on, r)
  BY <1>2 DEF SameRows, Grabs, Holding
<1>4. QED
  BY <1>1, <1>2, <1>3, RowsEnd

LEMMA RowsCreateComment ==
    ASSUME IInv, Order, [Next]_vars, NEW r \in Remotes, RowsPaid(r),
           NEW s \in Session, CreateComment(s)
    PROVE  RowsPaid(r)'
<1>1. Tidy(job[s]) /\ \A t \in Session \ {s} : job'[t] = job[t]
  BY OwnJob DEF Order, PushStep
<1>2. /\ job[s].pc = "comment" /\ job'[s].pc = "link"
      /\ job'[s].item = job[s].item /\ job'[s].todo = job[s].todo /\ UNCHANGED board
  BY <1>1, CreateCommentIs
<1>3. SameRows
  BY <1>2 DEF SameRows, board, Issues
<1>4. \A l : /\ Moves(job'[s], l, r) => Moves(job[s], l, r)
             /\ Aims(job[s], l, r) => Aims(job'[s], l, r)
             /\ Grabs(job'[s], l, r) => Grabs(job[s], l, r)
  BY <1>2 DEF Moves, Aims, Grabs, Holding
<1>5. s \in Straight(r)' => s \in Straight(r)
  BY <1>2, <1>3 DEF Straight, Linking, Diverts, Holding, SameRows, MadeFrom
<1>6. QED
  BY <1>1, <1>2, <1>3, <1>4, <1>5, RowsQuiet DEF OnlyTo, Late

LEMMA RowsCreateRemote ==
    ASSUME IInv, Order, [Next]_vars, Within({}, Active, mishaps + 1),
           RowsArePaid, NEW s \in Session, CreateRemote(s)
    PROVE  RowsArePaid'
<1>1. Tidy(job[s]) /\ Sources /\ \A t \in Session \ {s} : job'[t] = job[t]
  BY OwnJob DEF Order, PushStep
<1>2. PICK q : /\ q \notin Remotes /\ Remotes' = Remotes \cup {q} /\ q # 0
               /\ job[s].pc = "createRemote" /\ job'[s].pc = "update"
               /\ job'[s].item.on = job[s].item.on
               /\ job'[s].item.link = job[s].item.link
               /\ job'[s].item.copy.id = q
               /\ job'[s].todo = job[s].todo
               /\ UNCHANGED <<board, comments, counts>>
  BY <1>1, CreateRemoteIs
<1>3. SameRows /\ links' = links /\ Issues' = Issues
  BY <1>2 DEF SameRows, board, Issues
<1>4. /\ job[s].todo = {} /\ job[s].item.link.remote = 0 /\ job[s].item.copy.id = 0
  BY <1>1, <1>2 DEF Tidy, Ready, Grounded
<1>5. Target(job[s].item) = 0 /\ Target(job'[s].item) = q
  BY <1>2, <1>4 DEF Target
<1>6. ASSUME NEW r \in Remotes PROVE RowsPaid(r)'
  <2>1. r # 0 /\ r # q
    BY <1>2, Facts
  <2>2. \A l : /\ Moves(job'[s], l, r) => Moves(job[s], l, r)
               /\ ~ Aims(job[s], l, r) /\ ~ Grabs(job'[s], l, r)
    BY <1>2, <1>4, <1>5, <2>1 DEF Moves, Aims, Grabs, Holding
  <2>3. s \in Straight(r)' => s \in Straight(r)
    <3>1. MadeFrom(r)' = MadeFrom(r)
      BY <1>3 DEF SameRows, MadeFrom
    <3>2. Diverts(job[s], r) => Diverts(job[s], r)'
      BY <1>2, <1>5, <2>1, <3>1 DEF Diverts, Holding, Target
    <3>3. QED
      BY <1>2, <3>2 DEF Straight, Linking
  <2>4. RowsPaid(r)
    BY DEF RowsArePaid
  <2>5. QED
    BY <1>1, <1>2, <1>3, <2>2, <2>3, <2>4, RowsQuiet DEF OnlyTo, Late
<1>7. RowsPaid(q)'
  <2>1. MadeFrom(q)' = {} /\ LinkedTo(q)' = {}
    BY <1>1, <1>2, <1>3, Facts DEF MadeFrom, LinkedTo, Sources, SameRows
  <2>2. LostRows(q)' = {} /\ DoomedRows(q)' = {}
    BY <2>1 DEF LostRows, DoomedRows, Refused, Late
  <2>3. Straight(q)' \subseteq Active
    BY <1>1, <1>2 DEF Straight, Linking, Active
  <2>4. mishaps' = mishaps /\ mishaps + 1 \in Int /\ mishaps + 1 <= mishaps + 1
    BY <1>2, Counting DEF counts
  <2>5. Within(LostRows(q)', DoomedRows(q)', mishaps')
    BY <2>2, <2>4, NoneIsPaid
  <2>6. Within(LostRows(q)', Straight(q)', mishaps' + 1)
    BY <2>2, <2>3, <2>4, Fewer
  <2>7. QED
    BY <2>5, <2>6 DEF RowsPaid, Within
<1>8. QED
  BY <1>2, <1>6, <1>7 DEF RowsArePaid

LEMMA RowsCreateRow ==
    ASSUME IInv, Order, [Next]_vars, NEW r \in Remotes, RowsPaid(r),
           NEW s \in Session, CreateRow(s)
    PROVE  RowsPaid(r)'
<1>1. Tidy(job[s]) /\ Sources /\ \A t \in Session \ {s} : job'[t] = job[t]
  BY OwnJob DEF Order, Import
<1>2. PICK n : /\ n \notin Issues /\ Issues' = Issues \cup {n} /\ n # 0
               /\ rows'[n].from = job[s].item.copy.id /\ links'[n].remote = 0
               /\ \A i \in Issues : rows'[i] = rows[i] /\ links'[i] = links[i]
               /\ job[s].pc = "create" /\ job'[s].pc \in {"archive", "link"}
               /\ job'[s].item.on = n /\ job'[s].item.copy = job[s].item.copy
               /\ job'[s].todo = job[s].todo
               /\ job[s].item.copy.id \in Remotes
  BY <1>1, CreateRowIs
<1> DEFINE q == job[s].item.copy.id
<1>3. Target(job'[s].item) = q /\ r # 0 /\ q # 0
  BY <1>2, Facts DEF Target
<1>4. MadeFrom(r)' = MadeFrom(r) \cup (IF q = r THEN {n} ELSE {})
  BY <1>2 DEF MadeFrom
<1>5. \A t \in Session : /\ job[t].pc \in Holding => job[t].item.on # n
                         /\ \A i \in job[t].todo : i.on # n
  <2>1. SUFFICES ASSUME NEW t \in Session
                 PROVE  /\ job[t].pc \in Holding => job[t].item.on # n
                        /\ \A i \in job[t].todo : i.on # n
    OBVIOUS
  <2>2. job[t].pc \in Holding => job[t].item.on \in Issues
    BY DEF Order, Tidy, Grounded
  <2>3. \A i \in job[t].todo : i.on \in Issues \cup {0}
    BY DEF Order, Tidy, Rooted
  <2>4. QED
    BY <1>2, <2>2, <2>3
<1>6. /\ \A l \in Issues : (Moves(job'[s], l, r) <=> Moves(job[s], l, r))
                           /\ (Aims(job'[s], l, r) <=> Aims(job[s], l, r))
      /\ ~ Moves(job'[s], n, q) /\ Aims(job'[s], n, q)
  BY <1>2, <1>3, <1>5 DEF Moves, Aims, Holding
<1>7. \A l \in Issues : OnlyTo(l, r)' <=> OnlyTo(l, r)
  <2>1. SUFFICES ASSUME NEW l \in Issues PROVE OnlyTo(l, r)' <=> OnlyTo(l, r)
    OBVIOUS
  <2>2. \A t \in Session : (Moves(job'[t], l, r) <=> Moves(job[t], l, r))
                           /\ (Aims(job'[t], l, r) <=> Aims(job[t], l, r))
    BY <1>1, <1>6
  <2>3. OnlyTo(l, r)' <=> /\ links'[l].remote \in {0, r}
                          /\ \A t \in Session : ~ Moves(job'[t], l, r)
                          /\ links'[l].remote = r \/ \E t \in Session : Aims(job'[t], l, r)
    BY DEF OnlyTo, Moves, Aims
  <2>4. QED
    BY <1>2, <2>2, <2>3 DEF OnlyTo
<1>8. q = r => OnlyTo(n, r)'
  <2>1. \A t \in Session : t # s => ~ Moves(job'[t], n, r)
    BY <1>1, <1>5 DEF Moves
  <2>2. q = r => /\ \A t \in Session : ~ Moves(job'[t], n, r)
                 /\ \E t \in Session : Aims(job'[t], n, r)
    BY <1>6, <2>1
  <2>3. QED
    BY <1>2, <2>2 DEF OnlyTo, Moves, Aims
<1>9. LostRows(r)' = LostRows(r)
  BY <1>4, <1>7, <1>8 DEF LostRows, MadeFrom
<1>10. \A t \in Session \ {s} : t \in Linking' => t \in Linking
  BY <1>1 DEF Linking
<1>11. Straight(r)' \subseteq Straight(r)
  <2>1. s \in Straight(r)
    BY <1>2 DEF Straight, Linking, Diverts, Holding
  <2>2. ASSUME NEW t \in Session \ {s}, Diverts(job[t], r) PROVE Diverts(job[t], r)'
    BY <1>1, <1>4, <2>2 DEF Diverts, MadeFrom, Target
  <2>3. QED
    BY <1>10, <2>1, <2>2 DEF Straight, Linking
<1>12. \A l \in Issues : Taken(l, r)' => Taken(l, r)
  BY <1>2, <1>3 DEF Taken
<1>13. LinkedTo(r)' = LinkedTo(r)
  BY <1>2, <1>3 DEF LinkedTo
<1>14. ASSUME NEW t \in Session \ {s}, t \in DoomedRows(r)' PROVE t \in DoomedRows(r)
  <2>1. job'[t] = job[t]
    BY <1>1
  <2>2. CASE Late(job[t], r)'
    BY <1>13, <2>1, <2>2 DEF Late, DoomedRows
  <2>3. CASE Refused(job[t], r)'
    <3>1. PICK l : l = job[t].item.on
      OBVIOUS
    <3>2. /\ job[t].pc \in Holding /\ l \in MadeFrom(r)' /\ Target(job[t].item) = r
          /\ OnlyTo(l, r)' /\ Taken(l, r)'
      BY <2>1, <2>3, <3>1 DEF Refused, MadeFrom
    <3>3. l \in MadeFrom(r) /\ l \in Issues
      BY <1>4, <1>5, <3>1, <3>2 DEF MadeFrom
    <3>4. QED
      BY <1>7, <1>12, <3>1, <3>2, <3>3 DEF Refused, DoomedRows
  <2>4. QED
    BY <1>14, <2>2, <2>3 DEF DoomedRows
<1>15. ASSUME s \in DoomedRows(r)' PROVE s \in DoomedRows(r)
  <2>1. ~ Late(job[s], r)'
    BY <1>2 DEF Late
  <2>2. Refused(job[s], r)'
    BY <1>15, <2>1 DEF DoomedRows
  <2>3. q = r /\ Taken(n, r)'
    <3>1. PICK l : l = job'[s].item.on
      OBVIOUS
    <3>2. Target(job'[s].item) = r /\ Taken(l, r)'
      BY <2>2, <3>1 DEF Refused, Target
    <3>3. QED
      BY <1>2, <1>3, <3>1, <3>2
  <2>4. LinkedTo(r) # {}
    BY <1>2, <2>3 DEF Taken, LinkedTo
  <2>5. QED
    BY <1>2, <2>3, <2>4 DEF Late, DoomedRows
<1>16. DoomedRows(r)' \subseteq DoomedRows(r)
  <2>1. DoomedRows(r)' \subseteq Session
    BY DEF DoomedRows
  <2>2. QED
    BY <1>14, <1>15, <2>1
<1>17. QED
  BY <1>9, <1>11, <1>16, RowsNoMore

LEMMA RowsRecordLink ==
    ASSUME IInv, Order, [Next]_vars, NEW r \in Remotes, RowsPaid(r),
           NEW s \in Session, RecordLink(s)
    PROVE  RowsPaid(r)'
<1>1. Tidy(job[s]) /\ Sources /\ \A t \in Session \ {s} : job'[t] = job[t]
  BY OwnJob DEF Order, Import
<1>2. PICK on, q : /\ on = job[s].item.on /\ q = job[s].item.copy.id
                   /\ on \in Issues /\ q \in Remotes
                   /\ \A i \in Issues : links'[i].remote = IF i = on THEN q ELSE links[i].remote
                   /\ Issues' = Issues /\ job[s].pc = "link"
                   /\ Follows(job[s], job'[s]) \/ job'[s] = Idle
                   /\ UNCHANGED <<rows, linear, counts>>
  BY <1>1, RecordLinkIs
<1>3. /\ job'[s].pc \in {"idle", "next", "note"}
      /\ job'[s].pc = "next" => job[s].cmd.op \in {"mine", "sync"}
      /\ \A i \in job'[s].todo : i \in job[s].todo
  BY <1>2, NothingIs DEF Follows
<1>4. /\ MadeFrom(r)' = MadeFrom(r) /\ MadeFrom(r) \subseteq Issues
      /\ Target(job[s].item) = q /\ r # 0 /\ q # 0
  BY <1>1, <1>2, TargetIs, Facts DEF MadeFrom
<1>5. \A l \in Issues : /\ Moves(job'[s], l, r) => Moves(job[s], l, r)
                        /\ Aims(job[s], l, r) => Linked(l) \/ l = on
  BY <1>1, <1>2, <1>3, TodoIsLinked DEF Moves, Aims, Holding
<1>6. ASSUME NEW l \in MadeFrom(r), OnlyTo(l, r) PROVE OnlyTo(l, r)'
  <2>1. \A t \in Session : ~ Moves(job'[t], l, r)
    BY <1>1, <1>4, <1>5, <1>6 DEF OnlyTo
  <2>2. l = on => q = r
    BY <1>2, <1>4, <1>6 DEF OnlyTo, Moves, Holding
  <2>3. links'[l].remote \in {0, r}
    BY <1>2, <1>4, <1>6, <2>2 DEF OnlyTo
  <2>4. links'[l].remote = r \/ \E t \in Session : Aims(job'[t], l, r)
    <3>1. CASE l = on
      BY <1>2, <2>2, <3>1
    <3>2. CASE l # on /\ links[l].remote = r
      BY <1>2, <1>4, <3>2
    <3>3. CASE l # on /\ links[l].remote # r
      <4>1. ~ Linked(l)
        BY <1>6, <3>3 DEF OnlyTo, Linked
      <4>2. PICK t \in Session : Aims(job[t], l, r)
        BY <1>6, <3>3 DEF OnlyTo
      <4>3. t # s
        BY <1>4, <1>5, <3>3, <4>1, <4>2
      <4>4. QED
        BY <1>1, <4>2, <4>3
    <3>4. QED
      BY <3>1, <3>2, <3>3
  <2>5. QED
    BY <2>1, <2>3, <2>4 DEF OnlyTo, Moves, Aims
<1>7. LostRows(r)' \subseteq LostRows(r)
  BY <1>4, <1>6 DEF LostRows
<1>8. Straight(r)' \subseteq Straight(r)
  <2>1. ASSUME NEW t \in Session \ {s}, t \in Straight(r)' PROVE t \in Straight(r)
    BY <1>1, <1>4, <2>1 DEF Straight, Linking, Diverts
  <2>2. ASSUME job'[s].pc = "next" PROVE ~ Diverts(job[s], r)
    BY <1>1, <1>2, <1>3, <1>4, <2>2 DEF Diverts, Tidy, Rooted, Grounded, Holding, MadeFrom
  <2>3. s \in Straight(r)' => s \in Straight(r)
    BY <1>2, <1>3, <2>2 DEF Straight, Linking
  <2>4. Straight(r)' \subseteq Session
    BY DEF Straight, Linking
  <2>5. QED
    BY <2>1, <2>3, <2>4
<1>9. s \notin DoomedRows(r)'
  BY <1>3 DEF DoomedRows, Refused, Late, Holding
<1>10. CASE q # r
  <2>1. \A l \in Issues : Taken(l, r)' => Taken(l, r)
    BY <1>2, <1>10 DEF Taken
  <2>2. LinkedTo(r)' \subseteq LinkedTo(r)
    BY <1>2, <1>10 DEF LinkedTo
  <2>3. ASSUME LostRows(r) \subseteq LostRows(r)', NEW t \in Session \ {s},
               t \in DoomedRows(r)'
        PROVE  t \in DoomedRows(r)
    <3>1. job'[t] = job[t]
      BY <1>1
    <3>2. CASE Late(job[t], r)'
      BY <2>2, <3>1, <3>2 DEF Late, DoomedRows
    <3>3. CASE Refused(job[t], r)'
      <4>1. PICK l : l = job[t].item.on
        OBVIOUS
      <4>2. /\ job[t].pc \in Holding /\ l \in MadeFrom(r)' /\ Target(job[t].item) = r
            /\ OnlyTo(l, r)' /\ Taken(l, r)'
        BY <3>1, <3>3, <4>1 DEF Refused, MadeFrom
      <4>3. l \in MadeFrom(r) /\ l \in Issues /\ OnlyTo(l, r)
        BY <1>4, <2>3, <4>2 DEF LostRows
      <4>4. QED
        BY <2>1, <4>1, <4>2, <4>3 DEF Refused, DoomedRows
    <3>4. QED
      BY <2>3, <3>2, <3>3 DEF DoomedRows
  <2>4. DoomedRows(r)' \subseteq Session
    BY DEF DoomedRows
  <2>5. QED
    BY <1>7, <1>8, <1>9, <2>3, <2>4, RowsNoMore
<1>11. CASE q = r
  <2>1. s \in Straight(r)
    BY <1>2, <1>4, <1>11 DEF Straight, Linking, Diverts
  <2>2. DoomedRows(r)' \subseteq Straight(r) \ {s}
    BY <1>8, <1>9, DoomedAreStraight
  <2>3. /\ mishaps' = mishaps /\ mishaps \in Int /\ mishaps + 1 \in Int
        /\ mishaps + 1 <= mishaps + 1 /\ (mishaps + 1) - 1 = mishaps
    BY <1>2, Counting DEF counts
  <2>4. Within(LostRows(r)', DoomedRows(r)', (mishaps + 1) - 1)
    BY <1>7, <2>1, <2>2, <2>3, Drop DEF RowsPaid
  <2>5. Within(LostRows(r)', Straight(r)', mishaps + 1)
    BY <1>7, <1>8, <2>3, Fewer DEF RowsPaid
  <2>6. QED
    BY <2>3, <2>4, <2>5 DEF RowsPaid, Within
<1>12. QED
  BY <1>10, <1>11

LEMMA RowsPaidStep ==
    ASSUME IInv, Order, [Next]_vars, Within({}, Active, mishaps + 1),
           RowsArePaid
    PROVE  RowsArePaid'
<1>1. ASSUME Remotes' = Remotes, \A r \in Remotes : RowsPaid(r)'
      PROVE  RowsArePaid'
  BY <1>1 DEF RowsArePaid
<1>2. ASSUME NEW s \in Session, NEW c \in Requests, Begin(s, c)
      PROVE  RowsArePaid'
  BY <1>1, <1>2, RowsBegin DEF RowsArePaid, Begin, linear, Remotes
<1>3. ASSUME NEW s \in Session, Abort(s) PROVE RowsArePaid'
  <2>1. /\ Remotes' = Remotes /\ SameRows /\ mishaps' = mishaps + 1 /\ job'[s] = Idle
        /\ \A t \in Session \ {s} : job'[t] = job[t]
    BY <1>3, AbortIs DEF linear, Remotes, SamePairs, SameRows
  <2>2. QED
    BY <1>1, <2>1, RowsEnd DEF RowsArePaid
<1>4. ASSUME NEW s \in Session, PlainStep(s) PROVE RowsArePaid'
  <2>1. Remotes' = Remotes
    BY <1>4, PlainStepIs DEF Order, Dwindles
  <2>2. QED
    BY <1>1, <1>4, <2>1, RowsPlain DEF RowsArePaid
<1>5. ASSUME NEW s \in Session,
             RecordLink(s) \/ SetComment(s) \/ CreateRow(s) \/ CreateComment(s)
      PROVE  RowsArePaid'
  <2>1. Remotes' = Remotes
    BY <1>5 DEF RecordLink, SetComment, CreateRow, CreateComment, linear, Remotes
  <2>2. \A r \in Remotes : RowsPaid(r)'
    BY <1>5, RowsRecordLink, RowsSetComment, RowsCreateRow, RowsCreateComment DEF RowsArePaid
  <2>3. QED
    BY <1>1, <2>1, <2>2
<1>6. CASE Others
  BY <1>1, <1>6, OthersArePlain, RowsOthers DEF RowsArePaid, Dwindles
<1>7. CASE UNCHANGED vars
  <2>1. SamePairs /\ Remotes' = Remotes /\ job' = job
    BY <1>7, SameBoard DEF vars, linear, Remotes
  <2>2. QED
    BY <1>1, <2>1, RowsOthers DEF RowsArePaid
<1>8. ASSUME NEW s \in Session, Import(s) \/ PushStep(s)
      PROVE  RowsArePaid'
  BY <1>4, <1>5, <1>8, StepsOfOne, RowsCreateRemote
<1>9. QED
  BY <1>2, <1>3, <1>6, <1>7, <1>8 DEF Next

\* What is paid for is one row, and one for each mishap.
LEMMA RowsCount ==
    ASSUME IInv, Order, NEW r \in Remotes, RowsPaid(r)
    PROVE  Cardinality(MadeFrom(r)) <= 1 + mishaps
<1> DEFINE f == [s \in Session |-> job[s].item.on]
<1>1. mishaps \in Int /\ mishaps + 1 \in Int /\ mishaps + 1 = 1 + mishaps
  BY DEF IInv, TypeOK
<1>2. ASSUME NEW l \in MadeFrom(r), l \notin LostRows(r), l \notin LinkedTo(r)
      PROVE  \E t \in Straight(r) : /\ f[t] = l
                                    /\ LinkedTo(r) # {} => t \in DoomedRows(r)
  <2>1. l \in Issues /\ OnlyTo(l, r) /\ ~ Linked(l)
    BY <1>2 DEF MadeFrom, LostRows, OnlyTo, LinkedTo, Linked
  <2>2. PICK t \in Session : Aims(job[t], l, r)
    BY <1>2, <2>1 DEF OnlyTo, LinkedTo
  <2>3. Grabs(job[t], l, r)
    BY <2>1, <2>2, TodoIsLinked DEF Aims, Grabs, Order
  <2>4. t \in Straight(r) /\ f[t] = l
    BY <2>3 DEF Grabs, Straight, Linking, Diverts, Holding
  <2>5. ASSUME LinkedTo(r) # {} PROVE t \in DoomedRows(r)
    <3>1. Taken(l, r)
      BY <1>2, <2>5 DEF Taken, LinkedTo
    <3>2. QED
      BY <1>2, <2>1, <2>3, <3>1 DEF Grabs, Refused, DoomedRows
  <2>6. QED
    BY <2>4, <2>5
<1> HIDE DEF f
<1>3. CASE LinkedTo(r) = {}
  <2>1. MadeFrom(r) \subseteq LostRows(r) \cup {f[t] : t \in Straight(r)}
    BY <1>2, <1>3
  <2>2. Cardinality(MadeFrom(r)) <= mishaps + 1
    BY <1>1, <2>1, Named DEF RowsPaid
  <2>3. QED
    BY <1>1, <2>2
<1>4. ASSUME NEW k \in LinkedTo(r) PROVE Cardinality(MadeFrom(r)) <= 1 + mishaps
  <2>1. LinkedTo(r) \subseteq {k}
    BY <1>4, Facts DEF LinkedTo, IInv, OneLinkPerRemote, Linked
  <2>2. Within(LostRows(r) \cup {k}, DoomedRows(r), mishaps + 1)
    BY <1>1, OneMore DEF RowsPaid
  <2>3. MadeFrom(r) \subseteq (LostRows(r) \cup {k}) \cup {f[t] : t \in DoomedRows(r)}
    BY <1>2, <1>4, <2>1
  <2>4. Cardinality(MadeFrom(r)) <= mishaps + 1
    BY <1>1, <2>2, <2>3, Named
  <2>5. QED
    BY <1>1, <2>4
<1>5. QED
  BY <1>3, <1>4

(***************************************************************************)
(* All of it, from the first state on.                                     *)
(***************************************************************************)
LEMMA InitPaid ==
    ASSUME Init
    PROVE  Paid
<1>1. IInv /\ mishaps = 0 /\ \A s \in Session : job[s] = Idle
  BY InitIInv DEF Init
<1>2. Active = {} /\ Linking = {}
  BY <1>1, NothingIs DEF Active, Linking
<1>3. /\ Within({}, {}, mishaps) /\ mishaps \in Int /\ mishaps + 1 \in Int
      /\ mishaps <= mishaps + 1
  BY <1>1, NoneIsPaid DEF IInv, TypeOK
<1>4. Within({}, {}, mishaps + 1)
  BY <1>3, Fewer
<1>5. ASSUME NEW l \in Issues PROVE CommentsPaid(l)
  <2>1. DOMAIN comments = {}
    BY DEF Init
  <2>2. LostComments(l) = {} /\ DoomedPosts(l) = {} /\ Living(l) = {}
    BY <1>2, <2>1, DoomedAreActive DEF LostComments, Living
  <2>3. QED
    BY <1>2, <1>3, <1>4, <2>2 DEF CommentsPaid
<1>6. ASSUME NEW l \in Issues PROVE RemotesPaid(l)
  <2>1. MadeFor(l) = {}
    <3>1. \A r \in Remotes : remotes[r].by = 0
      BY DEF Init, Remotes
    <3>2. QED
      BY <1>1, <3>1, Facts DEF MadeFor
  <2>2. DoomedMakers(l) = {}
    BY <1>1, IdleMoves DEF DoomedMakers
  <2>3. LostRemotes(l) = {}
    BY <2>1 DEF LostRemotes
  <2>4. QED
    BY <1>2, <1>3, <1>4, <2>1, <2>2, <2>3 DEF RemotesPaid
<1>7. ASSUME NEW r \in Remotes PROVE RowsPaid(r)
  <2>1. MadeFrom(r) = {}
    <3>1. \A l \in Issues : rows[l].from = 0
      BY DEF Init, Issues
    <3>2. QED
      BY <1>1, <3>1, Facts DEF MadeFrom
  <2>2. LostRows(r) = {} /\ Straight(r) = {} /\ DoomedRows(r) = {}
    BY <1>2, <2>1, DoomedAreStraight DEF LostRows, Straight
  <2>3. QED
    BY <1>3, <1>4, <2>2 DEF RowsPaid
<1>8. QED
  BY <1>2, <1>4, <1>5, <1>6, <1>7 DEF Paid, CommentsArePaid, RemotesArePaid, RowsArePaid

LEMMA PaidStep ==
    ASSUME IInv, Order, Paid, [Next]_vars
    PROVE  Paid'
<1>1. Within({}, Active, mishaps + 1)'
  BY ActiveStep DEF Paid
<1>2. CommentsArePaid' /\ RemotesArePaid' /\ RowsArePaid'
  BY CommentsPaidStep, RemotesPaidStep, RowsPaidStep DEF Paid
<1>3. QED
  BY <1>1, <1>2 DEF Paid

\* Whatever fails, overlaps, is adopted or deleted: every comment, remote issue and row
\* beyond the first is accounted for by a mishap, now or when the command that holds
\* it ends.
THEOREM AllIsPaid == Spec => [](Order /\ Paid)
<1>1. Init => IInv /\ Order /\ Paid
  BY InitIInv, InitOrder, InitPaid
<1>2. IInv /\ Order /\ Paid /\ [Next]_vars => (IInv /\ Order /\ Paid)'
  BY NextIInv, OrderStep, PaidStep
<1>3. QED
  BY <1>1, <1>2, PTL DEF Spec

\* Repeating imports and pushes never makes a second row for a remote issue, nor a
\* second living remote issue for a row, but for one more with each command that fails,
\* is killed or overlaps another, and each adoption of an issue that is linked already.
THEOREM OneOfEach == Spec => []NoDuplicates
<1>1. IInv /\ Order /\ Paid => NoDuplicates
  <2>1. SUFFICES ASSUME IInv, Order, Paid PROVE NoDuplicates
    OBVIOUS
  <2>2. \A r \in Remotes : Cardinality(MadeFrom(r)) <= 1 + mishaps
    BY <2>1, RowsCount DEF Paid, RowsArePaid
  <2>3. \A l \in Issues : Cardinality(MadeFor(l)) <= 1 + mishaps
    BY <2>1, RemotesCount DEF Paid, RemotesArePaid
  <2>4. QED
    BY <2>2, <2>3 DEF NoDuplicates, MadeFrom, MadeFor
<1>2. QED
  BY <1>1, Invariance, AllIsPaid, PTL

\* push keeps one living comment for each issue, which it edits in place, and one more
\* with each mishap of the same kind.
THEOREM CommentsAreEdited == Spec => []OneLivingComment
<1>1. IInv /\ Order /\ Paid => OneLivingComment
  <2>1. SUFFICES ASSUME IInv, Order, Paid PROVE OneLivingComment
    OBVIOUS
  <2>2. \A l \in Issues : Cardinality(Living(l)) <= 1 + mishaps
    BY <2>1, CommentsCount DEF Paid, CommentsArePaid
  <2>3. QED
    BY <2>2 DEF OneLivingComment, Living
<1>2. QED
  BY <1>1, Invariance, AllIsPaid, PTL
=============================================================================

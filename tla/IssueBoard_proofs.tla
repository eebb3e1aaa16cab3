------------------------- MODULE IssueBoard_proofs -------------------------
(***************************************************************************)
(* Proofs about IssueBoard for every number of sessions, processes,        *)
(* issues, commands and faults.                                            *)
(***************************************************************************)
EXTENDS IssueBoard, SequenceTheorems, TLAPS

\* The steps a command goes through.
StepsOf(op) ==
    CASE op = "none" -> {"idle"}
      [] op \in {"create", "amend", "sweep"} -> {op}
      [] op = "mv" -> {"read", "max", "write", "record"}
      [] op = "archive" -> {"read", "write"}
      [] op = "reorder" -> {"read", "read2", "write", "write2"}
      [] op \in {"edit", "casEdit"} -> {"load", "user", "edit"}
      [] op = "save" -> {"load", "user", "read", "max", "write", "record", "reread",
                         "rewrite"}

StepsMatch == \A s \in Session : pc[s] \in StepsOf(cmd[s].op)

TableTypeOK ==
    /\ issueSeq \in Nat /\ Issues = 1..issueSeq
    /\ rows \in [Issues -> Row]
    /\ recorded \in [Issues -> Status]
    /\ written \in [Issues -> SUBSET Session]

\* What the sessions hold has its type and goes with their commands.
SessionsOK ==
    /\ queue \in [Process -> Seq(Session)]
    /\ cmd \in [Session -> Ask(Issues) \cup {NoCommand}]
    /\ pc \in [Session -> PC]
    /\ base \in [Session -> Row] /\ seen \in [Session -> Row]
    /\ other \in [Session -> Row]
    /\ place \in [Session -> Nat]
    /\ used \in [Session -> Nat]
    /\ StepsMatch

IInv == TableTypeOK /\ SessionsOK /\ faults \in Nat

-----------------------------------------------------------------------------
(***************************************************************************)
(* The data.                                                               *)
(***************************************************************************)
LEMMA BlankIsRow == Blank \in Row
BY BoardConstants DEF Blank, Row

\* A command names issues that exist, columns and flags.
LEMMA AskFields ==
    ASSUME NEW I, NEW c \in Ask(I) \cup {NoCommand}
    PROVE  /\ c.op \in Commands \cup {"none"}
           /\ c.op \in {"mv", "save", "archive", "reorder", "amend", "edit", "casEdit"}
                => c.on \in I
           /\ c.op \in {"create", "mv", "save"} => c.to \in Status
           /\ c.op = "archive" => c.flag \in BOOLEAN
           /\ c.op = "reorder" => c.with \in I
BY BoardConstants DEF Ask, NoCommand, CliCommands, TuiCommands

\* A command remains one when issues are added.
LEMMA AskGrows ==
    ASSUME NEW I, NEW J, I \subseteq J
    PROVE  Ask(I) \subseteq Ask(J)
BY DEF Ask

\* Nothing but the steps of the running commands is run.
LEMMA StepFields ==
    ASSUME IInv, NEW s \in Session
    PROVE  /\ pc[s] = "create" => cmd[s].op = "create"
           /\ pc[s] = "amend" => cmd[s].op = "amend"
           /\ pc[s] = "sweep" => cmd[s].op = "sweep"
           /\ pc[s] = "edit" => cmd[s].op \in {"edit", "casEdit"}
           /\ pc[s] = "load" => cmd[s].op \in {"edit", "casEdit", "save"}
           /\ pc[s] = "user" => cmd[s].op \in {"edit", "casEdit", "save"}
           /\ pc[s] = "read" => cmd[s].op \in {"mv", "archive", "reorder", "save"}
           /\ pc[s] \in {"max", "record"} => cmd[s].op \in {"mv", "save"}
           /\ pc[s] = "write" => cmd[s].op \in {"mv", "archive", "reorder", "save"}
           /\ pc[s] \in {"read2", "write2"} => cmd[s].op = "reorder"
           /\ pc[s] \in {"reread", "rewrite"} => cmd[s].op = "save"
           /\ pc[s] = "idle" => cmd[s].op = "none"
           /\ cmd[s].op = "none" => pc[s] = "idle"
<1>1. pc[s] \in StepsOf(cmd[s].op)
  BY DEF IInv, SessionsOK, StepsMatch
<1>2. cmd[s].op \in Commands \cup {"none"}
  BY AskFields DEF IInv, SessionsOK
<1>3. cmd[s].op \in {"none", "create", "amend", "sweep", "mv", "archive", "reorder",
                     "edit", "casEdit", "save"}
  BY <1>2, BoardConstants DEF CliCommands, TuiCommands
<1> QED
  BY <1>1, <1>3 DEF StepsOf

\* The same of the command a session runs.
LEMMA CommandFields ==
    ASSUME IInv, NEW s \in Session
    PROVE  /\ cmd[s].op \in {"mv", "save", "archive", "reorder", "amend", "edit", "casEdit"}
                => cmd[s].on \in Issues
           /\ cmd[s].op \in {"create", "mv", "save"} => cmd[s].to \in Status
           /\ cmd[s].op = "archive" => cmd[s].flag \in BOOLEAN
           /\ cmd[s].op = "reorder" => cmd[s].with \in Issues
<1>1. cmd[s] \in Ask(Issues) \cup {NoCommand}
  BY DEF IInv, SessionsOK
<1> QED
  BY <1>1, AskFields

LEMMA PlacesAreNumbers ==
    ASSUME TableTypeOK, NEW st
    PROVE  Places(st) \subseteq Nat
BY DEF TableTypeOK, Places, Row

-----------------------------------------------------------------------------
(***************************************************************************)
(* Types: what the building blocks of the actions keep.                    *)
(***************************************************************************)
\* The writer stands at a step of s: s waits for it, and its command is known.
LEMMA AtFields ==
    ASSUME IInv, NEW s \in Session, NEW l, At(s, l)
    PROVE  pc[s] = l /\ queue[Host[s]] # <<>> /\ Host[s] \in Process
BY BoardConstants DEF At, Running

\* Issues are never removed.
LEMMA SessionsKeep ==
    ASSUME SessionsOK, Issues \subseteq Issues',
           UNCHANGED <<queue, cmd, pc, base, seen, other, place, used>>
    PROVE  SessionsOK'
<1>1. Ask(Issues) \subseteq Ask(Issues')
  BY AskGrows
<1> QED
  BY <1>1 DEF SessionsOK, StepsMatch

LEMMA FinishKeeps ==
    ASSUME SessionsOK, Issues \subseteq Issues', NEW s \in Session, Running(s), Finish(s)
    PROVE  SessionsOK'
<1>0. Ask(Issues) \subseteq Ask(Issues')
  BY AskGrows
<1>1. queue' \in [Process -> Seq(Session)]
  BY BoardConstants DEF SessionsOK, Finish, Running
<1>2. cmd' \in [Session -> Ask(Issues') \cup {NoCommand}] /\ pc' \in [Session -> PC]
  BY <1>0 DEF SessionsOK, Finish, Forget, PC
<1>3. /\ base' \in [Session -> Row] /\ seen' \in [Session -> Row]
      /\ other' \in [Session -> Row] /\ place' \in [Session -> Nat]
      /\ used' \in [Session -> Nat]
  BY BlankIsRow DEF SessionsOK, Finish, Forget
<1>4. StepsMatch'
  BY DEF SessionsOK, StepsMatch, Finish, Forget, NoCommand, StepsOf
<1> QED
  BY <1>1, <1>2, <1>3, <1>4 DEF SessionsOK

LEMMA QueueGrows ==
    ASSUME NEW s \in Session, queue \in [Process -> Seq(Session)],
           queue' = [queue EXCEPT ![Host[s]] = Append(@, s)]
    PROVE  queue' \in [Process -> Seq(Session)]
<1>1. Host[s] \in Process
  BY BoardConstants
<1>2. Append(queue[Host[s]], s) \in Seq(Session)
  BY <1>1
<1> QED
  BY <1>1, <1>2

\* A job goes on with a step of its command.
LEMMA StepKeeps ==
    ASSUME SessionsOK, Issues' = Issues, NEW s \in Session,
           NEW l \in PC, l \in StepsOf(cmd[s].op), Step(s, l),
           base' \in [Session -> Row], seen' \in [Session -> Row],
           other' \in [Session -> Row], place' \in [Session -> Nat]
    PROVE  SessionsOK'
<1>1. StepsMatch'
  BY DEF SessionsOK, StepsMatch, Step
<1> QED
  BY <1>1 DEF SessionsOK, Step

\* One row of the table is written.
LEMMA RowWritten ==
    ASSUME TableTypeOK, NEW i \in Issues, NEW r \in Row,
           rows' = [rows EXCEPT ![i] = r], issueSeq' = issueSeq,
           recorded' \in [Issues -> Status], written' \in [Issues -> SUBSET Session]
    PROVE  TableTypeOK' /\ Issues' = Issues
<1>1. Issues' = Issues
  BY DEF Issues
<1> QED
  BY <1>1 DEF TableTypeOK

LEMMA TableKeeps ==
    ASSUME TableTypeOK, UNCHANGED table
    PROVE  TableTypeOK' /\ Issues' = Issues
BY DEF TableTypeOK, table, Issues

LEMMA RowChanged ==
    ASSUME NEW r \in Row, NEW b \in BOOLEAN, NEW n \in Nat
    PROVE  [r EXCEPT !.completed = b, !.stamp = n] \in Row
BY DEF Row

LEMMA RowPlaced ==
    ASSUME NEW r \in Row, NEW st \in Status, NEW p \in Nat
    PROVE  [r EXCEPT !.status = st, !.pos = p] \in Row
BY DEF Row

LEMMA RowMoved ==
    ASSUME NEW r \in Row, NEW st \in Status, NEW p \in Nat
    PROVE  Moved(r, st, p) \in Row
<1>1. ASSUME NEW b \in BOOLEAN, NEW n \in Nat
      PROVE  [r EXCEPT !.status = st, !.pos = p, !.completed = b, !.stamp = n] \in Row
  BY DEF Row
<1>2. r.stamp + 1 \in Nat /\ (st = Done) \in BOOLEAN
  BY DEF Row
<1> QED
  BY <1>1, <1>2 DEF Moved

LEMMA RowDescribed ==
    ASSUME NEW r \in Row, NEW T \in SUBSET Session
    PROVE  Described(r, T) \in Row
<1>1. ASSUME NEW n \in Nat
      PROVE  [r EXCEPT !.text = T, !.stamp = n] \in Row
  BY DEF Row
<1>2. r.stamp + 1 \in Nat
  BY DEF Row
<1> QED
  BY <1>1, <1>2 DEF Described

LEMMA WrittenBack ==
    ASSUME TableTypeOK, NEW i \in Issues, NEW r \in Row, WriteBack(i, r),
           issueSeq' = issueSeq, recorded' = recorded,
           written' \in [Issues -> SUBSET Session]
    PROVE  TableTypeOK' /\ Issues' = Issues
<1> DEFINE q == [r EXCEPT !.completed = rows[i].completed, !.stamp = rows[i].stamp + 1]
<1>0. rows[i] \in Row
  BY DEF TableTypeOK
<1>1. q \in Row
  <2>1. rows[i].completed \in BOOLEAN /\ rows[i].stamp + 1 \in Nat
    BY <1>0 DEF Row
  <2> QED
    BY <2>1, RowChanged
<1>2. rows' = [rows EXCEPT ![i] = q]
  BY DEF WriteBack
<1> QED
  BY <1>1, <1>2, RowWritten DEF TableTypeOK

-----------------------------------------------------------------------------
(***************************************************************************)
(* Types: the actions.                                                     *)
(***************************************************************************)
LEMMA InitInv == Init => IInv
<1> SUFFICES ASSUME Init PROVE IInv
  OBVIOUS
<1>1. Issues = 1..FirstIssues
  BY DEF Init, Issues
<1>2. rows \in [Issues -> Row]
  <2>1. FirstRow \subseteq Row
    BY BoardConstants DEF FirstRow, Row
  <2> QED
    BY <1>1, <2>1 DEF Init
<1>3. TableTypeOK
  <2>1. \A i \in Issues : rows[i].status \in Status
    BY <1>2 DEF Row
  <2> QED
    BY <1>1, <1>2, <2>1, BoardConstants DEF Init, TableTypeOK
<1>4. SessionsOK
  <2>1. queue \in [Process -> Seq(Session)]
    BY DEF Init
  <2>2. cmd \in [Session -> Ask(Issues) \cup {NoCommand}] /\ pc \in [Session -> PC]
    BY DEF Init, PC
  <2>3. /\ base \in [Session -> Row] /\ seen \in [Session -> Row]
        /\ other \in [Session -> Row] /\ place \in [Session -> Nat]
        /\ used \in [Session -> Nat]
    BY BlankIsRow DEF Init
  <2>4. StepsMatch
    BY DEF Init, StepsMatch, StepsOf, NoCommand
  <2> QED
    BY <2>1, <2>2, <2>3, <2>4 DEF SessionsOK
<1> QED
  BY <1>3, <1>4 DEF Init, IInv

LEMMA SubmitKeeps ==
    ASSUME IInv, NEW s \in Session, NEW c \in Ask(Issues), Submit(s, c)
    PROVE  IInv'
<1>1. TableTypeOK' /\ Issues' = Issues
  BY TableKeeps DEF IInv, Submit
<1>2. c.op \in CliCommands \cup TuiCommands
  BY DEF Submit, CliCommands, TuiCommands
<1>3. FirstStep(c.op) \in PC /\ FirstStep(c.op) \in StepsOf(c.op)
  BY <1>2 DEF FirstStep, StepsOf, PC, CliCommands, TuiCommands
<1>4. StepsMatch'
  BY <1>3 DEF IInv, SessionsOK, StepsMatch, Submit
<1>5. queue' \in [Process -> Seq(Session)]
  BY QueueGrows DEF IInv, SessionsOK, Submit
<1>6. cmd' \in [Session -> Ask(Issues') \cup {NoCommand}] /\ pc' \in [Session -> PC]
  BY <1>1, <1>3 DEF IInv, SessionsOK, Submit
<1>7. used' \in [Session -> Nat] /\ faults' \in Nat
  BY DEF IInv, SessionsOK, Submit
<1> QED
  BY <1>1, <1>4, <1>5, <1>6, <1>7 DEF IInv, SessionsOK, Submit

LEMMA ResumeKeeps ==
    ASSUME IInv, NEW s \in Session, Resume(s)
    PROVE  IInv'
<1>1. TableTypeOK' /\ Issues' = Issues
  BY TableKeeps DEF IInv, Resume
<1>2. cmd[s].op \in {"edit", "casEdit", "save"}
  BY StepFields DEF Resume
<1>3. StepsMatch'
  BY <1>2 DEF IInv, SessionsOK, StepsMatch, Resume, StepsOf
<1>4. queue' \in [Process -> Seq(Session)]
  BY QueueGrows DEF IInv, SessionsOK, Resume
<1>5. pc' \in [Session -> PC]
  BY DEF IInv, SessionsOK, Resume, PC
<1> QED
  BY <1>1, <1>3, <1>4, <1>5 DEF IInv, SessionsOK, Resume

LEMMA CreateKeeps ==
    ASSUME IInv, NEW s \in Session, CreateIssue(s)
    PROVE  IInv'
<1>1. cmd[s].op = "create" /\ cmd[s].to \in Status
  BY AtFields, StepFields, CommandFields DEF CreateIssue
<1>2. PICK m \in Places(cmd[s].to) :
        rows' = [i \in Issues \cup {issueSeq + 1} |->
                    IF i = issueSeq + 1
                    THEN [Blank EXCEPT !.status = cmd[s].to, !.pos = m + 1]
                    ELSE rows[i]]
  BY DEF CreateIssue
<1>3. m + 1 \in Nat
  BY PlacesAreNumbers DEF IInv
<1>4. [Blank EXCEPT !.status = cmd[s].to, !.pos = m + 1] \in Row
  BY <1>1, <1>3, BlankIsRow, RowPlaced
<1>5. issueSeq' = issueSeq + 1 /\ Issues' = 1..issueSeq'
  BY <1>2 DEF CreateIssue, NextSeq, Issues, IInv, TableTypeOK
<1>6. Issues \subseteq Issues'
  BY <1>2 DEF Issues
<1>7. rows' \in [Issues' -> Row]
  BY <1>2, <1>4 DEF Issues, IInv, TableTypeOK
<1>8. recorded' \in [Issues' -> Status] /\ written' \in [Issues' -> SUBSET Session]
  BY <1>1, <1>6 DEF CreateIssue, Issues, IInv, TableTypeOK
<1>9. TableTypeOK'
  BY <1>5, <1>7, <1>8 DEF IInv, TableTypeOK
<1>10. SessionsOK'
  BY <1>6, FinishKeeps DEF IInv, CreateIssue, At
<1> QED
  BY <1>9, <1>10 DEF IInv, CreateIssue

LEMMA ReadKeeps ==
    ASSUME IInv, NEW s \in Session, Read(s)
    PROVE  IInv'
<1>1. TableTypeOK' /\ Issues' = Issues
  BY TableKeeps DEF IInv, Read, Step
<1>2. faults' = faults
  BY DEF Read, Step
<1>3. cmd[s].op \in {"mv", "archive", "reorder", "save"} /\ cmd[s].on \in Issues
  BY AtFields, StepFields, CommandFields DEF Read
<1>4. rows[cmd[s].on] \in Row
  BY <1>3 DEF IInv, TableTypeOK
<1>5. CASE Finish(s)
  BY <1>1, <1>2, <1>5, FinishKeeps DEF IInv, Read, At
<1>6. CASE ~ Finish(s)
  <2> DEFINE l == CASE cmd[s].op = "mv" -> "max"
                    [] cmd[s].op = "archive" -> "write"
                    [] cmd[s].op = "reorder" -> "read2"
                    [] cmd[s].op = "save" ->
                           IF rows[cmd[s].on].status = cmd[s].to THEN "reread" ELSE "max"
  <2>1. /\ seen' = [seen EXCEPT ![s] = rows[cmd[s].on]]
        /\ Step(s, l)
        /\ UNCHANGED <<table, base, other, place>>
    BY <1>6 DEF Read
  <2>2. l \in PC /\ l \in StepsOf(cmd[s].op)
    BY <1>3 DEF PC, StepsOf
  <2>3. seen' \in [Session -> Row]
    BY <1>4, <2>1 DEF IInv, SessionsOK
  <2>4. SessionsOK'
    <3> HIDE DEF l
    <3> QED
      BY <1>1, <2>1, <2>2, <2>3, StepKeeps DEF IInv, SessionsOK
  <2> QED
    BY <1>1, <1>2, <2>4 DEF IInv
<1> QED
  BY <1>5, <1>6

LEMMA FindPlaceKeeps ==
    ASSUME IInv, NEW s \in Session, FindPlace(s)
    PROVE  IInv'
<1>1. TableTypeOK' /\ Issues' = Issues
  BY TableKeeps DEF IInv, FindPlace
<1>2. cmd[s].op \in {"mv", "save"}
  BY AtFields, StepFields DEF FindPlace
<1>3. "write" \in PC /\ "write" \in StepsOf(cmd[s].op)
  BY <1>2 DEF PC, StepsOf
<1>4. place' \in [Session -> Nat]
  BY PlacesAreNumbers DEF IInv, SessionsOK, FindPlace
<1>5. SessionsOK'
  BY <1>1, <1>3, <1>4, StepKeeps DEF IInv, SessionsOK, FindPlace
<1> QED
  BY <1>1, <1>5 DEF IInv, FindPlace, Step

LEMMA MoveKeeps ==
    ASSUME IInv, NEW s \in Session, MoveIssue(s)
    PROVE  IInv'
<1>1. cmd[s].op \in {"mv", "save"} /\ cmd[s].on \in Issues /\ cmd[s].to \in Status
  BY CommandFields DEF MoveIssue
<1>2. rows[cmd[s].on] \in Row /\ place[s] \in Nat
  BY <1>1 DEF IInv, TableTypeOK, SessionsOK
<1>3. Moved(Target(s), cmd[s].to, place[s]) \in Row
  BY <1>1, <1>2, RowMoved DEF Target
<1>4. TableTypeOK' /\ Issues' = Issues
  BY <1>1, <1>3, RowWritten DEF IInv, TableTypeOK, MoveIssue
<1>5. "record" \in PC /\ "record" \in StepsOf(cmd[s].op)
  BY <1>1 DEF PC, StepsOf
<1>6. SessionsOK'
  BY <1>4, <1>5, StepKeeps DEF IInv, SessionsOK, MoveIssue
<1> QED
  BY <1>4, <1>6 DEF IInv, MoveIssue, Step

LEMMA RecordKeeps ==
    ASSUME IInv, NEW s \in Session, RecordMove(s)
    PROVE  IInv'
<1>1. cmd[s].op \in {"mv", "save"} /\ cmd[s].on \in Issues /\ cmd[s].to \in Status
  BY AtFields, StepFields, CommandFields DEF RecordMove
<1>2. Issues' = Issues
  BY DEF RecordMove, Issues
<1>3. recorded' \in [Issues -> Status]
  BY <1>1 DEF RecordMove, LeadsTo, IInv, TableTypeOK
<1>4. TableTypeOK'
  BY <1>2, <1>3 DEF IInv, TableTypeOK, RecordMove
<1>5. faults' \in Nat
  BY DEF RecordMove, IInv
<1>6. CASE cmd[s].op = "mv"
  BY <1>2, <1>4, <1>5, <1>6, FinishKeeps DEF IInv, RecordMove, At
<1>7. CASE cmd[s].op # "mv"
  <2>1. StepsMatch'
    BY <1>1, <1>7 DEF IInv, SessionsOK, StepsMatch, RecordMove, StepsOf
  <2> QED
    BY <1>2, <1>4, <1>5, <1>7, <2>1 DEF IInv, SessionsOK, RecordMove, PC
<1> QED
  BY <1>6, <1>7

LEMMA ArchiveKeeps ==
    ASSUME IInv, NEW s \in Session, ArchiveIssue(s)
    PROVE  IInv'
<1>1. cmd[s].on \in Issues /\ cmd[s].flag \in BOOLEAN /\ seen[s] \in Row
  BY CommandFields DEF ArchiveIssue, IInv, SessionsOK
<1>2. [seen[s] EXCEPT !.archived = cmd[s].flag] \in Row
  BY <1>1 DEF Row
<1>3. TableTypeOK' /\ Issues' = Issues
  BY <1>1, <1>2, WrittenBack DEF IInv, TableTypeOK, ArchiveIssue
<1>4. SessionsOK'
  BY <1>3, FinishKeeps DEF IInv, ArchiveIssue, At
<1> QED
  BY <1>3, <1>4 DEF IInv, ArchiveIssue

LEMMA ReorderKeeps ==
    ASSUME IInv, NEW s \in Session, ReadOther(s) \/ PlaceFirst(s) \/ PlaceSecond(s)
    PROVE  IInv'
<1>1. cmd[s].op = "reorder" /\ cmd[s].on \in Issues /\ cmd[s].with \in Issues
  BY AtFields, StepFields, CommandFields DEF ReadOther, PlaceFirst, PlaceSecond
<1>2. rows[cmd[s].with] \in Row /\ seen[s] \in Row /\ other[s] \in Row
  BY <1>1 DEF IInv, TableTypeOK, SessionsOK
<1>3. CASE ReadOther(s)
  <2>1. TableTypeOK' /\ Issues' = Issues
    BY <1>3, TableKeeps DEF IInv, ReadOther
  <2>2. "write" \in PC /\ "write" \in StepsOf(cmd[s].op)
    BY <1>1 DEF PC, StepsOf
  <2>3. other' \in [Session -> Row]
    BY <1>2, <1>3 DEF IInv, SessionsOK, ReadOther
  <2>4. SessionsOK'
    BY <1>3, <2>1, <2>2, <2>3, StepKeeps DEF IInv, SessionsOK, ReadOther
  <2> QED
    BY <1>3, <2>1, <2>4 DEF IInv, ReadOther, Step
<1>4. CASE PlaceFirst(s)
  <2>1. [seen[s] EXCEPT !.pos = other[s].pos] \in Row
    BY <1>2 DEF Row
  <2>2. TableTypeOK' /\ Issues' = Issues
    BY <1>1, <1>4, <2>1, WrittenBack DEF IInv, TableTypeOK, PlaceFirst
  <2>3. "write2" \in PC /\ "write2" \in StepsOf(cmd[s].op)
    BY <1>1 DEF PC, StepsOf
  <2>4. SessionsOK'
    BY <1>4, <2>2, <2>3, StepKeeps DEF IInv, SessionsOK, PlaceFirst
  <2> QED
    BY <1>4, <2>2, <2>4 DEF IInv, PlaceFirst, Step
<1>5. CASE PlaceSecond(s)
  <2>1. [other[s] EXCEPT !.pos = seen[s].pos] \in Row
    BY <1>2 DEF Row
  <2>2. TableTypeOK' /\ Issues' = Issues
    BY <1>1, <1>5, <2>1, WrittenBack DEF IInv, TableTypeOK, PlaceSecond
  <2>3. SessionsOK'
    BY <1>5, <2>2, FinishKeeps DEF IInv, PlaceSecond, At
  <2> QED
    BY <1>5, <2>2, <2>3 DEF IInv, PlaceSecond
<1> QED
  BY <1>3, <1>4, <1>5

\* The commands that write the text: in one transaction, or from the row just read.
LEMMA TextKeeps ==
    ASSUME IInv, NEW s \in Session, AmendIssue(s) \/ EditIssue(s) \/ SaveIssue(s)
    PROVE  IInv'
<1>1. cmd[s].on \in Issues
  BY AtFields, StepFields, CommandFields DEF AmendIssue, EditIssue, SaveIssue
<1>2. rows[cmd[s].on] \in Row /\ base[s] \in Row /\ seen[s] \in Row
  BY <1>1 DEF IInv, TableTypeOK, SessionsOK
<1>3. written' \in [Issues -> SUBSET Session]
  BY <1>1 DEF IInv, TableTypeOK, AmendIssue, EditIssue, SaveIssue
<1>4. \A x \in Row : x.text \cup {s} \in SUBSET Session
  BY DEF Row
<1>5. TableTypeOK' /\ Issues' = Issues
  <2>1. CASE AmendIssue(s)
    <3> DEFINE q == Described(rows[cmd[s].on], rows[cmd[s].on].text \cup {s})
    <3>1. q \in Row
      BY <1>2, <1>4, RowDescribed
    <3>2. rows' = [rows EXCEPT ![cmd[s].on] = q]
      BY <2>1 DEF AmendIssue
    <3> QED
      BY <1>1, <1>3, <2>1, <3>1, <3>2, RowWritten DEF IInv, TableTypeOK, AmendIssue
  <2>2. CASE EditIssue(s)
    <3> DEFINE q == Described(rows[cmd[s].on], base[s].text \cup {s})
    <3>1. q \in Row
      BY <1>2, <1>4, RowDescribed
    <3>2. rows' = [rows EXCEPT ![cmd[s].on] = q]
      BY <2>2 DEF EditIssue
    <3> QED
      BY <1>1, <1>3, <2>2, <3>1, <3>2, RowWritten DEF IInv, TableTypeOK, EditIssue
  <2>3. CASE SaveIssue(s)
    <3>1. [seen[s] EXCEPT !.text = base[s].text \cup {s}] \in Row
      BY <1>2, <1>4 DEF Row
    <3> QED
      BY <1>1, <1>3, <2>3, <3>1, WrittenBack DEF IInv, TableTypeOK, SaveIssue
  <2> QED
    BY <2>1, <2>2, <2>3
<1>6. SessionsOK'
  BY <1>5, FinishKeeps DEF IInv, AmendIssue, EditIssue, SaveIssue, At
<1> QED
  BY <1>5, <1>6 DEF IInv, AmendIssue, EditIssue, SaveIssue

LEMMA LoadKeeps ==
    ASSUME IInv, NEW s \in Session, Load(s)
    PROVE  IInv'
<1>1. TableTypeOK' /\ Issues' = Issues
  BY TableKeeps DEF IInv, Load
<1>2. cmd[s].op \in {"edit", "casEdit", "save"} /\ cmd[s].on \in Issues
  BY AtFields, StepFields, CommandFields DEF Load
<1>3. base' \in [Session -> Row]
  BY <1>2 DEF IInv, TableTypeOK, SessionsOK, Load
<1>4. queue' \in [Process -> Seq(Session)]
  BY AtFields DEF IInv, SessionsOK, Load
<1>5. pc' \in [Session -> PC] /\ StepsMatch'
  BY <1>2 DEF IInv, SessionsOK, StepsMatch, StepsOf, Load, PC
<1> QED
  BY <1>1, <1>3, <1>4, <1>5 DEF IInv, SessionsOK, Load

LEMMA RereadKeeps ==
    ASSUME IInv, NEW s \in Session, Reread(s)
    PROVE  IInv'
<1>1. TableTypeOK' /\ Issues' = Issues
  BY TableKeeps DEF IInv, Reread
<1>2. cmd[s].op = "save" /\ cmd[s].on \in Issues
  BY AtFields, StepFields, CommandFields DEF Reread
<1>3. "rewrite" \in PC /\ "rewrite" \in StepsOf(cmd[s].op)
  BY <1>2 DEF PC, StepsOf
<1>4. seen' \in [Session -> Row]
  BY <1>2 DEF IInv, TableTypeOK, SessionsOK, Reread, Target
<1>5. SessionsOK'
  BY <1>1, <1>3, <1>4, StepKeeps DEF IInv, SessionsOK, Reread
<1> QED
  BY <1>1, <1>5 DEF IInv, Reread, Step

LEMMA SweepKeeps ==
    ASSUME IInv, NEW s \in Session, SweepDone(s)
    PROVE  IInv'
<1>1. Issues' = Issues
  BY DEF SweepDone, Issues
<1>2. ASSUME NEW r \in Row, NEW n \in Nat
      PROVE  [r EXCEPT !.archived = TRUE, !.stamp = n] \in Row
  BY DEF Row
<1>3. \A i \in Issues : rows[i] \in Row /\ rows[i].stamp + 1 \in Nat
  BY DEF IInv, TableTypeOK, Row
<1>4. rows' \in [Issues -> Row]
  <2>1. PICK S : rows' = [i \in Issues |->
                            IF i \in S
                            THEN [rows[i] EXCEPT !.archived = TRUE, !.stamp = @ + 1]
                            ELSE rows[i]]
    BY DEF SweepDone
  <2>2. \A i \in Issues : [rows[i] EXCEPT !.archived = TRUE, !.stamp = @ + 1] \in Row
    BY <1>2, <1>3
  <2> QED
    BY <1>3, <2>1, <2>2
<1>5. TableTypeOK'
  BY <1>1, <1>4 DEF IInv, TableTypeOK, SweepDone
<1>6. SessionsOK'
  BY <1>1, FinishKeeps DEF IInv, SweepDone, At
<1> QED
  BY <1>5, <1>6 DEF IInv, SweepDone

LEMMA GivesUpKeeps ==
    ASSUME IInv, NEW s \in Session, RefuseEdit(s) \/ FailJob(s)
    PROVE  IInv'
<1>1. TableTypeOK' /\ Issues' = Issues
  BY TableKeeps DEF IInv, RefuseEdit, FailJob
<1>2. SessionsOK'
  BY <1>1, FinishKeeps DEF IInv, RefuseEdit, FailJob, At
<1> QED
  BY <1>1, <1>2 DEF IInv, RefuseEdit, FailJob

LEMMA KillKeeps ==
    ASSUME IInv, NEW p \in Process, Kill(p)
    PROVE  IInv'
<1>1. TableTypeOK' /\ Issues' = Issues
  BY TableKeeps DEF IInv, Kill
<1>2. queue' \in [Process -> Seq(Session)]
  BY DEF IInv, SessionsOK, Kill
<1>3. cmd' \in [Session -> Ask(Issues') \cup {NoCommand}] /\ pc' \in [Session -> PC]
  BY <1>1 DEF IInv, SessionsOK, Kill, PC
<1>4. /\ base' \in [Session -> Row] /\ seen' \in [Session -> Row]
      /\ other' \in [Session -> Row] /\ place' \in [Session -> Nat]
  BY BlankIsRow DEF IInv, SessionsOK, Kill
<1>5. StepsMatch'
  BY DEF IInv, SessionsOK, StepsMatch, Kill, NoCommand, StepsOf
<1> QED
  BY <1>1, <1>2, <1>3, <1>4, <1>5 DEF IInv, SessionsOK, Kill

LEMMA NextKeeps == IInv /\ [Next]_vars => IInv'
<1> SUFFICES ASSUME IInv, [Next]_vars PROVE IInv'
  OBVIOUS
<1>1. ASSUME NEW s \in Session, NEW c \in Ask(Issues), Submit(s, c) PROVE IInv'
  BY <1>1, SubmitKeeps
<1>2. ASSUME NEW s \in Session, Resume(s) \/ FailJob(s) PROVE IInv'
  BY <1>2, ResumeKeeps, GivesUpKeeps
<1>3. ASSUME NEW s \in Session, Job(s) PROVE IInv'
  BY <1>3, CreateKeeps, ReadKeeps, FindPlaceKeeps, MoveKeeps, RecordKeeps, ArchiveKeeps,
     ReorderKeeps, TextKeeps, LoadKeeps, GivesUpKeeps, RereadKeeps, SweepKeeps DEF Job
<1>4. ASSUME NEW p \in Process, Kill(p) PROVE IInv'
  BY <1>4, KillKeeps
<1>5. CASE UNCHANGED vars
  <2>1. TableTypeOK' /\ Issues' = Issues
    BY <1>5, TableKeeps DEF IInv, vars
  <2>2. SessionsOK'
    BY <1>5, <2>1, SessionsKeep DEF IInv, vars
  <2> QED
    BY <1>5, <2>1, <2>2 DEF IInv, vars
<1> QED
  BY <1>1, <1>2, <1>3, <1>4, <1>5 DEF Next

\* Rows, numbers, queues and what the sessions hold keep their types: every issue up
\* to issue_seq exists, and a command only ever names issues that exist.
THEOREM TypeCorrect == Spec => []TypeOK
<1>1. IInv => TypeOK
  BY DEF IInv, TableTypeOK, SessionsOK, TypeOK
<1> QED
  BY <1>1, InitInv, NextKeeps, PTL DEF Spec

-----------------------------------------------------------------------------
(***************************************************************************)
(* --if-updated-at.                                                        *)
(***************************************************************************)
\* Every step that writes a row makes its updated_at a later one.
RowsAge ==
    \A i \in Issues : /\ i \in Issues'
                      /\ rows'[i] = rows[i] \/ rows[i].stamp < rows'[i].stamp

\* A row that still has the updated_at a user was shown has the text they were shown.
BaseIsOld ==
    \A s \in Session : pc[s] \in {"user", "edit"} =>
        /\ base[s].stamp <= rows[cmd[s].on].stamp
        /\ base[s].stamp = rows[cmd[s].on].stamp => base[s].text = rows[cmd[s].on].text

LEMMA OneRowAges ==
    ASSUME TableTypeOK, NEW i \in Issues, NEW r, rows' = [rows EXCEPT ![i] = r],
           r.stamp = rows[i].stamp + 1
    PROVE  RowsAge
<1>1. rows[i].stamp \in Nat
  BY DEF TableTypeOK, Row
<1> QED
  BY <1>1 DEF TableTypeOK, RowsAge, Issues

LEMMA WriteBackAges ==
    ASSUME TableTypeOK, NEW i \in Issues, NEW r \in Row, WriteBack(i, r)
    PROVE  RowsAge
<1> DEFINE q == [r EXCEPT !.completed = rows[i].completed, !.stamp = rows[i].stamp + 1]
<1>1. rows' = [rows EXCEPT ![i] = q]
  BY DEF WriteBack
<1>2. q.stamp = rows[i].stamp + 1
  BY DEF Row
<1> QED
  BY <1>1, <1>2, OneRowAges

LEMMA JobAges ==
    ASSUME IInv, NEW s \in Session, Job(s)
    PROVE  RowsAge
<1>0. TableTypeOK /\ SessionsOK
  BY DEF IInv
<1>1. CASE UNCHANGED rows
  BY <1>1 DEF RowsAge, Issues
<1>2. CASE Read(s) \/ FindPlace(s) \/ RecordMove(s) \/ ReadOther(s) \/ Load(s)
           \/ RefuseEdit(s) \/ Reread(s)
  <2>1. UNCHANGED rows
    BY <1>2 DEF Read, FindPlace, RecordMove, ReadOther, Load, RefuseEdit, Reread, table
  <2> QED
    BY <1>1, <2>1
<1>3. CASE CreateIssue(s)
  <2>1. issueSeq + 1 \notin Issues
    BY <1>0 DEF TableTypeOK
  <2>2. \A i \in Issues : i \in Issues' /\ rows'[i] = rows[i]
    BY <1>3, <2>1 DEF CreateIssue, Issues
  <2> QED
    BY <2>2 DEF RowsAge
<1>4. CASE MoveIssue(s)
  <2>1. cmd[s].on \in Issues
    BY <1>4, CommandFields DEF MoveIssue
  <2>2. rows[cmd[s].on] \in Row
    BY <1>0, <2>1 DEF TableTypeOK
  <2>3. Moved(Target(s), cmd[s].to, place[s]).stamp = rows[cmd[s].on].stamp + 1
    BY <2>2 DEF Moved, Target, Row
  <2> QED
    BY <1>0, <1>4, <2>1, <2>3, OneRowAges DEF MoveIssue
<1>5. CASE AmendIssue(s) \/ EditIssue(s)
  <2>1. cmd[s].on \in Issues
    BY <1>5, AtFields, StepFields, CommandFields DEF AmendIssue, EditIssue
  <2>2. rows[cmd[s].on] \in Row
    BY <1>0, <2>1 DEF TableTypeOK
  <2>3. \A T : Described(rows[cmd[s].on], T).stamp = rows[cmd[s].on].stamp + 1
    BY <2>2 DEF Described, Row
  <2>4. PICK T : rows' = [rows EXCEPT ![cmd[s].on] = Described(rows[cmd[s].on], T)]
    BY <1>5 DEF AmendIssue, EditIssue
  <2> QED
    BY <1>0, <2>1, <2>3, <2>4, OneRowAges
<1>6. CASE ArchiveIssue(s)
  <2>1. cmd[s].on \in Issues /\ cmd[s].flag \in BOOLEAN /\ seen[s] \in Row
    BY <1>0, <1>6, CommandFields DEF ArchiveIssue, SessionsOK
  <2>2. [seen[s] EXCEPT !.archived = cmd[s].flag] \in Row
    BY <2>1 DEF Row
  <2> QED
    BY <1>0, <1>6, <2>1, <2>2, WriteBackAges DEF ArchiveIssue
<1>7. CASE PlaceFirst(s) \/ PlaceSecond(s)
  <2>1. cmd[s].on \in Issues /\ cmd[s].with \in Issues
    BY <1>7, AtFields, StepFields, CommandFields DEF PlaceFirst, PlaceSecond
  <2>2. /\ [seen[s] EXCEPT !.pos = other[s].pos] \in Row
        /\ [other[s] EXCEPT !.pos = seen[s].pos] \in Row
    <3>1. seen[s] \in Row /\ other[s] \in Row
      BY <1>0 DEF SessionsOK
    <3> QED
      BY <3>1 DEF Row
  <2> QED
    BY <1>0, <1>7, <2>1, <2>2, WriteBackAges DEF PlaceFirst, PlaceSecond
<1>8. CASE SaveIssue(s)
  <2>1. cmd[s].on \in Issues
    BY <1>8, AtFields, StepFields, CommandFields DEF SaveIssue
  <2>2. [seen[s] EXCEPT !.text = base[s].text \cup {s}] \in Row
    <3>1. seen[s] \in Row /\ base[s] \in Row
      BY <1>0 DEF SessionsOK
    <3> QED
      BY <3>1 DEF Row
  <2> QED
    BY <1>0, <1>8, <2>1, <2>2, WriteBackAges DEF SaveIssue
<1>9. CASE SweepDone(s)
  <2>1. PICK S : rows' = [i \in Issues |->
                            IF i \in S
                            THEN [rows[i] EXCEPT !.archived = TRUE, !.stamp = @ + 1]
                            ELSE rows[i]]
    BY <1>9 DEF SweepDone
  <2>2. \A i \in Issues :
            /\ rows[i].stamp \in Nat
            /\ [rows[i] EXCEPT !.archived = TRUE, !.stamp = @ + 1].stamp = rows[i].stamp + 1
    BY <1>0 DEF TableTypeOK, Row
  <2>3. Issues' = Issues
    BY <2>1 DEF Issues
  <2>4. ASSUME NEW i \in Issues PROVE rows'[i] = rows[i] \/ rows[i].stamp < rows'[i].stamp
    <3>1. CASE i \in S
      <4>1. rows'[i].stamp = rows[i].stamp + 1
        BY <2>1, <2>2, <3>1
      <4> QED
        BY <2>2, <4>1
    <3>2. CASE i \notin S
      BY <2>1, <3>2
    <3> QED
      BY <3>1, <3>2
  <2> QED
    BY <2>3, <2>4 DEF RowsAge
<1> QED
  BY <1>2, <1>3, <1>4, <1>5, <1>6, <1>7, <1>8, <1>9 DEF Job

LEMMA NextAges == IInv /\ [Next]_vars => RowsAge
<1> SUFFICES ASSUME IInv, [Next]_vars PROVE RowsAge
  OBVIOUS
<1>1. ASSUME NEW s \in Session, Job(s) PROVE RowsAge
  BY <1>1, JobAges
<1>2. ASSUME UNCHANGED rows PROVE RowsAge
  BY <1>2 DEF RowsAge, Issues
<1>3. ASSUME NEW s \in Session, NEW c \in Ask(Issues), Submit(s, c) PROVE RowsAge
  BY <1>2, <1>3 DEF Submit, table
<1>4. ASSUME NEW s \in Session, Resume(s) \/ FailJob(s) PROVE RowsAge
  BY <1>2, <1>4 DEF Resume, FailJob, table
<1>5. ASSUME NEW p \in Process, Kill(p) PROVE RowsAge
  BY <1>2, <1>5 DEF Kill, table
<1>6. CASE UNCHANGED vars
  BY <1>2, <1>6 DEF vars, table
<1> QED
  BY <1>1, <1>2, <1>3, <1>4, <1>5, <1>6 DEF Next

\* A user comes to edit what Load showed, and nothing else.
LEMMA EditsAreLoaded ==
    ASSUME IInv, [Next]_vars, NEW s \in Session, pc'[s] \in {"user", "edit"}
    PROVE  /\ cmd'[s] = cmd[s]
           /\ \/ pc[s] \in {"user", "edit"} /\ base'[s] = base[s]
              \/ base'[s] = rows[cmd[s].on] /\ rows' = rows /\ cmd[s].on \in Issues
<1> DEFINE Goal == /\ cmd'[s] = cmd[s]
                   /\ \/ pc[s] \in {"user", "edit"} /\ base'[s] = base[s]
                      \/ base'[s] = rows[cmd[s].on] /\ rows' = rows /\ cmd[s].on \in Issues
<1>0. /\ pc \in [Session -> PC] /\ base \in [Session -> Row]
      /\ cmd \in [Session -> Ask(Issues) \cup {NoCommand}]
  BY DEF IInv, SessionsOK
<1>1. ASSUME NEW t \in Session, NEW c \in Ask(Issues), Submit(t, c) PROVE Goal
  <2>1. c.op \in CliCommands \cup TuiCommands
    BY <1>1 DEF Submit, CliCommands, TuiCommands
  <2>2. FirstStep(c.op) \notin {"user", "edit"}
    BY <2>1 DEF FirstStep, CliCommands, TuiCommands
  <2> QED
    BY <1>0, <1>1, <2>2 DEF Submit
<1>2. ASSUME NEW t \in Session, Resume(t) PROVE Goal
  BY <1>0, <1>2 DEF Resume
<1>3. ASSUME NEW t \in Session, Finish(t) PROVE Goal
  BY <1>0, <1>3 DEF Finish, Forget
<1>4. ASSUME NEW t \in Session, NEW l, l \notin {"user", "edit"}, Step(t, l), base' = base
      PROVE  Goal
  BY <1>0, <1>4 DEF Step
<1>5. ASSUME NEW t \in Session, Load(t) PROVE Goal
  <2>1. cmd[t].on \in Issues
    BY <1>5, AtFields, StepFields, CommandFields DEF Load
  <2> QED
    BY <1>0, <1>5, <2>1 DEF Load, table
<1>6. ASSUME NEW t \in Session, Read(t) PROVE Goal
  <2>1. cmd[t].op \in {"mv", "archive", "reorder", "save"}
    BY <1>6, AtFields, StepFields DEF Read
  <2>2. Finish(t) \/ (base' = base /\ \E l \in PC \ {"user", "edit"} : Step(t, l))
    BY <1>6, <2>1 DEF Read, PC
  <2> QED
    BY <1>3, <1>4, <2>2
<1>7. ASSUME NEW t \in Session, RecordMove(t) PROVE Goal
  <2>1. CASE cmd[t].op = "mv"
    BY <1>3, <1>7, <2>1 DEF RecordMove
  <2>2. CASE cmd[t].op # "mv"
    BY <1>0, <1>7, <2>2 DEF RecordMove
  <2> QED
    BY <2>1, <2>2
<1>8. ASSUME NEW t \in Session,
             \/ CreateIssue(t) \/ ArchiveIssue(t) \/ PlaceSecond(t) \/ AmendIssue(t)
             \/ EditIssue(t) \/ RefuseEdit(t) \/ SaveIssue(t) \/ SweepDone(t) \/ FailJob(t)
      PROVE  Goal
  BY <1>3, <1>8 DEF CreateIssue, ArchiveIssue, PlaceSecond, AmendIssue, EditIssue,
                    RefuseEdit, SaveIssue, SweepDone, FailJob
<1>9. ASSUME NEW t \in Session,
             \/ FindPlace(t) \/ MoveIssue(t) \/ ReadOther(t) \/ PlaceFirst(t) \/ Reread(t)
      PROVE  Goal
  BY <1>4, <1>9 DEF FindPlace, MoveIssue, ReadOther, PlaceFirst, Reread
<1>10. ASSUME NEW p \in Process, Kill(p) PROVE Goal
  BY <1>0, <1>10 DEF Kill
<1>11. CASE UNCHANGED vars
  BY <1>11 DEF vars
<1> QED
  BY <1>1, <1>2, <1>5, <1>6, <1>7, <1>8, <1>9, <1>10, <1>11 DEF Next, Job

LEMMA BaseStep == IInv /\ BaseIsOld /\ [Next]_vars => BaseIsOld'
<1> SUFFICES ASSUME IInv, BaseIsOld, [Next]_vars,
                    NEW s \in Session, pc'[s] \in {"user", "edit"}
             PROVE  /\ base'[s].stamp <= rows'[cmd'[s].on].stamp
                    /\ base'[s].stamp = rows'[cmd'[s].on].stamp =>
                         base'[s].text = rows'[cmd'[s].on].text
  BY DEF BaseIsOld
<1>1. cmd'[s] = cmd[s]
  BY EditsAreLoaded
<1>2. CASE pc[s] \in {"user", "edit"} /\ base'[s] = base[s]
  <2>1. cmd[s].on \in Issues
    BY <1>2, StepFields, CommandFields
  <2>2. rows'[cmd[s].on] = rows[cmd[s].on] \/ rows[cmd[s].on].stamp < rows'[cmd[s].on].stamp
    BY <2>1, NextAges DEF RowsAge
  <2>3. rows[cmd[s].on].stamp \in Nat /\ base[s].stamp \in Nat
    BY <2>1 DEF IInv, TableTypeOK, SessionsOK, Row
  <2>4. IInv'
    BY NextKeeps
  <2>5. rows'[cmd[s].on].stamp \in Nat
    <3>1. cmd[s].on \in Issues'
      BY <2>1, NextAges DEF RowsAge
    <3> QED
      BY <2>4, <3>1 DEF IInv, TableTypeOK, Row
  <2> QED
    BY <1>1, <1>2, <2>2, <2>3, <2>5 DEF BaseIsOld
<1>3. CASE base'[s] = rows[cmd[s].on] /\ rows' = rows /\ cmd[s].on \in Issues
  <2>1. rows[cmd[s].on].stamp \in Nat
    BY <1>3 DEF IInv, TableTypeOK, Row
  <2> QED
    BY <1>1, <1>3, <2>1
<1> QED
  BY <1>2, <1>3, EditsAreLoaded

\* Whatever other sessions, full-row writers among them, do meanwhile: an edit with
\* --if-updated-at drops nothing from the description it replaces.
THEOREM CasEditsDropNothing == Spec => CasDropsNothing
<1> DEFINE A == \A s \in Session : EditIssue(s) /\ cmd[s].op = "casEdit" =>
                    rows[cmd[s].on].text \subseteq rows'[cmd[s].on].text
<1>1. IInv /\ BaseIsOld => A
  <2> SUFFICES ASSUME IInv, BaseIsOld, NEW s \in Session,
                      EditIssue(s), cmd[s].op = "casEdit"
               PROVE  rows[cmd[s].on].text \subseteq rows'[cmd[s].on].text
    OBVIOUS
  <2>1. cmd[s].on \in Issues
    BY CommandFields
  <2>2. pc[s] = "edit" /\ rows[cmd[s].on].stamp = base[s].stamp
    BY AtFields DEF EditIssue, CheckCas
  <2>3. base[s].text = rows[cmd[s].on].text
    BY <2>2 DEF BaseIsOld
  <2>4. rows'[cmd[s].on] = Described(rows[cmd[s].on], base[s].text \cup {s})
    BY <2>1 DEF EditIssue, IInv, TableTypeOK
  <2>5. rows'[cmd[s].on].text = base[s].text \cup {s}
    BY <2>1, <2>4 DEF Described, IInv, TableTypeOK, Row
  <2> QED
    BY <2>3, <2>5
<1>2. Init => BaseIsOld
  BY DEF Init, BaseIsOld
<1>3. IInv /\ BaseIsOld /\ [Next]_vars => [A]_vars
  BY <1>1
<1> QED
  BY <1>2, <1>3, InitInv, NextKeeps, BaseStep, PTL DEF Spec, CasDropsNothing

-----------------------------------------------------------------------------
(***************************************************************************)
(* Agents that do not write whole rows back.                               *)
(***************************************************************************)
\* Nobody uses a command that writes a row it read in an earlier transaction.
NoRowWriters == Commands \cap {"archive", "reorder", "save"} = {}

\* What a step leaves of status, completed_at and the text of an issue.
LEMMA WriterLess ==
    ASSUME NoRowWriters, IInv, NEW s \in Session
    PROVE  ~ (ArchiveIssue(s) \/ PlaceFirst(s) \/ PlaceSecond(s) \/ SaveIssue(s))
<1>1. cmd[s].op \notin {"archive", "reorder", "save"}
  <2>1. cmd[s] \in Ask(Issues) \cup {NoCommand}
    BY DEF IInv, SessionsOK
  <2>2. cmd[s].op \in Commands \cup {"none"}
    BY <2>1, AskFields
  <2> QED
    BY <2>2 DEF NoRowWriters
<1> QED
  BY <1>1, AtFields, StepFields DEF ArchiveIssue, PlaceFirst, PlaceSecond, SaveIssue

\* The issue that is created.
LEMMA CreatedRow ==
    ASSUME IInv, NEW s \in Session, CreateIssue(s)
    PROVE  \A i \in Issues' :
             IF i \in Issues
             THEN rows'[i] = rows[i] /\ written'[i] = written[i]
             ELSE ~ rows'[i].completed /\ written'[i] = {}
<1>1. issueSeq + 1 \notin Issues
  BY DEF IInv, TableTypeOK
<1>2. PICK m \in Places(cmd[s].to) :
        rows' = [i \in Issues \cup {issueSeq + 1} |->
                    IF i = issueSeq + 1
                    THEN [Blank EXCEPT !.status = cmd[s].to, !.pos = m + 1]
                    ELSE rows[i]]
  BY DEF CreateIssue
<1>3. ~ [Blank EXCEPT !.status = cmd[s].to, !.pos = m + 1].completed
  BY DEF Blank
<1>4. Issues' = Issues \cup {issueSeq + 1}
  BY <1>2 DEF Issues
<1>5. \A i \in Issues' : written'[i] = IF i \in Issues THEN written[i] ELSE {}
  BY DEF CreateIssue, Issues
<1> QED
  BY <1>1, <1>2, <1>3, <1>4, <1>5

LEMMA CompletedStep ==
    ASSUME NoRowWriters
    PROVE  IInv /\ CompletedIsDone /\ [Next]_vars => CompletedIsDone'
<1> SUFFICES ASSUME IInv, CompletedIsDone, [Next]_vars PROVE CompletedIsDone'
  OBVIOUS
<1>0. TableTypeOK /\ SessionsOK
  BY DEF IInv
<1>1. ASSUME UNCHANGED rows PROVE CompletedIsDone'
  BY <1>1 DEF CompletedIsDone, Issues
<1>2. ASSUME NEW s \in Session, NEW c \in Ask(Issues), Submit(s, c) PROVE CompletedIsDone'
  BY <1>1, <1>2 DEF Submit, table
<1>3. ASSUME NEW s \in Session,
             \/ Resume(s) \/ FailJob(s) \/ Read(s) \/ FindPlace(s) \/ RecordMove(s)
             \/ ReadOther(s) \/ Load(s) \/ RefuseEdit(s) \/ Reread(s)
      PROVE  CompletedIsDone'
  <2>1. UNCHANGED rows
    BY <1>3 DEF Resume, FailJob, Read, FindPlace, RecordMove, ReadOther, Load, RefuseEdit,
                Reread, table
  <2> QED
    BY <1>1, <2>1
<1>4. ASSUME NEW s \in Session, CreateIssue(s) PROVE CompletedIsDone'
  BY <1>4, CreatedRow DEF CompletedIsDone
<1>5. ASSUME NEW i \in Issues, NEW r, rows' = [rows EXCEPT ![i] = r],
             r.completed => r.status = Done
      PROVE  CompletedIsDone'
  BY <1>0, <1>5 DEF CompletedIsDone, Issues, TableTypeOK
<1>6. ASSUME NEW s \in Session, MoveIssue(s) PROVE CompletedIsDone'
  <2> DEFINE q == Moved(Target(s), cmd[s].to, place[s])
  <2>1. cmd[s].on \in Issues
    BY <1>6, CommandFields DEF MoveIssue
  <2>2. rows[cmd[s].on] \in Row
    BY <1>0, <2>1 DEF TableTypeOK
  <2>3. q.completed => q.status = Done
    BY <2>2 DEF Moved, Target, Row
  <2>4. rows' = [rows EXCEPT ![cmd[s].on] = q]
    BY <1>6 DEF MoveIssue
  <2> HIDE DEF q
  <2> QED
    BY <1>5, <2>1, <2>3, <2>4
<1>7. ASSUME NEW s \in Session, AmendIssue(s) \/ EditIssue(s) PROVE CompletedIsDone'
  <2>1. cmd[s].on \in Issues
    BY <1>7, AtFields, StepFields, CommandFields DEF AmendIssue, EditIssue
  <2>2. rows[cmd[s].on] \in Row
    BY <1>0, <2>1 DEF TableTypeOK
  <2>3. PICK T : rows' = [rows EXCEPT ![cmd[s].on] = Described(rows[cmd[s].on], T)]
    BY <1>7 DEF AmendIssue, EditIssue
  <2>4. /\ Described(rows[cmd[s].on], T).completed = rows[cmd[s].on].completed
        /\ Described(rows[cmd[s].on], T).status = rows[cmd[s].on].status
    BY <2>2 DEF Described, Row
  <2>5. rows[cmd[s].on].completed => rows[cmd[s].on].status = Done
    BY <2>1 DEF CompletedIsDone
  <2>6. Described(rows[cmd[s].on], T).completed => Described(rows[cmd[s].on], T).status = Done
    BY <2>4, <2>5
  <2> QED
    BY <1>5, <2>1, <2>3, <2>6
<1>8. ASSUME NEW s \in Session, SweepDone(s) PROVE CompletedIsDone'
  <2>1. PICK S : rows' = [i \in Issues |->
                            IF i \in S
                            THEN [rows[i] EXCEPT !.archived = TRUE, !.stamp = @ + 1]
                            ELSE rows[i]]
    BY <1>8 DEF SweepDone
  <2>2. \A i \in Issues : rows'[i].completed = rows[i].completed
                          /\ rows'[i].status = rows[i].status
    BY <1>0, <2>1 DEF TableTypeOK, Row
  <2>3. Issues' = Issues
    BY <2>1 DEF Issues
  <2> QED
    BY <2>2, <2>3 DEF CompletedIsDone
<1>9. ASSUME NEW p \in Process, Kill(p) PROVE CompletedIsDone'
  BY <1>1, <1>9 DEF Kill, table
<1>10. CASE UNCHANGED vars
  BY <1>1, <1>10 DEF vars, table
<1> QED
  BY <1>2, <1>3, <1>4, <1>6, <1>7, <1>8, <1>9, <1>10, WriterLess DEF Next, Job

\* As long as nobody writes whole rows back, an issue with a completion time is done,
\* however the moves, edits, sweeps, failures and kills interleave.
THEOREM CompletedAreDone ==
    ASSUME NoRowWriters
    PROVE  Spec => []CompletedIsDone
<1>1. Init => CompletedIsDone
  <2> SUFFICES ASSUME Init, NEW i \in Issues PROVE rows[i].completed => rows[i].status = Done
    BY DEF CompletedIsDone
  <2>1. rows[i] \in FirstRow
    BY DEF Init, Issues
  <2> QED
    BY <2>1 DEF FirstRow
<1> QED
  BY <1>1, InitInv, NextKeeps, CompletedStep, PTL DEF Spec

\* An entry that was committed stays as long as every writer of the text either adds to
\* it inside its transaction or names the updated_at it has read.
LEMMA EntriesStep ==
    ASSUME NoRowWriters, "edit" \notin Commands
    PROVE  IInv /\ BaseIsOld /\ NoLostEntries /\ [Next]_vars => NoLostEntries'
<1> SUFFICES ASSUME IInv, BaseIsOld, NoLostEntries, [Next]_vars PROVE NoLostEntries'
  OBVIOUS
<1>0. TableTypeOK /\ SessionsOK
  BY DEF IInv
<1>1. ASSUME UNCHANGED <<rows, written>> PROVE NoLostEntries'
  BY <1>1 DEF NoLostEntries, Issues
<1>2. ASSUME NEW s \in Session, NEW c \in Ask(Issues), Submit(s, c) PROVE NoLostEntries'
  BY <1>1, <1>2 DEF Submit, table
<1>3. ASSUME NEW s \in Session,
             \/ Resume(s) \/ FailJob(s) \/ Read(s) \/ FindPlace(s) \/ RecordMove(s)
             \/ ReadOther(s) \/ Load(s) \/ RefuseEdit(s) \/ Reread(s)
      PROVE  NoLostEntries'
  <2>1. UNCHANGED <<rows, written>>
    BY <1>3 DEF Resume, FailJob, Read, FindPlace, RecordMove, ReadOther, Load, RefuseEdit,
                Reread, table
  <2> QED
    BY <1>1, <2>1
<1>4. ASSUME NEW s \in Session, CreateIssue(s) PROVE NoLostEntries'
  BY <1>4, CreatedRow DEF NoLostEntries
<1>5. ASSUME NEW i \in Issues, NEW r, rows' = [rows EXCEPT ![i] = r],
             NEW W \in SUBSET Session, written' = [written EXCEPT ![i] = W],
             W \subseteq r.text
      PROVE  NoLostEntries'
  BY <1>0, <1>5 DEF NoLostEntries, Issues, TableTypeOK
<1>6. ASSUME NEW s \in Session, MoveIssue(s) PROVE NoLostEntries'
  <2> DEFINE q == Moved(Target(s), cmd[s].to, place[s])
  <2>1. cmd[s].on \in Issues
    BY <1>6, CommandFields DEF MoveIssue
  <2>2. rows[cmd[s].on] \in Row
    BY <1>0, <2>1 DEF TableTypeOK
  <2>3. q.text = rows[cmd[s].on].text
    BY <2>2 DEF Moved, Target, Row
  <2>4. rows' = [rows EXCEPT ![cmd[s].on] = q] /\ written' = written
    BY <1>6 DEF MoveIssue
  <2> HIDE DEF q
  <2> QED
    BY <1>0, <2>1, <2>3, <2>4 DEF NoLostEntries, Issues, TableTypeOK
<1>7. ASSUME NEW s \in Session, AmendIssue(s) \/ EditIssue(s) PROVE NoLostEntries'
  <2>1. cmd[s].on \in Issues
    BY <1>7, AtFields, StepFields, CommandFields DEF AmendIssue, EditIssue
  <2>2. rows[cmd[s].on] \in Row
    BY <1>0, <2>1 DEF TableTypeOK
  <2> DEFINE old == rows[cmd[s].on].text
             q == Described(rows[cmd[s].on], old \cup {s})
  <2>3. rows' = [rows EXCEPT ![cmd[s].on] = q]
    <3>1. CASE AmendIssue(s)
      BY <3>1 DEF AmendIssue
    <3>2. CASE EditIssue(s)
      <4>1. pc[s] = "edit" /\ cmd[s].op \in {"edit", "casEdit"}
        BY <3>2, AtFields, StepFields DEF EditIssue
      <4>2. cmd[s].op \in Commands \cup {"none"}
        <5>1. cmd[s] \in Ask(Issues) \cup {NoCommand}
          BY <1>0 DEF SessionsOK
        <5> QED
          BY <5>1, AskFields
      <4>3. cmd[s].op = "casEdit"
        BY <4>1, <4>2
      <4>4. base[s].text = old
        BY <3>2, <4>1, <4>3 DEF EditIssue, CheckCas, BaseIsOld
      <4> QED
        BY <3>2, <4>4 DEF EditIssue
    <3> QED
      BY <1>7, <3>1, <3>2
  <2>4. written' = [written EXCEPT ![cmd[s].on] = @ \cup {s}]
    BY <1>7 DEF AmendIssue, EditIssue
  <2>5. written[cmd[s].on] \cup {s} \in SUBSET Session
    BY <1>0, <2>1 DEF TableTypeOK
  <2>6. q.text = old \cup {s}
    BY <2>2 DEF Described, Row
  <2>7. written[cmd[s].on] \cup {s} \subseteq q.text
    BY <2>1, <2>6 DEF NoLostEntries
  <2> HIDE DEF q, old
  <2> QED
    BY <1>5, <2>1, <2>3, <2>4, <2>5, <2>7
<1>8. ASSUME NEW s \in Session, SweepDone(s) PROVE NoLostEntries'
  <2>1. PICK S : rows' = [i \in Issues |->
                            IF i \in S
                            THEN [rows[i] EXCEPT !.archived = TRUE, !.stamp = @ + 1]
                            ELSE rows[i]]
    BY <1>8 DEF SweepDone
  <2>2. \A i \in Issues : rows'[i].text = rows[i].text
    BY <1>0, <2>1 DEF TableTypeOK, Row
  <2>3. Issues' = Issues /\ written' = written
    BY <1>8, <2>1 DEF SweepDone, Issues
  <2> QED
    BY <2>2, <2>3 DEF NoLostEntries
<1>9. ASSUME NEW p \in Process, Kill(p) PROVE NoLostEntries'
  BY <1>1, <1>9 DEF Kill, table
<1>10. CASE UNCHANGED vars
  BY <1>1, <1>10 DEF vars, table
<1> QED
  BY <1>2, <1>3, <1>4, <1>6, <1>7, <1>8, <1>9, <1>10, WriterLess DEF Next, Job

\* Agents that log, tick, append, move, create, sweep and edit with --if-updated-at lose
\* nothing of each other's: every committed entry is in the description.
THEOREM EntriesStay ==
    ASSUME NoRowWriters, "edit" \notin Commands
    PROVE  Spec => []NoLostEntries
<1>1. Init => BaseIsOld /\ NoLostEntries
  BY DEF Init, BaseIsOld, NoLostEntries
<1>2. IInv /\ BaseIsOld /\ NoLostEntries /\ [Next]_vars => NoLostEntries'
  BY EntriesStep
<1> QED
  BY <1>1, <1>2, InitInv, NextKeeps, BaseStep, PTL DEF Spec

-----------------------------------------------------------------------------
(***************************************************************************)
(* The board as one object: the jobs whose rows are fresh when they are    *)
(* written back implement Board.                                           *)
(***************************************************************************)
\* The columns a full-row writer takes over from the row it read.
Same(r, q) == r.status = q.status /\ r.archived = q.archived /\ r.text = q.text

\* A job that is about to write a row back still holds the row of the table.
FreshSeen ==
    \A s \in Session :
        pc[s] \in {"read2", "rewrite"} \/ (pc[s] = "write" /\ cmd[s].op \in {"archive", "reorder"})
            => Same(seen[s], rows[cmd[s].on])

FreshOther ==
    \A s \in Session :
        pc[s] = "write2" \/ (pc[s] = "write" /\ cmd[s].op = "reorder")
            => Same(other[s], rows[cmd[s].with])

\* What users see, as AtomicBoard puts it for Board.
Shown == [i \in Issues |-> Visible(rows[i])]

LEMMA OneRowShown ==
    ASSUME TableTypeOK, NEW i \in Issues, NEW r, rows' = [rows EXCEPT ![i] = r]
    PROVE  Shown' = [Shown EXCEPT ![i] = Visible(r)]
<1>1. Issues' = Issues
  BY DEF TableTypeOK, Issues
<1>2. \A j \in Issues : rows'[j] = IF j = i THEN r ELSE rows[j]
  BY DEF TableTypeOK
<1>3. Shown' = [j \in Issues |-> Visible(rows'[j])]
  BY <1>1 DEF Shown
<1>4. ASSUME NEW j \in Issues
      PROVE  Visible(rows'[j]) = [Shown EXCEPT ![i] = Visible(r)][j]
  BY <1>2 DEF Shown
<1>5. DOMAIN [Shown EXCEPT ![i] = Visible(r)] = Issues
  BY DEF Shown
<1> QED
  BY <1>3, <1>4, <1>5 DEF Shown

\* A row written back shows the change it was written for, and nothing else, if it is
\* fresh.
LEMMA WrittenBackShown ==
    ASSUME TableTypeOK, NEW i \in Issues, NEW r \in Row, WriteBack(i, r)
    PROVE  Shown' = [Shown EXCEPT ![i] = [status |-> r.status, completed |-> rows[i].completed,
                                          archived |-> r.archived, text |-> r.text]]
<1> DEFINE q == [r EXCEPT !.completed = rows[i].completed, !.stamp = rows[i].stamp + 1]
<1>1. rows' = [rows EXCEPT ![i] = q]
  BY DEF WriteBack
<1>2. Visible(q) = [status |-> r.status, completed |-> rows[i].completed,
                    archived |-> r.archived, text |-> r.text]
  BY DEF Visible, Row
<1> HIDE DEF q
<1> QED
  BY <1>1, <1>2, OneRowShown

LEMMA ShownFields ==
    ASSUME TableTypeOK, NEW i \in Issues
    PROVE  /\ Shown[i] = [status |-> rows[i].status, completed |-> rows[i].completed,
                          archived |-> rows[i].archived, text |-> rows[i].text]
           /\ DOMAIN Shown = Issues
BY DEF Shown, Visible

LEMMA SameRowShown ==
    ASSUME TableTypeOK, NEW i \in Issues, NEW r \in Row, WriteBack(i, r), Same(r, rows[i])
    PROVE  UNCHANGED Shown
<1>1. Shown' = [Shown EXCEPT ![i] = Shown[i]]
  BY WrittenBackShown, ShownFields DEF Same
<1> QED
  BY <1>1 DEF Shown

LEMMA CreateShown ==
    ASSUME IInv, NEW s \in Session, CreateIssue(s)
    PROVE  Atomic!Next
<1> DEFINE new == [status |-> cmd[s].to, completed |-> FALSE, archived |-> FALSE, text |-> {}]
           n == issueSeq + 1
<1>0. Issues = 1..issueSeq /\ issueSeq \in Nat
  BY DEF IInv, TableTypeOK
<1>1. cmd[s].op = "create" /\ cmd[s].to \in Status
  BY AtFields, StepFields, CommandFields DEF CreateIssue
<1>2. PICK m \in Places(cmd[s].to) :
        rows' = [i \in Issues \cup {issueSeq + 1} |->
                    IF i = issueSeq + 1
                    THEN [Blank EXCEPT !.status = cmd[s].to, !.pos = m + 1]
                    ELSE rows[i]]
  BY DEF CreateIssue
<1>3. Issues' = 1..n
  BY <1>0, <1>2 DEF Issues
<1>4. Visible([Blank EXCEPT !.status = cmd[s].to, !.pos = m + 1]) = new
  BY DEF Visible, Blank
<1> HIDE DEF new
<1>5. ASSUME NEW i \in 1..n
      PROVE  Visible(rows'[i]) = IF i = n THEN new ELSE Shown[i]
  <2>1. CASE i = n
    BY <1>2, <1>4, <2>1
  <2>2. CASE i # n
    <3>1. i \in Issues
      BY <1>0, <2>2
    <3> QED
      BY <1>2, <2>2, <3>1 DEF Shown
  <2> QED
    BY <2>1, <2>2
<1>6. Shown' = [i \in 1..n |-> IF i = n THEN new ELSE Shown[i]]
  BY <1>3, <1>5 DEF Shown
<1>7. Shown' = Append(Shown, new)
  <2> DEFINE S == {Shown[i] : i \in Issues} \cup {new}
  <2>1. Shown \in [1..issueSeq -> S] /\ Shown' \in [1..n -> S]
    <3>1. Shown = [i \in 1..issueSeq |-> Shown[i]]
      BY <1>0 DEF Shown
    <3>2. \A i \in 1..n : i = n \/ i \in Issues
      BY <1>0
    <3>3. \A i \in 1..n : (IF i = n THEN new ELSE Shown[i]) \in S
      BY <3>2
    <3>4. \A i \in 1..issueSeq : Shown[i] \in S
      BY <1>0
    <3> HIDE DEF S
    <3>5. Shown' \in [1..n -> S]
      BY <1>6, <3>3
    <3>6. Shown \in [1..issueSeq -> S]
      BY <3>1, <3>4
    <3> QED
      BY <3>5, <3>6
  <2>2. Shown \in Seq(S) /\ Shown' \in Seq(S)
    BY <1>0, <2>1, SeqDef
  <2> HIDE DEF S
  <2>3. Len(Shown) = issueSeq /\ Len(Shown') = n /\ new \in S
    BY <1>0, <2>1, <2>2, LenProperties DEF S
  <2>4. /\ Append(Shown, new) \in Seq(S) /\ Len(Append(Shown, new)) = n
        /\ \A i \in 1..n : Append(Shown, new)[i] = IF i = n THEN new ELSE Shown[i]
    BY <2>2, <2>3, AppendProperties
  <2> QED
    BY <1>6, <2>2, <2>3, <2>4, SeqEqual
<1>8. Atomic!Create(cmd[s].to)
  BY <1>7 DEF Atomic!Create, Shown, new
<1> QED
  BY <1>1, <1>8 DEF Atomic!Next

LEMMA MoveShown ==
    ASSUME IInv, NEW s \in Session, MoveIssue(s)
    PROVE  Atomic!Next
<1> DEFINE i == cmd[s].on
           st == cmd[s].to
           q == Moved(Target(s), st, place[s])
<1>1. i \in Issues /\ st \in Status
  BY CommandFields DEF MoveIssue
<1>2. rows[i] \in Row
  BY <1>1 DEF IInv, TableTypeOK
<1>3. Visible(q) = [status |-> st, completed |-> (st = Done),
                    archived |-> rows[i].archived, text |-> rows[i].text]
  BY <1>2 DEF Visible, Moved, Target, Row
<1>4. rows' = [rows EXCEPT ![i] = q]
  BY DEF MoveIssue
<1> HIDE DEF q
<1>5. Shown' = [Shown EXCEPT ![i] = Visible(q)]
  BY <1>1, <1>4, OneRowShown DEF IInv
<1>6. [Shown EXCEPT ![i].status = st, ![i].completed = (st = Done)] =
        [Shown EXCEPT ![i] = Visible(q)]
  <2>1. Shown[i] = [status |-> rows[i].status, completed |-> rows[i].completed,
                    archived |-> rows[i].archived, text |-> rows[i].text]
    BY <1>1, ShownFields DEF IInv
  <2>2. i \in DOMAIN Shown
    BY <1>1, ShownFields DEF IInv
  <2> DEFINE b == (st = Done)
             r == [Shown[i] EXCEPT !.status = st]
  <2>3. Visible(q) = [status |-> st, completed |-> b, archived |-> rows[i].archived,
                      text |-> rows[i].text]
    BY <1>3
  <2> HIDE DEF b
  <2>4. r = [status |-> st, completed |-> rows[i].completed,
             archived |-> rows[i].archived, text |-> rows[i].text]
    BY <2>1
  <2>5. [Shown EXCEPT ![i].status = st, ![i].completed = b] =
          [Shown EXCEPT ![i] = [r EXCEPT !.completed = b]]
    BY <2>2
  <2> HIDE DEF r
  <2>6. [r EXCEPT !.completed = b] = Visible(q)
    BY <2>3, <2>4
  <2> QED
    BY <2>5, <2>6 DEF b
<1>7. Atomic!Move(i, st)
  BY <1>5, <1>6 DEF Atomic!Move, Shown
<1> QED
  BY <1>1, <1>7 DEF Atomic!Next, Shown

LEMMA ArchiveShown ==
    ASSUME IInv, FreshSeen, NEW s \in Session, ArchiveIssue(s)
    PROVE  Atomic!Next
<1> DEFINE i == cmd[s].on
           b == cmd[s].flag
           r == [seen[s] EXCEPT !.archived = b]
<1>1. i \in Issues /\ b \in BOOLEAN /\ seen[s] \in Row /\ Same(seen[s], rows[i])
  BY AtFields, CommandFields DEF ArchiveIssue, IInv, SessionsOK, FreshSeen
<1>2. /\ r \in Row /\ r.status = rows[i].status /\ r.archived = b /\ r.text = rows[i].text
  BY <1>1 DEF Same, Row
<1>3. WriteBack(i, r)
  BY DEF ArchiveIssue
<1> HIDE DEF r, b
<1> DEFINE q == [status |-> rows[i].status, completed |-> rows[i].completed,
                 archived |-> b, text |-> rows[i].text]
<1>4. Shown' = [Shown EXCEPT ![i] = q]
  BY <1>1, <1>2, <1>3, WrittenBackShown DEF IInv
<1>5. [Shown EXCEPT ![i].archived = b] = [Shown EXCEPT ![i] = q]
  <2>0. Shown[i] = [status |-> rows[i].status, completed |-> rows[i].completed,
                    archived |-> rows[i].archived, text |-> rows[i].text]
    BY <1>1, ShownFields DEF IInv
  <2>1. [Shown[i] EXCEPT !.archived = b] = q
    BY <2>0
  <2> HIDE DEF q
  <2> QED
    BY <1>1, <2>1, ShownFields DEF IInv
<1>6. Atomic!SetArchived(i, b)
  BY <1>4, <1>5 DEF Atomic!SetArchived, Shown
<1> QED
  BY <1>1, <1>6 DEF Atomic!Next, Shown, b

\* The description of an issue is replaced.
LEMMA TextShown ==
    ASSUME IInv, NEW i \in Issues, NEW T \in SUBSET Session,
           Shown' = [Shown EXCEPT ![i] = [status |-> rows[i].status,
                                          completed |-> rows[i].completed,
                                          archived |-> rows[i].archived, text |-> T]]
    PROVE  Atomic!Next
<1> DEFINE q == [status |-> rows[i].status, completed |-> rows[i].completed,
                 archived |-> rows[i].archived, text |-> T]
<1>0. Shown[i] = [status |-> rows[i].status, completed |-> rows[i].completed,
                  archived |-> rows[i].archived, text |-> rows[i].text]
  BY ShownFields DEF IInv
<1>1. [Shown[i] EXCEPT !.text = T] = q
  BY <1>0
<1>2. Shown' = [Shown EXCEPT ![i] = q]
  OBVIOUS
<1> HIDE DEF q
<1>3. [Shown EXCEPT ![i].text = T] = [Shown EXCEPT ![i] = q]
  BY <1>1, ShownFields DEF IInv
<1>4. Atomic!Rewrite(i, T)
  BY <1>2, <1>3 DEF Atomic!Rewrite, Shown
<1> QED
  BY <1>4 DEF Atomic!Next, Shown

LEMMA DescribeShown ==
    ASSUME IInv, NEW s \in Session, AmendIssue(s) \/ EditIssue(s)
    PROVE  Atomic!Next
<1> DEFINE i == cmd[s].on
<1>1. i \in Issues
  BY AtFields, StepFields, CommandFields DEF AmendIssue, EditIssue
<1>2. rows[i] \in Row /\ base[s] \in Row
  BY <1>1 DEF IInv, TableTypeOK, SessionsOK
<1>3. PICK T \in SUBSET Session : rows' = [rows EXCEPT ![i] = Described(rows[i], T)]
  <2>1. rows[i].text \cup {s} \in SUBSET Session /\ base[s].text \cup {s} \in SUBSET Session
    BY <1>2 DEF Row
  <2> QED
    BY <2>1 DEF AmendIssue, EditIssue
<1>4. Visible(Described(rows[i], T)) =
        [status |-> rows[i].status, completed |-> rows[i].completed,
         archived |-> rows[i].archived, text |-> T]
  BY <1>2 DEF Visible, Described, Row
<1>5. Shown' = [Shown EXCEPT ![i] = Visible(Described(rows[i], T))]
  BY <1>1, <1>3, OneRowShown DEF IInv
<1> QED
  BY <1>1, <1>4, <1>5, TextShown

LEMMA SaveShown ==
    ASSUME IInv, FreshSeen, NEW s \in Session, SaveIssue(s)
    PROVE  Atomic!Next
<1> DEFINE i == cmd[s].on
           T == base[s].text \cup {s}
           r == [seen[s] EXCEPT !.text = T]
<1>1. i \in Issues /\ seen[s] \in Row /\ base[s] \in Row /\ Same(seen[s], rows[i])
  BY AtFields, StepFields, CommandFields DEF SaveIssue, IInv, SessionsOK, FreshSeen
<1>2. T \in SUBSET Session
  BY <1>1 DEF Row
<1>3. WriteBack(i, r)
  BY DEF SaveIssue
<1> HIDE DEF T
<1>4. r \in Row /\ r.status = rows[i].status /\ r.archived = rows[i].archived /\ r.text = T
  BY <1>1, <1>2 DEF Same, Row
<1> HIDE DEF r
<1>5. Shown' = [Shown EXCEPT ![i] = [status |-> rows[i].status,
                                     completed |-> rows[i].completed,
                                     archived |-> rows[i].archived, text |-> T]]
  BY <1>1, <1>3, <1>4, WrittenBackShown DEF IInv
<1> QED
  BY <1>1, <1>2, <1>5, TextShown

\* J and K move issues about in their column, which users of the list do not see.
LEMMA PlaceShown ==
    ASSUME IInv, FreshSeen, FreshOther, NEW s \in Session, PlaceFirst(s) \/ PlaceSecond(s)
    PROVE  UNCHANGED Shown
<1>1. /\ cmd[s].op = "reorder" /\ cmd[s].on \in Issues /\ cmd[s].with \in Issues
      /\ seen[s] \in Row /\ other[s] \in Row
  BY AtFields, StepFields, CommandFields DEF PlaceFirst, PlaceSecond, IInv, SessionsOK
<1>2. CASE PlaceFirst(s)
  <2> DEFINE r == [seen[s] EXCEPT !.pos = other[s].pos]
  <2>1. r \in Row /\ Same(r, seen[s])
    BY <1>1 DEF Same, Row
  <2>2. Same(seen[s], rows[cmd[s].on])
    BY <1>1, <1>2, AtFields DEF PlaceFirst, FreshSeen
  <2>3. WriteBack(cmd[s].on, r) /\ Same(r, rows[cmd[s].on])
    BY <1>2, <2>1, <2>2 DEF PlaceFirst, Same
  <2> HIDE DEF r
  <2> QED
    BY <1>1, <2>1, <2>3, SameRowShown DEF IInv
<1>3. CASE PlaceSecond(s)
  <2> DEFINE r == [other[s] EXCEPT !.pos = seen[s].pos]
  <2>1. r \in Row /\ Same(r, other[s])
    BY <1>1 DEF Same, Row
  <2>2. Same(other[s], rows[cmd[s].with])
    BY <1>1, <1>3, AtFields DEF PlaceSecond, FreshOther
  <2>3. WriteBack(cmd[s].with, r) /\ Same(r, rows[cmd[s].with])
    BY <1>3, <2>1, <2>2 DEF PlaceSecond, Same
  <2> HIDE DEF r
  <2> QED
    BY <1>1, <2>1, <2>3, SameRowShown DEF IInv
<1> QED
  BY <1>2, <1>3

LEMMA SweepShown ==
    ASSUME IInv, NEW s \in Session, SweepDone(s)
    PROVE  Atomic!Next
<1>0. TableTypeOK
  BY DEF IInv
<1>1. PICK S \in SUBSET {i \in Issues : rows[i].status = Done} :
        rows' = [i \in Issues |->
                    IF i \in S THEN [rows[i] EXCEPT !.archived = TRUE, !.stamp = @ + 1]
                    ELSE rows[i]]
  BY DEF SweepDone
<1>2. Issues' = Issues
  BY <1>1 DEF Issues
<1>3. ASSUME NEW i \in Issues
      PROVE  Visible(rows'[i]) =
               IF i \in S THEN [Shown[i] EXCEPT !.archived = TRUE] ELSE Shown[i]
  <2>1. rows[i] \in Row
    BY <1>0 DEF TableTypeOK
  <2>2. Visible([rows[i] EXCEPT !.archived = TRUE, !.stamp = @ + 1]) =
          [status |-> rows[i].status, completed |-> rows[i].completed, archived |-> TRUE,
           text |-> rows[i].text]
    BY <2>1 DEF Visible, Row
  <2>0. Shown[i] = [status |-> rows[i].status, completed |-> rows[i].completed,
                    archived |-> rows[i].archived, text |-> rows[i].text]
    BY <1>0, ShownFields
  <2>3. \A b : [Shown[i] EXCEPT !.archived = b] =
                 [status |-> rows[i].status, completed |-> rows[i].completed,
                  archived |-> b, text |-> rows[i].text]
    BY <2>0
  <2>4. [Shown[i] EXCEPT !.archived = TRUE] =
          [status |-> rows[i].status, completed |-> rows[i].completed, archived |-> TRUE,
           text |-> rows[i].text]
    BY <2>3, Zenon
  <2> QED
    BY <1>1, <2>2, <2>4 DEF Shown
<1>4. Shown' = [i \in Issues |-> IF i \in S THEN [Shown[i] EXCEPT !.archived = TRUE]
                                 ELSE Shown[i]]
  BY <1>2, <1>3 DEF Shown
<1>5. ASSUME NEW i \in S PROVE Shown[i].status = Done
  <2>1. i \in Issues /\ rows[i].status = Done
    BY <1>1
  <2> QED
    BY <2>1 DEF Shown, Visible
<1>6. Atomic!Sweep(S)
  BY <1>4, <1>5 DEF Atomic!Sweep, Shown
<1> QED
  BY <1>1, <1>6 DEF Atomic!Next, Shown

\* Every step is a command of Board, or shows nothing.
LEMMA StepsShown ==
    ASSUME IInv, FreshSeen, FreshOther, [Next]_vars
    PROVE  Atomic!Next \/ UNCHANGED Shown
<1>1. CASE UNCHANGED rows
  BY <1>1 DEF Shown, Issues
<1>2. ASSUME NEW s \in Session, NEW c \in Ask(Issues), Submit(s, c) PROVE UNCHANGED rows
  BY <1>2 DEF Submit, table
<1>3. ASSUME NEW s \in Session,
             \/ Resume(s) \/ FailJob(s) \/ Read(s) \/ FindPlace(s) \/ RecordMove(s)
             \/ ReadOther(s) \/ Load(s) \/ RefuseEdit(s) \/ Reread(s)
      PROVE  UNCHANGED rows
  BY <1>3 DEF Resume, FailJob, Read, FindPlace, RecordMove, ReadOther, Load, RefuseEdit,
              Reread, table
<1>4. ASSUME NEW p \in Process, Kill(p) PROVE UNCHANGED rows
  BY <1>4 DEF Kill, table
<1>5. CASE UNCHANGED vars
  BY <1>1, <1>5 DEF vars, table
<1>6. ASSUME NEW s \in Session,
             \/ CreateIssue(s) \/ MoveIssue(s) \/ ArchiveIssue(s) \/ PlaceFirst(s)
             \/ PlaceSecond(s) \/ AmendIssue(s) \/ EditIssue(s) \/ SaveIssue(s) \/ SweepDone(s)
      PROVE  Atomic!Next \/ UNCHANGED Shown
  BY <1>6, CreateShown, MoveShown, ArchiveShown, PlaceShown, DescribeShown, SaveShown,
     SweepShown
<1> QED
  BY <1>1, <1>2, <1>3, <1>4, <1>5, <1>6 DEF Next, Job

LEMMA InitShown == Init => Atomic!Init
<1> SUFFICES ASSUME Init PROVE Atomic!Init
  OBVIOUS
<1> DEFINE S == {r \in Atomic!Seen : r.completed => r.status = Done}
<1>1. Issues = 1..FirstIssues /\ FirstIssues \in Nat
  BY BoardConstants DEF Init, Issues
<1>2. ASSUME NEW i \in Issues PROVE Visible(rows[i]) \in S
  <2>1. rows[i] \in FirstRow
    BY <1>2 DEF Init, Issues
  <2> QED
    BY <2>1 DEF FirstRow, Visible, Atomic!Seen
<1>3. Shown \in [1..FirstIssues -> S]
  BY <1>1, <1>2 DEF Shown
<1>4. Shown \in Seq(S)
  BY <1>1, <1>3, SeqDef
<1> QED
  BY <1>4 DEF Atomic!Init, Shown

\* Agents that do not write whole rows back keep the promise of Board, each in a process
\* of its own or all in one: every command happens at one instant, to the issue as it
\* then is, and changes only what it was asked to change.
THEOREM AgentsKeepTheBoard ==
    ASSUME NoRowWriters
    PROVE  Spec => AtomicBoard
<1>1. IInv => FreshSeen /\ FreshOther
  <2> SUFFICES ASSUME IInv, NEW s \in Session
               PROVE  /\ pc[s] \notin {"read2", "rewrite", "write2"}
                      /\ pc[s] = "write" => cmd[s].op \notin {"archive", "reorder"}
    BY DEF FreshSeen, FreshOther
  <2>1. cmd[s] \in Ask(Issues) \cup {NoCommand}
    BY DEF IInv, SessionsOK
  <2>2. cmd[s].op \in Commands \cup {"none"}
    BY <2>1, AskFields
  <2> QED
    BY <2>2, StepFields DEF NoRowWriters
<1>2. IInv /\ [Next]_vars => [Atomic!Next]_Shown
  BY <1>1, StepsShown
<1>3. Init => Atomic!Init
  BY InitShown
<1> QED
  BY <1>2, <1>3, InitInv, NextKeeps, PTL DEF Spec, AtomicBoard, Atomic!Spec, Shown

-----------------------------------------------------------------------------
(***************************************************************************)
(* One process, like cliband: its writer runs one job at a time.           *)
(***************************************************************************)
OneWriter == \A s, t \in Session : Host[s] = Host[t]

\* Steps a job comes to after its first one.
MidSteps == {"max", "write", "record", "reread", "rewrite", "read2", "write2"}

\* A job that has begun is the one its writer runs.
MidRuns == \A s \in Session : pc[s] \in MidSteps => Running(s)

\* A job that has moved its issue and not recorded it finds it where it put it.
MovedStays == \A s \in Session : pc[s] = "record" => rows[cmd[s].on].status = cmd[s].to

\* What is missing from the trail is about to be recorded.
TrailKept ==
    faults = 0 => \A i \in Issues :
        \/ recorded[i] = rows[i].status
        \/ \E s \in Session : pc[s] = "record" /\ cmd[s].on = i

WInv == MidRuns /\ FreshSeen /\ FreshOther /\ MovedStays /\ TrailKept

\* What session s holds, if it is the only one that has begun a job.
Holds(s) ==
    /\ pc[s] \in {"read2", "rewrite"} \/ (pc[s] = "write" /\ cmd[s].op \in {"archive", "reorder"})
            => Same(seen[s], rows[cmd[s].on])
    /\ pc[s] = "write2" \/ (pc[s] = "write" /\ cmd[s].op = "reorder")
            => Same(other[s], rows[cmd[s].with])
    /\ pc[s] = "record" => rows[cmd[s].on].status = cmd[s].to

Alone(s) == \A t \in Session \ {s} : pc[t] \notin MidSteps

LEMMA AllHold == (\A s \in Session : Holds(s)) <=> FreshSeen /\ FreshOther /\ MovedStays
BY DEF Holds, FreshSeen, FreshOther, MovedStays

\* A writer runs one job.
LEMMA OneRuns ==
    ASSUME OneWriter, MidRuns, NEW s \in Session, Running(s)
    PROVE  Alone(s)
BY DEF OneWriter, MidRuns, Running, Alone

\* A job is stepped by the writer, and touches nothing of the other sessions.
LEMMA JobShape ==
    ASSUME IInv, NEW s \in Session, Job(s) \/ FailJob(s)
    PROVE  /\ Running(s)
           /\ \/ Finish(s)
              \/ Load(s)
              \/ queue' = queue /\ cmd' = cmd /\ \E l \in PC : pc' = [pc EXCEPT ![s] = l]
<1>1. CASE \/ CreateIssue(s) \/ ArchiveIssue(s) \/ PlaceSecond(s) \/ AmendIssue(s)
           \/ EditIssue(s) \/ RefuseEdit(s) \/ SaveIssue(s) \/ SweepDone(s) \/ FailJob(s)
  BY <1>1 DEF CreateIssue, ArchiveIssue, PlaceSecond, AmendIssue, EditIssue, RefuseEdit,
              SaveIssue, SweepDone, FailJob, At
<1>2. CASE \/ FindPlace(s) \/ MoveIssue(s) \/ ReadOther(s) \/ PlaceFirst(s) \/ Reread(s)
  BY <1>2 DEF FindPlace, MoveIssue, ReadOther, PlaceFirst, Reread, At, Step, PC
<1>3. CASE Read(s)
  <2>1. cmd[s].op \in {"mv", "archive", "reorder", "save"}
    BY <1>3, AtFields, StepFields DEF Read
  <2>2. Finish(s) \/ (\E l \in PC : Step(s, l))
    BY <1>3, <2>1 DEF Read, PC
  <2> QED
    BY <1>3, <2>2 DEF Read, At, Step
<1>4. CASE RecordMove(s)
  BY <1>4 DEF RecordMove, At, PC
<1>5. CASE Load(s)
  BY <1>5 DEF Load, At
<1> QED
  BY <1>1, <1>2, <1>3, <1>4, <1>5 DEF Job

LEMMA OthersStay ==
    ASSUME IInv, NEW s \in Session, Job(s) \/ FailJob(s), NEW t \in Session, t # s
    PROVE  pc'[t] = pc[t] /\ cmd'[t] = cmd[t]
BY JobShape DEF Finish, Forget, Load, IInv, SessionsOK

LEMMA MidStep == IInv /\ MidRuns /\ [Next]_vars => MidRuns'
<1> SUFFICES ASSUME IInv, MidRuns, [Next]_vars, NEW t \in Session, pc'[t] \in MidSteps
             PROVE  Running(t)'
  BY DEF MidRuns
<1>0. SessionsOK /\ Host[t] \in Process
  BY BoardConstants DEF IInv
<1>1. ASSUME NEW s \in Session, pc[t] \in MidSteps,
             queue' = [queue EXCEPT ![Host[s]] = Append(@, s)]
      PROVE  Running(t)'
  <2>1. Running(t) /\ Host[s] \in Process
    BY <1>1, BoardConstants DEF MidRuns
  <2>2. queue[Host[t]] \in Seq(Session) /\ queue[Host[t]] # <<>>
    BY <1>0, <2>1 DEF SessionsOK, Running
  <2>3. Append(queue[Host[t]], s) # <<>> /\ Head(Append(queue[Host[t]], s)) = Head(queue[Host[t]])
    BY <2>2
  <2>4. queue'[Host[t]] \in {queue[Host[t]], Append(queue[Host[t]], s)}
    BY <1>0, <1>1, <2>1 DEF SessionsOK
  <2> QED
    BY <2>1, <2>3, <2>4 DEF Running
<1>2. ASSUME NEW s \in Session, NEW c \in Ask(Issues), Submit(s, c) PROVE Running(t)'
  <2>1. FirstStep(c.op) \notin MidSteps
    <3>1. c.op \in CliCommands \cup TuiCommands
      BY <1>2 DEF Submit
    <3> QED
      BY <3>1 DEF FirstStep, CliCommands, TuiCommands, MidSteps
  <2>2. pc[t] \in MidSteps
    BY <1>0, <1>2, <2>1 DEF Submit, SessionsOK
  <2> QED
    BY <1>1, <1>2, <2>2 DEF Submit
<1>3. ASSUME NEW s \in Session, Resume(s) PROVE Running(t)'
  <2>1. pc[t] \in MidSteps
    BY <1>0, <1>3 DEF Resume, SessionsOK, MidSteps
  <2> QED
    BY <1>1, <1>3, <2>1 DEF Resume
<1>4. ASSUME NEW s \in Session, Job(s) \/ FailJob(s) PROVE Running(t)'
  <2>1. Running(s)
    BY <1>4, JobShape
  <2>2. CASE queue' = queue
    <3>1. CASE t = s
      BY <2>1, <2>2, <3>1 DEF Running
    <3>2. CASE t # s
      <4>1. Running(t)
        BY <1>4, <3>2, OthersStay DEF MidRuns
      <4> QED
        BY <2>2, <4>1 DEF Running
    <3> QED
      BY <3>1, <3>2
  <2>3. CASE Finish(s) \/ Load(s)
    <3>1. t # s
      BY <1>0, <2>3 DEF Finish, Forget, Load, SessionsOK, MidSteps
    <3>2. Running(t)
      BY <1>4, <3>1, OthersStay DEF MidRuns
    <3>3. Host[t] # Host[s]
      BY <2>1, <3>1, <3>2 DEF Running
    <3>4. queue'[Host[t]] = queue[Host[t]]
      BY <1>0, <2>3, <3>3 DEF Finish, Load, SessionsOK
    <3> QED
      BY <3>2, <3>4 DEF Running
  <2> QED
    BY <1>4, <2>2, <2>3, JobShape
<1>5. ASSUME NEW p \in Process, Kill(p) PROVE Running(t)'
  <2>1. Host[t] # p /\ pc[t] \in MidSteps
    BY <1>5 DEF Kill, MidSteps
  <2>2. queue'[Host[t]] = queue[Host[t]]
    BY <1>0, <1>5, <2>1 DEF Kill, SessionsOK
  <2> QED
    BY <2>1, <2>2 DEF Running, MidRuns
<1>6. CASE UNCHANGED vars
  BY <1>6 DEF vars, MidRuns, Running
<1> QED
  BY <1>2, <1>3, <1>4, <1>5, <1>6 DEF Next

LEMMA ReorderTwo ==
    ASSUME IInv, NEW s \in Session, cmd[s].op = "reorder"
    PROVE  cmd[s].on # cmd[s].with
<1>1. cmd[s] \in Ask(Issues)
  BY DEF IInv, SessionsOK, NoCommand
<1> QED
  BY <1>1 DEF Ask

LEMMA JobHolds ==
    ASSUME IInv, NEW s \in Session, Holds(s), Job(s) \/ FailJob(s)
    PROVE  Holds(s)'
<1>0. SessionsOK /\ TableTypeOK
  BY DEF IInv
<1>1. CASE Finish(s) \/ Load(s)
  <2>1. pc'[s] \in {"idle", "user"}
    BY <1>0, <1>1 DEF Finish, Forget, Load, SessionsOK
  <2> QED
    BY <2>1 DEF Holds
<1>2. CASE \/ CreateIssue(s) \/ ArchiveIssue(s) \/ PlaceSecond(s) \/ AmendIssue(s)
           \/ EditIssue(s) \/ RefuseEdit(s) \/ SaveIssue(s) \/ SweepDone(s) \/ FailJob(s)
  BY <1>1, <1>2 DEF CreateIssue, ArchiveIssue, PlaceSecond, AmendIssue, EditIssue,
                    RefuseEdit, SaveIssue, SweepDone, FailJob
<1>3. CASE Read(s) /\ ~ Finish(s)
  <2>1. cmd[s].op \in {"mv", "archive", "reorder", "save"}
    BY <1>3, AtFields, StepFields DEF Read
  <2>2. PICK l \in {"max", "write", "read2", "reread"} :
            /\ l = "write" => cmd[s].op = "archive"
            /\ Step(s, l)
    BY <1>3, <2>1 DEF Read
  <2>3. /\ seen'[s] = rows[cmd[s].on] /\ rows' = rows /\ cmd' = cmd /\ pc'[s] = l
    BY <1>0, <1>3, <2>2 DEF Read, Step, SessionsOK, table
  <2> QED
    BY <2>2, <2>3 DEF Holds, Same
<1>4. CASE FindPlace(s)
  <2>1. cmd[s].op \in {"mv", "save"} /\ cmd' = cmd /\ pc'[s] = "write"
    BY <1>0, <1>4, AtFields, StepFields DEF FindPlace, Step, SessionsOK
  <2> QED
    BY <2>1 DEF Holds
<1>5. CASE MoveIssue(s)
  <2>1. cmd[s].on \in Issues /\ cmd' = cmd /\ pc'[s] = "record"
    BY <1>0, <1>5, CommandFields DEF MoveIssue, Step, SessionsOK
  <2>2. rows[cmd[s].on] \in Row
    BY <1>0, <2>1 DEF TableTypeOK
  <2>3. Moved(Target(s), cmd[s].to, place[s]).status = cmd[s].to
    BY <2>2 DEF Moved, Target, Row
  <2>4. rows'[cmd[s].on].status = cmd[s].to
    BY <1>0, <1>5, <2>1, <2>3 DEF MoveIssue, TableTypeOK
  <2> QED
    BY <2>1, <2>4 DEF Holds
<1>6. CASE RecordMove(s)
  <2>1. CASE cmd[s].op = "mv"
    BY <1>1, <1>6, <2>1 DEF RecordMove
  <2>2. CASE cmd[s].op # "mv"
    <3>1. pc'[s] = "reread"
      BY <1>0, <1>6, <2>2 DEF RecordMove, SessionsOK
    <3> QED
      BY <3>1 DEF Holds
  <2> QED
    BY <2>1, <2>2
<1>7. CASE ReadOther(s)
  <2>1. cmd[s].op = "reorder" /\ pc[s] = "read2"
    BY <1>7, AtFields, StepFields DEF ReadOther
  <2>2. /\ pc'[s] = "write" /\ cmd' = cmd /\ rows' = rows /\ seen' = seen
        /\ other'[s] = rows[cmd[s].with]
    BY <1>0, <1>7 DEF ReadOther, Step, SessionsOK, table
  <2> QED
    BY <2>1, <2>2 DEF Holds, Same
<1>8. CASE PlaceFirst(s)
  <2>1. /\ cmd[s].op = "reorder" /\ pc[s] = "write" /\ cmd[s].on \in Issues
        /\ cmd[s].with \in Issues /\ cmd[s].on # cmd[s].with
    BY <1>8, AtFields, CommandFields, ReorderTwo DEF PlaceFirst
  <2>2. pc'[s] = "write2" /\ cmd' = cmd /\ other' = other
    BY <1>0, <1>8 DEF PlaceFirst, Step, SessionsOK
  <2>3. rows'[cmd[s].with] = rows[cmd[s].with]
    BY <1>0, <1>8, <2>1 DEF PlaceFirst, WriteBack, TableTypeOK
  <2> QED
    BY <2>1, <2>2, <2>3 DEF Holds
<1>9. CASE Reread(s)
  <2>1. /\ pc'[s] = "rewrite" /\ cmd' = cmd /\ rows' = rows
        /\ seen'[s] = rows[cmd[s].on]
    BY <1>0, <1>9 DEF Reread, Target, Step, SessionsOK, table
  <2> QED
    BY <2>1 DEF Holds, Same
<1> QED
  BY <1>1, <1>2, <1>3, <1>4, <1>5, <1>6, <1>7, <1>8, <1>9 DEF Job

LEMMA HoldsStep ==
    ASSUME OneWriter
    PROVE  IInv /\ MidRuns /\ (\A s \in Session : Holds(s)) /\ [Next]_vars
             => (\A s \in Session : Holds(s))'
<1> SUFFICES ASSUME IInv, MidRuns, \A s \in Session : Holds(s), [Next]_vars,
                    NEW t \in Session
             PROVE  Holds(t)'
  OBVIOUS
<1>0. SessionsOK
  BY DEF IInv
<1>1. ASSUME pc'[t] \notin MidSteps PROVE Holds(t)'
  BY <1>1 DEF Holds, MidSteps
<1>2. ASSUME NEW s \in Session, NEW c \in Ask(Issues), Submit(s, c) PROVE Holds(t)'
  <2>1. FirstStep(c.op) \notin MidSteps
    <3>1. c.op \in CliCommands \cup TuiCommands
      BY <1>2 DEF Submit
    <3> QED
      BY <3>1 DEF FirstStep, CliCommands, TuiCommands, MidSteps
  <2>2. CASE t = s
    <3>1. pc'[t] \notin MidSteps
      BY <1>0, <1>2, <2>1, <2>2 DEF Submit, SessionsOK
    <3> QED
      BY <1>1, <3>1
  <2>3. CASE t # s
    <3>1. pc'[t] = pc[t] /\ cmd'[t] = cmd[t] /\ UNCHANGED <<rows, seen, other>>
      BY <1>0, <1>2, <2>3 DEF Submit, SessionsOK, table
    <3> QED
      BY <3>1 DEF Holds
  <2> QED
    BY <2>2, <2>3
<1>3. ASSUME NEW s \in Session, Resume(s) PROVE Holds(t)'
  <2>1. UNCHANGED <<rows, cmd, seen, other>> /\ (pc'[t] = pc[t] \/ pc'[t] \in {"read", "edit"})
    BY <1>0, <1>3 DEF Resume, SessionsOK, table
  <2> QED
    BY <1>1, <2>1 DEF Holds, MidSteps
<1>4. ASSUME NEW s \in Session, Job(s) \/ FailJob(s) PROVE Holds(t)'
  <2>1. CASE t = s
    BY <1>4, <2>1, JobHolds
  <2>2. CASE t # s
    <3>1. pc[t] \notin MidSteps
      BY <1>4, <2>2, JobShape, OneRuns DEF Alone
    <3> QED
      BY <1>1, <1>4, <2>2, <3>1, OthersStay
  <2> QED
    BY <2>1, <2>2
<1>5. ASSUME NEW p \in Process, Kill(p) PROVE Holds(t)'
  <2>1. CASE Host[t] = p
    <3>1. pc'[t] = "idle"
      BY <1>0, <1>5, <2>1 DEF Kill
    <3> QED
      BY <1>1, <3>1 DEF MidSteps
  <2>2. CASE Host[t] # p
    <3>1. /\ pc'[t] = pc[t] /\ cmd'[t] = cmd[t] /\ seen'[t] = seen[t] /\ other'[t] = other[t]
          /\ rows' = rows
      BY <1>0, <1>5, <2>2 DEF Kill, table
    <3> QED
      BY <3>1 DEF Holds
  <2> QED
    BY <2>1, <2>2
<1>6. CASE UNCHANGED vars
  BY <1>6 DEF vars, table, Holds
<1> QED
  BY <1>2, <1>3, <1>4, <1>5, <1>6 DEF Next

\* Nothing the jobs write back, edit or sweep takes an issue to another column.
LEMMA StatusWritten ==
    ASSUME TableTypeOK, NEW i \in Issues, NEW r, rows' = [rows EXCEPT ![i] = r],
           r.status = rows[i].status
    PROVE  Issues' = Issues /\ \A j \in Issues : rows'[j].status = rows[j].status
BY DEF TableTypeOK, Issues

LEMMA StatusStays ==
    ASSUME IInv, FreshSeen, FreshOther, NEW s \in Session,
           \/ ArchiveIssue(s) \/ PlaceFirst(s) \/ PlaceSecond(s) \/ AmendIssue(s)
           \/ EditIssue(s) \/ SaveIssue(s) \/ SweepDone(s)
    PROVE  Issues' = Issues /\ \A j \in Issues : rows'[j].status = rows[j].status
<1>0. TableTypeOK /\ SessionsOK
  BY DEF IInv
<1>01. seen[s] \in Row /\ other[s] \in Row /\ base[s] \in Row
  BY <1>0 DEF SessionsOK
<1>1. ASSUME NEW i \in Issues, NEW r \in Row, WriteBack(i, r), r.status = rows[i].status
      PROVE  Issues' = Issues /\ \A j \in Issues : rows'[j].status = rows[j].status
  <2> DEFINE q == [r EXCEPT !.completed = rows[i].completed, !.stamp = rows[i].stamp + 1]
  <2>1. rows' = [rows EXCEPT ![i] = q] /\ q.status = rows[i].status
    BY <1>1 DEF WriteBack, Row
  <2> HIDE DEF q
  <2> QED
    BY <1>0, <2>1, StatusWritten
<1>2. CASE ArchiveIssue(s)
  <2> DEFINE r == [seen[s] EXCEPT !.archived = cmd[s].flag]
  <2>1. cmd[s].on \in Issues /\ cmd[s].flag \in BOOLEAN /\ Same(seen[s], rows[cmd[s].on])
    BY <1>2, AtFields, CommandFields DEF ArchiveIssue, FreshSeen
  <2>2. r \in Row /\ r.status = rows[cmd[s].on].status
    BY <1>01, <2>1 DEF Row, Same
  <2>3. WriteBack(cmd[s].on, r)
    BY <1>2 DEF ArchiveIssue
  <2> HIDE DEF r
  <2> QED
    BY <1>1, <2>1, <2>2, <2>3
<1>3. CASE PlaceFirst(s)
  <2> DEFINE r == [seen[s] EXCEPT !.pos = other[s].pos]
  <2>1. cmd[s].on \in Issues /\ Same(seen[s], rows[cmd[s].on])
    BY <1>3, AtFields, CommandFields DEF PlaceFirst, FreshSeen
  <2>2. r \in Row /\ r.status = rows[cmd[s].on].status
    BY <1>01, <2>1 DEF Row, Same
  <2>3. WriteBack(cmd[s].on, r)
    BY <1>3 DEF PlaceFirst
  <2> HIDE DEF r
  <2> QED
    BY <1>1, <2>1, <2>2, <2>3
<1>4. CASE PlaceSecond(s)
  <2> DEFINE r == [other[s] EXCEPT !.pos = seen[s].pos]
  <2>1. cmd[s].with \in Issues /\ Same(other[s], rows[cmd[s].with])
    BY <1>4, AtFields, StepFields, CommandFields DEF PlaceSecond, FreshOther
  <2>2. r \in Row /\ r.status = rows[cmd[s].with].status
    BY <1>01, <2>1 DEF Row, Same
  <2>3. WriteBack(cmd[s].with, r)
    BY <1>4 DEF PlaceSecond
  <2> HIDE DEF r
  <2> QED
    BY <1>1, <2>1, <2>2, <2>3
<1>5. CASE AmendIssue(s) \/ EditIssue(s)
  <2>1. cmd[s].on \in Issues
    BY <1>5, AtFields, StepFields, CommandFields DEF AmendIssue, EditIssue
  <2>2. PICK T : rows' = [rows EXCEPT ![cmd[s].on] = Described(rows[cmd[s].on], T)]
    BY <1>5 DEF AmendIssue, EditIssue
  <2>3. Described(rows[cmd[s].on], T).status = rows[cmd[s].on].status
    BY <1>0, <2>1 DEF Described, TableTypeOK, Row
  <2> QED
    BY <1>0, <2>1, <2>2, <2>3, StatusWritten
<1>6. CASE SaveIssue(s)
  <2> DEFINE r == [seen[s] EXCEPT !.text = base[s].text \cup {s}]
  <2>1. cmd[s].on \in Issues /\ Same(seen[s], rows[cmd[s].on])
    BY <1>6, AtFields, StepFields, CommandFields DEF SaveIssue, FreshSeen
  <2>2. base[s].text \cup {s} \in SUBSET Session
    BY <1>01 DEF Row
  <2>3. r \in Row /\ r.status = rows[cmd[s].on].status
    BY <1>01, <2>1, <2>2 DEF Row, Same
  <2>4. WriteBack(cmd[s].on, r)
    BY <1>6 DEF SaveIssue
  <2> HIDE DEF r
  <2> QED
    BY <1>1, <2>1, <2>3, <2>4
<1>7. CASE SweepDone(s)
  <2>1. PICK S : rows' = [i \in Issues |->
                            IF i \in S
                            THEN [rows[i] EXCEPT !.archived = TRUE, !.stamp = @ + 1]
                            ELSE rows[i]]
    BY <1>7 DEF SweepDone
  <2> QED
    BY <1>0, <2>1 DEF TableTypeOK, Row, Issues
<1> QED
  BY <1>2, <1>3, <1>4, <1>5, <1>6, <1>7

\* While the job of s runs and is not about to record, nothing is missing.
LEMMA NothingMissing ==
    ASSUME TrailKept, faults = 0, NEW s \in Session, Alone(s), pc[s] # "record"
    PROVE  \A i \in Issues : recorded[i] = rows[i].status
BY DEF TrailKept, Alone, MidSteps

LEMMA JobTrail ==
    ASSUME IInv, FreshSeen, FreshOther, MovedStays, TrailKept, NEW s \in Session, Alone(s),
           Job(s) \/ FailJob(s), faults' = 0
    PROVE  TrailKept'
<1>0. SessionsOK /\ TableTypeOK
  BY DEF IInv
<1>1. faults = 0 /\ ~ FailJob(s)
  <2>1. faults \in Nat
    BY DEF IInv
  <2>2. FailJob(s) => faults' = faults + 1
    BY DEF FailJob
  <2>3. Job(s) => faults' \in {faults, faults + 1}
    BY DEF Job, FailJob, CreateIssue, Read, FindPlace, MoveIssue, RecordMove,
           ArchiveIssue, ReadOther, PlaceFirst, PlaceSecond, AmendIssue, Load, EditIssue, RefuseEdit, Reread,
           SaveIssue, SweepDone, Step
  <2> QED
    BY <2>1, <2>2, <2>3
<1>2. ASSUME pc[s] # "record", Issues' = Issues, recorded' = recorded,
             \A i \in Issues : rows'[i].status = rows[i].status
      PROVE  TrailKept'
  BY <1>1, <1>2, NothingMissing DEF TrailKept
<1>3. CASE \/ Read(s) \/ FindPlace(s) \/ ReadOther(s) \/ Load(s) \/ RefuseEdit(s) \/ Reread(s)
  <2>1. pc[s] # "record"
    BY <1>3 DEF At, Read, FindPlace, ReadOther, Load, RefuseEdit, Reread
  <2>2. rows' = rows /\ recorded' = recorded
    BY <1>3 DEF Read, FindPlace, ReadOther, Load, RefuseEdit, Reread, table
  <2> QED
    BY <1>2, <2>1, <2>2 DEF Issues
<1>4. CASE \/ ArchiveIssue(s) \/ PlaceFirst(s) \/ PlaceSecond(s) \/ AmendIssue(s)
           \/ EditIssue(s) \/ SaveIssue(s) \/ SweepDone(s)
  <2>1. pc[s] # "record"
    BY <1>4 DEF At, ArchiveIssue, PlaceFirst, PlaceSecond, AmendIssue, EditIssue, SaveIssue,
                SweepDone
  <2>2. recorded' = recorded
    BY <1>4 DEF ArchiveIssue, PlaceFirst, PlaceSecond, AmendIssue, EditIssue, SaveIssue,
                SweepDone
  <2> QED
    BY <1>2, <1>4, <2>1, <2>2, StatusStays
<1>5. CASE CreateIssue(s)
  <2>1. pc[s] # "record" /\ cmd[s].op = "create"
    BY <1>5, AtFields, StepFields DEF CreateIssue
  <2>2. PICK m \in Places(cmd[s].to) :
          rows' = [i \in Issues \cup {issueSeq + 1} |->
                      IF i = issueSeq + 1
                      THEN [Blank EXCEPT !.status = cmd[s].to, !.pos = m + 1]
                      ELSE rows[i]]
    BY <1>5 DEF CreateIssue
  <2>3. [Blank EXCEPT !.status = cmd[s].to, !.pos = m + 1].status = cmd[s].to
    BY DEF Blank
  <2>4. issueSeq + 1 \notin Issues /\ Issues' = Issues \cup {issueSeq + 1}
    BY <1>0, <2>2 DEF TableTypeOK, Issues
  <2>5. \A i \in Issues' : recorded'[i] = IF i \in Issues THEN recorded[i] ELSE cmd[s].to
    BY <1>5 DEF CreateIssue, Issues
  <2>6. \A i \in Issues : recorded[i] = rows[i].status
    BY <1>1, <2>1, NothingMissing
  <2> QED
    BY <2>2, <2>3, <2>4, <2>5, <2>6 DEF TrailKept
<1>6. CASE MoveIssue(s)
  <2>1. /\ pc[s] # "record" /\ cmd[s].on \in Issues /\ cmd' = cmd /\ pc'[s] = "record"
        /\ recorded' = recorded
    BY <1>0, <1>6, AtFields, CommandFields DEF MoveIssue, Step, SessionsOK
  <2>2. \A i \in Issues : recorded[i] = rows[i].status
    BY <1>1, <2>1, NothingMissing
  <2>3. Issues' = Issues /\ \A i \in Issues : i # cmd[s].on => rows'[i] = rows[i]
    BY <1>0, <1>6 DEF MoveIssue, TableTypeOK, Issues
  <2> QED
    BY <2>1, <2>2, <2>3 DEF TrailKept
<1>7. CASE RecordMove(s)
  <2>1. /\ pc[s] = "record" /\ rows' = rows /\ rows[cmd[s].on].status = cmd[s].to
        /\ cmd[s].on \in Issues
    BY <1>7, AtFields, StepFields, CommandFields DEF RecordMove, MovedStays
  <2>2. recorded' = [recorded EXCEPT ![cmd[s].on] = cmd[s].to]
    BY <1>1, <1>7 DEF RecordMove, LeadsTo
  <2>3. \A i \in Issues : i # cmd[s].on => recorded[i] = rows[i].status
    BY <1>1 DEF TrailKept, Alone, MidSteps
  <2>4. \A i \in Issues : recorded'[i] = rows'[i].status
    BY <1>0, <2>1, <2>2, <2>3 DEF TableTypeOK
  <2> QED
    BY <2>1, <2>4 DEF TrailKept, Issues
<1> QED
  BY <1>1, <1>3, <1>4, <1>5, <1>6, <1>7 DEF Job

LEMMA TrailStep ==
    ASSUME OneWriter
    PROVE  IInv /\ WInv /\ [Next]_vars => TrailKept'
<1> SUFFICES ASSUME IInv, WInv, [Next]_vars, faults' = 0 PROVE TrailKept'
  BY DEF TrailKept
<1>0. SessionsOK /\ MidRuns /\ FreshSeen /\ FreshOther /\ MovedStays /\ TrailKept
  BY DEF IInv, WInv
<1>1. ASSUME UNCHANGED <<rows, recorded, faults>>,
             \A s \in Session : pc[s] = "record" => pc'[s] = "record" /\ cmd'[s] = cmd[s]
      PROVE  TrailKept'
  BY <1>0, <1>1 DEF TrailKept, Issues
<1>2. ASSUME NEW s \in Session, NEW c \in Ask(Issues), Submit(s, c) PROVE TrailKept'
  <2>1. UNCHANGED <<rows, recorded, faults>>
    BY <1>2 DEF Submit, table
  <2>2. \A t \in Session : pc[t] = "record" => pc'[t] = "record" /\ cmd'[t] = cmd[t]
    BY <1>0, <1>2 DEF Submit, SessionsOK
  <2> QED
    BY <1>1, <2>1, <2>2
<1>3. ASSUME NEW s \in Session, Resume(s) PROVE TrailKept'
  <2>1. UNCHANGED <<rows, recorded, faults, cmd>>
    BY <1>3 DEF Resume, table
  <2>2. \A t \in Session : pc[t] = "record" => pc'[t] = "record"
    BY <1>0, <1>3 DEF Resume, SessionsOK
  <2> QED
    BY <1>1, <2>1, <2>2
<1>4. ASSUME NEW s \in Session, Job(s) \/ FailJob(s) PROVE TrailKept'
  <2>1. Alone(s)
    BY <1>0, <1>4, JobShape, OneRuns
  <2> QED
    BY <1>0, <1>4, <2>1, JobTrail
<1>5. ASSUME NEW p \in Process, Kill(p) PROVE FALSE
  BY <1>5 DEF Kill, IInv
<1>6. CASE UNCHANGED vars
  BY <1>1, <1>6 DEF vars, table
<1> QED
  BY <1>2, <1>3, <1>4, <1>5, <1>6 DEF Next

LEMMA WInit == Init => WInv
<1> SUFFICES ASSUME Init PROVE WInv
  OBVIOUS
<1>1. MidRuns /\ FreshSeen /\ FreshOther /\ MovedStays
  BY DEF Init, MidRuns, FreshSeen, FreshOther, MovedStays, MidSteps
<1>2. TrailKept
  BY DEF Init, TrailKept
<1> QED
  BY <1>1, <1>2 DEF WInv

LEMMA WStep ==
    ASSUME OneWriter
    PROVE  IInv /\ WInv /\ [Next]_vars => WInv'
<1>1. IInv /\ WInv /\ [Next]_vars => MidRuns'
  BY MidStep DEF WInv
<1>2. IInv /\ WInv /\ [Next]_vars => (FreshSeen /\ FreshOther /\ MovedStays)'
  <2>1. (\A s \in Session : Holds(s))' <=> (FreshSeen /\ FreshOther /\ MovedStays)'
    BY DEF Holds, FreshSeen, FreshOther, MovedStays
  <2> QED
    BY <2>1, AllHold, HoldsStep DEF WInv
<1> QED
  BY <1>1, <1>2, TrailStep DEF WInv

\* In one process the full-row writers keep the promise of Board too: between the read and
\* the write of a job its writer runs no other, so nothing is written back that was not
\* there, whatever the sessions submit and wherever a job fails or the process is killed.
THEOREM ServerKeepsTheBoard ==
    ASSUME OneWriter
    PROVE  Spec => AtomicBoard
<1>1. IInv /\ WInv /\ [Next]_vars => [Atomic!Next]_Shown
  BY StepsShown DEF WInv
<1>2. Init => Atomic!Init
  BY InitShown
<1> QED
  BY <1>1, <1>2, InitInv, NextKeeps, WInit, WStep, PTL DEF Spec, AtomicBoard, Atomic!Spec, Shown

\* In one process that is not killed, where no statement fails, the trail of an issue leads
\* to the column it is in whenever the writer's channel is empty.
THEOREM TrailFollows ==
    ASSUME OneWriter
    PROVE  Spec => []TrailFollowsBoard
<1>1. IInv /\ WInv => TrailFollowsBoard
  <2> SUFFICES ASSUME IInv, WInv, faults = 0, \A p \in Process : queue[p] = <<>>,
                      NEW i \in Issues
               PROVE  recorded[i] = rows[i].status
    BY DEF TrailFollowsBoard
  <2>1. ASSUME NEW s \in Session PROVE pc[s] # "record"
    BY BoardConstants DEF WInv, MidRuns, MidSteps, Running
  <2> QED
    BY <2>1 DEF WInv, TrailKept
<1> QED
  BY <1>1, InitInv, NextKeeps, WInit, WStep, PTL DEF Spec
=============================================================================

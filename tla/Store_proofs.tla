---------------------------- MODULE Store_proofs ----------------------------
(***************************************************************************)
(* Proofs about SubIssues and Store, for every set of issues and every     *)
(* number of full-row writers, processes, notes and files.                 *)
(***************************************************************************)
EXTENDS Store, Integers, Sequences, TLAPS

\* What a full-row writer will write back never makes an issue its own parent.
SeenIsAnother == \A w \in Writer : target[w] # Nil => seen[w] # target[w]

IInv == TypeOK /\ NoParentCycle /\ SeenIsAnother

-----------------------------------------------------------------------------
\* Giving x a parent that has none, or none at all, closes no cycle: a set that
\* is closed under the new parents cannot hold x, for x's parent leads out of it,
\* so it was closed under the old ones.
LEMMA NewParentIsSafe ==
    ASSUME NEW x \in Issue, NEW p \in Issue \cup {Nil}, p # x,
           NoParentCycle, TypeOK,
           p # Nil => parent[p] = Nil,
           parent' = [parent EXCEPT ![x] = p]
    PROVE  NoParentCycle'
<1> SUFFICES ASSUME NEW S \in SUBSET Issue, S # {}, \A i \in S : parent'[i] \in S
             PROVE  FALSE
  BY DEF NoParentCycle
<1>1. x \notin S
  <2> SUFFICES ASSUME x \in S PROVE FALSE
    OBVIOUS
  <2>1. parent'[x] = p
    BY DEF TypeOK
  <2>2. p \in S /\ p \in Issue
    BY <2>1
  <2>3. p # Nil
    BY <2>2, NilIsNoIssue
  <2>4. parent'[p] = Nil
    BY <2>2, <2>3 DEF TypeOK
  <2> QED
    BY <2>2, <2>4, NilIsNoIssue
<1>2. \A i \in S : parent[i] \in S
  BY <1>1 DEF TypeOK
<1> QED
  BY <1>2 DEF NoParentCycle

\* An issue is never its own parent.
LEMMA NobodyOwnsItself == NoParentCycle => \A i \in Issue : parent[i] # i
<1> SUFFICES ASSUME NEW i \in Issue, parent[i] = i PROVE ~ NoParentCycle
  OBVIOUS
<1>1. {i} \in SUBSET Issue /\ {i} # {} /\ \A j \in {i} : parent[j] \in {i}
  OBVIOUS
<1> QED
  BY <1>1 DEF NoParentCycle

LEMMA TypeStep == TypeOK /\ [Next]_vars => TypeOK'
<1> SUFFICES ASSUME TypeOK, [Next]_vars PROVE TypeOK'
  OBVIOUS
<1> USE DEF TypeOK
<1>1. ASSUME NEW i \in Issue, NEW p \in Issue \cup {Nil}, Create(i, p) PROVE TypeOK'
  BY <1>1 DEF Create, ValidParent
<1>2. ASSUME NEW i \in Issue, NEW p \in Issue \cup {Nil}, SetParent(i, p) PROVE TypeOK'
  BY <1>2 DEF SetParent, ValidParent
<1>3. ASSUME NEW i \in Issue, NEW p \in Issue, Promote(i, p) PROVE TypeOK'
  BY <1>3 DEF Promote
<1>4. ASSUME NEW w \in Writer, WriteRow(w) PROVE TypeOK'
  BY <1>4, NilIsNoIssue DEF WriteRow, ValidParent
<1>5. ASSUME NEW w \in Writer, NEW i \in Issue, ReadRow(w, i) PROVE TypeOK'
  BY <1>5 DEF ReadRow
<1>6. CASE UNCHANGED vars
  BY <1>6 DEF vars
<1> QED
  BY <1>1, <1>2, <1>3, <1>4, <1>5, <1>6 DEF Next

\* Parents are issues that exist.
THEOREM ParentsExist == Spec => []TypeOK
<1>1. Init => TypeOK
  BY DEF Init, TypeOK
<1> QED
  BY <1>1, TypeStep, PTL DEF Spec

\* No sequence of adds, promotions, edits and stale write-backs makes an issue
\* its own ancestor.
THEOREM ParentsAreAcyclic == Spec => []NoParentCycle
<1>1. Init => IInv
  <2> SUFFICES ASSUME Init PROVE NoParentCycle
    BY DEF Init, IInv, TypeOK, SeenIsAnother
  <2> QED
    BY NilIsNoIssue DEF Init, NoParentCycle
<1>2. IInv /\ [Next]_vars => IInv'
  <2> SUFFICES ASSUME IInv, [Next]_vars PROVE NoParentCycle' /\ SeenIsAnother'
    BY TypeStep DEF IInv
  <2> USE DEF IInv
  <2>1. ASSUME NEW i \in Issue, NEW p \in Issue \cup {Nil}, Create(i, p)
        PROVE  NoParentCycle' /\ SeenIsAnother'
    <3>1. p # i /\ (p # Nil => parent[p] = Nil)
      BY <2>1, NilIsNoIssue DEF Create, ValidParent
    <3> QED
      BY <2>1, <3>1, NewParentIsSafe DEF Create, SeenIsAnother
  <2>2. ASSUME NEW i \in Issue, NEW p \in Issue \cup {Nil}, SetParent(i, p)
        PROVE  NoParentCycle' /\ SeenIsAnother'
    BY <2>2, NewParentIsSafe DEF SetParent, ValidParent, SeenIsAnother
  <2>3. ASSUME NEW i \in Issue, NEW p \in Issue, Promote(i, p)
        PROVE  NoParentCycle' /\ SeenIsAnother'
    <3>1. PICK q \in {p, Nil} : /\ q # Nil => parent[q] = Nil
                               /\ parent' = [parent EXCEPT ![i] = q]
      BY <2>3 DEF Promote
    <3>2. q \in Issue \cup {Nil} /\ q # i
      BY <2>3, <3>1, NilIsNoIssue DEF Promote
    <3>3. NoParentCycle'
      BY <3>1, <3>2, NewParentIsSafe
    <3>4. SeenIsAnother'
      BY <2>3 DEF Promote, SeenIsAnother
    <3> QED
      BY <3>3, <3>4
  <2>4. ASSUME NEW w \in Writer, WriteRow(w)
        PROVE  NoParentCycle' /\ SeenIsAnother'
    <3>1. SeenIsAnother'
      BY <2>4 DEF WriteRow, SeenIsAnother, TypeOK
    <3>2. target[w] \in Issue /\ seen[w] \in Issue \cup {Nil} /\ seen[w] # target[w]
      BY <2>4 DEF WriteRow, TypeOK, SeenIsAnother
    <3>3. CASE ValidParent(seen[w])
      <4>1. parent' = [parent EXCEPT ![target[w]] = seen[w]]
        BY <2>4, <3>3 DEF WriteRow
      <4>2. seen[w] # Nil => parent[seen[w]] = Nil
        BY <3>3 DEF ValidParent
      <4>3. NoParentCycle'
        BY <3>2, <4>1, <4>2, NewParentIsSafe
      <4> QED
        BY <3>1, <4>3
    <3>4. CASE ~ ValidParent(seen[w])
      <4>1. parent' = parent
        BY <2>4, <3>4 DEF WriteRow
      <4>2. NoParentCycle'
        BY <4>1 DEF NoParentCycle
      <4> QED
        BY <3>1, <4>2
    <3> QED
      BY <3>3, <3>4
  <2>5. ASSUME NEW w \in Writer, NEW i \in Issue, ReadRow(w, i)
        PROVE  NoParentCycle' /\ SeenIsAnother'
    BY <2>5, NobodyOwnsItself DEF ReadRow, NoParentCycle, SeenIsAnother, TypeOK
  <2>6. CASE UNCHANGED vars
    BY <2>6 DEF vars, NoParentCycle, SeenIsAnother
  <2> QED
    BY <2>1, <2>2, <2>3, <2>4, <2>5, <2>6 DEF Next
<1>3. IInv => NoParentCycle
  BY DEF IInv
<1> QED
  BY <1>1, <1>2, <1>3, PTL DEF Spec

-----------------------------------------------------------------------------
(***************************************************************************)
(* The file under the commands                                             *)
(***************************************************************************)
\* While files are opened the parents stay as they are.
THEOREM StoreRunsCommands == StoreSpec => Spec
<1>1. StoreInit => Init
  BY DEF StoreInit
<1>2. [StoreNext]_<<vars, opening>> => [Next]_vars
  BY DEF StoreNext
<1> QED
  BY <1>1, <1>2, PTL DEF StoreSpec, Spec

\* Commands, on a file that is opened by others or was left by an older build, make no
\* cycle of parents.
THEOREM StoreParentsAreAcyclic == StoreSpec => []NoParentCycle
BY StoreRunsCommands, ParentsAreAcyclic, PTL

Superseded(p) == "superseded" \in saw[p]
Settled == "newer" \in ledger \/ "notes" \notin tables

\* What the fields hold, and the ledger tells of the tables, as File says at the start.
FileSound ==
    /\ notes \in Seq(Note) /\ folded \in Seq(Note) /\ commits \in Nat
    /\ held \in [Process -> Seq(Note)] /\ snap \in [Process -> Nat]
    /\ saw \in [Process -> SUBSET {"legacy", "superseded", "current", "newer", "unknown"}]
    /\ pc \in [Process -> {"closed", "failed", "ask", "create", "versions", "select",
                            "commit", "open"}]
    /\ ledger \subseteq {"legacy", "superseded", "current", "newer", "unknown"}
    /\ ledger # {} => Opening!Core \subseteq tables
    /\ "notes" \in tables \/ notes = <<>>
    /\ "notes" \in tables =>
         "newer" \in ledger \/ ("superseded" \in ledger /\ "current" \notin ledger)

\* A process about to commit has seen the ledger that is still there; its snapshot is
\* behind, or it holds the notes of the file; without the entry there are none.
Committing ==
    \A p \in Process :
        /\ pc[p] \in {"select", "commit"} =>
             /\ ledger # {}
             /\ "superseded" \in ledger => Superseded(p)
             /\ pc[p] = "select" => Superseded(p)
        /\ snap[p] <= commits /\ (pc[p] # "commit" => held[p] = <<>>)
        /\ pc[p] = "commit" =>
             /\ ~ Superseded(p) => held[p] = <<>> /\ Settled
             /\ Superseded(p) /\ snap[p] = commits => held[p] = notes /\ "notes" \in tables

SInv == FileSound /\ Committing /\ FoldedOnce /\ OpenedIsCurrent

-----------------------------------------------------------------------------
LEMMA FileStart == StoreInit => SInv
<1> SUFFICES ASSUME StoreInit PROVE SInv
  OBVIOUS
<1>1. PICK f \in File : /\ ledger = f.ledger /\ tables = f.tables
                        /\ notes = f.notes /\ memory = f.memory
  BY DEF StoreInit, Opening!Init
<1>2. Opening!Sound(f) /\ Late \subseteq Note
  BY StoreAssumption DEF Opening!MigrationConstants
<1>3. /\ notes \in Seq(Note) /\ Opening!Distinct(notes)
      /\ ledger \subseteq {"legacy", "superseded", "current", "newer", "unknown"}
      /\ ledger # {} => Opening!Core \subseteq tables
      /\ "notes" \in tables \/ notes = <<>>
      /\ "notes" \in tables =>
           "newer" \in ledger \/ ("superseded" \in ledger /\ "current" \notin ledger)
  BY <1>1, <1>2 DEF Opening!Sound, Opening!Version
<1>4. /\ folded = <<>> /\ commits = 0 /\ found = memory
      /\ written = Opening!Rows(notes)
      /\ pc = [p \in Process |-> "closed"]
      /\ saw = [p \in Process |-> {}] /\ held = [p \in Process |-> <<>>]
      /\ snap = [p \in Process |-> 0]
  BY DEF StoreInit, Opening!Init
<1>5. FileSound
  BY <1>3, <1>4 DEF FileSound
<1>6. Committing
  BY <1>4 DEF Committing
<1>7. FoldedOnce
  <2>1. folded \o notes = notes
    BY <1>3, <1>4
  <2>2. Opening!Folded(found, folded) = found
    BY <1>4 DEF Opening!Folded
  <2> QED
    BY <1>3, <1>4, <2>1, <2>2 DEF FoldedOnce, Opening!FoldedOnce
<1>8. OpenedIsCurrent
  BY <1>4 DEF OpenedIsCurrent, Opening!OpenedIsCurrent
<1> QED
  BY <1>5, <1>6, <1>7, <1>8 DEF SInv

\* What a process does that leaves the file alone keeps the invariant, if the process is
\* where it should be with what it holds.
LEMMA LookingOn ==
    ASSUME SInv, NEW p \in Process, UNCHANGED <<found, written, folded>>,
           UNCHANGED <<ledger, tables, notes, memory, commits>>,
           NEW place \in {"closed", "failed", "ask", "create", "versions", "select",
                          "commit", "open"},
           pc' = [pc EXCEPT ![p] = place],
           NEW h \in Seq(Note), held' = [held EXCEPT ![p] = h],
           NEW n \in Nat, n <= commits, snap' = [snap EXCEPT ![p] = n],
           NEW v \in SUBSET {"legacy", "superseded", "current", "newer", "unknown"},
           saw' = [saw EXCEPT ![p] = v],
           place \in {"select", "commit"} =>
              /\ ledger # {} /\ ("superseded" \in ledger => "superseded" \in v)
              /\ place = "select" => "superseded" \in v,
           place # "commit" => h = <<>>,
           place = "commit" =>
              /\ "superseded" \notin v => h = <<>> /\ Settled
              /\ "superseded" \in v /\ n = commits => h = notes /\ "notes" \in tables,
           place = "open" => Opening!Core \subseteq tables /\ Settled
    PROVE  SInv'
<1> USE DEF SInv
<1>1. FileSound'
  BY DEF FileSound
<1>2. FoldedOnce'
  BY DEF FoldedOnce, Opening!FoldedOnce
<1>3. /\ pc'[p] = place /\ held'[p] = h /\ snap'[p] = n /\ saw'[p] = v
      /\ \A q \in Process \ {p} : /\ pc'[q] = pc[q] /\ held'[q] = held[q]
                                  /\ snap'[q] = snap[q] /\ saw'[q] = saw[q]
  BY DEF FileSound
<1>4. Committing'
  BY <1>3 DEF Committing, Superseded, Settled
<1>5. OpenedIsCurrent'
  BY <1>3 DEF OpenedIsCurrent, Opening!OpenedIsCurrent, Settled
<1> QED
  BY <1>1, <1>2, <1>4, <1>5

LEMMA LeavingKeeps ==
    ASSUME SInv, NEW p \in Process, UNCHANGED <<found, written, folded>>,
           UNCHANGED <<ledger, tables, notes, memory, commits>>,
           NEW place \in {"closed", "failed"}, Opening!Leave(p, place)
    PROVE  SInv'
<1>1. /\ pc' = [pc EXCEPT ![p] = place] /\ saw' = [saw EXCEPT ![p] = {}]
      /\ held' = [held EXCEPT ![p] = <<>>] /\ snap' = [snap EXCEPT ![p] = 0]
  BY DEF Opening!Leave, Opening!To
<1>2. <<>> \in Seq(Note) /\ 0 \in Nat /\ 0 <= commits
      /\ {} \in SUBSET {"legacy", "superseded", "current", "newer", "unknown"}
  BY DEF SInv, FileSound
<1>3. place \notin {"open", "select", "commit"}
  OBVIOUS
<1> QED
  BY <1>1, <1>2, <1>3, LookingOn

\* The steps before the transaction.
LEMMA AskingKeeps ==
    ASSUME SInv, NEW p \in Process, UNCHANGED <<found, written>>,
           Opening!Open(p) \/ Opening!AskLedger(p)
    PROVE  SInv'
<1>1. /\ UNCHANGED <<ledger, tables, notes, memory, commits, folded>>
      /\ UNCHANGED <<held, snap, saw>> /\ pc[p] # "commit"
  BY DEF Opening!Open, Opening!AskLedger, Opening!file
<1>2. PICK place \in {"ask", "versions", "create"} : pc' = [pc EXCEPT ![p] = place]
  BY DEF Opening!Open, Opening!AskLedger, Opening!To
<1>3. /\ held[p] = <<>> /\ held' = [held EXCEPT ![p] = <<>>]
      /\ snap[p] \in Nat /\ snap' = [snap EXCEPT ![p] = snap[p]]
      /\ snap[p] <= commits /\ saw' = [saw EXCEPT ![p] = saw[p]]
      /\ saw[p] \in SUBSET {"legacy", "superseded", "current", "newer", "unknown"}
      /\ <<>> \in Seq(Note)
  BY <1>1 DEF SInv, FileSound, Committing
<1>4. /\ UNCHANGED <<ledger, tables, notes, memory, commits>> /\ UNCHANGED folded
  BY <1>1
<1> QED
  BY <1>1, <1>2, <1>3, <1>4, LookingOn

LEMMA ReadingKeeps ==
    ASSUME SInv, NEW p \in Process, UNCHANGED <<found, written>>, Opening!ReadVersions(p)
    PROVE  SInv'
<1>1. UNCHANGED <<ledger, tables, notes, memory, commits, folded>> /\ pc[p] = "versions"
  BY DEF Opening!ReadVersions, Opening!file, Opening!Fails
<1>2. /\ held[p] = <<>> /\ <<>> \in Seq(Note) /\ snap[p] \in Nat /\ snap[p] <= commits
      /\ saw[p] \in SUBSET {"legacy", "superseded", "current", "newer", "unknown"}
      /\ ledger \in SUBSET {"legacy", "superseded", "current", "newer", "unknown"}
      /\ held = [held EXCEPT ![p] = held[p]] /\ snap = [snap EXCEPT ![p] = snap[p]]
      /\ saw = [saw EXCEPT ![p] = saw[p]]
  BY <1>1 DEF SInv, FileSound, Committing
<1>3. CASE Opening!Usable(ledger) /\ Opening!To(p, "open") /\ UNCHANGED <<held, snap, saw>>
  <2>1. "newer" \in ledger \/ "current" \in ledger
    BY <1>3 DEF Opening!Usable
  <2>2. Opening!Core \subseteq tables /\ Settled
    BY <2>1 DEF SInv, FileSound, Settled
  <2>3. pc' = [pc EXCEPT ![p] = "open"]
    BY <1>3 DEF Opening!To
  <2>4. /\ held' = [held EXCEPT ![p] = <<>>] /\ snap' = [snap EXCEPT ![p] = snap[p]]
        /\ saw' = [saw EXCEPT ![p] = saw[p]]
    BY <1>2, <1>3
  <2>5. /\ <<>> \in Seq(Note) /\ snap[p] \in Nat /\ snap[p] <= commits
        /\ saw[p] \in SUBSET {"legacy", "superseded", "current", "newer", "unknown"}
    BY <1>2
  <2> QED
    BY <1>1, <2>2, <2>3, <2>4, <2>5, LookingOn
<1>4. CASE /\ Opening!Migratable(ledger) /\ saw' = [saw EXCEPT ![p] = ledger]
           /\ Opening!To(p, IF "superseded" \in ledger THEN "select" ELSE "commit")
           /\ UNCHANGED <<held, snap>>
  <2>1. ledger # {} /\ "newer" \notin ledger
    BY <1>4 DEF Opening!Migratable, Opening!Usable
  <2>2. CASE "superseded" \in ledger
    <3>1. pc' = [pc EXCEPT ![p] = "select"]
      BY <1>4, <2>2 DEF Opening!To
    <3> QED
      BY <1>1, <1>2, <1>4, <2>1, <2>2, <3>1, LookingOn
  <2>3. CASE "superseded" \notin ledger
    <3>1. pc' = [pc EXCEPT ![p] = "commit"]
      BY <1>4, <2>3 DEF Opening!To
    <3>2. Settled
      BY <2>1, <2>3 DEF SInv, FileSound, Settled
    <3> QED
      BY <1>1, <1>2, <1>4, <2>1, <2>3, <3>1, <3>2, LookingOn
  <2> QED
    BY <2>2, <2>3
<1>5. CASE Opening!Fails(p)
  BY <1>1, <1>5, LeavingKeeps DEF Opening!Fails
<1> QED
  BY <1>3, <1>4, <1>5 DEF Opening!ReadVersions

LEMMA SelectKeeps ==
    ASSUME SInv, NEW p \in Process, UNCHANGED <<found, written>>, Opening!SelectNotes(p)
    PROVE  SInv'
<1>1. UNCHANGED <<ledger, tables, notes, memory, commits, folded>> /\ pc[p] = "select"
  BY DEF Opening!SelectNotes, Opening!file, Opening!Fails
<1>2. CASE /\ "notes" \in tables /\ held' = [held EXCEPT ![p] = notes]
           /\ snap' = [snap EXCEPT ![p] = commits] /\ Opening!To(p, "commit")
           /\ UNCHANGED saw
  <2>1. /\ saw[p] \in SUBSET {"legacy", "superseded", "current", "newer", "unknown"}
        /\ saw' = [saw EXCEPT ![p] = saw[p]]
        /\ notes \in Seq(Note) /\ commits \in Nat /\ commits <= commits
        /\ ledger # {} /\ "superseded" \in saw[p]
    BY <1>1, <1>2 DEF SInv, FileSound, Committing, Superseded
  <2>2. pc' = [pc EXCEPT ![p] = "commit"]
    BY <1>2 DEF Opening!To
  <2> QED
    BY <1>1, <1>2, <2>1, <2>2, LookingOn
<1>3. CASE Opening!Fails(p)
  BY <1>1, <1>3, LeavingKeeps DEF Opening!Fails
<1> QED
  BY <1>2, <1>3 DEF Opening!SelectNotes

-----------------------------------------------------------------------------
\* A commit leaves every other process with a snapshot that is behind, and gives no
\* entry and no table that would make it think otherwise.
LEMMA OthersFallBehind ==
    ASSUME SInv, NEW P \in SUBSET Process, commits' = commits + 1,
           ledger \subseteq ledger' , ledger' \subseteq ledger \cup {"current"},
           Settled => Settled',
           \A q \in P : /\ pc'[q] = pc[q] /\ held'[q] = held[q]
                        /\ snap'[q] = snap[q] /\ saw'[q] = saw[q],
           \A q \in Process \ P : /\ pc'[q] \in {"open", "failed", "closed"}
                                 /\ held'[q] = <<>> /\ snap'[q] = 0
    PROVE  Committing'
<1> SUFFICES ASSUME NEW q \in Process
             PROVE  /\ pc'[q] \in {"select", "commit"} =>
                         /\ ledger' # {}
                         /\ "superseded" \in ledger' => "superseded" \in saw'[q]
                         /\ pc'[q] = "select" => "superseded" \in saw'[q]
                    /\ snap'[q] <= commits' /\ (pc'[q] # "commit" => held'[q] = <<>>)
                    /\ pc'[q] = "commit" =>
                         /\ "superseded" \notin saw'[q] => held'[q] = <<>> /\ Settled'
                         /\ snap'[q] # commits'
  BY DEF Committing, Superseded
<1>1. CASE q \notin P
  <2>1. 0 <= commits'
    BY DEF SInv, FileSound
  <2>2. pc'[q] \in {"open", "failed", "closed"} /\ held'[q] = <<>> /\ snap'[q] = 0
    BY <1>1
  <2> QED
    BY <2>1, <2>2
<1>2. CASE q \in P
  <2>1. snap[q] \in Nat /\ commits \in Nat
    BY DEF SInv, FileSound
  <2>2. snap[q] <= commits' /\ snap[q] # commits'
    BY <2>1 DEF SInv, Committing
  <2> QED
    BY <1>2, <2>2 DEF SInv, Committing, Superseded
<1> QED
  BY <1>1, <1>2

LEMMA CreateKeeps ==
    ASSUME SInv, NEW p \in Process, UNCHANGED <<found, written>>, Opening!CreateSchema(p)
    PROVE  SInv'
<1> USE DEF SInv
<1>1. CASE Opening!Fails(p)
  BY <1>1, LeavingKeeps DEF Opening!Fails, Opening!file
<1>2. CASE ~ Opening!Fails(p)
  <2>1. /\ "projects" \notin tables
        /\ tables' = tables \union Opening!Core \union Opening!Additive
        /\ ledger' = ledger \union {"current"} /\ commits' = commits + 1
        /\ Opening!Leave(p, "open")
        /\ UNCHANGED <<notes, memory, folded>>
    BY <1>2 DEF Opening!CreateSchema
  <2>2. ledger = {} /\ "notes" \notin tables
    BY <2>1 DEF FileSound, Opening!Core
  <2>3. "notes" \notin tables' /\ Opening!Core \subseteq tables'
    BY <2>1, <2>2 DEF Opening!Core, Opening!Additive
  <2>4. /\ pc' = [pc EXCEPT ![p] = "open"] /\ saw' = [saw EXCEPT ![p] = {}]
        /\ held' = [held EXCEPT ![p] = <<>>] /\ snap' = [snap EXCEPT ![p] = 0]
    BY <2>1 DEF Opening!Leave, Opening!To
  <2>5. FileSound'
    BY <2>1, <2>2, <2>3, <2>4 DEF FileSound
  <2>6. FoldedOnce'
    BY <2>1, <2>3 DEF FoldedOnce, Opening!FoldedOnce
  <2>7. OpenedIsCurrent'
    BY <2>3 DEF OpenedIsCurrent, Opening!OpenedIsCurrent
  <2>8. /\ pc'[p] = "open" /\ held'[p] = <<>> /\ snap'[p] = 0
        /\ \A q \in Process \ {p} : /\ pc'[q] = pc[q] /\ held'[q] = held[q]
                                    /\ snap'[q] = snap[q] /\ saw'[q] = saw[q]
    BY <2>4 DEF FileSound
  <2>9. Committing'
    BY <2>1, <2>3, <2>8, OthersFallBehind DEF Settled
  <2> QED
    BY <2>5, <2>6, <2>7, <2>9
<1> QED
  BY <1>1, <1>2

\* What is folded in is what the rows still are, or nothing.
LEMMA CommitKeeps ==
    ASSUME SInv, NEW p \in Process, UNCHANGED <<found, written>>, Opening!CommitMigration(p)
    PROVE  SInv'
<1> USE DEF SInv
<1>1. CASE Opening!Fails(p)
  BY <1>1, LeavingKeeps DEF Opening!Fails, Opening!file
<1>2. CASE ~ Opening!Fails(p)
  <2>1. /\ pc[p] = "commit" /\ (Superseded(p) => snap[p] = commits)
        /\ memory' = Opening!Folded(memory, held[p]) /\ folded' = folded \o held[p]
        /\ tables' = (tables \ (IF Superseded(p) THEN {"notes"} ELSE {}))
                         \union Opening!Additive
        /\ notes' = IF Superseded(p) THEN <<>> ELSE notes
        /\ ledger' = ledger \union {"current"} /\ commits' = commits + 1
        /\ Opening!Leave(p, "open")
    BY <1>2 DEF Opening!CommitMigration, Superseded
  <2>2. /\ ledger # {} /\ notes \in Seq(Note) /\ folded \in Seq(Note)
        /\ Superseded(p) => held[p] = notes /\ "notes" \in tables /\ folded = <<>>
        /\ ~ Superseded(p) => held[p] = <<>> /\ Settled
    BY <2>1 DEF Committing, FileSound, FoldedOnce, Opening!FoldedOnce
  <2>3. /\ Settled' /\ Opening!Core \subseteq tables'
        /\ "notes" \in tables' => "notes" \in tables /\ ~ Superseded(p)
    BY <2>1, <2>2 DEF Settled, FileSound, Opening!Core, Opening!Additive
  <2>4. /\ pc' = [pc EXCEPT ![p] = "open"] /\ saw' = [saw EXCEPT ![p] = {}]
        /\ held' = [held EXCEPT ![p] = <<>>] /\ snap' = [snap EXCEPT ![p] = 0]
    BY <2>1 DEF Opening!Leave, Opening!To
  <2>5. FileSound'
    <3>1. notes' \in Seq(Note) /\ folded' \in Seq(Note) /\ ("notes" \in tables' \/ notes' = <<>>)
      BY <2>1, <2>2, <2>3 DEF FileSound
    <3> QED
      BY <2>1, <2>2, <2>3, <2>4, <3>1 DEF FileSound, Settled
  <2>6. FoldedOnce'
    <3>1. CASE Superseded(p)
      <4>1. /\ folded' = notes /\ notes' = <<>> /\ folded \o notes = notes
            /\ memory = Opening!Folded(found, <<>>)
        BY <2>1, <2>2, <3>1 DEF FoldedOnce, Opening!FoldedOnce
      <4>2. memory' = Opening!Folded(found, notes)
        BY <2>1, <2>2, <3>1, <4>1 DEF Opening!Folded
      <4>3. folded' \o notes' = folded \o notes
        BY <2>2, <4>1
      <4>4. "notes" \notin tables'
        BY <2>3, <3>1
      <4> QED
        BY <4>1, <4>2, <4>3, <4>4 DEF FoldedOnce, Opening!FoldedOnce, Opening!Distinct,
                                      Opening!Rows
    <3>2. CASE ~ Superseded(p)
      <4>1. folded' = folded /\ notes' = notes /\ memory' = memory
        BY <2>1, <2>2, <3>2 DEF Opening!Folded
      <4> QED
        BY <2>3, <4>1 DEF FoldedOnce, Opening!FoldedOnce
    <3> QED
      BY <3>1, <3>2
  <2>7. OpenedIsCurrent'
    BY <2>3 DEF OpenedIsCurrent, Opening!OpenedIsCurrent, Settled
  <2>8. /\ pc'[p] = "open" /\ held'[p] = <<>> /\ snap'[p] = 0
        /\ \A q \in Process \ {p} : /\ pc'[q] = pc[q] /\ held'[q] = held[q]
                                    /\ snap'[q] = snap[q] /\ saw'[q] = saw[q]
    BY <2>4 DEF FileSound
  <2>9. Committing'
    BY <2>1, <2>3, <2>8, OthersFallBehind
  <2> QED
    BY <2>5, <2>6, <2>7, <2>9
<1> QED
  BY <1>1, <1>2

LEMMA OldBuildKeeps ==
    ASSUME SInv, NEW n \in Late, Opening!OldBuildAdds(n)
    PROVE  SInv'
<1> USE DEF SInv
<1>1. /\ "notes" \in tables /\ n \notin written /\ n \in Note
      /\ written' = written \union {n}
      /\ notes' = Append(notes, n) /\ commits' = commits + 1
      /\ UNCHANGED <<ledger, tables, memory, found, folded, pc, saw, held, snap>>
  BY StoreAssumption DEF Opening!OldBuildAdds, Opening!opening, Opening!MigrationConstants
<1>2. folded = <<>> /\ notes \in Seq(Note) /\ notes' \in Seq(Note)
  BY <1>1 DEF FoldedOnce, Opening!FoldedOnce, FileSound
<1>3. FileSound'
  BY <1>1, <1>2 DEF FileSound
<1>4. FoldedOnce'
  <2>1. folded' \o notes' = notes' /\ folded \o notes = notes
    BY <1>1, <1>2
  <2>2. Opening!Distinct(notes) /\ Opening!Rows(notes) = written
    BY <2>1 DEF FoldedOnce, Opening!FoldedOnce
  <2>3. /\ DOMAIN notes' = DOMAIN notes \cup {Len(notes) + 1} /\ Len(notes) + 1 \notin DOMAIN notes
        /\ notes'[Len(notes) + 1] = n /\ \A i \in DOMAIN notes : notes'[i] = notes[i]
    BY <1>1, <1>2
  <2>4. Opening!Distinct(notes')
    BY <1>1, <2>2, <2>3 DEF Opening!Distinct, Opening!Rows
  <2>5. Opening!Rows(notes') = written'
    BY <1>1, <2>2, <2>3 DEF Opening!Rows
  <2> QED
    BY <1>1, <1>2, <2>1, <2>4, <2>5 DEF FoldedOnce, Opening!FoldedOnce
<1>5. OpenedIsCurrent'
  BY <1>1 DEF OpenedIsCurrent, Opening!OpenedIsCurrent
<1>6. Committing'
  BY <1>1, OthersFallBehind DEF Settled, FileSound
<1> QED
  BY <1>3, <1>4, <1>5, <1>6

-----------------------------------------------------------------------------
LEMMA StoreStep == SInv /\ [StoreNext]_<<vars, opening>> => SInv'
<1> SUFFICES ASSUME SInv, [StoreNext]_<<vars, opening>> PROVE SInv'
  OBVIOUS
<1>1. CASE UNCHANGED opening
  BY <1>1 DEF SInv, FileSound, Committing, Superseded, Settled, FoldedOnce, Opening!FoldedOnce,
              OpenedIsCurrent, Opening!OpenedIsCurrent, opening
<1>2. ASSUME NEW p \in Process, Opening!Run(p), UNCHANGED <<found, written>>
      PROVE  SInv'
  <2>1. Opening!Close(p) => SInv'
    BY <1>2, LeavingKeeps DEF Opening!Close, Opening!file
  <2> QED
    BY <1>2, <2>1, AskingKeeps, ReadingKeeps, SelectKeeps, CreateKeeps, CommitKeeps
    DEF Opening!Run
<1>3. CASE Opening!Next
  BY <1>2, <1>3, OldBuildKeeps DEF Opening!Next
<1> QED
  BY <1>1, <1>3 DEF StoreNext, opening

\* However many processes open one file at once, die on the way or meet the older build:
\* its notes are folded in once, all together, or are rows still.
THEOREM NotesAreFoldedOnce == StoreSpec => []FoldedOnce
<1>1. SInv => FoldedOnce
  BY DEF SInv
<1> QED
  BY <1>1, FileStart, StoreStep, PTL DEF StoreSpec

\* Whoever has come through `migrations::run` has the tables of this build and no notes.
THEOREM OpenedStoresAreCurrent == StoreSpec => []OpenedIsCurrent
<1>1. SInv => OpenedIsCurrent
  BY DEF SInv
<1> QED
  BY <1>1, FileStart, StoreStep, PTL DEF StoreSpec
=============================================================================

----------------------------- MODULE Migrations -----------------------------
(***************************************************************************)
(* `migrations::run`: what every process does with the database file when  *)
(* it opens the store. The ledger says who wrote the file; a fresh one     *)
(* gets the schema, and one with the superseded `notes` table has its      *)
(* notes folded into `## Notes` of the project's description. Processes    *)
(* open one file at once and die anywhere; a process of the build that     *)
(* had notes may still be adding some.                                     *)
(*                                                                         *)
(* A transaction is one step, and takes its snapshot with its first        *)
(* SELECT: it fails when another commit came in between, and what it finds *)
(* missing or there already makes it fail. One project stands for all of   *)
(* them. Text is a sequence of lines without the blank ones: headings,     *)
(* fences of a character and a length (bare ones close too), other text.   *)
(* A definition under "Slip" is a wrong version of the one after it.       *)
(***************************************************************************)
EXTENDS Naturals, Sequences, FiniteSets, SequencesExt

CONSTANTS
    Process,
    Note,       \* rows the table `notes` has, or gets
    Body,       \* the lines of each note
    Late,       \* those the older build adds while others open the file
    File        \* what the first process may find

VARIABLES
    ledger, tables,
    notes,      \* the rows of `notes`, by id
    memory,     \* the description of the project
    commits,    \* how often the file has changed
    pc,         \* process -> its place in `run`
    saw,        \* process -> the versions it read
    held,       \* process -> the notes it selected
    snap,       \* process -> commits when it did
    found,      \* history: the description that was there first
    folded,     \* history: the rows that were folded into it
    written     \* history: every note there was

opening == <<pc, saw, held, snap>>
file == <<ledger, tables, notes, memory, commits>>
history == <<found, folded, written>>
migrationVars == <<file, opening, history>>

\* What SCHEMA_DDL creates; the other three tables appear IF NOT EXISTS.
Core == {"schema_migrations", "projects", "milestones", "labels", "issues",
         "issues_labels", "activity_log_entries", "issue_relation"}
Additive == {"remote_links", "issue_claims"}
Version == {"legacy", "superseded", "current", "newer", "unknown"}

Rows(ns) == {ns[i] : i \in DOMAIN ns}
Distinct(ns) == \A i, j \in DOMAIN ns : ns[i] = ns[j] => i = j

\* What a file is before any of this: its ledger was written with its tables, the build
\* that made `notes` left its entry, and a later entry says that the table is gone.
Sound(f) ==
    /\ f.ledger \subseteq Version /\ (f.ledger # {} => Core \subseteq f.tables)
    /\ f.notes \in Seq(Note \ Late) /\ Distinct(f.notes)
    /\ "notes" \in f.tables \/ f.notes = <<>>
    /\ "notes" \in f.tables =>
         "newer" \in f.ledger \/ ("superseded" \in f.ledger /\ "current" \notin f.ledger)

MigrationConstants ==
    /\ Late \subseteq Note /\ DOMAIN Body = Note
    /\ \A f \in File : Sound(f)

-----------------------------------------------------------------------------
(***************************************************************************)
(* The text                                                                *)
(***************************************************************************)
Head2(x) == [k |-> "head", level |-> 2, name |-> x]
Title(n) == [k |-> "head", level |-> 3, name |-> n]
NotesHeading == Head2("Notes")

\* fence_marker, is_closing_fence: same character, at least as long, nothing after it.
Closes(line, fence) ==
    line.k = "fence" /\ line.mark = fence.mark /\ line.len >= fence.len /\ line.bare

\* The fence that is open after each line.
NoFence == [k |-> "none"]
OpenAfter(d) ==
    LET after[i \in 0..Len(d)] ==
            IF i = 0 THEN NoFence
            ELSE IF after[i - 1] # NoFence
                 THEN IF Closes(d[i], after[i - 1]) THEN NoFence ELSE after[i - 1]
                 ELSE IF d[i].k = "fence" THEN d[i] ELSE NoFence
    IN  after
Real(d) ==
    LET after == OpenAfter(d)
    IN  {i \in DOMAIN d : d[i].k = "head" /\ after[i - 1] = NoFence}
Sections(d) == {i \in Real(d) : d[i].level = 2}

\* Slip: headings stay as they are.
Undemoted(body) == body

\* demote_body_headings: no heading of a note reaches the title above it.
Demoted(body) ==
    LET real == Real(body)
    IN  [i \in DOMAIN body |->
            IF i \in real /\ body[i].level <= 3 THEN [body[i] EXCEPT !.level = 4] ELSE body[i]]

Blocks(ns) == FlattenSeq([i \in DOMAIN ns |-> <<Title(ns[i])>> \o Demoted(Body[ns[i]])])

\* append_project_notes: at the end of the first `## Notes`, or of the description.
Earliest(S, none) == IF S = {} THEN none ELSE CHOOSE i \in S : \A j \in S : i <= j
AppendNotes(d, blocks) ==
    LET heads == Sections(d)
        start == Earliest({i \in heads : d[i] = NotesHeading}, 0)
        end == Earliest({i \in heads : i > start}, Len(d) + 1)
    IN  IF start # 0
        THEN SubSeq(d, 1, end - 1) \o blocks \o SubSeq(d, end, Len(d))
        ELSE d \o <<NotesHeading>> \o blocks

\* fold_notes_into_project_markdown: a project without notes is not written.
Folded(d, ns) == IF ns = <<>> THEN d ELSE AppendNotes(d, Blocks(ns))

-----------------------------------------------------------------------------
(***************************************************************************)
(* The steps of `run`                                                      *)
(***************************************************************************)
Init ==
    /\ \E f \in File : /\ ledger = f.ledger /\ tables = f.tables
                       /\ notes = f.notes /\ memory = f.memory
    /\ commits = 0 /\ found = memory /\ folded = <<>> /\ written = Rows(notes)
    /\ pc = [p \in Process |-> "closed"]
    /\ saw = [p \in Process |-> {}]
    /\ held = [p \in Process |-> <<>>]
    /\ snap = [p \in Process |-> 0]

To(p, place) == pc' = [pc EXCEPT ![p] = place]

\* Out of `run`, and of what it has read.
Leave(p, place) ==
    /\ To(p, place)
    /\ saw' = [saw EXCEPT ![p] = {}] /\ held' = [held EXCEPT ![p] = <<>>]
    /\ snap' = [snap EXCEPT ![p] = 0]
Fails(p) == Leave(p, "failed") /\ UNCHANGED <<file, folded>>

Open(p) ==
    /\ pc[p] \in {"closed", "failed"}
    /\ To(p, "ask")
    /\ UNCHANGED <<file, saw, held, snap, folded>>

\* has_ledger, in a statement of its own.
AskLedger(p) ==
    /\ pc[p] = "ask"
    /\ To(p, IF "schema_migrations" \in tables THEN "versions" ELSE "create")
    /\ UNCHANGED <<file, saw, held, snap, folded>>

\* Only the first table is created IF NOT EXISTS.
CreateSchema(p) ==
    /\ pc[p] = "create"
    /\ \/ /\ "projects" \notin tables
          /\ tables' = tables \union Core \union Additive
          /\ ledger' = ledger \union {"current"} /\ commits' = commits + 1
          /\ Leave(p, "open")
          /\ UNCHANGED <<notes, memory, folded>>
       \/ "projects" \in tables /\ Fails(p)

Usable(versions) == "newer" \in versions \/ (versions \subseteq Version \ {"unknown"}
                                               /\ "current" \in versions)
Migratable(versions) == ~ Usable(versions) /\ versions # {} /\ "unknown" \notin versions

\* schema_versions, and what they say: a newer build's file is used as it is, an entry
\* nobody knows is refused.
ReadVersions(p) ==
    /\ pc[p] = "versions"
    /\ \/ Usable(ledger) /\ To(p, "open") /\ UNCHANGED <<file, saw, held, snap, folded>>
       \/ /\ Migratable(ledger)
          /\ saw' = [saw EXCEPT ![p] = ledger]
          /\ To(p, IF "superseded" \in ledger THEN "select" ELSE "commit")
          /\ UNCHANGED <<file, held, snap, folded>>
       \/ ~ Usable(ledger) /\ ~ Migratable(ledger) /\ Fails(p)

\* The transaction begins with the SELECT of the notes ...
SelectNotes(p) ==
    /\ pc[p] = "select"
    /\ \/ /\ "notes" \in tables
          /\ held' = [held EXCEPT ![p] = notes] /\ snap' = [snap EXCEPT ![p] = commits]
          /\ To(p, "commit")
          /\ UNCHANGED <<file, saw, folded>>
       \/ "notes" \notin tables /\ Fails(p)

\* ... and ends, if it had anything to write over a snapshot that is still the file.
CommitMigration(p) ==
    /\ pc[p] = "commit"
    /\ \/ /\ "superseded" \in saw[p] => snap[p] = commits
          /\ memory' = Folded(memory, held[p]) /\ folded' = folded \o held[p]
          /\ tables' = (tables \ (IF "superseded" \in saw[p] THEN {"notes"} ELSE {}))
                           \union Additive
          /\ notes' = IF "superseded" \in saw[p] THEN <<>> ELSE notes
          /\ ledger' = ledger \union {"current"} /\ commits' = commits + 1
          /\ Leave(p, "open")
       \/ "superseded" \in saw[p] /\ snap[p] # commits /\ Fails(p)

\* The process ends, or is killed: a transaction under way leaves nothing.
Close(p) ==
    /\ pc[p] # "closed"
    /\ Leave(p, "closed")
    /\ UNCHANGED <<file, folded>>

\* The build that had notes is still running somewhere.
OldBuildAdds(n) ==
    /\ "notes" \in tables /\ n \notin written
    /\ written' = written \union {n}
    /\ notes' = Append(notes, n) /\ commits' = commits + 1
    /\ UNCHANGED <<ledger, tables, memory, opening, found, folded>>

Run(p) == Open(p) \/ AskLedger(p) \/ CreateSchema(p) \/ ReadVersions(p) \/ SelectNotes(p)
          \/ CommitMigration(p) \/ Close(p)
Next ==
    \/ \E p \in Process : Run(p) /\ UNCHANGED <<found, written>>
    \/ \E n \in Late : OldBuildAdds(n)
Spec == Init /\ [][Next]_migrationVars

(***************************************************************************)
(* Properties                                                              *)
(***************************************************************************)
TitlesIn(d, n) == {i \in Real(d) : d[i] = Title(n)}
UnderNotes(d, i) ==
    \E h \in Sections(d) : /\ h < i /\ d[h] = NotesHeading
                           /\ \A s \in Sections(d) : ~ (h < s /\ s < i)

\* The preamble and the sections of a description, `## Notes` left out.
Elsewhere(d) ==
    LET heads == Sections(d)
        Part(i) == SubSeq(d, i, Earliest({j \in heads : j > i}, Len(d) + 1) - 1)
        others == SetToSortSeq({i \in heads : d[i] # NotesHeading}, <)
    IN  <<SubSeq(d, 1, Earliest(heads, Len(d) + 1) - 1)>>
            \o [i \in DOMAIN others |-> Part(others[i])]

\* The description is what was there with some rows folded in at once, in their order;
\* these and the rows left are all the notes there ever were, none of them twice. A
\* process that died in between, or a note added meanwhile, changes nothing of this.
FoldedOnce ==
    /\ memory = Folded(found, folded) /\ (folded # <<>> => "notes" \notin tables)
    /\ Distinct(folded \o notes) /\ Rows(folded \o notes) = written

\* Whoever opened the file has the tables of this build and no notes of the old one,
\* unless a newer build owns it.
OpenedIsCurrent ==
    \A p \in Process : pc[p] = "open" =>
        Core \subseteq tables /\ ("newer" \in ledger \/ "notes" \notin tables)

\* A note is a row, or reads as a note under `## Notes`, and that once: none is folded
\* twice, lost, or swallowed by a fence. Every other section reads as before.
OldNotesAreKept ==
    /\ FoldedOnce /\ OpenedIsCurrent
    /\ \A n \in written :
        /\ Cardinality({i \in DOMAIN notes : notes[i] = n})
             + Cardinality(TitlesIn(memory, n)) = 1
        /\ \A i \in TitlesIn(memory, n) : UnderNotes(memory, i)
    /\ memory = found \/ Elsewhere(memory) = Elsewhere(found)

\* Of two processes that open a file at once, both can.
NobodyFails ==
    \A p \in Process : pc[p] = "failed" => "unknown" \in ledger
=============================================================================

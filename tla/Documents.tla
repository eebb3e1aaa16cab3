------------------------------ MODULE Documents ------------------------------
(***************************************************************************)
(* The description of an issue: markdown whose H2 sections have owners.    *)
(* What every command does to it, from any description a person can have   *)
(* written: edit --section, append-section, log, tick, promote, the        *)
(* refresh from Linear, cp and lint.                                       *)
(*                                                                         *)
(* A description is a sequence of lines without the blank ones. `k` is     *)
(* what the line is at column zero: a heading "h2" or "h3", a step that is *)
(* "open" or "done", a log "entry" with the lines it owns, a "fence" that  *)
(* opens or closes a code block, or "text". `v` is the anchor, the task    *)
(* number (0: an H3 that is no task), whether the step ends in the key of  *)
(* the issue it was promoted to (1), or which entry it is. Inside a code   *)
(* block a line is only text. MaxLines bounds the description a command    *)
(* works on, MaxTask and MaxStep what it may address.                      *)
(***************************************************************************)
EXTENDS Naturals, Sequences, FiniteSets, FiniteSetsExt, SequencesExt

CONSTANTS Anchor,     \* the sections
          Entry,      \* log messages
          Payload,    \* what callers pass as the body of a section
          Remote,     \* what an issue on Linear may say
          MaxLines, MaxTask, MaxStep

VARIABLES
    desc,
    wrote       \* history: the section the last command was asked to write

descVars == <<desc, wrote>>

H2(a) == [k |-> "h2", v |-> a]
H3(n) == [k |-> "h3", v |-> n]
Logged(e) == [k |-> "entry", v |-> e]
Line ==
    [k : {"h2"}, v : Anchor] \union [k : {"h3"}, v : 0..MaxTask]
    \union [k : {"open", "done"}, v : {0, 1}] \union [k : {"entry"}, v : Entry]
    \union [k : {"fence", "text"}, v : {0}]
Docs == UNION {[1..n -> Line] : n \in 0..MaxLines}

DocumentConstants ==
    /\ {"Spec", "Plan", "Activity Log"} \subseteq Anchor
    /\ MaxLines \in Nat /\ MaxTask \in Nat \ {0} /\ MaxStep \in Nat
    /\ \A p \in Payload \cup Remote : p \in Seq(Line)

ASSUME DocumentAssumption == DocumentConstants

-----------------------------------------------------------------------------
(***************************************************************************)
(* Reading: what the markdown parser says is a heading, a section, a step  *)
(***************************************************************************)
\* A fence that is not closed runs to the end.
Fenced(d, i) == Cardinality({j \in 1..(i - 1) : d[j].k = "fence"}) % 2 = 1

\* Lines that are what they look like.
Real(d, kinds) == {i \in DOMAIN d : d[i].k \in kinds /\ ~Fenced(d, i)}
Step == {"open", "done"}

First(S, none) == IF S = {} THEN none ELSE Min(S)
Heading(d, a) == First({i \in Real(d, {"h2"}) : d[i].v = a}, 0)
EndOf(d, h) == First({i \in Real(d, {"h2"}) : i > h}, Len(d) + 1)
Has(d, a) == Heading(d, a) # 0

\* Every section tool resolves the first section of that name.
Lines(d, a) == IF Has(d, a) THEN (Heading(d, a) + 1)..(EndOf(d, Heading(d, a)) - 1) ELSE {}
Body(d, a) == SubSeq(d, Heading(d, a) + 1, EndOf(d, Heading(d, a)) - 1)

\* A task runs to the next H3 of any kind; the first of that number counts.
InPlan(d, kinds) == Real(d, kinds) \intersect Lines(d, "Plan")
TaskHeadings(d) == {i \in InPlan(d, {"h3"}) : d[i].v # 0}
TaskAt(d, n) == First({i \in TaskHeadings(d) : d[i].v = n}, 0)
StepsOf(d, n) ==
    LET end == First({i \in InPlan(d, {"h3"}) : i > TaskAt(d, n)}, Len(d) + 1)
    IN  {i \in InPlan(d, Step) : TaskAt(d, n) # 0 /\ TaskAt(d, n) < i /\ i < end}

\* The line of step m of task n, 0 when there is none.
FindStep(d, n, m) ==
    First({i \in StepsOf(d, n) : Cardinality({j \in StepsOf(d, n) : j <= i}) = m}, 0)

\* --task may be omitted when the plan has one task; it is taken to be number 1.
NoTask == 0
Resolved(d, n) ==
    IF n # NoTask THEN n ELSE IF Cardinality(TaskHeadings(d)) = 1 THEN 1 ELSE NoTask

\* Entries are list items of the log: not what a fence above them swallowed.
EntriesAt(d) == Real(d, {"entry"}) \intersect Lines(d, "Activity Log")
Entries(d) == [i \in 1..Cardinality(EntriesAt(d)) |->
    d[CHOOSE p \in EntriesAt(d) : Cardinality({q \in EntriesAt(d) : q <= p}) = i]]

-----------------------------------------------------------------------------
(***************************************************************************)
(* Writing                                                                 *)
(***************************************************************************)
ReplaceSection(d, a, body) ==
    IF Has(d, a)
    THEN SubSeq(d, 1, Heading(d, a)) \o body \o SubSeq(d, EndOf(d, Heading(d, a)), Len(d))
    ELSE d \o <<H2(a)>> \o body

AppendTo(d, a, text) == ReplaceSection(d, a, (IF Has(d, a) THEN Body(d, a) ELSE <<>>) \o text)

\* A payload may restate its own heading first; any other H2 in it is refused.
Restates(p, a) == p # <<>> /\ p[1] = H2(a)
Admissible(p, a) == Real(p, {"h2"}) \subseteq (IF Restates(p, a) THEN {1} ELSE {})
Sanitized(p, a) == IF Restates(p, a) THEN Tail(p) ELSE p

\* Slip: the description as a whole is not looked at.
StructureUnchecked(before, after, a, create) == TRUE

\* Slip: only the headings are counted, not what is under them.
StructureCounted(before, after, a, create) ==
    \A x \in Anchor :
        Cardinality({i \in Real(after, {"h2"}) : after[i].v = x})
          = IF x = a /\ create /\ ~Has(before, a) THEN 1
            ELSE Cardinality({i \in Real(before, {"h2"}) : before[i].v = x})

\* check_section_structure: no heading appears or disappears but a created one, and
\* every other section resolves to what it did.
StructureKept(before, after, a, create) ==
    /\ \A x \in Anchor :
        Cardinality({i \in Real(after, {"h2"}) : after[i].v = x})
          = IF x = a /\ create /\ ~Has(before, a) THEN 1
            ELSE Cardinality({i \in Real(before, {"h2"}) : before[i].v = x})
    /\ \A x \in Anchor \ {a} : Has(before, x) => Has(after, x) /\ Body(before, x) = Body(after, x)

\* A plan of steps without any task gets one above its first step, whenever a
\* description is written through issues::create or issues::update.
Canonical(d) ==
    IF TaskHeadings(d) = {} /\ InPlan(d, Step) # {}
    THEN SubSeq(d, 1, Min(InPlan(d, Step)) - 1) \o <<H3(1)>>
           \o SubSeq(d, Min(InPlan(d, Step)), Len(d))
    ELSE d

Wrote(a, d) == desc' = d /\ wrote' = a
Small == Len(desc) <= MaxLines

\* issue edit --section; the log is not to be written this way.
EditSection(a, p, create) ==
    /\ Small /\ a # "Activity Log"
    /\ Has(desc, a) \/ create
    /\ Admissible(p, a)
    /\ LET new == ReplaceSection(desc, a, Sanitized(p, a))
       IN  StructureKept(desc, new, a, create) /\ Wrote(a, Canonical(new))

AppendSection(a, p, create) ==
    /\ Small /\ a # "Activity Log" /\ p # <<>>
    /\ Has(desc, a) \/ create
    /\ Admissible(p, a)
    /\ LET new == AppendTo(desc, a, Sanitized(p, a))
       IN  StructureKept(desc, new, a, create) /\ Wrote(a, Canonical(new))

\* issue log and milestone log: the entry must also be one that readers see. The UPDATE is
\* of its own, and does not make a plan canonical.
Log(e) ==
    /\ Small
    /\ LET new == AppendTo(desc, "Activity Log", <<Logged(e)>>)
       IN  /\ StructureKept(desc, new, "Activity Log", TRUE)
           /\ Cardinality(EntriesAt(new)) > Cardinality(EntriesAt(desc))
           /\ Wrote("Activity Log", new)

\* Nothing is written for a step that is done.
Tick(n, m) ==
    /\ Small
    /\ LET at == FindStep(desc, Resolved(desc, n), m) IN
       /\ at # 0 /\ desc[at].k = "open"
       /\ Wrote("Plan", [desc EXCEPT ![at].k = "done"])

\* The step, ticked or not, now ends in the new issue's key.
Promote(n, m) ==
    /\ Small
    /\ LET at == FindStep(desc, Resolved(desc, n), m) IN
       /\ at # 0
       /\ Wrote("Plan", [desc EXCEPT ![at].v = 1])

\* Linear's text goes into the Spec as it is.
Refresh(r) == Small /\ Wrote("Spec", Canonical(ReplaceSection(desc, "Spec", r)))

-----------------------------------------------------------------------------
(***************************************************************************)
(* issue cp                                                                *)
(***************************************************************************)
\* Slip: a step keeps the key of the issue it was promoted to.
ResetUnticked(body) ==
    [i \in DOMAIN body |-> IF body[i].k \in Step THEN [body[i] EXCEPT !.k = "open"] ELSE body[i]]

\* Every line that looks like a step, in a code block too.
Reset(body) ==
    [i \in DOMAIN body |-> IF body[i].k \in Step THEN [k |-> "open", v |-> 0] ELSE body[i]]

\* The sections of the contract, in the order they have; what happened is left out.
Copied == Anchor \ {"Activity Log", "Files"}
CopyDescription(d) ==
    LET kept == SetToSortSeq({a \in Copied : Has(d, a)},
                             LAMBDA a, b : Heading(d, a) < Heading(d, b))
        Section(a) == <<H2(a)>> \o (IF a = "Plan" THEN Reset(Body(d, a)) ELSE Body(d, a))
    IN  FlattenSeq([i \in DOMAIN kept |-> Section(kept[i])])

(***************************************************************************)
(* issue lint                                                              *)
(***************************************************************************)
Numbers(d) ==
    [i \in 1..Cardinality(TaskHeadings(d)) |->
        d[CHOOSE p \in TaskHeadings(d) :
            Cardinality({q \in TaskHeadings(d) : q <= p}) = i].v]

\* Slip: steps are looked for under any heading.
LintPlanAnyHeading(d) ==
    /\ InPlan(d, {"h3"}) = TaskHeadings(d)
    /\ Numbers(d) = [i \in DOMAIN Numbers(d) |-> i]
    /\ \A n \in 1..MaxTask : TaskAt(d, n) # 0 => StepsOf(d, n) # {}

\* Every H3 is a task, no step is above the first one, they count from 1, none is empty.
LintPlan(d) ==
    /\ InPlan(d, {"h3"}) = TaskHeadings(d)
    /\ \A s \in InPlan(d, Step) : \E h \in TaskHeadings(d) : h < s
    /\ Numbers(d) = [i \in DOMAIN Numbers(d) |-> i]
    /\ \A n \in 1..MaxTask : TaskAt(d, n) # 0 => StepsOf(d, n) # {}

\* No section twice, no entry outside the log, and a clean plan.
LintClean(d) ==
    /\ \A i, j \in Real(d, {"h2"}) : d[i].v = d[j].v => i = j
    /\ Real(d, {"entry"}) \subseteq Lines(d, "Activity Log")
    /\ Has(d, "Plan") => LintPlan(d)

(***************************************************************************)
(* The progress a push to Linear reports                                   *)
(***************************************************************************)
\* plan_progress goes line by line: by what a line looks like, and a heading that is no
\* task does not end one. A step is counted to the last task heading before it.
LooksLike(d, kinds) == {i \in Lines(d, "Plan") : d[i].k \in kinds}
TaskLines(d) == {i \in LooksLike(d, {"h3"}) : d[i].v # 0}
Counted(d) == {s \in LooksLike(d, Step) : \E h \in TaskLines(d) : h < s}

-----------------------------------------------------------------------------
\* Whatever a person wrote, or `edit --description` stored.
DescInit == desc \in {Canonical(d) : d \in Docs} /\ wrote = "Plan"

Tasks == NoTask..MaxTask
DescNext ==
    \/ \E a \in Anchor, p \in Payload, create \in BOOLEAN :
            EditSection(a, p, create) \/ AppendSection(a, p, create)
    \/ \E e \in Entry : Log(e)
    \/ \E n \in Tasks, m \in 1..MaxStep : Tick(n, m) \/ Promote(n, m)

DescSpec == DescInit /\ [][DescNext]_descVars

\* With the refreshes of `linear import` and `linear sync`, which check nothing.
BridgedSpec == DescInit /\ [][DescNext \/ \E r \in Remote : Refresh(r)]_descVars

(***************************************************************************)
(* Properties                                                              *)
(***************************************************************************)
\* Every tool that edits one section leaves the others as they were, whatever open or
\* closed fences, repeated headings and flat plans the description has.
OthersUntouched ==
    [][\A a \in Anchor \ {wrote'} :
          Has(desc, a) => Has(desc', a) /\ Body(desc', a) = Body(desc, a)]_descVars

\* What was logged stays readable, in its order, under every command but a rewrite of
\* the whole description.
EntriesStay == [][IsPrefix(Entries(desc), Entries(desc'))]_descVars

\* A description lint has nothing to say about is one whose steps can all be ticked and
\* whose entries are all read; and without code blocks, the progress that is pushed is
\* about just these steps.
LintMeansTickable ==
    LintClean(desc) =>
        /\ \A s \in InPlan(desc, Step) :
              \E n \in 1..MaxTask, m \in 1..Len(desc) : FindStep(desc, n, m) = s
        /\ Real(desc, {"entry"}) = EntriesAt(desc)
        /\ (\A i \in DOMAIN desc : desc[i].k # "fence") => Counted(desc) = InPlan(desc, Step)

\* The copy of an issue has the sections of its shape and the steps of its plan, none of
\* them done or promoted.
CopyIsFresh ==
    LET c == CopyDescription(desc) IN
    /\ \A a \in Copied : Has(c, a) = Has(desc, a)
    /\ \A a \in Copied \ {"Plan"} : Has(c, a) => Body(c, a) = Body(desc, a)
    /\ \A s \in InPlan(c, Step) : c[s] = [k |-> "open", v |-> 0]
    /\ \A n \in 1..MaxTask : Cardinality(StepsOf(c, n)) = Cardinality(StepsOf(desc, n))
    /\ EntriesAt(c) = {}
=============================================================================

------------------------------- MODULE Waves -------------------------------
(***************************************************************************)
(* `milestone waves`: the dependency layers of one milestone.              *)
(* contexts/milestones.rs reads the milestone's issues, then (in a second  *)
(* SELECT, with no transaction around the two) its open `blocks` edges,    *)
(* peels Kahn layers off the open issues, drains the tail that waits for   *)
(* something outside the milestone, and calls what is left a cycle.        *)
(* Other processes write the board between the two SELECTs; MaxWrites      *)
(* bounds how often they do. A definition under "Slip" is a wrong version  *)
(* of the one after it, which some property must tell from the right one.  *)
(***************************************************************************)
EXTENDS Naturals, Sequences

CONSTANTS
    Issue,      \* every issue on the board
    MaxWrites   \* bound: board writes of other processes between the SELECTs

ASSUME WavesConstants == MaxWrites \in Nat

VARIABLES
    \* the board
    member,     \* issues whose milestone_id is this milestone
    archived,   \* issues with archived = 1
    done,       \* issues with status 'done'
    blocks,     \* <<from, to>>: a `blocks` row of issue_relation
    writes,     \* board writes so far
    \* the locals of `waves`
    phase,      \* where the function stands
    nodes,      \* keys of the `nodes` map
    doneNodes,  \* nodes read with status done
    intra,      \* <<blocker, blocked>> pairs with both ends in `nodes`
    external,   \* nodes with an open blocker outside `nodes`
    remaining, scheduled,
    waves,      \* waves_out
    extBlocked, \* external_blocked
    cyclic      \* the issues the cycle error names

board == <<member, archived, done, blocks, writes>>
locals == <<phase, nodes, doneNodes, intra, external, remaining, scheduled,
            waves, extBlocked, cyclic>>
vars == <<board, locals>>

Phase == {"start", "edges", "layer", "drain", "ok", "cycle"}

\* relations::add refuses a relation of an issue with itself.
Edge == {e \in Issue \X Issue : e[1] # e[2]}

Init ==
    /\ member \in SUBSET Issue
    /\ archived \in SUBSET Issue
    /\ done \in SUBSET Issue
    /\ blocks \in SUBSET Edge
    /\ writes = 0
    /\ phase = "start"
    /\ nodes = {} /\ doneNodes = {}
    /\ intra = {} /\ external = {}
    /\ remaining = {} /\ scheduled = {}
    /\ waves = <<>>
    /\ extBlocked = {} /\ cyclic = {}

(***************************************************************************)
(* What other processes may commit between the two SELECTs. Before the     *)
(* first SELECT every board is an initial one, after the second nothing is *)
(* read any more, so those are the only writes that matter.                *)
(***************************************************************************)
Flip(S, i) == IF i \in S THEN S \ {i} ELSE S \cup {i}

BoardWrite ==
    /\ phase = "edges" /\ writes < MaxWrites
    /\ writes' = writes + 1
    /\ UNCHANGED locals

MoveIssue(i) ==
    /\ BoardWrite
    /\ done' = Flip(done, i)
    /\ UNCHANGED <<member, archived, blocks>>

ArchiveIssue(i) ==
    /\ BoardWrite
    /\ archived' = Flip(archived, i)
    /\ UNCHANGED <<member, done, blocks>>

TagIssue(i) ==
    /\ BoardWrite
    /\ member' = Flip(member, i)
    /\ UNCHANGED <<archived, done, blocks>>

RelateIssues(e) ==
    /\ BoardWrite
    /\ blocks' = Flip(blocks, e)
    /\ UNCHANGED <<member, archived, done>>

(***************************************************************************)
(* The function itself.                                                    *)
(***************************************************************************)
ReadNodes ==
    /\ phase = "start"
    /\ nodes' = member \ archived
    /\ doneNodes' = (member \ archived) \cap done
    /\ phase' = "edges"
    /\ UNCHANGED <<board, intra, external, remaining, scheduled, waves,
                   extBlocked, cyclic>>

\* Slip: the edges of tickets the first SELECT did not read are kept.
OpenEdgesUnread ==
    {e \in blocks : e[2] \in member \ archived /\ e[1] \notin archived \cup done}

\* The rows of the edge query whose blocked end was read as an open node.
OpenEdges ==
    {e \in blocks : /\ e[2] \in member \ archived
                    /\ e[1] \notin archived \cup done
                    /\ e[2] \in nodes \ doneNodes}

ReadEdges ==
    /\ phase = "edges"
    /\ intra' = {e \in OpenEdges : e[1] \in nodes}
    /\ external' = {i \in nodes : \E e \in OpenEdges : e[2] = i /\ e[1] \notin nodes}
    /\ remaining' = nodes \ doneNodes
    /\ phase' = "layer"
    /\ UNCHANGED <<board, nodes, doneNodes, scheduled, waves, extBlocked, cyclic>>

Blockers(i) == {b \in nodes : <<b, i>> \in intra}

\* Slips: one blocker is enough; the outside gates are forgotten; one ticket at a time.
NextWaveAny ==
    {i \in remaining \ external : Blockers(i) = {} \/ Blockers(i) \cap scheduled # {}}

NextWaveUngated == {i \in remaining : Blockers(i) \subseteq scheduled}

NextWaveSingle ==
    LET ready == {i \in remaining \ external : Blockers(i) \subseteq scheduled}
    IN  IF ready = {} THEN {} ELSE {CHOOSE i \in ready : TRUE}

NextWave == {i \in remaining \ external : Blockers(i) \subseteq scheduled}

\* Slip: what was scheduled still remains.
LayerAgain ==
    /\ phase = "layer" /\ NextWave # {}
    /\ scheduled' = scheduled \cup NextWave
    /\ waves' = Append(waves, NextWave)
    /\ UNCHANGED <<board, phase, nodes, doneNodes, intra, external, remaining,
                   extBlocked, cyclic>>

Layer ==
    /\ phase = "layer" /\ NextWave # {}
    /\ remaining' = remaining \ NextWave
    /\ scheduled' = scheduled \cup NextWave
    /\ waves' = Append(waves, NextWave)
    /\ UNCHANGED <<board, phase, nodes, doneNodes, intra, external, extBlocked, cyclic>>

LayersDone ==
    /\ phase = "layer" /\ NextWave = {}
    /\ extBlocked' = external \cap remaining
    /\ phase' = "drain"
    /\ UNCHANGED <<board, nodes, doneNodes, intra, external, remaining, scheduled,
                   waves, cyclic>>

\* Slip: the drain does not skip what it has drained.
GrownForever == {i \in remaining : Blockers(i) \subseteq scheduled \cup extBlocked}

Grown == {i \in remaining \ extBlocked : Blockers(i) \subseteq scheduled \cup extBlocked}

Drain ==
    /\ phase = "drain" /\ Grown # {}
    /\ extBlocked' = extBlocked \cup Grown
    /\ UNCHANGED <<board, phase, nodes, doneNodes, intra, external, remaining,
                   scheduled, waves, cyclic>>

Verdict ==
    /\ phase = "drain" /\ Grown = {}
    /\ cyclic' = remaining \ extBlocked
    /\ phase' = IF cyclic' = {} THEN "ok" ELSE "cycle"
    /\ UNCHANGED <<board, nodes, doneNodes, intra, external, remaining, scheduled,
                   waves, extBlocked>>

Run == ReadNodes \/ ReadEdges \/ Layer \/ LayersDone \/ Drain \/ Verdict

Next ==
    \/ Run
    \/ \E i \in Issue : MoveIssue(i) \/ ArchiveIssue(i) \/ TagIssue(i)
    \/ \E e \in Edge : RelateIssues(e)

Spec == Init /\ [][Next]_vars

\* The function is a loop on one thread: it goes on until it returns.
FairSpec == Spec /\ WF_vars(Run)

(***************************************************************************)
(* Properties                                                              *)
(***************************************************************************)
Open == nodes \ doneNodes

TypeOK ==
    /\ member \subseteq Issue /\ archived \subseteq Issue /\ done \subseteq Issue
    /\ blocks \subseteq Edge
    /\ writes \in 0..MaxWrites
    /\ phase \in Phase
    /\ nodes \subseteq Issue /\ doneNodes \subseteq nodes
    /\ intra \subseteq nodes \X nodes
    /\ external \subseteq nodes /\ remaining \subseteq nodes
    /\ scheduled \subseteq nodes /\ extBlocked \subseteq nodes
    /\ waves \in Seq(SUBSET Issue)
    /\ cyclic \subseteq Issue

\* A ticket is dispatched only after every ticket of the milestone that blocks
\* it was dispatched in an earlier wave (the layering loop of `waves`), whatever
\* other processes write meanwhile.
BlockersComeFirst ==
    \A k \in DOMAIN waves : \A i \in waves[k] : \A b \in Blockers(i) :
        \E j \in 1..(k - 1) : b \in waves[j]

\* No ticket is dispatched twice, none is lost: the open tickets of the milestone
\* are split into those some wave holds and those still remaining.
DispatchedOnce ==
    /\ \A j, k \in DOMAIN waves : j # k => waves[j] \cap waves[k] = {}
    /\ scheduled = UNION {waves[k] : k \in DOMAIN waves}
    /\ scheduled \cap remaining = {}
    /\ phase \notin {"start", "edges"} => scheduled \cup remaining = Open

\* The layering is as parallel as the edges allow: a ticket that is not in the
\* first wave has a blocker in the wave right before its own.
NoNeedlessWait ==
    \A k \in DOMAIN waves : k > 1 =>
        \A i \in waves[k] : Blockers(i) \cap waves[k - 1] # {}

\* The tickets a gate outside the milestone holds back, directly or through
\* tickets of the milestone: the least set with the gated ones that is closed
\* under "is blocked by".
Gated ==
    {i \in nodes : \A S \in SUBSET nodes :
        (external \subseteq S /\ \A e \in intra : e[1] \in S => e[2] \in S) => i \in S}

\* No ticket behind an outside gate is in a wave, and only tickets behind one are
\* reported as externally blocked (the draining loop of `waves`).
GateHolds == scheduled \cap Gated = {} /\ extBlocked \subseteq Gated

\* A set of open tickets in which each waits for another one of the set: what a
\* dependency cycle is in a finite graph.
Deadlocked(S) == S # {} /\ \A i \in S : \E b \in S : b \in Blockers(i)

\* The cycle error is raised only for a milestone whose open tickets do hold a
\* cycle, and every ticket it names waits for another one it names.
CycleErrorIsTrue == phase = "cycle" => (cyclic \subseteq Open /\ Deadlocked(cyclic))

\* "A dependency cycle is an error naming the issues involved": when the open
\* tickets hold a cycle, `waves` does not return normally.
CycleIsReported == phase = "ok" => ~ \E S \in SUBSET Open : Deadlocked(S)

\* `waves` returns.
Returns == <>(phase \in {"ok", "cycle"})
=============================================================================

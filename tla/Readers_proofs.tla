--------------------------- MODULE Readers_proofs ---------------------------
(***************************************************************************)
(* Proofs about the components that work on what they have read while      *)
(* others write it: the waves of a milestone (Waves), for every set of     *)
(* issues, every board and every number of concurrent writes; the          *)
(* documents of the VS Code extension (Editor), for every number of edits, *)
(* agents, refreshes and failures; and the description of an issue         *)
(* (Documents), of whatever lines and length, under every command that     *)
(* edits a part of it.                                                     *)
(***************************************************************************)
EXTENDS Waves, Editor, Documents, Integers, SequenceTheorems, FunctionTheorems,
        FiniteSetTheorems, TLAPS

(***************************************************************************)
(*                       The waves of a milestone                          *)
(***************************************************************************)

(***************************************************************************)
(* The inductive invariant. Fresh says nothing is scheduled before the     *)
(* edges are read, so a later read cannot add a blocker to a ticket that   *)
(* is already in a wave; LastWaveUnlocks is what makes NoNeedlessWait      *)
(* inductive; ScheduledClosed, Drained and ReallyGated carry GateHolds.    *)
(***************************************************************************)
Fresh == phase \in {"start", "edges"} =>
            /\ waves = <<>> /\ scheduled = {} /\ extBlocked = {}
            /\ external = {} /\ intra = {} /\ remaining = {}

LastWaveUnlocks ==
    Len(waves) > 0 =>
        \A i \in NextWave : Blockers(i) \cap waves[Len(waves)] # {}

ScheduledClosed ==
    /\ scheduled \cap external = {}
    /\ \A i \in scheduled : Blockers(i) \subseteq scheduled

Drained == phase \in {"drain", "ok", "cycle"} =>
    /\ NextWave = {}
    /\ external \cap remaining \subseteq extBlocked

NotYet == phase = "layer" => extBlocked = {}

\* The verdict names the remaining issues no gate holds back, and none of them
\* could have been drained.
Judged == phase = "cycle" =>
    cyclic # {} /\ Grown = {} /\ cyclic = remaining \ extBlocked

ReallyGated == extBlocked \subseteq Gated

Inner == /\ BlockersComeFirst /\ DispatchedOnce /\ NoNeedlessWait
         /\ LastWaveUnlocks /\ ScheduledClosed /\ Drained /\ NotYet /\ Judged
         /\ ReallyGated

IInv == TypeOK /\ Fresh /\ Inner

-----------------------------------------------------------------------------
\* A step of another process.
OtherStep == \/ \E i \in Issue : MoveIssue(i) \/ ArchiveIssue(i) \/ TagIssue(i)
             \/ \E e \in Edge : RelateIssues(e)

\* A step of another process leaves every local of `waves` alone.
LEMMA WritesKeepLocals == OtherStep => UNCHANGED locals
BY DEF OtherStep, MoveIssue, ArchiveIssue, TagIssue, RelateIssues, BoardWrite

\* Flipping one element of a subset gives a subset.
LEMMA FlipType ==
    ASSUME NEW T, NEW S \in SUBSET T, NEW x \in T
    PROVE  Flip(S, x) \in SUBSET T
BY DEF Flip

\* TypeOK together with Fresh is inductive: what `waves` computes stays inside
\* the issues it read.
LEMMA TypeStep == TypeOK /\ Fresh /\ [Next]_vars => TypeOK' /\ Fresh'
<1> SUFFICES ASSUME TypeOK, Fresh, [Next]_vars PROVE TypeOK' /\ Fresh'
  OBVIOUS
<1>1. CASE ReadNodes
  BY <1>1 DEF ReadNodes, TypeOK, Fresh, board, Phase
<1>2. CASE ReadEdges
  BY <1>2 DEF ReadEdges, TypeOK, Fresh, board, Phase, OpenEdges, Edge
<1>3. CASE Layer
  <2>1. NextWave \subseteq remaining
    BY DEF NextWave
  <2>2. NextWave \in SUBSET Issue
    BY <2>1 DEF TypeOK
  <2>3. waves' \in Seq(SUBSET Issue)
    BY <1>3, <2>2 DEF Layer, TypeOK
  <2> QED
    BY <1>3, <2>1, <2>3 DEF Layer, TypeOK, Fresh, board
<1>4. CASE LayersDone
  BY <1>4 DEF LayersDone, TypeOK, Fresh, board, Phase
<1>5. CASE Drain
  BY <1>5 DEF Drain, TypeOK, Fresh, board, Grown
<1>6. CASE Verdict
  <2>1. cyclic' \subseteq Issue /\ phase' \in {"ok", "cycle"}
    BY <1>6 DEF Verdict, TypeOK
  <2> QED
    BY <1>6, <2>1 DEF Verdict, TypeOK, Fresh, board, Phase
<1>7. CASE OtherStep
  <2>1. /\ member' \subseteq Issue /\ archived' \subseteq Issue /\ done' \subseteq Issue
        /\ blocks' \subseteq Edge /\ writes' \in 0..MaxWrites
    BY <1>7, FlipType, WavesConstants
    DEF OtherStep, MoveIssue, ArchiveIssue, TagIssue, RelateIssues, BoardWrite, TypeOK
  <2>2. UNCHANGED locals
    BY <1>7, WritesKeepLocals
  <2> QED
    BY <2>1, <2>2 DEF locals, TypeOK, Fresh
<1>8. CASE UNCHANGED vars
  BY <1>8 DEF vars, board, locals, TypeOK, Fresh
<1> QED
  BY <1>1, <1>2, <1>3, <1>4, <1>5, <1>6, <1>7, <1>8 DEF Next, Run, OtherStep

LEMMA InitTypeFresh == Init => TypeOK /\ Fresh
BY WavesConstants DEF Init, TypeOK, Fresh, Phase

\* What `waves` computes stays inside the issues its first SELECT read.
THEOREM TypeCorrect == Spec => []TypeOK
<1> QED
  BY InitTypeFresh, TypeStep, PTL DEF Spec

-----------------------------------------------------------------------------
\* Inner looks only at the locals of `waves`.
LEMMA InnerIsLocal == Inner /\ UNCHANGED locals => Inner'
<1> SUFFICES ASSUME Inner, UNCHANGED locals PROVE Inner'
  OBVIOUS
<1>1. /\ \A i : Blockers(i)' = Blockers(i)
      /\ NextWave' = NextWave /\ Grown' = Grown /\ Open' = Open /\ Gated' = Gated
  BY DEF locals, Blockers, NextWave, Grown, Open, Gated
<1>2. BlockersComeFirst' /\ NoNeedlessWait'
  BY <1>1 DEF Inner, locals, BlockersComeFirst, NoNeedlessWait
<1>3. DispatchedOnce'
  BY <1>1 DEF Inner, locals, DispatchedOnce
<1>4. LastWaveUnlocks' /\ ScheduledClosed'
  BY <1>1 DEF Inner, locals, LastWaveUnlocks, ScheduledClosed
<1>5. Drained' /\ NotYet' /\ Judged' /\ ReallyGated'
  BY <1>1 DEF Inner, locals, Drained, NotYet, Judged, ReallyGated
<1> QED
  BY <1>2, <1>3, <1>4, <1>5 DEF Inner

\* Reading cannot disturb Inner: nothing is scheduled yet.
LEMMA ReadsKeepInner ==
    TypeOK /\ Fresh /\ (ReadNodes \/ ReadEdges) => Inner'
<1> SUFFICES ASSUME TypeOK, Fresh, ReadNodes \/ ReadEdges PROVE Inner'
  OBVIOUS
<1>1. /\ waves' = <<>> /\ scheduled' = {} /\ extBlocked' = {}
      /\ phase' = "edges" \/ (phase' = "layer" /\ remaining' = nodes' \ doneNodes')
  BY DEF ReadNodes, ReadEdges, Fresh
<1>2. BlockersComeFirst' /\ NoNeedlessWait' /\ LastWaveUnlocks'
  BY <1>1 DEF BlockersComeFirst, NoNeedlessWait, LastWaveUnlocks
<1>3. DispatchedOnce'
  BY <1>1 DEF DispatchedOnce, Open
<1>4. ScheduledClosed' /\ Drained' /\ NotYet' /\ Judged' /\ ReallyGated'
  BY <1>1 DEF ScheduledClosed, Drained, NotYet, Judged, ReallyGated
<1> QED
  BY <1>2, <1>3, <1>4 DEF Inner

\* A new layer: its tickets have every blocker in an earlier wave, and one of
\* them in the last wave, for otherwise they had been in that wave.
LEMMA LayerKeepsInner == TypeOK /\ Fresh /\ Inner /\ Layer => Inner'
<1> SUFFICES ASSUME TypeOK, Fresh, Inner, Layer PROVE Inner'
  OBVIOUS
<1> DEFINE K == Len(waves)
<1>1. /\ NextWave \subseteq remaining \ external
      /\ \A i \in NextWave : Blockers(i) \subseteq scheduled
      /\ \A i \in remaining \ external : Blockers(i) \subseteq scheduled => i \in NextWave
  BY DEF NextWave
<1>2. NextWave \in SUBSET Issue
  BY <1>1 DEF TypeOK
<1>3. waves \in Seq(SUBSET Issue) /\ K \in Nat
  BY DEF TypeOK
<1>4. /\ Len(waves') = K + 1
      /\ DOMAIN waves = 1..K /\ DOMAIN waves' = 1..(K + 1)
      /\ \A k \in 1..K : waves'[k] = waves[k]
      /\ waves'[K + 1] = NextWave
  BY <1>2, <1>3 DEF Layer
<1>5. \A i : Blockers(i)' = Blockers(i)
  BY DEF Layer, Blockers
<1>6. BlockersComeFirst'
  <2> SUFFICES ASSUME NEW k \in 1..(K + 1), NEW i \in waves'[k], NEW b \in Blockers(i)
               PROVE  \E j \in 1..(k - 1) : b \in waves'[j]
    BY <1>4, <1>5 DEF BlockersComeFirst
  <2>1. CASE k \in 1..K
    <3>1. PICK j \in 1..(k - 1) : b \in waves[j]
      BY <2>1, <1>4 DEF Inner, BlockersComeFirst
    <3> QED
      BY <3>1, <2>1, <1>3, <1>4
  <2>2. CASE k = K + 1
    <3>1. b \in scheduled
      BY <2>2, <1>1, <1>4
    <3>2. PICK j \in 1..K : b \in waves[j]
      BY <3>1, <1>4 DEF Inner, DispatchedOnce
    <3> QED
      BY <3>2, <2>2, <1>3, <1>4
  <2> QED
    BY <2>1, <2>2, <1>3
<1>7. DispatchedOnce'
  <2>1. \A k \in 1..K : waves[k] \subseteq scheduled
    BY <1>4 DEF Inner, DispatchedOnce
  <2>2. NextWave \cap scheduled = {}
    BY <1>1 DEF Inner, DispatchedOnce
  <2>3. ASSUME NEW j \in 1..(K + 1), NEW k \in 1..(K + 1), j # k
        PROVE  waves'[j] \cap waves'[k] = {}
    <3>1. j \in 1..K \/ j = K + 1
      BY <1>3
    <3>2. k \in 1..K \/ k = K + 1
      BY <1>3
    <3>3. CASE j \in 1..K /\ k \in 1..K
      BY <3>3, <2>3, <1>4 DEF Inner, DispatchedOnce
    <3>4. CASE j = K + 1 /\ k \in 1..K
      BY <3>4, <2>1, <2>2, <1>4
    <3>5. CASE j \in 1..K /\ k = K + 1
      BY <3>5, <2>1, <2>2, <1>4
    <3> QED
      BY <3>1, <3>2, <3>3, <3>4, <3>5, <2>3
  <2>4. scheduled' = UNION {waves'[k] : k \in DOMAIN waves'}
    <3>1. scheduled = UNION {waves[k] : k \in 1..K}
      BY <1>4 DEF Inner, DispatchedOnce
    <3>2. UNION {waves'[k] : k \in 1..(K + 1)} = (UNION {waves[k] : k \in 1..K}) \cup NextWave
      BY <1>3, <1>4
    <3> QED
      BY <3>1, <3>2, <1>4 DEF Layer
  <2>5. scheduled' \cap remaining' = {} /\ scheduled' \cup remaining' = Open'
    BY <1>1 DEF Inner, DispatchedOnce, Layer, Open
  <2> QED
    BY <2>3, <2>4, <2>5, <1>4 DEF DispatchedOnce
<1>8. NoNeedlessWait'
  <2> SUFFICES ASSUME NEW k \in 1..(K + 1), k > 1, NEW i \in waves'[k]
               PROVE  Blockers(i) \cap waves'[k - 1] # {}
    BY <1>4, <1>5 DEF NoNeedlessWait
  <2>1. CASE k \in 1..K
    BY <2>1, <1>3, <1>4 DEF Inner, NoNeedlessWait
  <2>2. CASE k = K + 1
    BY <2>2, <1>3, <1>4 DEF Inner, LastWaveUnlocks
  <2> QED
    BY <2>1, <2>2, <1>3
<1>9. LastWaveUnlocks'
  <2> SUFFICES ASSUME NEW i \in NextWave' PROVE Blockers(i) \cap NextWave # {}
    BY <1>3, <1>4, <1>5 DEF LastWaveUnlocks
  <2>1. i \in remaining \ external /\ i \notin NextWave
        /\ Blockers(i) \subseteq scheduled \cup NextWave
    BY <1>5 DEF NextWave, Layer
  <2> QED
    BY <2>1, <1>1
<1>10. ScheduledClosed'
  BY <1>1, <1>5 DEF Inner, ScheduledClosed, Layer
<1>11. Drained' /\ NotYet' /\ Judged' /\ ReallyGated'
  BY DEF Inner, Drained, NotYet, Judged, ReallyGated, Layer
<1> QED
  BY <1>6, <1>7, <1>8, <1>9, <1>10, <1>11 DEF Inner

\* The layers are finished: what waits outside is gated by definition.
LEMMA LayersDoneKeepsInner == TypeOK /\ Inner /\ LayersDone => Inner'
<1> SUFFICES ASSUME TypeOK, Inner, LayersDone PROVE Inner'
  OBVIOUS
<1>1. /\ \A i : Blockers(i)' = Blockers(i)
      /\ NextWave' = NextWave /\ Open' = Open /\ Gated' = Gated /\ waves' = waves
  BY DEF LayersDone, Blockers, NextWave, Open, Gated
<1>2. ReallyGated'
  <2>1. external \subseteq Gated
    BY DEF Gated, TypeOK
  <2> QED
    BY <2>1, <1>1 DEF LayersDone, ReallyGated
<1>3. BlockersComeFirst' /\ NoNeedlessWait'
  BY <1>1 DEF Inner, BlockersComeFirst, NoNeedlessWait
<1>4. DispatchedOnce' /\ LastWaveUnlocks' /\ ScheduledClosed'
  BY <1>1 DEF Inner, LayersDone, DispatchedOnce, LastWaveUnlocks, ScheduledClosed
<1>5. Drained' /\ NotYet' /\ Judged'
  BY <1>1 DEF LayersDone, Drained, NotYet, Judged
<1> QED
  BY <1>2, <1>3, <1>4, <1>5 DEF Inner

\* A drained ticket has a blocker behind a gate: with no gate it had been layered.
LEMMA DrainKeepsInner == TypeOK /\ Inner /\ Drain => Inner'
<1> SUFFICES ASSUME TypeOK, Inner, Drain PROVE Inner'
  OBVIOUS
<1>1. /\ \A i : Blockers(i)' = Blockers(i)
      /\ NextWave' = NextWave /\ Open' = Open /\ Gated' = Gated /\ waves' = waves
  BY DEF Drain, Blockers, NextWave, Open, Gated
<1>2. ReallyGated'
  <2> SUFFICES ASSUME NEW i \in Grown PROVE i \in Gated
    BY <1>1 DEF Inner, ReallyGated, Drain
  <2>1. i \in remaining \ external /\ i \notin NextWave /\ i \in nodes
    BY DEF Inner, Drained, Drain, Grown, TypeOK
  <2>2. PICK b \in Blockers(i) : b \in extBlocked
    BY <2>1 DEF NextWave, Grown
  <2>3. b \in Gated /\ <<b, i>> \in intra
    BY <2>2 DEF Inner, ReallyGated, Blockers
  <2> QED
    BY <2>1, <2>3 DEF Gated
<1>3. BlockersComeFirst' /\ NoNeedlessWait'
  BY <1>1 DEF Inner, BlockersComeFirst, NoNeedlessWait
<1>4. DispatchedOnce' /\ LastWaveUnlocks' /\ ScheduledClosed'
  BY <1>1 DEF Inner, Drain, DispatchedOnce, LastWaveUnlocks, ScheduledClosed
<1>5. Drained' /\ NotYet' /\ Judged'
  BY <1>1 DEF Inner, Drain, Drained, NotYet, Judged
<1> QED
  BY <1>2, <1>3, <1>4, <1>5 DEF Inner

\* The verdict only reads.
LEMMA VerdictKeepsInner == Inner /\ Verdict => Inner'
<1> SUFFICES ASSUME Inner, Verdict PROVE Inner'
  OBVIOUS
<1>1. /\ \A i : Blockers(i)' = Blockers(i)
      /\ NextWave' = NextWave /\ Open' = Open /\ Gated' = Gated /\ Grown' = Grown
      /\ waves' = waves
  BY DEF Verdict, Blockers, NextWave, Open, Gated, Grown
<1>2. BlockersComeFirst' /\ NoNeedlessWait'
  BY <1>1 DEF Inner, BlockersComeFirst, NoNeedlessWait
<1>3. DispatchedOnce' /\ LastWaveUnlocks' /\ ScheduledClosed'
  BY <1>1 DEF Inner, Verdict, DispatchedOnce, LastWaveUnlocks, ScheduledClosed
<1>4. Drained' /\ NotYet' /\ Judged' /\ ReallyGated'
  BY <1>1 DEF Inner, Verdict, Drained, NotYet, Judged, ReallyGated
<1> QED
  BY <1>2, <1>3, <1>4 DEF Inner

LEMMA Invariance == Spec => []IInv
<1>1. Init => IInv
  <2> SUFFICES ASSUME Init PROVE Inner
    BY InitTypeFresh DEF IInv
  <2>1. BlockersComeFirst /\ NoNeedlessWait /\ LastWaveUnlocks
    BY DEF Init, BlockersComeFirst, NoNeedlessWait, LastWaveUnlocks
  <2>2. DispatchedOnce /\ ScheduledClosed /\ Drained /\ NotYet /\ Judged /\ ReallyGated
    BY DEF Init, DispatchedOnce, ScheduledClosed, Drained, NotYet, Judged, ReallyGated
  <2> QED
    BY <2>1, <2>2 DEF Inner
<1>2. IInv /\ [Next]_vars => IInv'
  <2> SUFFICES ASSUME IInv, [Next]_vars PROVE Inner'
    BY TypeStep DEF IInv
  <2>1. CASE ReadNodes \/ ReadEdges
    BY <2>1, ReadsKeepInner DEF IInv
  <2>2. CASE Layer
    BY <2>2, LayerKeepsInner DEF IInv
  <2>3. CASE LayersDone
    BY <2>3, LayersDoneKeepsInner DEF IInv
  <2>4. CASE Drain
    BY <2>4, DrainKeepsInner DEF IInv
  <2>5. CASE Verdict
    BY <2>5, VerdictKeepsInner DEF IInv
  <2>6. CASE OtherStep \/ UNCHANGED vars
    BY <2>6, WritesKeepLocals, InnerIsLocal DEF IInv, vars
  <2> QED
    BY <2>1, <2>2, <2>3, <2>4, <2>5, <2>6 DEF Next, Run, OtherStep
<1> QED
  BY <1>1, <1>2, PTL DEF Spec

-----------------------------------------------------------------------------
\* A ticket is dispatched only after every ticket of the milestone that blocks it.
THEOREM BlockersFirst == Spec => []BlockersComeFirst
<1>1. IInv => BlockersComeFirst
  BY DEF IInv, Inner
<1> QED
  BY <1>1, Invariance, PTL

\* No ticket is dispatched twice and none is lost.
THEOREM Dispatched == Spec => []DispatchedOnce
<1>1. IInv => DispatchedOnce
  BY DEF IInv, Inner
<1> QED
  BY <1>1, Invariance, PTL

\* The layering is as parallel as the edges allow.
THEOREM AsParallelAsPossible == Spec => []NoNeedlessWait
<1>1. IInv => NoNeedlessWait
  BY DEF IInv, Inner
<1> QED
  BY <1>1, Invariance, PTL

\* No ticket behind a gate outside the milestone is dispatched, and only such
\* tickets are reported as externally blocked: the tickets that are not
\* scheduled form a set closed under "is blocked by" that holds every gated one.
THEOREM GatesHold == Spec => []GateHolds
<1>1. IInv => GateHolds
  <2> SUFFICES ASSUME IInv PROVE scheduled \cap Gated = {}
    BY DEF IInv, Inner, ReallyGated, GateHolds
  <2> DEFINE S == nodes \ scheduled
  <2>1. external \subseteq S
    BY DEF IInv, Inner, ScheduledClosed, TypeOK
  <2>2. ASSUME NEW e \in intra, e[1] \in S PROVE e[2] \in S
    <3>1. e[1] \in nodes /\ e[2] \in nodes /\ e = <<e[1], e[2]>>
      BY DEF IInv, TypeOK
    <3>2. e[1] \in Blockers(e[2])
      BY <3>1 DEF Blockers
    <3> QED
      BY <2>2, <3>1, <3>2 DEF IInv, Inner, ScheduledClosed
  <2>3. \A i \in Gated : i \in S
    BY <2>1, <2>2 DEF Gated
  <2> QED
    BY <2>3
<1> QED
  BY <1>1, Invariance, PTL
-----------------------------------------------------------------------------
(***************************************************************************)
(* With nobody writing between the two SELECTs they read one board, so     *)
(* every edge is between two tickets read as open. With a writer this is   *)
(* false, and so is CycleErrorIsTrue (the run waves_false_cycle).          *)
(***************************************************************************)
OneBoard ==
    /\ phase = "edges" => /\ nodes = member \ archived
                          /\ doneNodes = nodes \cap done
    /\ \A e \in intra : e[1] \in Open

LEMMA OneBoardStep ==
    ASSUME MaxWrites = 0
    PROVE  TypeOK /\ Fresh /\ OneBoard /\ [Next]_vars => OneBoard'
<1> SUFFICES ASSUME TypeOK, Fresh, OneBoard, [Next]_vars PROVE OneBoard'
  OBVIOUS
<1>1. CASE ReadNodes
  BY <1>1 DEF ReadNodes, Fresh, OneBoard, board
<1>2. CASE ReadEdges
  <2>1. doneNodes = nodes \cap done /\ nodes' = nodes /\ doneNodes' = doneNodes
    BY <1>2 DEF ReadEdges, OneBoard
  <2>2. \A e \in intra' : e[1] \in nodes /\ e[1] \notin done
    BY <1>2 DEF ReadEdges, OpenEdges
  <2>3. phase' = "layer"
    BY <1>2 DEF ReadEdges
  <2> QED
    BY <2>1, <2>2, <2>3 DEF OneBoard, Open
<1>3. CASE Layer \/ LayersDone \/ Drain \/ Verdict
  BY <1>3 DEF Layer, LayersDone, Drain, Verdict, OneBoard, Open
<1>4. CASE OtherStep
  <2>1. writes < MaxWrites /\ writes \in 0..MaxWrites
    BY <1>4 DEF OtherStep, MoveIssue, ArchiveIssue, TagIssue, RelateIssues, BoardWrite, TypeOK
  <2> QED
    BY <2>1
<1>5. CASE UNCHANGED vars
  BY <1>5 DEF vars, board, locals, OneBoard, Open
<1> QED
  BY <1>1, <1>2, <1>3, <1>4, <1>5 DEF Next, Run, OtherStep

\* On a board nobody else writes, a cycle error names tickets that do wait for
\* each other: each named ticket was not drained, so one of its open blockers is
\* neither scheduled nor gated, which leaves only the named ones.
THEOREM CycleErrorsAreTrue ==
    ASSUME MaxWrites = 0
    PROVE  Spec => []CycleErrorIsTrue
<1>1. Init => OneBoard
  BY DEF Init, OneBoard
<1>2. IInv /\ OneBoard /\ [Next]_vars => OneBoard'
  BY OneBoardStep DEF IInv
<1>3. IInv /\ OneBoard => CycleErrorIsTrue
  <2> SUFFICES ASSUME IInv, OneBoard, phase = "cycle"
               PROVE  cyclic \subseteq Open /\ Deadlocked(cyclic)
    BY DEF CycleErrorIsTrue
  <2>1. cyclic # {} /\ Grown = {} /\ cyclic = remaining \ extBlocked
    BY DEF IInv, Inner, Judged
  <2>2. scheduled \cup remaining = Open
    BY DEF IInv, Inner, DispatchedOnce
  <2>3. ASSUME NEW i \in cyclic PROVE \E b \in cyclic : b \in Blockers(i)
    <3>1. PICK b \in Blockers(i) : b \notin scheduled \cup extBlocked
      BY <2>1, <2>3 DEF Grown
    <3>2. b \in Open
      BY <3>1 DEF Blockers, OneBoard
    <3> QED
      BY <3>1, <3>2, <2>1, <2>2
  <2> QED
    BY <2>1, <2>2, <2>3 DEF Deadlocked
<1> QED
  BY <1>1, <1>2, <1>3, Invariance, PTL DEF Spec

-----------------------------------------------------------------------------
(***************************************************************************)
(* The documents of the VS Code extension (Editor).                        *)
(***************************************************************************)
CallType == [kind : Kinds, id : Nat, to : Column \cup {None}, text : Text,
             token : Nat, issue : {None, Failed, Stale} \cup Answer,
             section : {None} \cup Text, bumped : BOOLEAN]

\* A process that only reads comes back with an issue, or, for the document, fails.
IsCall(c) == /\ c \in CallType
             /\ c.kind = "move" => c.to \in Column
             /\ c.kind = "open" => c.issue \in {None} \cup Answer
             /\ c.kind = "read" => c.issue \in {None, Failed} \cup Answer

CallsTyped == \A c \in calls : IsCall(c)

StateTyped ==
    /\ db \in [status : Column, body : Text, at : Nat]
    /\ drawer \in [open : BOOLEAN, token : Nat, text : Text, draft : {None} \cup Text]
    /\ edits \subseteq [id : Nat, text : Text]
    /\ restore \in {None} \cup Text
    /\ doc \in [state : {"none", "reading", "reverting", "clean", "dirty", "saving"}, text : Text,
                newest : BOOLEAN]
    /\ cas \in Nat /\ ops \in Nat /\ agent \in Nat

(* The document is read by one process at a time and written by one, and    *)
(* what is being read again while the user has a text of it is no longer    *)
(* the newest, so that VS Code will not save it.                            *)
OneAtATime == \A c, d \in calls : c.kind = d.kind /\ c.kind \in {"read", "write"} => c = d

ReadTurn(c) == c.kind = "read" => /\ doc.state \in {"reading", "reverting", "clean", "dirty"}
                                  /\ doc.state \in {"clean", "dirty"} => ~doc.newest
WriteTurn(c) == c.kind = "write" => doc.state = "saving"
Turns == \A c \in calls : ReadTurn(c) /\ WriteTurn(c)

Loaded == {"reverting", "clean", "dirty", "saving"}
TokenIsReal == db.at > 0 /\ cas <= db.at /\ (doc.state \in Loaded => cas > 0)

(* If no write came after the token, the text was made from what is there:  *)
(* of the document, of a read or a write that has been answered, and of a   *)
(* write that has not run.                                                  *)
TextHasAll == doc.state \in Loaded /\ doc.newest /\ cas = db.at => db.body \subseteq doc.text

AnswerHasAll(c) ==
    c.kind \in {"read", "write"} /\ c.issue \in Answer =>
        /\ c.issue.at > 0 /\ c.issue.at <= db.at
        /\ c.issue.at = db.at =>
               db.body \subseteq IF c.kind = "read" THEN c.issue.body ELSE doc.text

WriteHasAll(c) ==
    c.kind = "write" /\ c.issue = None =>
        /\ c.text = doc.text /\ c.token = cas
        /\ c.token = db.at => db.body \subseteq c.text

CallsHaveAll == \A c \in calls : AnswerHasAll(c) /\ WriteHasAll(c)

DocInv == OneAtATime /\ Turns /\ TokenIsReal /\ TextHasAll /\ CallsHaveAll
ExtInv == StateTyped /\ CallsTyped /\ DocInv

-----------------------------------------------------------------------------
LEMMA ExtInit == EditorConstants /\ EditorInit => ExtInv
<1> SUFFICES ASSUME EditorConstants, EditorInit PROVE ExtInv
  OBVIOUS
<1>1. calls = {} /\ db = [status |-> "backlog", body |-> {}, at |-> 1] /\ cas = 0
      /\ doc = [state |-> "none", text |-> {}, newest |-> TRUE]
  BY DEF EditorInit, FirstIssue
<1>2. StateTyped
  BY <1>1 DEF EditorInit, StateTyped, Closed, Text, Column
<1>3. CallsTyped /\ OneAtATime /\ Turns /\ CallsHaveAll
  BY <1>1 DEF CallsTyped, OneAtATime, Turns, CallsHaveAll
<1>4. TokenIsReal /\ TextHasAll
  BY <1>1 DEF TokenIsReal, TextHasAll, Loaded
<1> QED
  BY <1>2, <1>3, <1>4 DEF ExtInv, DocInv

\* A process that is started is well-typed and has nothing to show yet.
LEMMA NewCall ==
    ASSUME NEW k \in Kinds, NEW i \in Nat
    PROVE  /\ Call(k, i) \in CallType
           /\ Call(k, i).kind = k /\ Call(k, i).issue = None
           /\ k # "move" => IsCall(Call(k, i))
BY DEF Call, CallType, Text, IsCall

\* What an issue is answered with is an answer, and none of the other ends.
LEMMA KeptIsAnswer ==
    ASSUME EditorConstants, NEW k \in Kinds,
           NEW d \in [status : Column, body : Text, at : Nat]
    PROVE  /\ Kept(k, d) \in Answer /\ Kept(k, d) \notin {None, Failed, Stale}
           /\ k = "read" => Kept(k, d).body = d.body
           /\ k \in {"read", "write"} => Kept(k, d).at = d.at
<1>1. Kept(k, d) \in Answer
  BY DEF Kept, Answer, Text
<1> QED
  BY <1>1 DEF Kept, EditorConstants

-----------------------------------------------------------------------------
(***************************************************************************)
(* Steps that leave the document alone.                                    *)
(***************************************************************************)
\* No process that reads or writes the document is started or answered.
SameDocCalls == \A c \in calls' : c.kind \in {"read", "write"} => c \in calls

LEMMA AwayFromDoc ==
    ASSUME DocInv, SameDocCalls, UNCHANGED <<db, doc, cas>>
    PROVE  DocInv'
<1>1. OneAtATime'
  BY DEF DocInv, SameDocCalls, OneAtATime
<1>2. Turns'
  BY DEF DocInv, SameDocCalls, Turns, ReadTurn, WriteTurn
<1>3. TokenIsReal' /\ TextHasAll'
  BY DEF DocInv, TokenIsReal, TextHasAll
<1>4. CallsHaveAll'
  BY DEF DocInv, SameDocCalls, CallsHaveAll, AnswerHasAll, WriteHasAll
<1> QED
  BY <1>1, <1>2, <1>3, <1>4 DEF DocInv

\* Somebody else's write makes every token an old one.
LEMMA WrittenElsewhere ==
    ASSUME StateTyped, CallsTyped, DocInv, SameDocCalls, UNCHANGED <<doc, cas>>,
           db'.at = db.at + 1
    PROVE  DocInv'
<1>1. db.at \in Nat /\ cas \in Nat
  BY DEF StateTyped
<1>2. OneAtATime' /\ Turns'
  BY DEF DocInv, SameDocCalls, OneAtATime, Turns, ReadTurn, WriteTurn
<1>3. TokenIsReal' /\ cas' < db'.at
  BY <1>1 DEF DocInv, TokenIsReal
<1>4. TextHasAll'
  BY <1>1, <1>3 DEF TextHasAll
<1>5. ASSUME NEW c \in calls' PROVE AnswerHasAll(c)' /\ WriteHasAll(c)'
  <2> SUFFICES ASSUME c.kind \in {"read", "write"} PROVE AnswerHasAll(c)' /\ WriteHasAll(c)'
    BY DEF AnswerHasAll, WriteHasAll
  <2>1. c \in calls /\ AnswerHasAll(c) /\ WriteHasAll(c)
    BY <1>5 DEF SameDocCalls, DocInv, CallsHaveAll
  <2>2. ASSUME c.issue \in Answer PROVE c.issue.at \in Nat
    BY <2>2 DEF Answer
  <2>3. AnswerHasAll(c)'
    BY <1>1, <2>1, <2>2 DEF AnswerHasAll
  <2>4. WriteHasAll(c)'
    BY <1>1, <1>3, <2>1 DEF WriteHasAll
  <2> QED
    BY <2>3, <2>4
<1> QED
  BY <1>2, <1>3, <1>4, <1>5 DEF DocInv, CallsHaveAll

-----------------------------------------------------------------------------
(***************************************************************************)
(* A process runs.                                                         *)
(***************************************************************************)
LEMMA AnswersInTurn ==
    ASSUME OneAtATime, Turns, NEW c \in calls, NEW r, r.kind = c.kind,
           Answered(c, r), UNCHANGED doc
    PROVE  OneAtATime' /\ Turns'
<1>1. calls' = (calls \ {c}) \cup {r}
  BY DEF Answered
<1>2. OneAtATime'
  BY <1>1 DEF OneAtATime
<1>3. Turns'
  BY <1>1 DEF Turns, ReadTurn, WriteTurn
<1> QED
  BY <1>2, <1>3

LEMMA ReadIssueKeeps ==
    ASSUME EditorConstants, ExtInv, NEW c \in calls, ReadIssue(c),
           UNCHANGED <<drawer, edits, restore, doc, cas, ops, agent>>
    PROVE  ExtInv'
<1>0. PICK r : r = [c EXCEPT !.issue = Kept(c.kind, db)]
  OBVIOUS
<1>1. c \in CallType /\ c.kind \in {"list", "open", "read"} /\ IsCall(c)
  BY DEF ExtInv, CallsTyped, IsCall, ReadIssue
<1>2. calls' = (calls \ {c}) \cup {r} /\ Answered(c, r) /\ UNCHANGED db
  BY <1>0 DEF ReadIssue, Answered
<1>3. c.kind \in Kinds /\ db \in [status : Column, body : Text, at : Nat]
  BY <1>1 DEF CallType, ExtInv, StateTyped
<1>4. /\ r \in CallType /\ r.kind = c.kind /\ r.issue = Kept(c.kind, db)
      /\ r.issue \in Answer /\ r.issue # None
      /\ c.kind = "read" => r.issue.body = db.body /\ r.issue.at = db.at
  <2>1. Kept(c.kind, db) \in Answer
    BY <1>3, KeptIsAnswer
  <2>2. r \in CallType /\ r.kind = c.kind /\ r.issue = Kept(c.kind, db)
    BY <1>0, <1>1, <2>1 DEF CallType
  <2> QED
    BY <1>3, <2>1, <2>2, KeptIsAnswer
<1>5. StateTyped'
  BY <1>2 DEF ExtInv, StateTyped
<1>6. CallsTyped'
  BY <1>1, <1>2, <1>4 DEF ExtInv, CallsTyped, IsCall
<1>7. DocInv'
  <2>1. CASE c.kind # "read"
    BY <1>1, <1>2, <1>4, <2>1, AwayFromDoc DEF SameDocCalls, ExtInv
  <2>2. CASE c.kind = "read"
    <3>1. OneAtATime' /\ Turns'
      BY <1>2, <1>4, AnswersInTurn DEF ExtInv, DocInv
    <3>2. TokenIsReal' /\ TextHasAll'
      BY <1>2 DEF ExtInv, DocInv, TokenIsReal, TextHasAll
    <3>3. AnswerHasAll(r)' /\ WriteHasAll(r)'
      BY <1>2, <1>3, <1>4, <2>2 DEF AnswerHasAll, WriteHasAll, ExtInv, DocInv, TokenIsReal
    <3>4. CallsHaveAll'
      BY <1>2, <3>3 DEF ExtInv, DocInv, CallsHaveAll, AnswerHasAll, WriteHasAll
    <3> QED
      BY <3>1, <3>2, <3>4 DEF DocInv
  <2> QED
    BY <2>1, <2>2
<1> QED
  BY <1>5, <1>6, <1>7 DEF ExtInv

LEMMA ReadSectionKeeps ==
    ASSUME ExtInv, NEW c \in calls, ReadSection(c),
           UNCHANGED <<drawer, edits, restore, doc, cas, ops, agent>>
    PROVE  ExtInv'
<1>0. PICK r : r = [c EXCEPT !.section = db.body]
  OBVIOUS
<1>1. c \in CallType /\ c.kind = "open" /\ IsCall(c)
  BY DEF ExtInv, CallsTyped, IsCall, ReadSection
<1>2. calls' = (calls \ {c}) \cup {r} /\ UNCHANGED db
  BY <1>0 DEF ReadSection, Answered
<1>3. IsCall(r) /\ r.kind = "open"
  BY <1>0, <1>1 DEF IsCall, CallType, ExtInv, StateTyped
<1>4. StateTyped' /\ CallsTyped'
  BY <1>2, <1>3 DEF ExtInv, StateTyped, CallsTyped
<1>5. DocInv'
  BY <1>2, <1>3, AwayFromDoc DEF SameDocCalls, ExtInv
<1> QED
  BY <1>4, <1>5 DEF ExtInv

\* How a process ends that does nothing: a refusal, or a failure.
LEMMA NothingDone ==
    ASSUME EditorConstants, ExtInv, NEW c \in calls, c.kind # "open", NEW end \in {Failed, Stale},
           c.kind = "read" => end = Failed,
           Answered(c, [c EXCEPT !.issue = end, !.text = {}, !.token = 0]),
           UNCHANGED <<db, drawer, edits, restore, doc, cas, ops, agent>>
    PROVE  ExtInv'
<1>0. PICK r : r = [c EXCEPT !.issue = end, !.text = {}, !.token = 0]
  OBVIOUS
<1>1. c \in CallType /\ IsCall(c)
  BY DEF ExtInv, CallsTyped, IsCall
<1>2. calls' = (calls \ {c}) \cup {r} /\ Answered(c, r)
  BY <1>0 DEF Answered
<1>3. IsCall(r) /\ r.kind = c.kind /\ r.issue = end
  BY <1>0, <1>1 DEF IsCall, CallType, Text
<1>4. end \notin Answer /\ end # None
  BY DEF EditorConstants
<1>5. StateTyped' /\ CallsTyped'
  BY <1>2, <1>3 DEF ExtInv, StateTyped, CallsTyped
<1>6. OneAtATime' /\ Turns'
  BY <1>2, <1>3, AnswersInTurn DEF ExtInv, DocInv
<1>7. TokenIsReal' /\ TextHasAll'
  BY DEF ExtInv, DocInv, TokenIsReal, TextHasAll
<1>8. AnswerHasAll(r)' /\ WriteHasAll(r)'
  BY <1>3, <1>4 DEF AnswerHasAll, WriteHasAll
<1>9. CallsHaveAll'
  BY <1>2, <1>8 DEF ExtInv, DocInv, CallsHaveAll, AnswerHasAll, WriteHasAll
<1> QED
  BY <1>5, <1>6, <1>7, <1>9 DEF ExtInv, DocInv

\* A write that changes the issue, or creates another one.
LEMMA WriteDone ==
    ASSUME EditorConstants, ExtInv, NEW c \in calls, c.issue = None,
           c.kind \in {"move", "tick", "create", "edit", "write"},
           c.kind \in {"edit", "write"} => c.token = db.at,
           CASE c.kind = "move" -> Written(db.body, c.to)
             [] c.kind = "tick" -> Written(db.body \cup {c.id}, db.status)
             [] c.kind = "create" -> UNCHANGED db /\ changed' = (Mode = "auto")
             [] OTHER -> Written(c.text, db.status),
           Answered(c, [c EXCEPT !.issue = Kept(c.kind, db'), !.text = {}, !.token = 0]),
           UNCHANGED <<drawer, edits, restore, doc, cas, ops, agent>>
    PROVE  ExtInv'
<1>0. PICK r : r = [c EXCEPT !.issue = Kept(c.kind, db'), !.text = {}, !.token = 0]
  OBVIOUS
<1>1. c \in CallType /\ IsCall(c) /\ c.kind \in Kinds
  BY DEF ExtInv, CallsTyped, IsCall, CallType
<1>2. calls' = (calls \ {c}) \cup {r} /\ Answered(c, r)
  BY <1>0 DEF Answered
<1>3. db.body \in Text /\ db.status \in Column /\ db.at \in Nat /\ db.at > 0
  BY DEF ExtInv, StateTyped, DocInv, TokenIsReal
<1>4. CASE c.kind = "create"
  <2>1. UNCHANGED db
    BY <1>4
  <2>2. Kept(c.kind, db') \in Answer
    BY <1>1, <2>1, KeptIsAnswer DEF ExtInv, StateTyped
  <2>3. IsCall(r) /\ r.kind = "create"
    BY <1>0, <1>1, <1>4, <2>2 DEF IsCall, CallType, Text
  <2>4. StateTyped' /\ CallsTyped'
    BY <1>2, <2>1, <2>3 DEF ExtInv, StateTyped, CallsTyped
  <2>5. DocInv'
    BY <1>2, <2>1, <2>3, AwayFromDoc DEF SameDocCalls, ExtInv
  <2> QED
    BY <2>4, <2>5 DEF ExtInv
<1>5. CASE c.kind # "create"
  <2>1. PICK b \in Text, s \in Column :
            /\ db' = [status |-> s, body |-> b, at |-> db.at + 1]
            /\ c.kind = "write" => b = c.text
    <3>1. CASE c.kind = "move"
      BY <1>1, <1>3, <3>1 DEF Written, IsCall
    <3>2. CASE c.kind = "tick"
      <4>1. db.body \cup {c.id} \in Text
        BY <1>1, <1>3 DEF CallType, Text
      <4> QED
        BY <1>3, <3>2, <4>1 DEF Written
    <3>3. CASE c.kind \in {"edit", "write"}
      <4>1. Written(c.text, db.status)
        BY <3>3
      <4> QED
        BY <1>1, <1>3, <4>1 DEF Written, CallType
    <3> QED
      BY <1>5, <3>1, <3>2, <3>3
  <2>2. db' \in [status : Column, body : Text, at : Nat] /\ db'.at = db.at + 1
    BY <1>3, <2>1
  <2>3. /\ Kept(c.kind, db') \in Answer /\ Kept(c.kind, db') # None
        /\ c.kind = "write" => Kept(c.kind, db').at = db'.at
    BY <1>1, <2>2, KeptIsAnswer
  <2>4. IsCall(r) /\ r.kind = c.kind /\ r.issue = Kept(c.kind, db')
    BY <1>0, <1>1, <2>3 DEF IsCall, CallType, Text
  <2>5. StateTyped' /\ CallsTyped'
    BY <1>2, <2>2, <2>4 DEF ExtInv, StateTyped, CallsTyped
  <2>6. CASE c.kind # "write"
    <3>1. DocInv'
      BY <1>2, <2>2, <2>4, <2>6, WrittenElsewhere DEF SameDocCalls, ExtInv
    <3> QED
      BY <2>5, <3>1 DEF ExtInv
  <2>7. CASE c.kind = "write"
    <3>1. c.text = doc.text /\ db'.body = doc.text
      BY <2>1, <2>7 DEF ExtInv, DocInv, CallsHaveAll, WriteHasAll
    <3>2. OneAtATime' /\ Turns'
      BY <1>2, <2>4, AnswersInTurn DEF ExtInv, DocInv
    <3>3. TokenIsReal'
      BY <1>3, <2>2 DEF ExtInv, StateTyped, DocInv, TokenIsReal
    <3>4. TextHasAll'
      BY <3>1 DEF TextHasAll
    <3>5. AnswerHasAll(r)' /\ WriteHasAll(r)'
      BY <1>3, <2>2, <2>3, <2>4, <2>7, <3>1 DEF AnswerHasAll, WriteHasAll
    <3>6. ASSUME NEW d \in calls, d # c PROVE AnswerHasAll(d)' /\ WriteHasAll(d)'
      <4>1. d.kind # "write"
        BY <2>7, <3>6 DEF ExtInv, DocInv, OneAtATime
      <4>2. d.kind # "read"
        BY <2>7 DEF ExtInv, DocInv, Turns, ReadTurn, WriteTurn
      <4> QED
        BY <4>1, <4>2 DEF AnswerHasAll, WriteHasAll
    <3>7. CallsHaveAll'
      BY <1>2, <3>5, <3>6 DEF CallsHaveAll
    <3> QED
      BY <2>5, <3>2, <3>3, <3>4, <3>7 DEF ExtInv, DocInv
  <2> QED
    BY <2>6, <2>7
<1> QED
  BY <1>4, <1>5

LEMMA RunKeeps ==
    ASSUME EditorConstants, ExtInv, NEW k \in Kinds, RunCall(k)
    PROVE  ExtInv'
<1>1. UNCHANGED <<drawer, edits, restore, doc, cas, ops, agent>>
  BY DEF RunCall, webview, document
<1>2. PICK c \in calls : \/ ReadIssue(c) \/ ReadSection(c)
                         \/ RunWrite(c) \/ RunFails(c)
  BY DEF RunCall, Running
<1>3. CASE ReadIssue(c) \/ ReadSection(c)
  BY <1>1, <1>3, ReadIssueKeeps, ReadSectionKeeps
<1>4. CASE RunFails(c)
  <2>1. UNCHANGED db /\ (c.kind \in {"list", "open"} => calls' = calls \ {c})
    BY <1>4 DEF RunFails
  <2>2. CASE c.kind \in {"list", "open"}
    <3>1. StateTyped' /\ CallsTyped'
      BY <1>1, <2>1, <2>2 DEF ExtInv, StateTyped, CallsTyped
    <3>2. DocInv'
      BY <1>1, <2>1, <2>2, AwayFromDoc DEF ExtInv, SameDocCalls
    <3> QED
      BY <3>1, <3>2 DEF ExtInv
  <2>3. CASE c.kind \notin {"list", "open"}
    <3>1. Answered(c, [c EXCEPT !.issue = Failed, !.text = {}, !.token = 0])
      BY <1>4, <2>3 DEF RunFails
    <3> QED
      BY <1>1, <2>1, <2>3, <3>1, NothingDone
  <2> QED
    BY <2>2, <2>3
<1>5. CASE RunWrite(c)
  <2>1. CASE c.kind \in {"edit", "write"} /\ c.token # db.at
    <3>1. /\ Answered(c, [c EXCEPT !.issue = Stale, !.text = {}, !.token = 0])
          /\ UNCHANGED db
      BY <1>5, <2>1 DEF RunWrite
    <3> QED
      BY <1>1, <2>1, <3>1, NothingDone
  <2>2. CASE c.kind \in {"edit", "write"} => c.token = db.at
    BY <1>1, <1>5, <2>2, WriteDone DEF RunWrite
  <2> QED
    BY <2>1, <2>2
<1> QED
  BY <1>2, <1>3, <1>4, <1>5

-----------------------------------------------------------------------------
(***************************************************************************)
(* Others write, and the watcher fires.                                    *)
(***************************************************************************)
LEMMA AgentKeeps == ASSUME EditorConstants, ExtInv, Agent PROVE ExtInv'
<1>1. UNCHANGED <<calls, drawer, edits, restore, doc, cas, ops>> /\ agent' = agent + 1
  BY DEF Agent, webview, document
<1>2. /\ db.body \in Text /\ db.status \in Column /\ db.at \in Nat
      /\ agent \in Nat /\ MaxOps \in Nat
  BY DEF ExtInv, StateTyped, EditorConstants
<1>3. PICK b \in Text, s \in Column : db' = [status |-> s, body |-> b, at |-> db.at + 1]
  <2>1. CASE Written(db.body \cup {MaxOps + agent'}, db.status)
    <3>1. db.body \cup {MaxOps + agent'} \in Text
      BY <1>1, <1>2 DEF Text
    <3> QED
      BY <1>2, <2>1, <3>1 DEF Written
  <2>2. ASSUME NEW s \in Column, Written(db.body, s)
        PROVE  db' = [status |-> s, body |-> db.body, at |-> db.at + 1]
    BY <2>2 DEF Written
  <2> QED
    BY <1>2, <2>1, <2>2 DEF Agent
<1>4. StateTyped' /\ CallsTyped'
  BY <1>1, <1>2, <1>3 DEF ExtInv, StateTyped, CallsTyped
<1>5. DocInv'
  BY <1>1, <1>3, WrittenElsewhere DEF SameDocCalls, ExtInv
<1> QED
  BY <1>4, <1>5 DEF ExtInv

\* The watcher starts a read of a clean document, and marks what is loaded old.
LEMMA WatchKeeps == ASSUME EditorConstants, ExtInv, Watch PROVE ExtInv'
<1> DEFINE bump(c) == [c EXCEPT !.bumped = c.kind = "read" /\ cas # 0]
           again == doc.state = "clean" /\ Running("read") = {}
           ls == Call("list", 0)
           rd == Call("read", 0)
<1>1. /\ doc' = [doc EXCEPT !.newest = (cas = 0)]
      /\ calls' = {bump(c) : c \in calls} \cup {ls} \cup IF again THEN {rd} ELSE {}
      /\ UNCHANGED <<db, drawer, edits, restore, cas, ops, agent>>
  BY DEF Watch, Touched, webview, bounds
<1>2. /\ IsCall(ls) /\ ls.kind = "list"
      /\ IsCall(rd) /\ rd.kind = "read" /\ rd.issue = None
  BY NewCall DEF Kinds
<1>3. ASSUME NEW c \in calls
      PROVE  /\ IsCall(bump(c)) /\ bump(c).kind = c.kind /\ bump(c).issue = c.issue
             /\ bump(c).text = c.text /\ bump(c).token = c.token
  BY DEF ExtInv, CallsTyped, IsCall, CallType
<1> HIDE DEF bump, ls, rd
<1>4. /\ doc.state \in {"none", "reading", "reverting", "clean", "dirty", "saving"}
      /\ doc'.state = doc.state /\ doc'.text = doc.text
      /\ doc.state \in Loaded => ~doc'.newest
  <2>1. doc'.state = doc.state /\ doc'.text = doc.text /\ doc'.newest = (cas = 0)
    BY <1>1 DEF ExtInv, StateTyped
  <2>2. doc.state \in Loaded => cas # 0
    BY DEF ExtInv, DocInv, TokenIsReal, StateTyped
  <2>3. doc.state \in Loaded => ~doc'.newest
    BY <2>1, <2>2, Zenon
  <2> QED
    BY <2>1, <2>3 DEF ExtInv, StateTyped
<1>5. ASSUME NEW c \in calls', c.kind \in {"read", "write"}
      PROVE  \/ \E d \in calls : c = bump(d) /\ d.kind = c.kind
             \/ again /\ c = rd
  BY <1>1, <1>2, <1>3, <1>5
<1>6. ASSUME again, NEW c \in calls PROVE c.kind \notin {"read", "write"}
  BY <1>6 DEF Running, ExtInv, DocInv, Turns, WriteTurn
<1>7. StateTyped'
  BY <1>1 DEF ExtInv, StateTyped
<1>8. CallsTyped'
  BY <1>1, <1>2, <1>3 DEF CallsTyped
<1> HIDE DEF again
<1>9. OneAtATime'
  <2> SUFFICES ASSUME NEW c \in calls', NEW d \in calls', c.kind = d.kind,
                      c.kind \in {"read", "write"}
               PROVE  c = d
    BY DEF OneAtATime
  <2>1. CASE again
    BY <1>2, <1>5, <1>6, <2>1
  <2>2. CASE ~again
    BY <1>5, <2>2 DEF ExtInv, DocInv, OneAtATime
  <2> QED
    BY <2>1, <2>2
<1>10. Turns'
  <2> SUFFICES ASSUME NEW c \in calls', c.kind \in {"read", "write"}
               PROVE  ReadTurn(c)' /\ WriteTurn(c)'
    BY DEF Turns, ReadTurn, WriteTurn
  <2>1. CASE again /\ c = rd
    <3>1. doc.state = "clean"
      BY <2>1 DEF again
    <3> QED
      BY <1>2, <1>4, <2>1, <3>1 DEF ReadTurn, WriteTurn, Loaded
  <2>2. ASSUME NEW d \in calls, c = bump(d), d.kind = c.kind
        PROVE  ReadTurn(c)' /\ WriteTurn(c)'
    <3>1. ReadTurn(d) /\ WriteTurn(d)
      BY DEF ExtInv, DocInv, Turns
    <3> QED
      BY <1>4, <2>2, <3>1 DEF ReadTurn, WriteTurn, Loaded
  <2> QED
    BY <1>5, <2>1, <2>2
<1>11. TokenIsReal' /\ TextHasAll'
  BY <1>1, <1>4 DEF ExtInv, DocInv, TokenIsReal, TextHasAll
<1>12. CallsHaveAll'
  <2> SUFFICES ASSUME NEW c \in calls', c.kind \in {"read", "write"}
               PROVE  AnswerHasAll(c)' /\ WriteHasAll(c)'
    BY DEF CallsHaveAll, AnswerHasAll, WriteHasAll
  <2>1. CASE again /\ c = rd
    <3>1. None \notin Answer
      BY DEF EditorConstants
    <3> QED
      BY <1>2, <2>1, <3>1 DEF AnswerHasAll, WriteHasAll
  <2>2. ASSUME NEW d \in calls, c = bump(d), d.kind = c.kind
        PROVE  AnswerHasAll(c)' /\ WriteHasAll(c)'
    <3>1. AnswerHasAll(d) /\ WriteHasAll(d)
      BY DEF ExtInv, DocInv, CallsHaveAll
    <3> QED
      BY <1>1, <1>3, <1>4, <2>2, <3>1 DEF AnswerHasAll, WriteHasAll
  <2> QED
    BY <1>5, <2>1, <2>2
<1> QED
  BY <1>7, <1>8, <1>9, <1>10, <1>11, <1>12 DEF ExtInv, DocInv

-----------------------------------------------------------------------------
(***************************************************************************)
(* Answers come back, and the user acts.                                   *)
(***************************************************************************)
\* The handlers that end or start processes for the board and the drawer.
LEMMA BoardStepKeeps ==
    ASSUME ExtInv, UNCHANGED <<db, doc, cas, agent>>,
           ops' \in Nat, edits' \subseteq [id : Nat, text : Text],
           restore' \in {None} \cup Text,
           drawer' \in [open : BOOLEAN, token : Nat, text : Text,
                        draft : {None} \cup Text],
           \A c \in calls' : c \in calls \/ (IsCall(c) /\ c.kind \notin {"read", "write"})
    PROVE  ExtInv'
<1>1. StateTyped' /\ CallsTyped'
  BY DEF ExtInv, StateTyped, CallsTyped
<1>2. DocInv'
  BY AwayFromDoc DEF ExtInv, SameDocCalls
<1> QED
  BY <1>1, <1>2 DEF ExtInv

\* Everything the user or an answer does to the board, its form and the drawer.
BoardStep == \/ Refreshed \/ Moved \/ Created
             \/ Detail \/ Ticked \/ Edited
             \/ \E s \in Column : Move(s)
             \/ OpenForm \/ Submit
             \/ OpenDrawer \/ CloseDrawer \/ TickBox \/ SaveSection

LEMMA BoardStepsKeep == ASSUME ExtInv, BoardStep PROVE ExtInv'
<1> DEFINE Edits == [id : Nat, text : Text]
           Drawers == [open : BOOLEAN, token : Nat, text : Text,
                       draft : {None} \cup Text]
           Harmless == \A c \in calls' : c \in calls \/ (IsCall(c) /\ c.kind \notin {"read", "write"})
<1>1. drawer \in Drawers /\ edits \subseteq Edits /\ restore \in {None} \cup Text
      /\ ops \in Nat
  BY DEF ExtInv, StateTyped
<1>2. ASSUME NEW c \in calls PROVE IsCall(c) /\ c \in CallType
  BY DEF ExtInv, CallsTyped, IsCall
<1>3. ASSUME NEW k \in {"list", "create", "open", "tick", "edit"}, NEW i \in Nat
      PROVE  IsCall(Call(k, i)) /\ Call(k, i).kind \notin {"read", "write"}
  BY <1>3, NewCall DEF Kinds
<1>4. CASE Refreshed \/ Moved \/ Created
  BY <1>1, <1>4, BoardStepKeeps
     DEF Refreshed, Moved, Created, document, bounds
<1>5. CASE Detail
  <2>1. PICK c \in calls : /\ c.kind = "open" /\ c.issue # None /\ c.section # None
                           /\ calls' = calls \ {c} /\ edits' = {} /\ restore' = None
                           /\ drawer' = [open |-> TRUE, token |-> c.issue.at,
                                         text |-> c.section, draft |-> restore]
                           /\ UNCHANGED <<db, doc, cas, ops, agent>>
    BY <1>5 DEF Detail, Running, document, bounds
  <2>2. c.issue \in Answer /\ c.section \in Text
    BY <1>2, <2>1 DEF IsCall, CallType
  <2>3. drawer' \in Drawers
    BY <1>1, <2>1, <2>2 DEF Answer
  <2> QED
    BY <1>1, <2>1, <2>3, BoardStepKeeps
<1>6. CASE Ticked \/ Edited
  <2>1. PICK c \in calls : /\ \A d \in calls' : d \in calls \/ d = Call("open", c.id)
                           /\ UNCHANGED <<db, doc, cas, drawer, ops, agent>>
                           /\ edits' \subseteq edits
                           /\ \/ restore' = restore
                              \/ \E e \in edits : restore' = e.text
    <3>1. CASE Ticked
      BY <3>1 DEF Ticked, Running, Opening, document, bounds
    <3>2. CASE Edited
      <4>1. PICK c \in calls :
               LET mine == {e \in edits : e.id = c.id} IN
               /\ calls' = (calls \ {c}) \cup IF c.issue = Failed THEN {} ELSE {Opening(c.id)}
               /\ \/ /\ edits' = edits \ mine
                     /\ restore' = IF mine = {} THEN restore
                                   ELSE (CHOOSE e \in mine : TRUE).text
                  \/ UNCHANGED <<edits, restore>>
               /\ UNCHANGED <<db, doc, cas, drawer, ops, agent>>
        BY <3>2 DEF Edited, Running, document, bounds
      <4>2. \A d \in calls' : d \in calls \/ d = Call("open", c.id)
        BY <4>1 DEF Opening
      <4>3. edits' \subseteq edits /\ (restore' = restore \/ \E e \in edits : restore' = e.text)
        BY <4>1
      <4> QED
        BY <4>1, <4>2, <4>3
    <3> QED
      BY <1>6, <3>1, <3>2
  <2>2. c.id \in Nat
    BY <1>2 DEF CallType
  <2>3. Harmless
    BY <1>3, <2>1, <2>2
  <2>4. restore' \in {None} \cup Text /\ edits' \subseteq Edits
    BY <1>1, <2>1
  <2> QED
    BY <1>1, <2>1, <2>3, <2>4, BoardStepKeeps
<1>7. ASSUME NEW s \in Column, Move(s) PROVE ExtInv'
  <2>1. /\ calls' = calls \cup {[Call("move", ops') EXCEPT !.to = s]} /\ ops' = ops + 1
        /\ UNCHANGED <<db, doc, cas, drawer, edits, restore, agent>>
    BY <1>7 DEF Move, Begin, document
  <2>2. ops' \in Nat
    BY <1>1, <2>1
  <2>3. PICK c : c = [Call("move", ops') EXCEPT !.to = s]
    OBVIOUS
  <2>4. IsCall(c) /\ c.kind = "move"
    BY <2>2, <2>3, NewCall DEF Kinds, IsCall, CallType
  <2> QED
    BY <1>1, <2>1, <2>2, <2>3, <2>4, BoardStepKeeps
<1>8. CASE OpenForm \/ Submit \/ OpenDrawer \/ TickBox
  <2>1. /\ \A c \in calls' : \/ c \in calls
                             \/ c = Call("create", ops)
                             \/ c = Call("open", ops')
                             \/ c = Call("tick", ops')
        /\ ops' \in {ops, ops + 1}
        /\ UNCHANGED <<db, doc, cas, drawer, edits, restore, agent>>
    BY <1>8 DEF OpenForm, Submit, OpenDrawer, TickBox, Begin, Opening,
                webview, document, bounds
  <2>2. ops' \in Nat
    BY <1>1, <2>1
  <2>3. Harmless
    BY <1>1, <1>3, <2>1, <2>2
  <2> QED
    BY <1>1, <2>1, <2>2, <2>3, BoardStepKeeps
<1>9. CASE CloseDrawer
  <2>1. drawer' \in Drawers
    BY <1>9 DEF CloseDrawer, Closed, Text
  <2> QED
    BY <1>1, <1>9, <2>1, BoardStepKeeps DEF CloseDrawer, document, bounds
<1>10. CASE SaveSection
  <2>1. PICK u, n :
            /\ n = ops' /\ u = (IF drawer.draft = None THEN drawer.text ELSE drawer.draft) \cup {n}
            /\ calls' = calls \cup {[Call("edit", n) EXCEPT !.text = u, !.token = drawer.token]}
            /\ edits' = edits \cup {[id |-> n, text |-> u]}
            /\ ops' = ops + 1
            /\ UNCHANGED <<db, doc, cas, drawer, restore, agent>>
    BY <1>10 DEF SaveSection, Begin, document
  <2>2. n \in Nat /\ ops' \in Nat /\ u \in Text /\ drawer.token \in Nat
    BY <1>1, <2>1 DEF Text
  <2>3. PICK c : c = [Call("edit", n) EXCEPT !.text = u, !.token = drawer.token]
    OBVIOUS
  <2>4. Call("edit", n) \in CallType /\ Call("edit", n).kind = "edit"
    BY <2>2, NewCall DEF Kinds
  <2>5. IsCall(c) /\ c.kind = "edit"
    BY <2>2, <2>3, <2>4 DEF IsCall, CallType
  <2>6. edits' \subseteq Edits
    <3>1. [id |-> n, text |-> u] \in Edits
      BY <2>2
    <3> HIDE DEF Edits
    <3> QED
      BY <1>1, <2>1, <3>1
  <2> QED
    BY <1>1, <2>1, <2>2, <2>3, <2>5, <2>6, BoardStepKeeps
<1> QED
  BY <1>4, <1>5, <1>6, <1>7, <1>8, <1>9, <1>10 DEF BoardStep

-----------------------------------------------------------------------------
LEMMA OpenDocKeeps == ASSUME EditorConstants, ExtInv, OpenDoc PROVE ExtInv'
<1>1. /\ doc.state = "none" /\ doc' = [doc EXCEPT !.state = "reading"]
      /\ calls' = calls \cup {Call("read", 0)} /\ ops' = ops + 1
      /\ UNCHANGED <<db, drawer, edits, restore, cas, agent>>
  BY DEF OpenDoc, Begin, webview
<1>2. PICK c : c = Call("read", 0)
  OBVIOUS
<1>3. IsCall(c) /\ c.kind = "read" /\ c.issue = None /\ None \notin Answer
  BY <1>2, NewCall DEF Kinds, EditorConstants
<1>4. \A d \in calls : d.kind \notin {"read", "write"}
  BY <1>1 DEF ExtInv, DocInv, Turns, ReadTurn, WriteTurn
<1>5. doc'.state = "reading"
  BY <1>1 DEF ExtInv, StateTyped
<1>6. StateTyped' /\ CallsTyped'
  BY <1>1, <1>2, <1>3 DEF ExtInv, StateTyped, CallsTyped
<1>7. OneAtATime' /\ Turns'
  BY <1>1, <1>2, <1>3, <1>4, <1>5 DEF OneAtATime, Turns, ReadTurn, WriteTurn
<1>8. TokenIsReal' /\ TextHasAll'
  BY <1>1, <1>5 DEF ExtInv, DocInv, TokenIsReal, TextHasAll, Loaded
<1>9. CallsHaveAll'
  BY <1>1, <1>2, <1>3, <1>4 DEF CallsHaveAll, AnswerHasAll, WriteHasAll
<1> QED
  BY <1>6, <1>7, <1>8, <1>9 DEF ExtInv, DocInv

LEMMA RevertKeeps == ASSUME EditorConstants, ExtInv, Revert PROVE ExtInv'
<1>1. /\ doc.state = "dirty" /\ doc' = [doc EXCEPT !.state = "reverting"]
      /\ calls' = calls \cup {Call("read", 0)} /\ Running("read") = {}
      /\ UNCHANGED <<db, drawer, edits, restore, cas, ops, agent>>
  BY DEF Revert, webview, bounds
<1>2. PICK c : c = Call("read", 0)
  OBVIOUS
<1>3. IsCall(c) /\ c.kind = "read" /\ c.issue = None /\ None \notin Answer
  BY <1>2, NewCall DEF Kinds, EditorConstants
<1>4. \A d \in calls : d.kind \notin {"read", "write"}
  BY <1>1 DEF ExtInv, DocInv, Turns, WriteTurn, Running
<1>5. doc'.state = "reverting" /\ doc'.text = doc.text /\ doc'.newest = doc.newest
  BY <1>1 DEF ExtInv, StateTyped
<1>6. StateTyped' /\ CallsTyped'
  BY <1>1, <1>2, <1>3 DEF ExtInv, StateTyped, CallsTyped
<1>7. OneAtATime' /\ Turns'
  BY <1>1, <1>2, <1>3, <1>4, <1>5 DEF OneAtATime, Turns, ReadTurn, WriteTurn
<1>8. TokenIsReal' /\ TextHasAll'
  BY <1>1, <1>5 DEF ExtInv, DocInv, TokenIsReal, TextHasAll, Loaded
<1>9. CallsHaveAll'
  BY <1>1, <1>2, <1>3, <1>4 DEF CallsHaveAll, AnswerHasAll, WriteHasAll
<1> QED
  BY <1>6, <1>7, <1>8, <1>9 DEF ExtInv, DocInv

\* What was read is what is there, if no write came since.
LEMMA DocReadKeeps == ASSUME EditorConstants, ExtInv, DocRead PROVE ExtInv'
<1>1. PICK c \in calls :
         /\ c.kind = "read" /\ c.issue \notin {None, Failed}
         /\ calls' = calls \ {c} /\ cas' = c.issue.at
         /\ doc' = IF doc.state \in {"reading", "reverting", "clean"}
                   THEN [state |-> "clean", text |-> c.issue.body, newest |-> ~c.bumped]
                   ELSE doc
         /\ UNCHANGED <<db, drawer, edits, restore, ops, agent>>
  BY DEF DocRead, Running, webview, bounds
<1>2. c.issue \in Answer /\ c.bumped \in BOOLEAN
  BY <1>1 DEF ExtInv, CallsTyped, IsCall, CallType
<1>3. c.issue.at \in Nat /\ c.issue.body \in Text
  BY <1>2 DEF Answer
<1>4. /\ c.issue.at > 0 /\ c.issue.at <= db.at
      /\ c.issue.at = db.at => db.body \subseteq c.issue.body
  BY <1>1, <1>2 DEF ExtInv, DocInv, CallsHaveAll, AnswerHasAll
<1>5. \A d \in calls' : d.kind \notin {"read", "write"}
  BY <1>1 DEF ExtInv, DocInv, OneAtATime, Turns, ReadTurn, WriteTurn
<1>6. StateTyped'
  BY <1>1, <1>2, <1>3 DEF ExtInv, StateTyped
<1>7. CallsTyped'
  BY <1>1 DEF ExtInv, CallsTyped
<1>8. OneAtATime' /\ Turns' /\ CallsHaveAll'
  BY <1>5 DEF OneAtATime, Turns, ReadTurn, WriteTurn, CallsHaveAll, AnswerHasAll, WriteHasAll
<1>9. TokenIsReal'
  BY <1>1, <1>4 DEF ExtInv, DocInv, TokenIsReal
<1>10. TextHasAll'
  <2>1. CASE doc.state \in {"reading", "reverting", "clean"}
    BY <1>1, <1>4, <2>1 DEF TextHasAll
  <2>2. CASE doc.state \notin {"reading", "reverting", "clean"}
    BY <1>1, <2>2 DEF ExtInv, DocInv, Turns, ReadTurn, TextHasAll
  <2> QED
    BY <2>1, <2>2
<1> QED
  BY <1>6, <1>7, <1>8, <1>9, <1>10 DEF ExtInv, DocInv

\* A read that fails leaves the document what it was before.
LEMMA DocReadFailsKeeps == ASSUME ExtInv, DocReadFails PROVE ExtInv'
<1>1. PICK c \in calls :
         /\ c.kind = "read" /\ calls' = calls \ {c}
         /\ doc' = [doc EXCEPT !.state = CASE @ = "reading" -> "none"
                                           [] @ = "reverting" -> "dirty" [] OTHER -> @]
         /\ UNCHANGED <<db, drawer, edits, restore, cas, ops, agent>>
  BY DEF DocReadFails, Running, webview, bounds
<1>2. /\ doc'.text = doc.text /\ doc'.newest = doc.newest
      /\ doc'.state \in {"none", "dirty", doc.state}
      /\ doc'.state \in Loaded => doc.state \in Loaded
  BY <1>1 DEF ExtInv, StateTyped, Loaded
<1>3. \A d \in calls' : d.kind \notin {"read", "write"}
  BY <1>1 DEF ExtInv, DocInv, OneAtATime, Turns, ReadTurn, WriteTurn
<1>4. StateTyped' /\ CallsTyped'
  BY <1>1, <1>2 DEF ExtInv, StateTyped, CallsTyped
<1>5. OneAtATime' /\ Turns' /\ CallsHaveAll'
  BY <1>3 DEF OneAtATime, Turns, ReadTurn, WriteTurn, CallsHaveAll, AnswerHasAll, WriteHasAll
<1>6. TokenIsReal' /\ TextHasAll'
  BY <1>1, <1>2 DEF ExtInv, DocInv, TokenIsReal, TextHasAll
<1> QED
  BY <1>4, <1>5, <1>6 DEF ExtInv, DocInv

LEMMA TypeKeeps == ASSUME ExtInv, Type PROVE ExtInv'
<1>1. /\ doc.state = "clean" /\ doc' = [doc EXCEPT !.state = "dirty", !.text = @ \cup {ops'}]
      /\ ops' = ops + 1 /\ UNCHANGED <<db, calls, drawer, edits, restore, cas, agent>>
  BY DEF Type, Begin, webview
<1>2. /\ doc'.state = "dirty" /\ doc'.text = doc.text \cup {ops'}
      /\ doc'.newest = doc.newest
  BY <1>1 DEF ExtInv, StateTyped
<1>3. StateTyped'
  <2>1. ops' \in Nat /\ doc.text \cup {ops'} \in Text
    BY <1>1 DEF ExtInv, StateTyped, Text
  <2> QED
    BY <1>1, <2>1 DEF ExtInv, StateTyped
<1>4. CallsTyped' /\ OneAtATime'
  BY <1>1 DEF ExtInv, CallsTyped, DocInv, OneAtATime
<1>5. \A c \in calls : c.kind # "write"
  BY <1>1 DEF ExtInv, DocInv, Turns, WriteTurn
<1>6. Turns'
  BY <1>1, <1>2, <1>5 DEF ExtInv, DocInv, Turns, ReadTurn, WriteTurn
<1>7. TokenIsReal' /\ TextHasAll'
  BY <1>1, <1>2 DEF ExtInv, DocInv, TokenIsReal, TextHasAll, Loaded
<1>8. CallsHaveAll'
  BY <1>1, <1>5 DEF ExtInv, DocInv, CallsHaveAll, AnswerHasAll, WriteHasAll
<1> QED
  BY <1>3, <1>4, <1>6, <1>7, <1>8 DEF ExtInv, DocInv

\* A save starts from a text whose token is its own.
LEMMA SaveDocKeeps == ASSUME EditorConstants, ExtInv, SaveDoc PROVE ExtInv'
<1>1. PICK c : /\ c = [Call("write", 0) EXCEPT !.text = doc.text, !.token = cas]
               /\ calls' = calls \cup {c}
  BY DEF SaveDoc
<1>2. /\ doc.state = "dirty" /\ doc.newest /\ doc' = [doc EXCEPT !.state = "saving"]
      /\ UNCHANGED <<db, drawer, edits, restore, cas, ops, agent>>
  BY DEF SaveDoc, webview, bounds
<1>3. doc.text \in Text /\ cas \in Nat
  BY DEF ExtInv, StateTyped
<1>4. /\ IsCall(c) /\ c.kind = "write" /\ c.issue = None /\ None \notin Answer
      /\ c.text = doc.text /\ c.token = cas
  <2>1. /\ Call("write", 0) \in CallType /\ Call("write", 0).kind = "write"
        /\ Call("write", 0).issue = None
    BY NewCall DEF Kinds
  <2> QED
    BY <1>1, <1>3, <2>1 DEF IsCall, CallType, EditorConstants
<1>5. doc'.state = "saving" /\ doc'.text = doc.text /\ doc'.newest = doc.newest
  BY <1>2 DEF ExtInv, StateTyped
<1>6. \A d \in calls : d.kind \notin {"read", "write"}
  BY <1>2 DEF ExtInv, DocInv, Turns, ReadTurn, WriteTurn
<1>7. StateTyped' /\ CallsTyped'
  BY <1>1, <1>2, <1>4 DEF ExtInv, StateTyped, CallsTyped
<1>8. OneAtATime' /\ Turns'
  BY <1>1, <1>4, <1>5, <1>6 DEF OneAtATime, Turns, ReadTurn, WriteTurn
<1>9. TokenIsReal' /\ TextHasAll'
  BY <1>2, <1>5 DEF ExtInv, DocInv, TokenIsReal, TextHasAll, Loaded
<1>10. CallsHaveAll'
  <2>1. cas = db.at => db.body \subseteq doc.text
    BY <1>2 DEF ExtInv, DocInv, TextHasAll, Loaded
  <2> QED
    BY <1>1, <1>2, <1>4, <1>5, <1>6, <2>1 DEF CallsHaveAll, AnswerHasAll, WriteHasAll
<1> QED
  BY <1>7, <1>8, <1>9, <1>10 DEF ExtInv, DocInv

LEMMA DocSavedKeeps == ASSUME EditorConstants, ExtInv, DocSaved PROVE ExtInv'
<1>1. PICK c \in calls :
         /\ c.kind = "write" /\ c.issue # None
         /\ IF c.issue \in {Failed, Stale}
            THEN /\ doc' = [doc EXCEPT !.state = "dirty"]
                 /\ calls' = calls \ {c}
                 /\ UNCHANGED cas
            ELSE /\ cas' = c.issue.at
                 /\ doc' = [doc EXCEPT !.state = "clean", !.newest = TRUE]
                 /\ calls' = (calls \ {c}) \cup {Call("list", 0)}
         /\ UNCHANGED <<db, drawer, edits, restore, ops, agent>>
  BY DEF DocSaved, Running, webview, bounds
<1>2. PICK l : l = Call("list", 0)
  OBVIOUS
<1>3. IsCall(l) /\ l.kind = "list"
  BY <1>2, NewCall DEF Kinds
<1>4. doc.state = "saving" /\ c \in CallType
  BY <1>1 DEF ExtInv, DocInv, Turns, WriteTurn, CallsTyped, IsCall
<1>5. \A d \in calls' : d.kind \notin {"read", "write"}
  BY <1>1, <1>2, <1>3, <1>4 DEF ExtInv, DocInv, OneAtATime, Turns, ReadTurn
<1>6. CallsTyped'
  BY <1>1, <1>2, <1>3 DEF ExtInv, CallsTyped
<1>7. OneAtATime' /\ Turns' /\ CallsHaveAll'
  BY <1>5 DEF OneAtATime, Turns, ReadTurn, WriteTurn, CallsHaveAll, AnswerHasAll, WriteHasAll
<1>8. StateTyped' /\ TokenIsReal' /\ TextHasAll'
  <2>1. CASE c.issue \in {Failed, Stale}
    <3>1. /\ doc'.state = "dirty" /\ doc'.text = doc.text /\ doc'.newest = doc.newest
          /\ UNCHANGED <<cas, db>>
      BY <1>1, <2>1 DEF ExtInv, StateTyped
    <3>2. StateTyped'
      BY <1>1, <2>1 DEF ExtInv, StateTyped
    <3> QED
      BY <1>4, <3>1, <3>2 DEF ExtInv, DocInv, TokenIsReal, TextHasAll, Loaded
  <2>2. CASE c.issue \notin {Failed, Stale}
    <3>1. c.issue \in Answer
      BY <1>1, <1>4, <2>2 DEF CallType
    <3>2. c.issue.at \in Nat
      BY <3>1 DEF Answer
    <3>3. /\ c.issue.at > 0 /\ c.issue.at <= db.at
          /\ c.issue.at = db.at => db.body \subseteq doc.text
      BY <1>1, <3>1 DEF ExtInv, DocInv, CallsHaveAll, AnswerHasAll
    <3>4. /\ doc'.state = "clean" /\ doc'.text = doc.text /\ cas' = c.issue.at
          /\ UNCHANGED db
      BY <1>1, <2>2 DEF ExtInv, StateTyped
    <3>5. StateTyped'
      BY <1>1, <2>2, <3>2 DEF ExtInv, StateTyped
    <3> QED
      BY <3>3, <3>4, <3>5 DEF ExtInv, DocInv, TokenIsReal, TextHasAll
  <2> QED
    BY <2>1, <2>2
<1> QED
  BY <1>6, <1>7, <1>8 DEF ExtInv, DocInv

-----------------------------------------------------------------------------
LEMMA ExtStep == EditorConstants /\ ExtInv /\ [EditorNext]_(extVars) => ExtInv'
<1> SUFFICES ASSUME EditorConstants, ExtInv, [EditorNext]_(extVars) PROVE ExtInv'
  OBVIOUS
<1>1. ASSUME NEW k \in Kinds, RunCall(k) PROVE ExtInv'
  BY <1>1, RunKeeps
<1>2. CASE BoardStep
  BY <1>2, BoardStepsKeep
<1>3. CASE DocRead \/ DocReadFails \/ DocSaved \/ OpenDoc \/ Type \/ Revert \/ SaveDoc
  BY <1>3, DocReadKeeps, DocReadFailsKeeps, DocSavedKeeps, OpenDocKeeps, TypeKeeps, RevertKeeps, SaveDocKeeps
<1>4. CASE Watch \/ Agent
  BY <1>4, WatchKeeps, AgentKeeps
<1>5. CASE UNCHANGED extVars
  <2>1. UNCHANGED <<db, calls, drawer, edits, restore, doc, cas, ops, agent>>
    BY <1>5 DEF extVars, webview, document, bounds
  <2>2. StateTyped' /\ CallsTyped'
    BY <2>1 DEF ExtInv, StateTyped, CallsTyped
  <2>3. DocInv'
    BY <2>1, AwayFromDoc DEF ExtInv, SameDocCalls
  <2> QED
    BY <2>2, <2>3 DEF ExtInv
<1> QED
  BY <1>1, <1>2, <1>3, <1>4, <1>5 DEF EditorNext, User, BoardStep

\* The state the proof of the documents needs keeps its types, tokens and turns.
LEMMA ExtInvariance == EditorSpec => []ExtInv
<1>1. EditorInit => ExtInv
  BY EditorAssumption, ExtInit
<1>2. ExtInv /\ [EditorNext]_(extVars) => ExtInv'
  BY EditorAssumption, ExtStep
<1> QED
  BY <1>1, <1>2, PTL DEF EditorSpec

\* Saving a document of the extension never drops an edit of somebody else, for
\* any number of edits, agents, refreshes and failing calls and with both ways of
\* watching: a text that may be saved was made from all the writes its token
\* counts, and one that came after the token refuses the save.
THEOREM DocumentsSaveSafely == EditorSpec => DocSavesLoseNothing
<1> DEFINE Spared(c) == c.issue = None /\ RunWrite(c) => db.body \subseteq db'.body
<1>1. ExtInv => \A c \in Running("write") : Spared(c)
  <2> SUFFICES ASSUME ExtInv, NEW c \in calls, c.kind = "write", c.issue = None,
                      RunWrite(c)
               PROVE  db.body \subseteq db'.body
    BY DEF Running
  <2>1. CASE c.token # db.at
    BY <2>1 DEF RunWrite
  <2>2. CASE c.token = db.at
    <3>1. db.body \subseteq c.text
      BY <2>2 DEF ExtInv, DocInv, CallsHaveAll, WriteHasAll
    <3>2. Written(c.text, db.status)
      BY <2>2 DEF RunWrite
    <3> QED
      BY <3>1, <3>2 DEF Written
  <2> QED
    BY <2>1, <2>2
<1>2. ExtInv => [\A c \in Running("write") : Spared(c)]_(extVars)
  BY <1>1
<1> QED
  BY <1>2, ExtInvariance, PTL DEF DocSavesLoseNothing

-----------------------------------------------------------------------------
(***************************************************************************)
(* The description of an issue (Documents).                                *)
(***************************************************************************)
-----------------------------------------------------------------------------
(***************************************************************************)
(* Least elements and ranks.                                               *)
(***************************************************************************)
LEMMA MinIs ==
    ASSUME NEW S \in SUBSET Nat, S # {}
    PROVE  /\ Min(S) \in S
           /\ \A y \in S : Min(S) <= y
<1>1. PICK x \in S : \A y \in S : ~(<<y, x>> \in OpToRel(<, Nat))
  BY NatLessThanWellFounded, WFMin
<1>2. \A y \in S : x <= y
  <2> TAKE y \in S
  <2>1. x \in Nat /\ y \in Nat
    OBVIOUS
  <2>2. <<y, x>> \in Nat \X Nat /\ <<y, x>>[1] = y /\ <<y, x>>[2] = x
    BY <2>1
  <2>3. ~(y < x)
    <3>1. SUFFICES ASSUME y < x PROVE <<y, x>> \in OpToRel(<, Nat)
      BY <1>1
    <3> QED
      BY <3>1, <2>2 DEF OpToRel
  <2> QED
    BY <2>1, <2>3
<1> QED
  BY <1>2 DEF Min

\* First picks the least, and nothing else.
LEMMA FirstIs ==
    ASSUME NEW S \in SUBSET Nat, NEW none
    PROVE  /\ S = {} => First(S, none) = none
           /\ S # {} => /\ First(S, none) \in S
                        /\ \A y \in S : First(S, none) <= y
           /\ \A x \in S : (\A y \in S : x <= y) => First(S, none) = x
<1>1. S # {} => /\ First(S, none) \in S
                /\ \A y \in S : First(S, none) <= y
  BY MinIs DEF First
<1>2. S = {} => First(S, none) = none
  BY DEF First
<1>3. ASSUME NEW x \in S, \A y \in S : x <= y PROVE First(S, none) = x
  <2>1. First(S, none) \in S /\ First(S, none) <= x
    BY <1>1
  <2>2. x <= First(S, none)
    BY <1>3, <2>1
  <2>3. x \in Nat /\ First(S, none) \in Nat
    BY <2>1
  <2> QED
    BY <2>1, <2>2, <2>3
<1> QED
  BY <1>1, <1>2, <1>3

\* A set of naturals with a bound that has an element has a greatest one.
LEMMA MaxExists ==
    ASSUME NEW n \in Nat, NEW S \in SUBSET (0..n), S # {}
    PROVE  \E x \in S : \A y \in S : y <= x
<1> DEFINE T == {n - x : x \in S}
<1>1. \A x \in S : x \in Nat /\ n - x \in Nat
  OBVIOUS
<1>2. T \in SUBSET Nat /\ T # {}
  BY <1>1
<1> DEFINE t == Min(T)
<1>3. t \in T /\ \A u \in T : t <= u
  <2> HIDE DEF T
  <2> QED
    BY <1>2, MinIs
<1>4. PICK x \in S : t = n - x
  BY <1>3
<1>5. \A y \in S : n - x <= n - y
  BY <1>3, <1>4
<1>6. ASSUME NEW y \in S PROVE y <= x
  BY <1>1, <1>5
<1> QED
  BY <1>6

Rank(S, s) == Cardinality({x \in S : x <= s})

LEMMA RankType ==
    ASSUME NEW n \in Nat, NEW S \in SUBSET (1..n), NEW s \in S
    PROVE  /\ IsFiniteSet(S) /\ Cardinality(S) \in Nat /\ Cardinality(S) <= n
           /\ Rank(S, s) \in 1..Cardinality(S)
<1> DEFINE R == {x \in S : x <= s}
<1>1. IsFiniteSet(1..n) /\ Cardinality(1..n) = n
  BY FS_Interval
<1>2. IsFiniteSet(S) /\ Cardinality(S) <= n
  BY <1>1, FS_Subset
<1>3. IsFiniteSet(R) /\ Cardinality(R) <= Cardinality(S)
  BY <1>2, FS_Subset
<1>4. Cardinality(S) \in Nat /\ Cardinality(R) \in Nat
  BY <1>2, <1>3, FS_CardinalityType
<1>5. Cardinality(R) # 0
  <2>1. s \in R
    OBVIOUS
  <2> QED
    BY <1>3, <2>1, FS_EmptySet
<1> QED
  BY <1>2, <1>3, <1>4, <1>5 DEF Rank

LEMMA RankGrows ==
    ASSUME NEW n \in Nat, NEW S \in SUBSET (1..n), NEW s \in S, NEW t \in S, s < t
    PROVE  Rank(S, s) < Rank(S, t)
<1> DEFINE R(x) == {y \in S : y <= x}
<1>1. R(s) \subseteq R(t) /\ t \in R(t) /\ t \notin R(s)
  <2>1. s \in Nat /\ t \in Nat
    OBVIOUS
  <2>2. ASSUME NEW y \in S, y <= s PROVE y <= t
    <3>1. y \in Nat
      OBVIOUS
    <3> QED
      BY <2>1, <2>2, <3>1
  <2>3. t <= t /\ ~(t <= s)
    BY <2>1
  <2> QED
    BY <2>2, <2>3
<1>2. IsFiniteSet(S)
  BY RankType
<1>3. IsFiniteSet(R(t))
  BY <1>2, FS_Subset
<1>4. Cardinality(R(s)) <= Cardinality(R(t)) /\ Cardinality(R(t)) # Cardinality(R(s))
  BY <1>1, <1>3, FS_Subset
<1>5. Cardinality(R(s)) \in Nat /\ Cardinality(R(t)) \in Nat
  BY RankType DEF Rank
<1> QED
  BY <1>4, <1>5 DEF Rank

LEMMA RankOnce ==
    ASSUME NEW n \in Nat, NEW S \in SUBSET (1..n), NEW s \in S, NEW t \in S,
           Rank(S, s) = Rank(S, t)
    PROVE  s = t
<1>1. Cardinality(S) \in Nat /\ Rank(S, s) \in 1..Cardinality(S)
  BY RankType
<1>2. Rank(S, s) \in Nat /\ s \in Nat /\ t \in Nat
  BY <1>1
<1>3. ~(s < t)
  <2>1. s < t => Rank(S, s) < Rank(S, t)
    BY RankGrows
  <2> QED
    BY <1>2, <2>1
<1>4. ~(t < s)
  <2>1. t < s => Rank(S, t) < Rank(S, s)
    BY RankGrows
  <2> QED
    BY <1>2, <2>1
<1> QED
  BY <1>2, <1>3, <1>4

-----------------------------------------------------------------------------
(***************************************************************************)
(* What lint has nothing to say about.                                     *)
(***************************************************************************)
\* Where sections, tasks and steps are: among the lines.
LEMMA PlacesAreLines ==
    ASSUME NEW d \in Seq(Line), NEW kinds, NEW a
    PROVE  /\ Len(d) \in Nat /\ DOMAIN d = 1..Len(d)
           /\ Real(d, kinds) \subseteq 1..Len(d)
           /\ Heading(d, a) \in 0..Len(d)
           /\ Has(d, a) => /\ Heading(d, a) \in Real(d, {"h2"})
                               /\ d[Heading(d, a)].v = a
           /\ EndOf(d, Heading(d, a)) \in (Heading(d, a) + 1)..(Len(d) + 1)
           /\ Lines(d, a) \subseteq 1..Len(d)
<1>1. Len(d) \in Nat /\ DOMAIN d = 1..Len(d)
  OBVIOUS
<1>2. \A k : Real(d, k) \subseteq 1..Len(d)
  BY <1>1 DEF Real
<1> DEFINE H == {i \in Real(d, {"h2"}) : d[i].v = a}
           h == Heading(d, a)
           E == {i \in Real(d, {"h2"}) : i > h}
<1>3. H \in SUBSET Nat /\ h = First(H, 0)
  BY <1>1, <1>2 DEF Heading
<1>4. h = 0 \/ h \in H
  <2> HIDE DEF H, h
  <2> QED
    BY <1>3, FirstIs
<1>5. h \in 0..Len(d)
  BY <1>1, <1>2, <1>4
<1>6. E \in SUBSET Nat /\ EndOf(d, h) = First(E, Len(d) + 1)
  BY <1>1, <1>2 DEF EndOf
<1>7. EndOf(d, h) = Len(d) + 1 \/ EndOf(d, h) \in E
  <2> DEFINE none == Len(d) + 1
  <2>1. E \in SUBSET Nat /\ EndOf(d, h) = First(E, none)
    BY <1>6
  <2> HIDE DEF E, h, none
  <2>2. First(E, none) = none \/ First(E, none) \in E
    BY <2>1, FirstIs
  <2> QED
    BY <2>1, <2>2 DEF none
<1>8. EndOf(d, h) \in (h + 1)..(Len(d) + 1)
  BY <1>1, <1>2, <1>5, <1>7
<1>9. Lines(d, a) \subseteq 1..Len(d)
  BY <1>1, <1>5, <1>8 DEF Lines
<1> QED
  BY <1>1, <1>2, <1>4, <1>5, <1>8, <1>9 DEF Has

\* If tasks count from one, each number is the number of one task.
LEMMA NumbersAreUnique ==
    ASSUME NEW d \in Seq(Line), LintPlan(d),
           NEW g \in TaskHeadings(d), NEW h \in TaskHeadings(d), d[g].v = d[h].v
    PROVE  g = h
<1> DEFINE T == TaskHeadings(d)
<1>1. Len(d) \in Nat /\ T \in SUBSET (1..Len(d))
  BY PlacesAreLines DEF TaskHeadings, InPlan
<1>2. ASSUME NEW x \in T PROVE d[x].v = Rank(T, x)
  <2> DEFINE r == Rank(T, x)
  <2>1. r \in 1..Cardinality(T)
    BY <1>1, RankType
  <2>2. Numbers(d)[r] = d[CHOOSE p \in T : Rank(T, p) = r].v /\ DOMAIN Numbers(d) = 1..Cardinality(T)
    BY <2>1 DEF Numbers, Rank
  <2>3. (CHOOSE p \in T : Rank(T, p) = r) = x
    BY <1>1, RankOnce
  <2>4. Numbers(d) = [i \in DOMAIN Numbers(d) |-> i]
    BY DEF LintPlan
  <2> QED
    BY <2>1, <2>2, <2>3, <2>4
<1> HIDE DEF T
<1>3. Rank(T, g) = Rank(T, h)
  BY <1>2 DEF T
<1> QED
  BY <1>1, <1>3, RankOnce DEF T

LEMMA TaskNumbers ==
    ASSUME DocumentConstants, NEW d \in Seq(Line), NEW h \in TaskHeadings(d)
    PROVE  d[h].v \in 1..MaxTask /\ d[h].k = "h3"
<1>1. h \in 1..Len(d) /\ d[h].k = "h3" /\ d[h].v # 0
  BY PlacesAreLines DEF TaskHeadings, InPlan, Real
<1>2. d[h] \in Line
  BY <1>1
<1>3. d[h].v \in 0..MaxTask
  BY <1>1, <1>2 DEF Line
<1>4. \A x \in 0..MaxTask : x # 0 => x \in 1..MaxTask
  <2>1. MaxTask \in Nat
    BY DEF DocumentConstants
  <2> QED
    BY <2>1
<1> QED
  BY <1>1, <1>3, <1>4

\* Every step of a plan that is clean can be addressed.
LEMMA StepsHaveAddresses ==
    ASSUME DocumentConstants, NEW d \in Seq(Line), LintPlan(d),
           NEW s \in InPlan(d, Step)
    PROVE  \E n \in 1..MaxTask, m \in 1..Len(d) : FindStep(d, n, m) = s
<1> DEFINE T == TaskHeadings(d)
<1>1. Len(d) \in Nat /\ T \in SUBSET (1..Len(d)) /\ s \in 1..Len(d)
  BY PlacesAreLines DEF TaskHeadings, InPlan
<1>2. PICK h \in T : h < s /\ \A g \in T : g < s => g <= h
  <2> DEFINE B == {g \in T : g < s}
  <2>1. B # {}
    BY DEF LintPlan
  <2>2. B \in SUBSET (0..Len(d))
    BY <1>1
  <2> QED
    BY <1>1, <2>1, <2>2, MaxExists
<1> DEFINE n == d[h].v
<1>3. n \in 1..MaxTask
  BY TaskNumbers
<1>4. TaskAt(d, n) = h
  <2> DEFINE S == {i \in T : d[i].v = n}
  <2>1. S \in SUBSET Nat /\ h \in S
    BY <1>1
  <2>2. \A y \in S : y = h
    BY NumbersAreUnique
  <2>3. First(S, 0) = h
    BY <1>1, <2>1, <2>2, FirstIs
  <2> QED
    BY <2>3 DEF TaskAt
<1> DEFINE Later == {i \in InPlan(d, {"h3"}) : i > h}
           end == First(Later, Len(d) + 1)
<1>5. s < end
  <2>1. Later \in SUBSET Nat
    BY <1>1 DEF LintPlan
  <2>2. CASE Later = {}
    <3>1. end = Len(d) + 1
      BY <2>2 DEF First
    <3> QED
      BY <1>1, <3>1
  <2>3. CASE Later # {}
    <3>1. end \in Later
      BY <2>1, <2>3, FirstIs
    <3>2. end \in T /\ end > h /\ end \in Nat
      BY <1>1, <3>1 DEF LintPlan
    <3>3. d[end].k = "h3" /\ d[s].k # "h3"
      BY <3>1 DEF InPlan, Real, Step
    <3>4. end # s
      BY <3>3
    <3> QED
      BY <1>1, <1>2, <3>2, <3>4
  <2> QED
    BY <2>2, <2>3
<1> DEFINE S == StepsOf(d, n)
           m == Rank(S, s)
<1>6. s \in S
  BY <1>1, <1>2, <1>4, <1>5 DEF StepsOf
<1>7. S \in SUBSET (1..Len(d))
  BY PlacesAreLines DEF StepsOf, InPlan
<1>8. m \in 1..Len(d)
  <2>1. /\ Cardinality(S) \in Nat /\ Cardinality(S) <= Len(d)
        /\ Rank(S, s) \in 1..Cardinality(S)
    <3> HIDE DEF S
    <3> QED
      BY <1>1, <1>6, <1>7, RankType
  <2> HIDE DEF S
  <2> QED
    BY <1>1, <2>1
<1>9. FindStep(d, n, m) = s
  <2> DEFINE M == {i \in S : Rank(S, i) = m}
  <2> HIDE DEF S
  <2>1. s \in M /\ M \in SUBSET Nat
    <3>1. s \in M
      BY <1>6
    <3>2. S \subseteq Nat
      BY <1>1, <1>7
    <3> QED
      BY <3>1, <3>2
  <2>2. \A y \in M : y = s
    BY <1>1, <1>6, <1>7, RankOnce
  <2>3. First(M, 0) = s
    BY <2>1, <2>2, FirstIs
  <2> QED
    BY <2>3 DEF FindStep, Rank, S
<1> QED
  BY <1>3, <1>8, <1>9

\* Without a fence every line is what it looks like.
LEMMA NothingFenced ==
    ASSUME NEW d \in Seq(Line), \A i \in DOMAIN d : d[i].k # "fence", NEW i \in DOMAIN d
    PROVE  ~Fenced(d, i)
<1>1. {j \in 1..(i - 1) : d[j].k = "fence"} = {}
  BY PlacesAreLines
<1>2. Cardinality({j \in 1..(i - 1) : d[j].k = "fence"}) = 0
  BY <1>1, FS_EmptySet
<1> QED
  BY <1>2 DEF Fenced

\* What lint passes can be ticked, is read and is counted, of any description.
LEMMA CleanIsTickable ==
    ASSUME DocumentConstants, desc \in Seq(Line)
    PROVE  LintMeansTickable
<1> SUFFICES ASSUME LintClean(desc)
             PROVE  /\ \A s \in InPlan(desc, Step) :
                          \E n \in 1..MaxTask, m \in 1..Len(desc) :
                              FindStep(desc, n, m) = s
                    /\ Real(desc, {"entry"}) = EntriesAt(desc)
                    /\ (\A i \in DOMAIN desc : desc[i].k # "fence")
                         => Counted(desc) = InPlan(desc, Step)
  BY DEF LintMeansTickable
<1>1. Lines(desc, "Plan") # {} => LintPlan(desc)
  BY DEF LintClean, Lines
<1>2. ASSUME NEW s \in InPlan(desc, Step)
      PROVE  \E n \in 1..MaxTask, m \in 1..Len(desc) : FindStep(desc, n, m) = s
  <2>1. LintPlan(desc)
    BY <1>1 DEF InPlan
  <2> QED
    BY <2>1, StepsHaveAddresses
<1>3. Real(desc, {"entry"}) = EntriesAt(desc)
  BY DEF LintClean, EntriesAt
<1>4. ASSUME \A i \in DOMAIN desc : desc[i].k # "fence"
      PROVE  Counted(desc) = InPlan(desc, Step)
  <2>1. Lines(desc, "Plan") \subseteq DOMAIN desc
    BY PlacesAreLines
  <2>2. ASSUME NEW kinds PROVE LooksLike(desc, kinds) = InPlan(desc, kinds)
    BY <1>4, <2>1, NothingFenced DEF LooksLike, InPlan, Real
  <2>3. TaskLines(desc) = TaskHeadings(desc)
    BY <2>2 DEF TaskLines, TaskHeadings
  <2>4. \A s \in InPlan(desc, Step) : \E h \in TaskHeadings(desc) : h < s
    BY <1>1 DEF InPlan, LintPlan
  <2> QED
    BY <2>2, <2>3, <2>4 DEF Counted
<1> QED
  BY <1>2, <1>3, <1>4

-----------------------------------------------------------------------------
(***************************************************************************)
(* A description is made of lines, whatever is done to it.                 *)
(***************************************************************************)
LEMMA LinesAreMade ==
    ASSUME DocumentConstants
    PROVE  /\ \A a \in Anchor : H2(a) \in Line
           /\ \A e \in Entry : Logged(e) \in Line
           /\ H3(1) \in Line
           /\ \A l \in Line : l.k \in Step => /\ [l EXCEPT !.k = "done"] \in Line
                                              /\ [l EXCEPT !.v = 1] \in Line
<1>1. \A a \in Anchor : H2(a) \in Line
  BY DEF H2, Line
<1>2. \A e \in Entry : Logged(e) \in Line
  BY DEF Logged, Line
<1>3. H3(1) \in Line
  <2>1. MaxTask \in Nat /\ MaxTask # 0
    BY DEF DocumentConstants
  <2>2. 1 \in 0..MaxTask
    BY <2>1
  <2> QED
    BY <2>2 DEF H3, Line
<1>4. ASSUME NEW l \in Line, l.k \in Step
      PROVE  [l EXCEPT !.k = "done"] \in Line /\ [l EXCEPT !.v = 1] \in Line
  <2>1. l \in [k : {"open", "done"}, v : {0, 1}]
    BY <1>4 DEF Line, Step
  <2>2. /\ [l EXCEPT !.k = "done"] \in [k : {"open", "done"}, v : {0, 1}]
        /\ [l EXCEPT !.v = 1] \in [k : {"open", "done"}, v : {0, 1}]
    BY <2>1
  <2> QED
    BY <2>2 DEF Line
<1> QED
  BY <1>1, <1>2, <1>3, <1>4

\* A part of a sequence is a sequence of the same things, however it is cut.
LEMMA PartOf ==
    ASSUME NEW S, NEW d \in Seq(S), NEW m \in Nat \ {0}, NEW n \in Nat, n <= Len(d)
    PROVE  SubSeq(d, m, n) \in Seq(S)
<1>1. CASE m <= n
  BY <1>1, SubSeqProperties
<1>2. CASE m > n
  <2>1. SubSeq(d, m, n) = << >>
    BY <1>2, SubSeqEmpty
  <2> QED
    BY <2>1
<1> QED
  BY <1>1, <1>2

LEMMA ReplaceType ==
    ASSUME DocumentConstants, NEW d \in Seq(Line), NEW a \in Anchor, NEW body \in Seq(Line)
    PROVE  ReplaceSection(d, a, body) \in Seq(Line)
<1> DEFINE h == Heading(d, a)
           e == EndOf(d, Heading(d, a))
<1>1. Len(d) \in Nat /\ h \in 0..Len(d) /\ e \in (h + 1)..(Len(d) + 1)
  BY PlacesAreLines
<1>2. SubSeq(d, 1, h) \in Seq(Line)
  <2> HIDE DEF h
  <2> QED
    BY <1>1, PartOf
<1>3. SubSeq(d, e, Len(d)) \in Seq(Line)
  <2>1. e \in Nat \ {0}
    <3> HIDE DEF h, e
    <3> QED
      BY <1>1
  <2> HIDE DEF e
  <2> QED
    BY <1>1, <2>1, PartOf
<1>4. SubSeq(d, 1, h) \o body \o SubSeq(d, e, Len(d)) \in Seq(Line)
  <2> HIDE DEF h, e
  <2>1. SubSeq(d, 1, h) \o body \in Seq(Line)
    BY <1>2, ConcatProperties
  <2> QED
    BY <2>1, <1>3, ConcatProperties
<1>5. d \o <<H2(a)>> \o body \in Seq(Line)
  <2>1. <<H2(a)>> \in Seq(Line)
    BY LinesAreMade
  <2>2. d \o <<H2(a)>> \in Seq(Line)
    BY <2>1, ConcatProperties
  <2> QED
    BY <2>2, ConcatProperties
<1> QED
  BY <1>4, <1>5 DEF ReplaceSection

LEMMA AppendType ==
    ASSUME DocumentConstants, NEW d \in Seq(Line), NEW a \in Anchor, NEW text \in Seq(Line)
    PROVE  AppendTo(d, a, text) \in Seq(Line)
<1> DEFINE h == Heading(d, a)
           e == EndOf(d, Heading(d, a))
           old == IF Has(d, a) THEN Body(d, a) ELSE << >>
<1>1. Len(d) \in Nat /\ h \in 0..Len(d) /\ e \in (h + 1)..(Len(d) + 1)
  BY PlacesAreLines
<1>2. Body(d, a) \in Seq(Line)
  <2>1. h + 1 \in Nat \ {0} /\ e - 1 \in Nat /\ e - 1 <= Len(d)
    <3> HIDE DEF h, e
    <3> QED
      BY <1>1
  <2>2. SubSeq(d, h + 1, e - 1) \in Seq(Line)
    <3> HIDE DEF h, e
    <3> QED
      BY <2>1, PartOf
  <2> QED
    BY <2>2 DEF Body
<1>3. old \in Seq(Line)
  BY <1>2
<1>4. old \o text \in Seq(Line)
  <2> HIDE DEF old
  <2> QED
    BY <1>3, ConcatProperties
<1> QED
  BY <1>4, ReplaceType DEF AppendTo

LEMMA CanonicalType ==
    ASSUME DocumentConstants, NEW d \in Seq(Line)
    PROVE  Canonical(d) \in Seq(Line)
<1> DEFINE S == InPlan(d, Step)
           m == Min(S)
<1>1. S \subseteq 1..Len(d) /\ Len(d) \in Nat
  BY PlacesAreLines DEF InPlan
<1>2. ASSUME S # {}
      PROVE  SubSeq(d, 1, m - 1) \o <<H3(1)>> \o SubSeq(d, m, Len(d)) \in Seq(Line)
  <2>1. m \in 1..Len(d)
    <3>1. S \in SUBSET Nat
      BY <1>1
    <3>2. m \in S
      <4> HIDE DEF S
      <4> QED
        BY <1>2, <3>1, MinIs
    <3> QED
      BY <1>1, <3>2
  <2> HIDE DEF S, m
  <2>2. m - 1 \in Nat /\ m - 1 <= Len(d) /\ m \in Nat \ {0}
    BY <1>1, <2>1
  <2>3. SubSeq(d, 1, m - 1) \in Seq(Line) /\ SubSeq(d, m, Len(d)) \in Seq(Line)
    BY <1>1, <2>2, PartOf
  <2>4. <<H3(1)>> \in Seq(Line)
    BY LinesAreMade
  <2>5. SubSeq(d, 1, m - 1) \o <<H3(1)>> \in Seq(Line)
    BY <2>3, <2>4, ConcatProperties
  <2> QED
    BY <2>3, <2>5, ConcatProperties
<1> QED
  BY <1>2 DEF Canonical

LEMMA SanitizedType ==
    ASSUME NEW p \in Seq(Line), NEW a
    PROVE  Sanitized(p, a) \in Seq(Line)
<1>1. p # << >> => Tail(p) \in Seq(Line)
  BY HeadTailProperties
<1> QED
  BY <1>1 DEF Sanitized, Restates

DescTyped == desc \in Seq(Line)

LEMMA DescTypedInit ==
    ASSUME DocumentConstants, DescInit
    PROVE  DescTyped
<1>1. PICK d \in Docs : desc = Canonical(d)
  BY DEF DescInit
<1>2. PICK n \in 0..MaxLines : d \in [1..n -> Line]
  BY <1>1 DEF Docs
<1>3. MaxLines \in Nat
  BY DEF DocumentConstants
<1>4. d \in Seq(Line)
  BY <1>2, <1>3, SeqDef
<1> QED
  BY <1>1, <1>4, CanonicalType DEF DescTyped

\* A step that has an address is one of the plan.
LEMMA FoundStep ==
    ASSUME NEW d \in Seq(Line), NEW n, NEW m, FindStep(d, n, m) # 0
    PROVE  FindStep(d, n, m) \in InPlan(d, Step)
<1> DEFINE M == {i \in StepsOf(d, n) : Cardinality({j \in StepsOf(d, n) : j <= i}) = m}
<1>1. M \subseteq InPlan(d, Step) /\ M \in SUBSET Nat
  BY PlacesAreLines DEF StepsOf, InPlan
<1>2. FindStep(d, n, m) = First(M, 0)
  BY DEF FindStep
<1>3. First(M, 0) # 0 => First(M, 0) \in M
  <2> HIDE DEF M
  <2> QED
    BY <1>1, FirstIs
<1> QED
  BY <1>1, <1>2, <1>3

LEMMA EditedStep ==
    ASSUME DocumentConstants, DescTyped, NEW n, NEW m, FindStep(desc, n, m) # 0
    PROVE  LET at == FindStep(desc, n, m) IN
           /\ [desc EXCEPT ![at].k = "done"] \in Seq(Line)
           /\ [desc EXCEPT ![at].v = 1] \in Seq(Line)
<1> DEFINE at == FindStep(desc, n, m)
<1> USE DEF DescTyped
<1>1. at \in InPlan(desc, Step)
  BY FoundStep
<1>2. at \in 1..Len(desc) /\ desc[at].k \in Step
  BY <1>1, PlacesAreLines DEF InPlan, Real
<1> HIDE DEF at
<1>3. desc[at] \in Line
  BY <1>2
<1>4. [desc[at] EXCEPT !.k = "done"] \in Line /\ [desc[at] EXCEPT !.v = 1] \in Line
  BY <1>2, <1>3, LinesAreMade
<1>5. /\ [desc EXCEPT ![at] = [desc[at] EXCEPT !.k = "done"]] \in Seq(Line)
      /\ [desc EXCEPT ![at] = [desc[at] EXCEPT !.v = 1]] \in Seq(Line)
  BY <1>2, <1>4, ExceptSeq
<1>6. /\ [desc EXCEPT ![at].k = "done"] = [desc EXCEPT ![at] = [desc[at] EXCEPT !.k = "done"]]
      /\ [desc EXCEPT ![at].v = 1] = [desc EXCEPT ![at] = [desc[at] EXCEPT !.v = 1]]
  OBVIOUS
<1> QED
  BY <1>5, <1>6 DEF at

LEMMA DescTypedNext ==
    ASSUME DocumentConstants, DescTyped, [DescNext]_descVars
    PROVE  DescTyped'
<1>1. CASE UNCHANGED descVars
  BY <1>1 DEF DescTyped, descVars
<1>2. ASSUME NEW a \in Anchor, NEW p \in Payload, NEW create \in BOOLEAN,
             EditSection(a, p, create) \/ AppendSection(a, p, create)
      PROVE  DescTyped'
  <2>1. Sanitized(p, a) \in Seq(Line)
    BY SanitizedType DEF DocumentConstants
  <2>2. /\ Canonical(ReplaceSection(desc, a, Sanitized(p, a))) \in Seq(Line)
        /\ Canonical(AppendTo(desc, a, Sanitized(p, a))) \in Seq(Line)
    BY <2>1, ReplaceType, AppendType, CanonicalType DEF DescTyped
  <2>3. \/ desc' = Canonical(ReplaceSection(desc, a, Sanitized(p, a)))
        \/ desc' = Canonical(AppendTo(desc, a, Sanitized(p, a)))
    BY <1>2 DEF EditSection, AppendSection, Wrote
  <2> QED
    BY <2>2, <2>3 DEF DescTyped
<1>3. ASSUME NEW e \in Entry, Log(e) PROVE DescTyped'
  <2>1. "Activity Log" \in Anchor
    BY DEF DocumentConstants
  <2>2. <<Logged(e)>> \in Seq(Line)
    BY LinesAreMade
  <2>3. AppendTo(desc, "Activity Log", <<Logged(e)>>) \in Seq(Line)
    BY <2>1, <2>2, AppendType DEF DescTyped
  <2>4. desc' = AppendTo(desc, "Activity Log", <<Logged(e)>>)
    BY <1>3 DEF Log, Wrote
  <2> QED
    BY <2>3, <2>4 DEF DescTyped
<1>4. ASSUME NEW n \in Tasks, NEW m \in 1..MaxStep, Tick(n, m) \/ Promote(n, m)
      PROVE  DescTyped'
  <2> DEFINE at == FindStep(desc, Resolved(desc, n), m)
  <2>1. /\ at # 0
        /\ desc' = [desc EXCEPT ![at].k = "done"] \/ desc' = [desc EXCEPT ![at].v = 1]
    BY <1>4 DEF Tick, Promote, Wrote
  <2>2. /\ [desc EXCEPT ![at].k = "done"] \in Seq(Line)
        /\ [desc EXCEPT ![at].v = 1] \in Seq(Line)
    BY <2>1, EditedStep
  <2> QED
    BY <2>1, <2>2 DEF DescTyped
<1> QED
  BY <1>1, <1>2, <1>3, <1>4 DEF DescNext

\* Theorem: of whatever description, and after any sequence of edits, appends, logs, ticks
\* and promotions, what lint passes has steps that can all be ticked and entries that are
\* all read, and without code blocks its progress counts just these steps (sections.rs).
THEOREM CleanDocumentsTick == DescSpec => []LintMeansTickable
<1>1. DescInit => DescTyped
  BY DocumentAssumption, DescTypedInit
<1>2. DescTyped /\ [DescNext]_descVars => DescTyped'
  BY DocumentAssumption, DescTypedNext
<1>3. DescTyped => LintMeansTickable
  BY DocumentAssumption, CleanIsTickable DEF DescTyped
<1> QED
  BY <1>1, <1>2, <1>3, PTL DEF DescSpec

-----------------------------------------------------------------------------
(***************************************************************************)
(* Fences: what a line is depends on the fences before it, one by one.     *)
(***************************************************************************)
LEMMA FencedFirst == ASSUME NEW d PROVE ~Fenced(d, 1)
<1>1. {j \in 1..(1 - 1) : d[j].k = "fence"} = {}
  OBVIOUS
<1>2. Cardinality({}) % 2 # 1
  BY FS_EmptySet
<1> QED
  BY <1>1, <1>2 DEF Fenced

LEMMA FencedStep ==
    ASSUME NEW d \in Seq(Line), NEW i \in 1..Len(d)
    PROVE  Fenced(d, i + 1) <=> IF d[i].k = "fence" THEN ~Fenced(d, i) ELSE Fenced(d, i)
<1> DEFINE F == {j \in 1..(i - 1) : d[j].k = "fence"}
           G == {j \in 1..i : d[j].k = "fence"}
           c == Cardinality(F)
<1>1. Len(d) \in Nat /\ i \in Nat /\ i - 1 \in Nat /\ (i + 1) - 1 = i
  OBVIOUS
<1>2. G = IF d[i].k = "fence" THEN F \cup {i} ELSE F
  BY <1>1
<1>3. IsFiniteSet(F) /\ c \in Nat
  <2>1. IsFiniteSet(1..(i - 1))
    BY <1>1, FS_Interval
  <2>2. IsFiniteSet(F)
    BY <2>1, FS_Subset
  <2> QED
    BY <2>2, FS_CardinalityType
<1>4. Cardinality(G) = IF d[i].k = "fence" THEN c + 1 ELSE c
  <2>1. i \notin F
    BY <1>1
  <2>2. Cardinality(F \cup {i}) = c + 1
    <3> HIDE DEF F
    <3> QED
      BY <1>3, <2>1, FS_AddElement
  <2> QED
    BY <1>2, <2>2
<1>5. (c + 1) % 2 = 1 <=> ~(c % 2 = 1)
  <2> HIDE DEF c
  <2> QED
    BY <1>3
<1>6. Fenced(d, i) <=> c % 2 = 1
  BY DEF Fenced
<1>7. Fenced(d, i + 1) <=> Cardinality(G) % 2 = 1
  BY <1>1 DEF Fenced
<1> HIDE DEF F, G, c
<1> QED
  BY <1>4, <1>5, <1>6, <1>7

\* Two stretches of lines that agree on where fences are, and on whether the first line is
\* in a block, agree on every line.
LEMMA SameFences ==
    ASSUME NEW d \in Seq(Line), NEW e \in Seq(Line), NEW n \in Nat,
           NEW h \in Nat, NEW g \in Nat, h + n <= Len(d), g + n <= Len(e),
           Fenced(d, h + 1) <=> Fenced(e, g + 1),
           \A i \in 1..n : d[h + i].k = "fence" <=> e[g + i].k = "fence"
    PROVE  \A i \in 1..(n + 1) : Fenced(d, h + i) <=> Fenced(e, g + i)
<1> DEFINE P(i) == Fenced(d, h + i) <=> Fenced(e, g + i)
           B == {i \in 1..(n + 1) : ~P(i)}
<1> SUFFICES ASSUME B # {} PROVE FALSE
  OBVIOUS
<1> DEFINE m == Min(B)
<1>1. m \in B /\ \A y \in B : m <= y
  <2>1. B \in SUBSET Nat
    OBVIOUS
  <2> HIDE DEF B
  <2> QED
    BY <2>1, MinIs
<1>2. m \in 1..(n + 1) /\ ~P(m)
  BY <1>1
<1>3. \A i \in 1..(n + 1) : i < m => P(i)
  <2> SUFFICES ASSUME NEW i \in 1..(n + 1), i < m, ~P(i) PROVE FALSE
    OBVIOUS
  <2>1. i \in B
    OBVIOUS
  <2>2. m <= i /\ i \in Nat /\ m \in Nat
    BY <1>1, <1>2, <2>1
  <2> HIDE DEF m
  <2> QED
    BY <2>2
<1> HIDE DEF B, m
<1>4. Len(d) \in Nat /\ Len(e) \in Nat
  OBVIOUS
<1>5. CASE m = 1
  BY <1>2, <1>5
<1>6. CASE m # 1
  <2> DEFINE i == m - 1
  <2>1. i \in 1..n /\ i \in 1..(n + 1) /\ i < m /\ i + 1 = m
    <3>1. m \in 1..(n + 1)
      BY <1>2
    <3> HIDE DEF P
    <3>2. m \in Nat /\ 1 < m /\ m <= n + 1
      BY <1>6, <3>1
    <3> QED
      BY <3>2
  <2> HIDE DEF i
  <2>2. P(i)
    BY <1>3, <2>1
  <2>3. h + i \in 1..Len(d) /\ g + i \in 1..Len(e)
    BY <1>4, <2>1
  <2>4. h + m = (h + i) + 1 /\ g + m = (g + i) + 1
    BY <2>1
  <2>5. /\ Fenced(d, h + m) <=> IF d[h + i].k = "fence" THEN ~Fenced(d, h + i) ELSE Fenced(d, h + i)
        /\ Fenced(e, g + m) <=> IF e[g + i].k = "fence" THEN ~Fenced(e, g + i) ELSE Fenced(e, g + i)
    BY <2>3, <2>4, FencedStep
  <2> QED
    BY <1>2, <2>1, <2>2, <2>5
<1> QED
  BY <1>5, <1>6

\* The same from the first line on.
LEMMA SameBeginning ==
    ASSUME NEW d \in Seq(Line), NEW e \in Seq(Line), NEW n \in Nat, n <= Len(d), n <= Len(e),
           \A i \in 1..n : d[i].k = "fence" <=> e[i].k = "fence"
    PROVE  /\ \A i \in 1..(n + 1) : Fenced(d, i) <=> Fenced(e, i)
           /\ \A kinds : \A i \in 1..n :
                (d[i].k \in kinds <=> e[i].k \in kinds)
                    => (i \in Real(d, kinds) <=> i \in Real(e, kinds))
<1>1. \A i \in 1..(n + 1) : Fenced(d, 0 + i) <=> Fenced(e, 0 + i)
  <2>1. ~Fenced(d, 0 + 1) /\ ~Fenced(e, 0 + 1)
    BY FencedFirst
  <2>2. \A i \in 1..n : d[0 + i].k = "fence" <=> e[0 + i].k = "fence"
    OBVIOUS
  <2>3. 0 + n <= Len(d) /\ 0 + n <= Len(e) /\ 0 \in Nat
    OBVIOUS
  <2> QED
    BY <2>1, <2>2, <2>3, SameFences
<1>2. \A i \in 1..(n + 1) : Fenced(d, i) <=> Fenced(e, i)
  <2> TAKE i \in 1..(n + 1)
  <2>1. 0 + i = i
    OBVIOUS
  <2> QED
    BY <1>1, <2>1
<1>3. ASSUME NEW kinds, NEW i \in 1..n, d[i].k \in kinds <=> e[i].k \in kinds
      PROVE  i \in Real(d, kinds) <=> i \in Real(e, kinds)
  <2>1. i \in DOMAIN d /\ i \in DOMAIN e /\ i \in 1..(n + 1)
    OBVIOUS
  <2> QED
    BY <1>2, <1>3, <2>1 DEF Real
<1> QED
  BY <1>2, <1>3

-----------------------------------------------------------------------------
(***************************************************************************)
(* Sections.                                                               *)
(***************************************************************************)
\* A section runs from the first heading of its name up to the next heading of any name.
LEMMA Sections ==
    ASSUME NEW d \in Seq(Line), NEW a
    PROVE  /\ \A i \in Real(d, {"h2"}) : d[i].v = a => Has(d, a) /\ Heading(d, a) <= i
           /\ \A i \in Real(d, {"h2"}) :
                  i > Heading(d, a) => EndOf(d, Heading(d, a)) <= i
           /\ \/ EndOf(d, Heading(d, a)) = Len(d) + 1
              \/ EndOf(d, Heading(d, a)) \in Real(d, {"h2"})
<1> DEFINE H == {i \in Real(d, {"h2"}) : d[i].v = a}
           h == Heading(d, a)
           E == {i \in Real(d, {"h2"}) : i > h}
           none == Len(d) + 1
<1>1. Real(d, {"h2"}) \subseteq 1..Len(d) /\ Len(d) \in Nat
  BY PlacesAreLines
<1>2. H \in SUBSET Nat /\ E \in SUBSET Nat
  BY <1>1
<1>3. h = First(H, 0) /\ EndOf(d, h) = First(E, none)
  BY DEF Heading, EndOf
<1>4. H # {} => First(H, 0) \in H /\ \A y \in H : First(H, 0) <= y
  <2> HIDE DEF H
  <2> QED
    BY <1>2, FirstIs
<1>5. /\ E # {} => First(E, none) \in E /\ \A y \in E : First(E, none) <= y
      /\ E = {} => First(E, none) = none
  <2> HIDE DEF E, none
  <2> QED
    BY <1>2, FirstIs
<1>6. ASSUME NEW i \in Real(d, {"h2"}), d[i].v = a PROVE Has(d, a) /\ h <= i
  <2>1. i \in H
    BY <1>6
  <2>2. h \in H /\ h <= i
    BY <1>3, <1>4, <2>1
  <2>3. h # 0
    BY <1>1, <2>2
  <2> QED
    BY <2>2, <2>3 DEF Has
<1>7. ASSUME NEW i \in Real(d, {"h2"}), i > h PROVE EndOf(d, h) <= i
  <2>1. i \in E
    BY <1>7
  <2> QED
    BY <1>3, <1>5, <2>1
<1>8. EndOf(d, h) = none \/ EndOf(d, h) \in Real(d, {"h2"})
  BY <1>3, <1>5
<1> QED
  BY <1>6, <1>7, <1>8

\* Two sections have no line in common.
LEMMA SectionsApart ==
    ASSUME NEW d \in Seq(Line), NEW a, NEW b, a # b, NEW i \in Lines(d, a)
    PROVE  i \notin Lines(d, b)
<1> SUFFICES ASSUME i \in Lines(d, b) PROVE FALSE
  OBVIOUS
<1> DEFINE h == Heading(d, a)
           g == Heading(d, b)
           he == EndOf(d, Heading(d, a))
           ge == EndOf(d, Heading(d, b))
<1>1. /\ h \in Real(d, {"h2"}) /\ d[h].v = a /\ h \in 0..Len(d)
      /\ he \in (h + 1)..(Len(d) + 1) /\ Len(d) \in Nat
  BY PlacesAreLines DEF Lines
<1>2. /\ g \in Real(d, {"h2"}) /\ d[g].v = b /\ g \in 0..Len(d)
      /\ ge \in (g + 1)..(Len(d) + 1)
  BY PlacesAreLines DEF Lines
<1>3. i \in (h + 1)..(he - 1) /\ i \in (g + 1)..(ge - 1)
  BY DEF Lines
<1>4. g > h => he <= g
  BY <1>2, Sections
<1>5. h > g => ge <= h
  BY <1>1, Sections
<1>6. h # g
  BY <1>1, <1>2
<1> HIDE DEF h, g, he, ge
<1> QED
  BY <1>1, <1>2, <1>3, <1>4, <1>5, <1>6

LEMMA BodyIs ==
    ASSUME NEW d \in Seq(Line), NEW a
    PROVE  /\ Body(d, a) \in Seq(Line)
           /\ Len(Body(d, a)) = EndOf(d, Heading(d, a)) - Heading(d, a) - 1
           /\ \A j \in 1..Len(Body(d, a)) : Body(d, a)[j] = d[Heading(d, a) + j]
<1> DEFINE h == Heading(d, a)
           e == EndOf(d, Heading(d, a))
<1>1. Len(d) \in Nat /\ h \in 0..Len(d) /\ e \in (h + 1)..(Len(d) + 1)
  BY PlacesAreLines
<1>2. Body(d, a) = SubSeq(d, h + 1, e - 1)
  BY DEF Body
<1> HIDE DEF h, e
<1>3. h + 1 \in Int /\ e - 1 \in Int /\ \A i \in (h + 1)..(e - 1) : d[i] \in Line
  BY <1>1
<1>4. /\ SubSeq(d, h + 1, e - 1) \in Seq(Line)
      /\ Len(SubSeq(d, h + 1, e - 1)) = IF h + 1 <= e - 1 THEN (e - 1) - (h + 1) + 1 ELSE 0
      /\ \A j \in 1..((e - 1) - (h + 1) + 1) : SubSeq(d, h + 1, e - 1)[j] = d[(h + 1) + j - 1]
  BY <1>3, SubSeqProperties
<1>5. Len(SubSeq(d, h + 1, e - 1)) = e - h - 1 /\ (e - 1) - (h + 1) + 1 = e - h - 1
  BY <1>1, <1>4
<1>6. ASSUME NEW j \in 1..(e - h - 1) PROVE SubSeq(d, h + 1, e - 1)[j] = d[h + j]
  <2>1. (h + 1) + j - 1 = h + j
    BY <1>1
  <2> QED
    BY <1>4, <1>5, <2>1
<1> QED
  BY <1>2, <1>4, <1>5, <1>6 DEF h, e

-----------------------------------------------------------------------------
(***************************************************************************)
(* One line more or less: Shift is where the lines go when k lines come in *)
(* at m.                                                                   *)
(***************************************************************************)
Shift(i, m, k) == IF i < m THEN i ELSE i + k

Relocated(S, T, m, k) == \A j : j \in T <=> \E i \in S : j = Shift(i, m, k)

LEMMA FirstShift ==
    ASSUME NEW S \in SUBSET Nat, NEW m \in Nat, NEW k \in Nat, NEW none, NEW gone,
           NEW T, Relocated(S, T, m, k)
    PROVE  /\ S = {} => First(S, none) = none /\ First(T, gone) = gone
           /\ S # {} => /\ First(S, none) \in S
                        /\ First(T, gone) = Shift(First(S, none), m, k)
<1> DEFINE x == First(S, none)
<1>1. ASSUME NEW i \in Nat, NEW j \in Nat, i <= j
      PROVE  Shift(i, m, k) \in Nat /\ Shift(i, m, k) <= Shift(j, m, k)
  BY <1>1 DEF Shift
<1>2. T \in SUBSET Nat
  BY <1>1 DEF Relocated
<1>3. CASE S = {}
  BY <1>3 DEF First, Relocated
<1>4. CASE S # {}
  <2>1. x \in S /\ \A y \in S : x <= y
    BY <1>4, FirstIs
  <2>2. Shift(x, m, k) \in T
    BY <2>1 DEF Relocated
  <2>3. ASSUME NEW u \in T PROVE Shift(x, m, k) <= u
    <3>1. PICK j \in S : u = Shift(j, m, k)
      BY DEF Relocated
    <3> QED
      BY <1>1, <2>1, <3>1
  <2>4. First(T, gone) = Shift(x, m, k)
    <3> DEFINE w == Shift(x, m, k)
    <3>1. w \in T /\ \A u \in T : w <= u
      BY <2>2, <2>3
    <3> HIDE DEF w, x
    <3>2. First(T, gone) = w
      BY <1>2, <3>1, FirstIs
    <3> QED
      BY <3>2 DEF w
  <2> QED
    BY <1>4, <2>1, <2>4
<1> QED
  BY <1>3, <1>4

\* When only the line m is another, or a line has come in there, and no heading with it,
\* every section that does not have the line m stays where and as it was.
LEMMA Elsewhere ==
    ASSUME NEW d \in Seq(Line), NEW e \in Seq(Line), NEW m \in 1..Len(d), NEW k \in {0, 1},
           Len(e) = Len(d) + k,
           \A i \in 1..Len(d) : i # m => e[Shift(i, m, k)] = d[i],
           m \notin Real(d, {"h2"}),
           Real(e, {"h2"}) = {Shift(i, m, k) : i \in Real(d, {"h2"})}
    PROVE  \A a : /\ Heading(e, a) = Shift(Heading(d, a), m, k)
                  /\ EndOf(e, Heading(e, a)) = Shift(EndOf(d, Heading(d, a)), m, k)
                  /\ Has(e, a) <=> Has(d, a)
                  /\ Has(d, a) /\ m \notin Lines(d, a) => Body(e, a) = Body(d, a)
<1> TAKE a
<1> DEFINE h == Heading(d, a)
           g == Heading(e, a)
           he == EndOf(d, h)
           ge == EndOf(e, g)
           RD == Real(d, {"h2"})
<1>1. /\ Len(d) \in Nat /\ h \in 0..Len(d) /\ he \in (h + 1)..(Len(d) + 1)
      /\ RD \subseteq 1..Len(d) /\ m \in Nat /\ k \in Nat
  <2>1. Len(d) \in Nat /\ h \in 0..Len(d) /\ he \in (h + 1)..(Len(d) + 1) /\ RD \subseteq 1..Len(d)
    BY PlacesAreLines
  <2> QED
    BY <2>1
<1>2. g = Shift(h, m, k)
  <2> DEFINE S == {i \in RD : d[i].v = a}
             T == {j \in Real(e, {"h2"}) : e[j].v = a}
  <2>1. h = First(S, 0) /\ g = First(T, 0)
    BY DEF Heading
  <2>2. \A i \in RD : e[Shift(i, m, k)] = d[i]
    BY <1>1
  <2>3. Relocated(S, T, m, k)
    BY <2>2 DEF Relocated
  <2>4. S \in SUBSET Nat
    BY <1>1
  <2>5. /\ S = {} => First(S, 0) = 0 /\ First(T, 0) = 0
        /\ S # {} => First(T, 0) = Shift(First(S, 0), m, k)
    <3> HIDE DEF S, T
    <3> QED
      BY <1>1, <2>3, <2>4, FirstShift
  <2>6. Shift(0, m, k) = 0
    BY DEF Shift
  <2> QED
    BY <2>1, <2>5, <2>6
<1>3. ge = Shift(he, m, k)
  <2> DEFINE S == {i \in RD : i > h}
             T == {j \in Real(e, {"h2"}) : j > g}
             none == Len(d) + 1
             gone == Len(e) + 1
  <2>1. he = First(S, none) /\ ge = First(T, gone)
    BY DEF EndOf
  <2>2. ASSUME NEW i \in RD PROVE Shift(i, m, k) > Shift(h, m, k) <=> i > h
    <3> HIDE DEF RD, h
    <3>1. i \in Nat /\ h \in Nat
      BY <1>1
    <3> QED
      BY <1>1, <3>1 DEF Shift
  <2>3. Relocated(S, T, m, k)
    BY <1>2, <2>2 DEF Relocated
  <2>4. S \in SUBSET Nat
    BY <1>1
  <2>5. /\ S = {} => First(S, none) = none /\ First(T, gone) = gone
        /\ S # {} => First(T, gone) = Shift(First(S, none), m, k)
    <3> HIDE DEF S, T, none, gone
    <3> QED
      BY <1>1, <2>3, <2>4, FirstShift
  <2>6. Shift(none, m, k) = gone
    <3>1. ~(Len(d) + 1 < m) /\ Len(d) + 1 + k = Len(e) + 1
      BY <1>1
    <3> QED
      BY <3>1 DEF Shift
  <2> HIDE DEF S, T, none, gone, he, ge
  <2> QED
    BY <2>1, <2>5, <2>6
<1>4. g # 0 <=> h # 0
  <2> HIDE DEF h, g
  <2> QED
    BY <1>1, <1>2 DEF Shift
<1>5. ASSUME h # 0, m \notin Lines(d, a) PROVE Body(e, a) = Body(d, a)
  <2>1. Has(d, a) /\ Has(e, a) /\ h \in RD
    BY <1>4, <1>5, PlacesAreLines DEF Has
  <2>2. m < h \/ m >= he
    <3>1. m \notin (h + 1)..(he - 1)
      BY <1>5, <2>1 DEF Lines
    <3>2. m # h
      BY <2>1
    <3> HIDE DEF h, he
    <3> QED
      BY <1>1, <3>1, <3>2
  <2>3. /\ Body(d, a) \in Seq(Line) /\ Len(Body(d, a)) = he - h - 1
        /\ \A j \in 1..Len(Body(d, a)) : Body(d, a)[j] = d[h + j]
        /\ Body(e, a) \in Seq(Line) /\ Len(Body(e, a)) = ge - g - 1
        /\ \A j \in 1..Len(Body(e, a)) : Body(e, a)[j] = e[g + j]
    BY BodyIs
  <2>4. ge - g - 1 = he - h - 1
    <3>1. he # m
      <4>1. he = Len(d) + 1 \/ he \in RD
        BY Sections
      <4> QED
        BY <1>1, <4>1
    <3> HIDE DEF h, he, g, ge
    <3> QED
      BY <1>1, <1>2, <1>3, <2>2, <3>1 DEF Shift
  <2>5. ASSUME NEW j \in 1..(he - h - 1) PROVE e[g + j] = d[h + j]
    <3>1. h + j \in 1..Len(d) /\ h + j # m /\ g + j = Shift(h + j, m, k)
      <4> HIDE DEF h, he, g
      <4> QED
        BY <1>1, <1>2, <2>2 DEF Shift
    <3> QED
      BY <3>1
  <2>6. \A j \in 1..Len(Body(d, a)) : Body(e, a)[j] = Body(d, a)[j]
    <3> HIDE DEF h, he, g, ge
    <3> QED
      BY <2>3, <2>4, <2>5
  <2>7. Len(Body(e, a)) = Len(Body(d, a))
    BY <2>3, <2>4
  <2> QED
    BY <2>3, <2>6, <2>7, SeqEqual
<1> QED
  BY <1>2, <1>3, <1>4, <1>5 DEF Has

-----------------------------------------------------------------------------
(***************************************************************************)
(* A tick and a promotion.                                                 *)
(***************************************************************************)
\* Others: the sections but a that d has are in e too, as they are in d.
Others(d, e, a) == \A b : b # a /\ Has(d, b) => Has(e, b) /\ Body(e, b) = Body(d, b)
Flat(d) == TaskHeadings(d) = {} /\ InPlan(d, Step) # {}

LEMMA StepEdited ==
    ASSUME NEW d \in Seq(Line), NEW at \in InPlan(d, Step), NEW l \in Line, l.k \in Step,
           ~Flat(d)
    PROVE  LET e == [d EXCEPT ![at] = l] IN Others(d, e, "Plan") /\ ~Flat(e)
<1> DEFINE e == [d EXCEPT ![at] = l]
<1>1. Len(d) \in Nat /\ at \in 1..Len(d) /\ d[at].k \in Step /\ at \in Lines(d, "Plan")
  BY PlacesAreLines DEF InPlan, Real
<1>2. e \in Seq(Line) /\ Len(e) = Len(d) /\ \A i \in 1..Len(d) : e[i] = IF i = at THEN l ELSE d[i]
  BY <1>1, ExceptSeq
<1> HIDE DEF e
<1>3. \A i \in 1..Len(d) : d[i].k = "fence" <=> e[i].k = "fence"
  BY <1>1, <1>2 DEF Step
<1>4. \A kinds : \A i \in 1..Len(d) :
          (d[i].k \in kinds <=> e[i].k \in kinds) => (i \in Real(d, kinds) <=> i \in Real(e, kinds))
  BY <1>1, <1>2, <1>3, SameBeginning
<1>5. Real(d, {"h2"}) \subseteq 1..Len(d) /\ Real(e, {"h2"}) \subseteq 1..Len(d)
  BY <1>2, PlacesAreLines
<1>6. Real(e, {"h2"}) = Real(d, {"h2"})
  <2>1. \A i \in 1..Len(d) : d[i].k \in {"h2"} <=> e[i].k \in {"h2"}
    BY <1>1, <1>2 DEF Step
  <2>2. \A i \in 1..Len(d) : i \in Real(d, {"h2"}) <=> i \in Real(e, {"h2"})
    BY <1>4, <2>1
  <2>3. Real(e, {"h2"}) \subseteq 1..Len(d)
    BY <1>2, <1>5
  <2> QED
    BY <1>5, <2>2, <2>3
<1>7. \A i : i \in 1..Len(d) \/ i = 0 \/ i = Len(d) + 1 => Shift(i, at, 0) = i
  BY <1>1 DEF Shift
<1>8. Real(e, {"h2"}) = {Shift(i, at, 0) : i \in Real(d, {"h2"})}
  BY <1>5, <1>6, <1>7
<1>9. at \notin Real(d, {"h2"})
  BY <1>1 DEF Real, Step
<1>10. \A a : /\ Heading(e, a) = Shift(Heading(d, a), at, 0)
              /\ EndOf(e, Heading(e, a)) = Shift(EndOf(d, Heading(d, a)), at, 0)
              /\ Has(e, a) <=> Has(d, a)
              /\ Has(d, a) /\ at \notin Lines(d, a) => Body(e, a) = Body(d, a)
  <2>1. Len(e) = Len(d) + 0
    BY <1>1, <1>2
  <2>2. \A i \in 1..Len(d) : i # at => e[Shift(i, at, 0)] = d[i]
    BY <1>2, <1>7
  <2> QED
    BY <1>1, <1>2, <1>8, <1>9, <2>1, <2>2, Elsewhere
<1>11. Others(d, e, "Plan")
  BY <1>1, <1>10, SectionsApart DEF Others
<1>12. Lines(e, "Plan") = Lines(d, "Plan")
  <2>1. /\ Heading(d, "Plan") \in 0..Len(d)
        /\ EndOf(d, Heading(d, "Plan")) \in (Heading(d, "Plan") + 1)..(Len(d) + 1)
    BY PlacesAreLines
  <2>2. Heading(e, "Plan") = Heading(d, "Plan")
    BY <1>1, <1>7, <1>10, <2>1
  <2>3. EndOf(e, Heading(e, "Plan")) = EndOf(d, Heading(d, "Plan"))
    <3>1. EndOf(d, Heading(d, "Plan")) \in 1..Len(d) \/ EndOf(d, Heading(d, "Plan")) = Len(d) + 1
      BY <1>1, <2>1
    <3> QED
      BY <1>7, <1>10, <3>1
  <2> QED
    BY <2>2, <2>3 DEF Lines, Has
<1>13. TaskHeadings(d) # {}
  BY DEF Flat
<1>14. TaskHeadings(d) \subseteq TaskHeadings(e)
  <2> SUFFICES ASSUME NEW i \in TaskHeadings(d) PROVE i \in TaskHeadings(e)
    OBVIOUS
  <2>1. i \in Real(d, {"h3"}) /\ i \in Lines(d, "Plan") /\ d[i].v # 0 /\ i \in 1..Len(d)
    BY PlacesAreLines DEF TaskHeadings, InPlan
  <2>2. i # at
    BY <1>1, <2>1 DEF Real, Step
  <2>3. i \in Real(e, {"h3"}) /\ e[i].v # 0
    BY <1>2, <1>4, <2>1, <2>2
  <2> QED
    BY <1>12, <2>1, <2>3 DEF TaskHeadings, InPlan
<1>15. ~Flat(e)
  BY <1>13, <1>14 DEF Flat
<1> QED
  BY <1>11, <1>15 DEF e

-----------------------------------------------------------------------------
(***************************************************************************)
(* A plan made canonical.                                                  *)
(***************************************************************************)
LEMMA MadeCanonical ==
    ASSUME DocumentConstants, NEW d \in Seq(Line)
    PROVE  Others(d, Canonical(d), "Plan") /\ ~Flat(Canonical(d))
<1>1. CASE ~Flat(d)
  BY <1>1 DEF Canonical, Flat, Others
<1>2. CASE Flat(d)
  <2> DEFINE S == InPlan(d, Step)
             m == Min(S)
             e == SubSeq(d, 1, m - 1) \o <<H3(1)>> \o SubSeq(d, m, Len(d))
             old == SubSeq(d, 1, m - 1)
             new == SubSeq(d, m, Len(d))
  <2>1. Canonical(d) = e
    BY <1>2 DEF Canonical, Flat
  <2>2. S \subseteq 1..Len(d) /\ Len(d) \in Nat /\ S # {}
    BY <1>2, PlacesAreLines DEF InPlan, Flat
  <2>3. m \in S
    <3>1. S \in SUBSET Nat
      BY <2>2
    <3> HIDE DEF S
    <3> QED
      BY <2>2, <3>1, MinIs
  <2>4. /\ m \in 1..Len(d) /\ m \in Real(d, Step) /\ m \in Lines(d, "Plan")
        /\ d[m].k \in Step /\ ~Fenced(d, m)
    BY <2>2, <2>3 DEF InPlan, Real
  <2> HIDE DEF S, m
  <2>5. m - 1 \in Nat /\ m - 1 <= Len(d) /\ m \in Nat \ {0} /\ m \in Int /\ Len(d) \in Int
    BY <2>2, <2>4
  <2>6. /\ old \in Seq(Line) /\ Len(old) = m - 1
        /\ \A i \in 1..(m - 1) : old[i] = d[i]
    <3>1. \A i \in 1..(m - 1) : d[i] \in Line
      BY <2>4
    <3>2. /\ SubSeq(d, 1, m - 1) \in Seq(Line)
          /\ Len(SubSeq(d, 1, m - 1)) = IF 1 <= m - 1 THEN (m - 1) - 1 + 1 ELSE 0
          /\ \A i \in 1..((m - 1) - 1 + 1) : SubSeq(d, 1, m - 1)[i] = d[1 + i - 1]
      BY <2>5, <3>1, SubSeqProperties
    <3>3. Len(old) = m - 1 /\ (m - 1) - 1 + 1 = m - 1
      BY <2>5, <3>2
    <3>4. ASSUME NEW i \in 1..(m - 1) PROVE old[i] = d[i]
      <4>1. 1 + i - 1 = i
        OBVIOUS
      <4> QED
        BY <3>2, <3>3, <4>1
    <3> QED
      BY <3>2, <3>3, <3>4
  <2>7. /\ new \in Seq(Line) /\ Len(new) = Len(d) - m + 1
        /\ \A i \in 1..(Len(d) - m + 1) : new[i] = d[m + i - 1]
    <3>1. \A i \in m..Len(d) : d[i] \in Line
      BY <2>4
    <3>2. /\ SubSeq(d, m, Len(d)) \in Seq(Line)
          /\ Len(SubSeq(d, m, Len(d))) = IF m <= Len(d) THEN Len(d) - m + 1 ELSE 0
          /\ \A i \in 1..(Len(d) - m + 1) : SubSeq(d, m, Len(d))[i] = d[m + i - 1]
      BY <2>5, <3>1, SubSeqProperties
    <3> QED
      BY <2>4, <3>2
  <2>8. <<H3(1)>> \in Seq(Line) /\ Len(<<H3(1)>>) = 1 /\ <<H3(1)>>[1] = H3(1)
    BY LinesAreMade
  <2> HIDE DEF old, new
  <2>9. /\ old \o <<H3(1)>> \in Seq(Line) /\ Len(old \o <<H3(1)>>) = m
        /\ \A i \in 1..m : (old \o <<H3(1)>>)[i] = IF i < m THEN d[i] ELSE H3(1)
    <3>1. /\ old \o <<H3(1)>> \in Seq(Line) /\ Len(old \o <<H3(1)>>) = (m - 1) + 1
          /\ \A i \in 1..((m - 1) + 1) : (old \o <<H3(1)>>)[i] =
                IF i <= m - 1 THEN old[i] ELSE <<H3(1)>>[i - (m - 1)]
      BY <2>6, <2>8, ConcatProperties
    <3>2. (m - 1) + 1 = m
      BY <2>5
    <3>3. ASSUME NEW i \in 1..m PROVE (old \o <<H3(1)>>)[i] = IF i < m THEN d[i] ELSE H3(1)
      <4>1. CASE i < m
        BY <2>5, <2>6, <3>1, <3>2, <4>1
      <4>2. CASE i = m
        <5>1. i - (m - 1) = 1 /\ ~(i <= m - 1) /\ ~(i < m) /\ i \in 1..((m - 1) + 1)
          BY <2>5, <4>2
        <5>2. (old \o <<H3(1)>>)[i] = <<H3(1)>>[1]
          BY <3>1, <5>1
        <5> QED
          BY <2>8, <5>1, <5>2
      <4>3. i < m \/ i = m
        BY <2>5
      <4> QED
        BY <4>1, <4>2, <4>3
    <3> QED
      BY <3>1, <3>2, <3>3
  <2>10. /\ e \in Seq(Line) /\ Len(e) = Len(d) + 1
         /\ \A i \in 1..(m - 1) : e[i] = d[i]
         /\ e[m] = H3(1)
         /\ \A i \in m..Len(d) : e[i + 1] = d[i]
    <3> DEFINE p == old \o <<H3(1)>>
    <3>1. e = p \o new
      BY DEF old, new
    <3> HIDE DEF p, e
    <3>2. p \in Seq(Line) /\ Len(p) = m /\ \A i \in 1..m : p[i] = IF i < m THEN d[i] ELSE H3(1)
      BY <2>9 DEF p
    <3>3. /\ e \in Seq(Line) /\ Len(e) = m + (Len(d) - m + 1)
          /\ \A i \in 1..(m + (Len(d) - m + 1)) : e[i] = IF i <= m THEN p[i] ELSE new[i - m]
      BY <2>7, <3>1, <3>2, ConcatProperties
    <3>4. m + (Len(d) - m + 1) = Len(d) + 1
      BY <2>5
    <3>5. ASSUME NEW i \in m..Len(d) PROVE e[i + 1] = d[i]
      <4>1. /\ i + 1 \in 1..(Len(d) + 1) /\ ~(i + 1 <= m) /\ (i + 1) - m \in 1..(Len(d) - m + 1)
            /\ m + ((i + 1) - m) - 1 = i
        BY <2>4, <2>5
      <4> QED
        BY <2>7, <3>3, <3>4, <4>1
    <3>6. ASSUME NEW i \in 1..(m - 1) PROVE e[i] = d[i]
      <4>1. i \in 1..(Len(d) + 1) /\ i <= m /\ i < m /\ i \in 1..m
        BY <2>4, <2>5
      <4> QED
        BY <3>2, <3>3, <3>4, <4>1
    <3>7. e[m] = H3(1)
      <4>1. m \in 1..(Len(d) + 1) /\ m <= m /\ ~(m < m) /\ m \in 1..m
        BY <2>4, <2>5
      <4> QED
        BY <3>2, <3>3, <3>4, <4>1
    <3> QED
      BY <3>3, <3>4, <3>5, <3>6, <3>7
  <2> HIDE DEF e
  <2>11. /\ \A i \in 1..m : Fenced(d, i) <=> Fenced(e, i)
         /\ \A i \in m..(Len(d) + 1) : Fenced(d, i) <=> Fenced(e, i + 1)
    <3>1. \A i \in 1..((m - 1) + 1) : Fenced(d, i) <=> Fenced(e, i)
      <4>1. m - 1 <= Len(e) /\ \A i \in 1..(m - 1) : d[i].k = "fence" <=> e[i].k = "fence"
        BY <2>4, <2>5, <2>10
      <4> QED
        BY <2>5, <2>10, <4>1, SameBeginning
    <3>2. (m - 1) + 1 = m
      BY <2>5
    <3>3. Fenced(e, m + 1) <=> Fenced(e, m)
      <4>1. m \in 1..Len(e) /\ e[m].k # "fence"
        BY <2>4, <2>5, <2>10 DEF H3
      <4> QED
        BY <2>10, <4>1, FencedStep
    <3>4. \A i \in 1..((Len(d) - m + 1) + 1) : Fenced(d, (m - 1) + i) <=> Fenced(e, m + i)
      <4> DEFINE n == Len(d) - m + 1
      <4>1. n \in Nat /\ (m - 1) + n <= Len(d) /\ m + n <= Len(e)
        BY <2>4, <2>5, <2>10
      <4>2. Fenced(d, (m - 1) + 1) <=> Fenced(e, m + 1)
        <5>1. m \in 1..m
          BY <2>5
        <5> QED
          BY <3>1, <3>2, <3>3, <5>1
      <4>3. ASSUME NEW i \in 1..n PROVE d[(m - 1) + i].k = "fence" <=> e[m + i].k = "fence"
        <5>1. (m - 1) + i \in m..Len(d) /\ ((m - 1) + i) + 1 = m + i
          BY <2>4, <2>5
        <5> QED
          BY <2>10, <5>1
      <4> HIDE DEF n
      <4>4. \A i \in 1..(n + 1) : Fenced(d, (m - 1) + i) <=> Fenced(e, m + i)
        BY <2>5, <2>10, <4>1, <4>2, <4>3, SameFences
      <4> QED
        BY <4>4 DEF n
    <3>5. ASSUME NEW i \in m..(Len(d) + 1) PROVE Fenced(d, i) <=> Fenced(e, i + 1)
      <4>1. /\ i - m + 1 \in 1..((Len(d) - m + 1) + 1)
            /\ (m - 1) + (i - m + 1) = i /\ m + (i - m + 1) = i + 1
        BY <2>4, <2>5
      <4> QED
        BY <3>4, <4>1
    <3> QED
      BY <3>1, <3>2, <3>5
  <2>12. \A i \in 1..Len(d) : e[Shift(i, m, 1)] = d[i]
    BY <2>4, <2>5, <2>10 DEF Shift
  <2>13. ASSUME NEW i \in 1..Len(d)
         PROVE  /\ Shift(i, m, 1) \in 1..Len(e)
                /\ Fenced(d, i) <=> Fenced(e, Shift(i, m, 1))
    BY <2>4, <2>5, <2>10, <2>11 DEF Shift
  <2>14. ASSUME NEW j \in 1..Len(e), j # m
         PROVE  \E i \in 1..Len(d) : j = Shift(i, m, 1)
    <3>1. CASE j < m
      <4>1. j \in 1..Len(d) /\ j = Shift(j, m, 1)
        BY <2>4, <2>5, <3>1 DEF Shift
      <4> QED
        BY <4>1
    <3>2. CASE j > m
      <4>1. j - 1 \in 1..Len(d) /\ j = Shift(j - 1, m, 1)
        BY <2>4, <2>5, <2>10, <3>2 DEF Shift
      <4> QED
        BY <4>1
    <3> QED
      BY <2>5, <2>14, <3>1, <3>2
  <2>15. m \notin Real(e, {"h2"})
    BY <2>10 DEF Real, H3
  <2>16. Real(e, {"h2"}) = {Shift(i, m, 1) : i \in Real(d, {"h2"})}
    <3>1. Real(e, {"h2"}) \subseteq 1..Len(e) /\ Real(d, {"h2"}) \subseteq 1..Len(d)
      BY <2>10, PlacesAreLines
    <3>2. DOMAIN d = 1..Len(d) /\ DOMAIN e = 1..Len(e)
      BY <2>10, PlacesAreLines
    <3>3. ASSUME NEW i \in 1..Len(d)
          PROVE  i \in Real(d, {"h2"}) <=> Shift(i, m, 1) \in Real(e, {"h2"})
      BY <2>12, <2>13, <3>2 DEF Real
    <3>4. ASSUME NEW j \in Real(e, {"h2"})
          PROVE  j \in {Shift(i, m, 1) : i \in Real(d, {"h2"})}
      <4>1. j \in 1..Len(e) /\ j # m
        BY <2>15, <3>1
      <4>2. PICK i \in 1..Len(d) : j = Shift(i, m, 1)
        BY <2>14, <4>1
      <4> QED
        BY <3>3, <4>2
    <3>5. ASSUME NEW i \in Real(d, {"h2"}) PROVE Shift(i, m, 1) \in Real(e, {"h2"})
      BY <3>1, <3>3
    <3> QED
      BY <3>4, <3>5
  <2>17. m \notin Real(d, {"h2"})
    BY <2>4 DEF Real, Step
  <2>18. \A a : /\ Heading(e, a) = Shift(Heading(d, a), m, 1)
                /\ EndOf(e, Heading(e, a)) = Shift(EndOf(d, Heading(d, a)), m, 1)
                /\ Has(e, a) <=> Has(d, a)
                /\ Has(d, a) /\ m \notin Lines(d, a) => Body(e, a) = Body(d, a)
    BY <2>4, <2>10, <2>12, <2>16, <2>17, Elsewhere
  <2>19. Others(d, e, "Plan")
    BY <2>4, <2>18, SectionsApart DEF Others
  <2>20. m \in TaskHeadings(e)
    <3>1. m \in Real(e, {"h3"}) /\ e[m].v # 0
      <4>1. m \in 1..m /\ m \in 1..Len(e)
        BY <2>4, <2>5, <2>10
      <4>2. ~Fenced(e, m)
        BY <2>4, <2>11, <4>1
      <4> QED
        BY <2>10, <4>1, <4>2 DEF Real, H3
    <3>2. m \in Lines(e, "Plan")
      <4> DEFINE h == Heading(d, "Plan")
                 he == EndOf(d, Heading(d, "Plan"))
      <4>1. h \in 0..Len(d) /\ he \in (h + 1)..(Len(d) + 1)
        BY PlacesAreLines
      <4>2. Has(d, "Plan") /\ m \in (h + 1)..(he - 1)
        BY <2>4 DEF Lines
      <4> HIDE DEF h, he
      <4>3. Shift(h, m, 1) = h /\ Shift(he, m, 1) = he + 1 /\ m \in (h + 1)..((he + 1) - 1)
        BY <2>4, <2>5, <4>1, <4>2 DEF Shift
      <4> QED
        BY <2>18, <4>2, <4>3 DEF Lines, h, he
    <3> QED
      BY <3>1, <3>2 DEF TaskHeadings, InPlan
  <2> QED
    BY <2>1, <2>19, <2>20 DEF Flat
<1> QED
  BY <1>1, <1>2

-----------------------------------------------------------------------------
(***************************************************************************)
(* Whoever keeps a section keeps what it says: its lines are in a code     *)
(* block or not as they were, because its heading is in none.              *)
(***************************************************************************)
LEMMA SameBody ==
    ASSUME NEW d \in Seq(Line), NEW e \in Seq(Line), NEW a,
           Has(d, a), Has(e, a), Body(d, a) = Body(e, a)
    PROVE  LET n == Len(Body(d, a))
               h == Heading(d, a)
               g == Heading(e, a)
           IN  /\ n \in Nat /\ h \in Nat /\ g \in Nat /\ h + n <= Len(d) /\ g + n <= Len(e)
               /\ Lines(d, a) = (h + 1)..(h + n) /\ Lines(e, a) = (g + 1)..(g + n)
               /\ \A j \in 1..n : d[h + j] = e[g + j]
               /\ \A kinds : \A j \in 1..n :
                     h + j \in Real(d, kinds) <=> g + j \in Real(e, kinds)
<1> DEFINE n == Len(Body(d, a))
           h == Heading(d, a)
           g == Heading(e, a)
           he == EndOf(d, Heading(d, a))
           ge == EndOf(e, Heading(e, a))
<1>1. /\ Len(d) \in Nat /\ h \in 0..Len(d) /\ he \in (h + 1)..(Len(d) + 1)
      /\ h \in Real(d, {"h2"}) /\ DOMAIN d = 1..Len(d)
  BY PlacesAreLines
<1>2. /\ Len(e) \in Nat /\ g \in 0..Len(e) /\ ge \in (g + 1)..(Len(e) + 1)
      /\ g \in Real(e, {"h2"}) /\ DOMAIN e = 1..Len(e)
  BY PlacesAreLines
<1>3. /\ n = he - h - 1 /\ \A j \in 1..n : Body(d, a)[j] = d[h + j]
      /\ n = ge - g - 1 /\ \A j \in 1..n : Body(d, a)[j] = e[g + j]
  BY BodyIs
<1>4. Lines(d, a) = (h + 1)..(he - 1) /\ Lines(e, a) = (g + 1)..(ge - 1)
  BY DEF Lines
<1>5. ~Fenced(d, h + 1) /\ ~Fenced(e, g + 1)
  <2>1. h \in 1..Len(d) /\ d[h].k = "h2" /\ ~Fenced(d, h)
    BY <1>1 DEF Real
  <2>2. g \in 1..Len(e) /\ e[g].k = "h2" /\ ~Fenced(e, g)
    BY <1>2 DEF Real
  <2> QED
    BY <2>1, <2>2, FencedStep
<1> HIDE DEF n, h, g, he, ge
<1>6. /\ n \in Nat /\ h \in Nat /\ g \in Nat /\ h + n <= Len(d) /\ g + n <= Len(e)
      /\ he - 1 = h + n /\ ge - 1 = g + n
  BY <1>1, <1>2, <1>3
<1>7. \A j \in 1..n : d[h + j] = e[g + j]
  BY <1>3
<1>8. \A j \in 1..(n + 1) : Fenced(d, h + j) <=> Fenced(e, g + j)
  <2>1. \A j \in 1..n : d[h + j].k = "fence" <=> e[g + j].k = "fence"
    BY <1>7
  <2> QED
    BY <1>5, <1>6, <2>1, SameFences
<1>9. ASSUME NEW kinds, NEW j \in 1..n
      PROVE  h + j \in Real(d, kinds) <=> g + j \in Real(e, kinds)
  <2>1. h + j \in 1..Len(d) /\ g + j \in 1..Len(e) /\ j \in 1..(n + 1)
    BY <1>1, <1>2, <1>6
  <2> QED
    BY <1>1, <1>2, <1>7, <1>8, <2>1 DEF Real
<1>10. Lines(d, a) = (h + 1)..(h + n) /\ Lines(e, a) = (g + 1)..(g + n)
  BY <1>4, <1>6
<1> QED
  BY <1>6, <1>7, <1>9, <1>10 DEF n, h, g

\* A plan that was kept is as canonical as it was.
LEMMA SamePlan ==
    ASSUME NEW d \in Seq(Line), NEW e \in Seq(Line), ~Flat(d),
           Has(d, "Plan"), Has(e, "Plan"), Body(d, "Plan") = Body(e, "Plan")
    PROVE  ~Flat(e)
<1> DEFINE n == Len(Body(d, "Plan"))
           h == Heading(d, "Plan")
           g == Heading(e, "Plan")
<1>1. /\ n \in Nat /\ h \in Nat /\ g \in Nat /\ h + n <= Len(d) /\ g + n <= Len(e)
      /\ Lines(d, "Plan") = (h + 1)..(h + n) /\ Lines(e, "Plan") = (g + 1)..(g + n)
      /\ \A j \in 1..n : d[h + j] = e[g + j]
      /\ \A kinds : \A j \in 1..n :
            h + j \in Real(d, kinds) <=> g + j \in Real(e, kinds)
  BY SameBody
<1> HIDE DEF n, h, g
<1> SUFFICES ASSUME NEW s \in InPlan(e, Step) PROVE TaskHeadings(e) # {}
  BY DEF Flat
<1>2. s \in (g + 1)..(g + n) /\ s \in Real(e, Step)
  BY <1>1 DEF InPlan
<1>3. s - g \in 1..n /\ g + (s - g) = s
  BY <1>1, <1>2
<1>4. h + (s - g) \in Real(d, Step) /\ h + (s - g) \in (h + 1)..(h + n)
  <2>1. h + (s - g) \in (h + 1)..(h + n)
    BY <1>1, <1>2, <1>3
  <2> QED
    BY <1>1, <1>2, <1>3, <2>1
<1>5. PICK t \in TaskHeadings(d) : TRUE
  BY <1>1, <1>4 DEF Flat, InPlan
<1>6. t \in Real(d, {"h3"}) /\ t \in (h + 1)..(h + n) /\ d[t].v # 0
  BY <1>1 DEF TaskHeadings, InPlan
<1>7. t - h \in 1..n /\ h + (t - h) = t /\ g + (t - h) \in (g + 1)..(g + n)
  BY <1>1, <1>6
<1>8. g + (t - h) \in Real(e, {"h3"}) /\ e[g + (t - h)].v # 0
  BY <1>1, <1>6, <1>7
<1>9. g + (t - h) \in TaskHeadings(e)
  BY <1>1, <1>7, <1>8 DEF TaskHeadings, InPlan
<1> QED
  BY <1>9

\* What check_section_structure lets through, made canonical, has kept the other sections.
LEMMA EditKeeps ==
    ASSUME DocumentConstants, NEW d \in Seq(Line), NEW new \in Seq(Line), NEW a, NEW create,
           ~Flat(d), StructureKept(d, new, a, create),
           NEW b \in Anchor \ {a}, Has(d, b)
    PROVE  Has(Canonical(new), b) /\ Body(Canonical(new), b) = Body(d, b)
<1>1. Has(new, b) /\ Body(d, b) = Body(new, b)
  BY DEF StructureKept
<1>2. CASE b # "Plan"
  BY <1>1, <1>2, MadeCanonical DEF Others
<1>3. CASE b = "Plan"
  <2>1. ~Flat(new)
    BY <1>1, <1>3, SamePlan
  <2>2. Canonical(new) = new
    BY <2>1 DEF Canonical, Flat
  <2> QED
    BY <1>1, <2>2
<1> QED
  BY <1>2, <1>3

LEMMA LinesAreFinite ==
    ASSUME NEW d \in Seq(Line), NEW S \in SUBSET (1..Len(d))
    PROVE  IsFiniteSet(S)
<1>1. Len(d) \in Int /\ 1 \in Int
  OBVIOUS
<1>2. IsFiniteSet(1..Len(d))
  BY <1>1, FS_Interval
<1> QED
  BY <1>2, FS_Subset

\* And it has no plan that was not there.
LEMMA LogKeeps ==
    ASSUME DocumentConstants, NEW d \in Seq(Line), NEW new \in Seq(Line), NEW create,
           ~Flat(d), StructureKept(d, new, "Activity Log", create)
    PROVE  ~Flat(new)
<1>1. "Plan" \in Anchor \ {"Activity Log"}
  BY DEF DocumentConstants
<1>2. CASE Has(d, "Plan")
  <2>1. Has(new, "Plan") /\ Body(d, "Plan") = Body(new, "Plan")
    BY <1>1, <1>2 DEF StructureKept
  <2> QED
    BY <1>2, <2>1, SamePlan
<1>3. CASE ~Has(d, "Plan")
  <2> DEFINE P(x) == {i \in Real(x, {"h2"}) : x[i].v = "Plan"}
  <2>1. P(d) = {}
    BY <1>3, Sections
  <2>2. Cardinality(P(new)) = Cardinality(P(d))
    <3>1. "Plan" # "Activity Log" /\ "Plan" \in Anchor
      BY <1>1
    <3>2. \A x \in Anchor :
            Cardinality({i \in Real(new, {"h2"}) : new[i].v = x})
              = IF x = "Activity Log" /\ create /\ ~Has(d, "Activity Log") THEN 1
                ELSE Cardinality({i \in Real(d, {"h2"}) : d[i].v = x})
      BY DEF StructureKept
    <3> QED
      BY <3>1, <3>2
  <2>3. IsFiniteSet(P(new))
    <3>1. Real(new, {"h2"}) \subseteq 1..Len(new)
      BY PlacesAreLines
    <3>2. P(new) \in SUBSET (1..Len(new))
      BY <3>1
    <3> HIDE DEF P
    <3> QED
      BY <3>2, LinesAreFinite
  <2>4. P(new) = {}
    <3>1. Cardinality(P(new)) = 0
      BY <2>1, <2>2, FS_EmptySet
    <3> HIDE DEF P
    <3> QED
      BY <2>3, <3>1, FS_EmptySet
  <2>5. ~Has(new, "Plan")
    BY <2>4, PlacesAreLines
  <2> QED
    BY <2>5 DEF Flat, InPlan, Lines
<1> QED
  BY <1>2, <1>3

-----------------------------------------------------------------------------
(***************************************************************************)
(* The inductive invariant: a sequence of lines whose plan is canonical.   *)
(***************************************************************************)
DescInv == DescTyped /\ ~Flat(desc)

LEMMA DescInvInit ==
    ASSUME DocumentConstants, DescInit
    PROVE  DescInv
<1>1. PICK d \in Docs : desc = Canonical(d)
  BY DEF DescInit
<1>2. PICK n \in 0..MaxLines : d \in [1..n -> Line]
  BY <1>1 DEF Docs
<1>3. MaxLines \in Nat
  BY DEF DocumentConstants
<1>4. d \in Seq(Line)
  BY <1>2, <1>3, SeqDef
<1> QED
  BY <1>1, <1>4, MadeCanonical, DescTypedInit DEF DescInv

\* Each command keeps the sections it was not asked to write, and a plan canonical.
LEMMA EditStep ==
    ASSUME DocumentConstants, DescInv,
           NEW a \in Anchor, NEW p \in Payload, NEW create \in BOOLEAN,
           EditSection(a, p, create) \/ AppendSection(a, p, create)
    PROVE  /\ ~Flat(desc')
           /\ a # "Activity Log" /\ wrote' = a
           /\ \A b \in Anchor \ {a} :
                  Has(desc, b) => Has(desc', b) /\ Body(desc', b) = Body(desc, b)
<1>1. Sanitized(p, a) \in Seq(Line)
  BY SanitizedType DEF DocumentConstants
<1>2. PICK new \in Seq(Line) : StructureKept(desc, new, a, create) /\ desc' = Canonical(new)
  <2>1. /\ ReplaceSection(desc, a, Sanitized(p, a)) \in Seq(Line)
        /\ AppendTo(desc, a, Sanitized(p, a)) \in Seq(Line)
    BY <1>1, ReplaceType, AppendType DEF DescInv, DescTyped
  <2> QED
    BY <2>1 DEF EditSection, AppendSection, Wrote
<1>3. ~Flat(desc')
  BY <1>2, MadeCanonical
<1>4. a # "Activity Log" /\ wrote' = a
  BY DEF EditSection, AppendSection, Wrote
<1>5. ASSUME NEW b \in Anchor \ {a}, Has(desc, b)
      PROVE  Has(desc', b) /\ Body(desc', b) = Body(desc, b)
  BY <1>2, <1>5, EditKeeps DEF DescInv, DescTyped
<1> QED
  BY <1>3, <1>4, <1>5

LEMMA LogStep ==
    ASSUME DocumentConstants, DescInv, NEW e \in Entry, Log(e)
    PROVE  /\ ~Flat(desc')
           /\ wrote' = "Activity Log"
           /\ desc' = AppendTo(desc, "Activity Log", <<Logged(e)>>)
           /\ \A b \in Anchor \ {"Activity Log"} :
                  Has(desc, b) => Has(desc', b) /\ Body(desc', b) = Body(desc, b)
<1> DEFINE new == AppendTo(desc, "Activity Log", <<Logged(e)>>)
<1>1. /\ desc' = new /\ wrote' = "Activity Log"
      /\ StructureKept(desc, new, "Activity Log", TRUE)
  BY DEF Log, Wrote
<1>2. new \in Seq(Line)
  <2>1. "Activity Log" \in Anchor
    BY DEF DocumentConstants
  <2>2. <<Logged(e)>> \in Seq(Line)
    BY LinesAreMade
  <2> QED
    BY <2>1, <2>2, AppendType DEF DescInv, DescTyped
<1> HIDE DEF new
<1>3. ~Flat(new)
  BY <1>1, <1>2, LogKeeps DEF DescInv, DescTyped
<1>4. \A b \in Anchor \ {"Activity Log"} :
          Has(desc, b) => Has(new, b) /\ Body(new, b) = Body(desc, b)
  BY <1>1 DEF StructureKept
<1> QED
  BY <1>1, <1>3, <1>4 DEF new

LEMMA StepStep ==
    ASSUME DocumentConstants, DescInv, NEW n, NEW m, Tick(n, m) \/ Promote(n, m)
    PROVE  /\ ~Flat(desc')
           /\ wrote' = "Plan"
           /\ \A b \in Anchor \ {"Plan"} :
                  Has(desc, b) => Has(desc', b) /\ Body(desc', b) = Body(desc, b)
<1> DEFINE at == FindStep(desc, Resolved(desc, n), m)
<1> USE DEF DescInv, DescTyped
<1>1. /\ at # 0 /\ wrote' = "Plan"
      /\ desc' = [desc EXCEPT ![at].k = "done"] \/ desc' = [desc EXCEPT ![at].v = 1]
  BY DEF Tick, Promote, Wrote
<1>2. at \in InPlan(desc, Step)
  BY <1>1, FoundStep
<1> HIDE DEF at
<1>3. at \in 1..Len(desc) /\ desc[at] \in Line /\ desc[at].k \in Step
  <2>1. at \in 1..Len(desc) /\ desc[at].k \in Step
    BY <1>2, PlacesAreLines DEF InPlan, Real
  <2> QED
    BY <2>1
<1>4. PICK l \in Line : l.k \in Step /\ desc' = [desc EXCEPT ![at] = l]
  <2>1. CASE desc' = [desc EXCEPT ![at].k = "done"]
    <3> DEFINE l == [desc[at] EXCEPT !.k = "done"]
    <3>1. l \in Line
      BY <1>3, LinesAreMade
    <3>2. l.k \in Step
      BY <1>3 DEF Line, Step
    <3>3. desc' = [desc EXCEPT ![at] = l]
      BY <2>1
    <3> QED
      BY <3>1, <3>2, <3>3
  <2>2. CASE desc' = [desc EXCEPT ![at].v = 1]
    <3> DEFINE l == [desc[at] EXCEPT !.v = 1]
    <3>1. l \in Line
      BY <1>3, LinesAreMade
    <3>2. l.k \in Step
      BY <1>3 DEF Line, Step
    <3>3. desc' = [desc EXCEPT ![at] = l]
      BY <2>2
    <3> QED
      BY <3>1, <3>2, <3>3
  <2> QED
    BY <1>1, <2>1, <2>2
<1>5. Others(desc, desc', "Plan") /\ ~Flat(desc')
  BY <1>2, <1>4, StepEdited
<1> QED
  BY <1>1, <1>5 DEF Others

LEMMA DescInvNext ==
    ASSUME DocumentConstants, DescInv, [DescNext]_descVars
    PROVE  DescInv'
<1>1. DescTyped'
  BY DescTypedNext DEF DescInv
<1>2. ~Flat(desc')
  <2>1. CASE UNCHANGED descVars
    BY <2>1 DEF DescInv, descVars
  <2>2. CASE DescNext
    BY <2>2, EditStep, LogStep, StepStep DEF DescNext
  <2> QED
    BY <2>1, <2>2
<1> QED
  BY <1>1, <1>2 DEF DescInv

LEMMA DescInvariance == DescSpec => []DescInv
<1>1. DescInit => DescInv
  BY DocumentAssumption, DescInvInit
<1>2. DescInv /\ [DescNext]_descVars => DescInv'
  BY DocumentAssumption, DescInvNext
<1> QED
  BY <1>1, <1>2, PTL DEF DescSpec

\* Theorem: edit --section, append-section, log, tick and promote leave every section but the
\* one they were asked to write as it was, in a description of any lines and any length
\* (check_section_structure and what runs after it, descmd.rs).
THEOREM SectionsStay == DescSpec => OthersUntouched
<1> DEFINE OthersRest == \A a \in Anchor \ {wrote'} :
                       Has(desc, a) => Has(desc', a) /\ Body(desc', a) = Body(desc, a)
<1>1. DescInv /\ [DescNext]_descVars => [OthersRest]_descVars
  <2> SUFFICES ASSUME DescInv, DescNext PROVE OthersRest
    OBVIOUS
  <2> QED
    BY DocumentAssumption, EditStep, LogStep, StepStep DEF DescNext
<1> QED
  BY <1>1, DescInvariance, PTL DEF DescSpec, OthersUntouched

-----------------------------------------------------------------------------
(***************************************************************************)
(* Listings: the lines at some places, in their order.                     *)
(***************************************************************************)
Listed(d, S) == [i \in 1..Cardinality(S) |-> d[CHOOSE p \in S : Rank(S, p) = i]]

\* Every rank is somebody's.
LEMMA RankOnto ==
    ASSUME NEW n \in Nat, NEW S \in SUBSET (1..n), NEW i \in 1..Cardinality(S)
    PROVE  \E p \in S : Rank(S, p) = i
<1> DEFINE c == Cardinality(S)
           f == [p \in S |-> Rank(S, p)]
<1>1. IsFiniteSet(S) /\ c \in Nat
  <2>1. IsFiniteSet(1..n)
    BY FS_Interval
  <2>2. IsFiniteSet(S)
    BY <2>1, FS_Subset
  <2> QED
    BY <2>2, FS_CardinalityType
<1>2. \A p \in S : Rank(S, p) \in 1..c
  BY RankType
<1>3. IsFiniteSet(1..c) /\ Cardinality(1..c) = c
  <2> HIDE DEF c
  <2>1. 1 \in Int /\ c \in Int
    BY <1>1
  <2>2. IsFiniteSet(1..c) /\ Cardinality(1..c) = IF 1 > c THEN 0 ELSE c - 1 + 1
    BY <2>1, FS_Interval
  <2> QED
    BY <1>1, <2>2
<1>4. f \in [S -> 1..c]
  BY <1>2
<1>5. \A p, q \in S : f[p] = f[q] => p = q
  BY RankOnce
<1>6. f \in Injection(S, 1..c)
  BY <1>4, <1>5, Fun_IsInj
<1>7. f \in Surjection(S, 1..c)
  <2> HIDE DEF f
  <2> QED
    BY <1>3, <1>6, FS_Injection
<1>8. \A j \in 1..c : \E p \in S : f[p] = j
  <2> HIDE DEF f
  <2> QED
    BY <1>7, Fun_SurjectionProperties
<1> QED
  BY <1>8

\* T has the places of S, moved as far as h is from g, and others only after them.
Follows(S, T, h, g) ==
    \A x \in S : /\ g + (x - h) \in T
                 /\ \A t \in T : t <= g + (x - h) => \E y \in S : t = g + (y - h)

LEMMA RankMoved ==
    ASSUME NEW S \in SUBSET Nat, IsFiniteSet(S), NEW T \in SUBSET Nat,
           NEW h \in Nat, NEW g \in Nat, Follows(S, T, h, g)
    PROVE  \A x \in S : Rank(T, g + (x - h)) = Rank(S, x)
<1> TAKE x \in S
<1> DEFINE A == {y \in S : y <= x}
           B == {t \in T : t <= g + (x - h)}
           f == [y \in A |-> g + (y - h)]
<1>1. \A y \in S : y \in Nat
  OBVIOUS
<1>2. \A y \in S : \A z \in S : /\ y <= z <=> g + (y - h) <= g + (z - h)
                                /\ g + (y - h) = g + (z - h) => y = z
  BY <1>1
<1>3. f \in [A -> B]
  BY <1>2 DEF Follows
<1>4. \A y, z \in A : f[y] = f[z] => y = z
  BY <1>2
<1>5. \A t \in B : \E y \in A : f[y] = t
  <2> TAKE t \in B
  <2>1. PICK y \in S : t = g + (y - h)
    BY DEF Follows
  <2>2. y \in A
    BY <1>2, <2>1
  <2> QED
    BY <2>1, <2>2
<1>6. f \in Bijection(A, B)
  <2> HIDE DEF f, A, B
  <2> QED
    BY <1>3, <1>4, <1>5, Fun_IsBij
<1>7. IsFiniteSet(A)
  <2>1. A \in SUBSET S
    OBVIOUS
  <2> HIDE DEF A
  <2> QED
    BY <2>1, FS_Subset
<1>8. Cardinality(A) = Cardinality(B)
  <2> HIDE DEF f, A, B
  <2>1. ExistsBijection(A, B)
    BY <1>6 DEF ExistsBijection
  <2> QED
    BY <1>7, <2>1, FS_Bijection
<1> QED
  BY <1>8 DEF Rank

LEMMA ListedGrows ==
    ASSUME NEW d \in Seq(Line), NEW S \in SUBSET (1..Len(d)),
           NEW e \in Seq(Line), NEW T \in SUBSET (1..Len(e)),
           NEW h \in Nat, NEW g \in Nat,
           Follows(S, T, h, g), \A x \in S : e[g + (x - h)] = d[x]
    PROVE  IsPrefix(Listed(d, S), Listed(e, T))
<1> DEFINE s == Listed(d, S)
           t == Listed(e, T)
           c == Cardinality(S)
           k == Cardinality(T)
<1>1. Len(d) \in Nat /\ Len(e) \in Nat
  OBVIOUS
<1>2. IsFiniteSet(S) /\ IsFiniteSet(T) /\ c \in Nat /\ k \in Nat
  BY LinesAreFinite, FS_CardinalityType
<1>3. c <= k
  <2> DEFINE f == [x \in S |-> g + (x - h)]
  <2>1. f \in [S -> T]
    BY DEF Follows
  <2>2. \A x, y \in S : f[x] = f[y] => x = y
    <3>1. \A x, y \in S : x \in Nat /\ y \in Nat
      BY <1>1
    <3>2. \A x, y \in S : g + (x - h) = g + (y - h) => x = y
      BY <3>1
    <3> QED
      BY <3>2
  <2>3. f \in Injection(S, T)
    <3> HIDE DEF f
    <3> QED
      BY <2>1, <2>2, Fun_IsInj
  <2> HIDE DEF f
  <2> QED
    BY <1>2, <2>3, FS_Injection
<1>4. ASSUME NEW i \in 1..c
      PROVE  s[i] \in Line /\ t[i] = s[i]
  <2> DEFINE p == CHOOSE p \in S : Rank(S, p) = i
             q == CHOOSE q \in T : Rank(T, q) = i
  <2>1. p \in S /\ Rank(S, p) = i
    BY <1>1, RankOnto
  <2>2. i \in 1..k
    BY <1>2, <1>3
  <2>3. q \in T /\ Rank(T, q) = i
    BY <1>1, <2>2, RankOnto
  <2> HIDE DEF p, q
  <2>4. g + (p - h) \in T /\ Rank(T, g + (p - h)) = i
    <3>1. Rank(T, g + (p - h)) = Rank(S, p)
      <4> HIDE DEF s, t, c, k
      <4>1. \A x \in S : Rank(T, g + (x - h)) = Rank(S, x)
        <5>1. S \in SUBSET Nat /\ T \in SUBSET Nat
          BY <1>1
        <5> QED
          BY <1>2, <5>1, RankMoved
      <4> QED
        BY <2>1, <4>1
    <3> QED
      BY <2>1, <3>1 DEF Follows
  <2>5. q = g + (p - h)
    BY <1>1, <2>3, <2>4, RankOnce
  <2>6. s[i] = d[p] /\ t[i] = e[q]
    BY <2>2 DEF Listed, p, q
  <2>7. d[p] \in Line
    BY <2>1
  <2> QED
    BY <2>1, <2>5, <2>6, <2>7
<1>5. ASSUME NEW i \in 1..k PROVE t[i] \in Line
  <2> DEFINE q == CHOOSE q \in T : Rank(T, q) = i
  <2>1. q \in T
    BY <1>1, RankOnto
  <2>2. t[i] = e[q]
    BY DEF Listed
  <2> HIDE DEF q
  <2> QED
    BY <2>1, <2>2
<1>6. DOMAIN s = 1..c /\ DOMAIN t = 1..k /\ s = [i \in 1..c |-> s[i]] /\ t = [i \in 1..k |-> t[i]]
  BY DEF Listed
<1> HIDE DEF s, t, c, k
<1>7. s \in Seq(Line) /\ Len(s) = c /\ t \in Seq(Line) /\ Len(t) = k
  <2>1. s \in [1..c -> Line] /\ t \in [1..k -> Line]
    BY <1>4, <1>5, <1>6
  <2>2. s \in Seq(Line) /\ t \in Seq(Line)
    <3>1. \A n \in Nat : \A z \in [1..n -> Line] : z \in Seq(Line)
      BY SeqDef
    <3> QED
      BY <1>2, <2>1, <3>1
  <2>3. /\ Len(s) \in Nat /\ 1..Len(s) = 1..c
        /\ Len(t) \in Nat /\ 1..Len(t) = 1..k
    BY <1>6, <2>2, LenProperties
  <2> QED
    BY <1>2, <2>2, <2>3
<1>8. SubSeq(s, 1, Len(s)) = s
  BY <1>7, SubSeqFull
<1>9. /\ SubSeq(t, 1, c) \in Seq(Line) /\ Len(SubSeq(t, 1, c)) = c
      /\ \A i \in 1..c : SubSeq(t, 1, c)[i] = t[i]
  <2>1. 1 \in Int /\ c \in Int /\ \A i \in 1..c : t[i] \in Line
    BY <1>2, <1>3, <1>5
  <2>2. /\ SubSeq(t, 1, c) \in Seq(Line)
        /\ Len(SubSeq(t, 1, c)) = IF 1 <= c THEN c - 1 + 1 ELSE 0
        /\ \A i \in 1..(c - 1 + 1) : SubSeq(t, 1, c)[i] = t[1 + i - 1]
    BY <2>1, SubSeqProperties
  <2>3. c - 1 + 1 = c /\ \A i \in 1..c : 1 + i - 1 = i
    BY <1>2
  <2>4. (IF 1 <= c THEN c ELSE 0) = c
    BY <1>2
  <2> QED
    BY <2>2, <2>3, <2>4
<1>10. SubSeq(t, 1, c) = s
  BY <1>4, <1>7, <1>9, SeqEqual
<1> QED
  BY <1>3, <1>7, <1>8, <1>10 DEF IsPrefix, s, t

-----------------------------------------------------------------------------
(***************************************************************************)
(* The activity log.                                                       *)
(***************************************************************************)
EntriesOf(d, a) == Listed(d, Real(d, {"entry"}) \cap Lines(d, a))

LEMMA EntriesAreListed == ASSUME NEW d PROVE Entries(d) = EntriesOf(d, "Activity Log")
  BY DEF Entries, EntriesAt, EntriesOf, Listed, Rank

\* A log that was kept has the same entries.
LEMMA SameEntries ==
    ASSUME NEW d \in Seq(Line), NEW e \in Seq(Line), NEW a,
           Has(d, a), Has(e, a),
           Body(d, a) = Body(e, a)
    PROVE  IsPrefix(EntriesOf(d, a), EntriesOf(e, a))
<1> DEFINE n == Len(Body(d, a))
           h == Heading(d, a)
           g == Heading(e, a)
           S == Real(d, {"entry"}) \cap Lines(d, a)
           T == Real(e, {"entry"}) \cap Lines(e, a)
<1>1. /\ n \in Nat /\ h \in Nat /\ g \in Nat /\ h + n <= Len(d) /\ g + n <= Len(e)
      /\ Lines(d, a) = (h + 1)..(h + n)
      /\ Lines(e, a) = (g + 1)..(g + n)
      /\ \A j \in 1..n : d[h + j] = e[g + j]
      /\ \A kinds : \A j \in 1..n :
            h + j \in Real(d, kinds) <=> g + j \in Real(e, kinds)
  BY SameBody
<1> HIDE DEF n, h, g
<1>2. S = Real(d, {"entry"}) \cap ((h + 1)..(h + n)) /\ T = Real(e, {"entry"}) \cap ((g + 1)..(g + n))
  BY <1>1
<1>3. Len(d) \in Nat /\ Len(e) \in Nat
  OBVIOUS
<1>4. S \in SUBSET (1..Len(d)) /\ T \in SUBSET (1..Len(e))
  BY <1>2, PlacesAreLines
<1> HIDE DEF S, T
<1>5. \A j \in 1..n : h + j \in S <=> g + j \in T
  <2> TAKE j \in 1..n
  <2>1. h + j \in (h + 1)..(h + n) /\ g + j \in (g + 1)..(g + n)
    BY <1>1
  <2> QED
    BY <1>1, <1>2, <2>1
<1>6. ASSUME NEW x \in S
      PROVE  x - h \in 1..n /\ h + (x - h) = x
  <2>1. x \in (h + 1)..(h + n)
    BY <1>2
  <2> QED
    BY <1>1, <2>1
<1>7. ASSUME NEW t \in T
      PROVE  \E y \in S : t = g + (y - h)
  <2>1. t \in (g + 1)..(g + n)
    BY <1>2
  <2>2. t - g \in 1..n /\ g + (t - g) = t /\ t = g + ((h + (t - g)) - h)
    BY <1>1, <2>1
  <2>3. h + (t - g) \in S
    BY <1>5, <2>2
  <2> QED
    BY <2>2, <2>3
<1>8. Follows(S, T, h, g)
  BY <1>5, <1>6, <1>7 DEF Follows
<1>9. \A x \in S : e[g + (x - h)] = d[x]
  BY <1>1, <1>6
<1>10. IsPrefix(Listed(d, S), Listed(e, T))
  BY <1>1, <1>4, <1>8, <1>9, ListedGrows
<1> QED
  BY <1>10 DEF EntriesOf, S, T

LEMMA NoEntries ==
    ASSUME NEW d \in Seq(Line), NEW e \in Seq(Line), NEW a, ~Has(d, a)
    PROVE  IsPrefix(EntriesOf(d, a), EntriesOf(e, a))
<1> DEFINE S == Real(d, {"entry"}) \cap Lines(d, a)
           T == Real(e, {"entry"}) \cap Lines(e, a)
<1>1. S = {}
  BY DEF Lines
<1>2. T \in SUBSET (1..Len(e)) /\ S \in SUBSET (1..Len(d))
  BY <1>1, PlacesAreLines
<1> HIDE DEF S, T
<1>3. Follows(S, T, 0, 0) /\ \A x \in S : e[0 + (x - 0)] = d[x]
  BY <1>1 DEF Follows
<1>4. 0 \in Nat
  OBVIOUS
<1>5. IsPrefix(Listed(d, S), Listed(e, T))
  BY <1>2, <1>3, <1>4, ListedGrows
<1> QED
  BY <1>5 DEF EntriesOf, S, T

\* log writes after all there is in the section: what was above its new line stays.
LEMMA AppendBelow ==
    ASSUME DocumentConstants, NEW d \in Seq(Line), NEW a \in Anchor, Has(d, a),
           NEW text \in Seq(Line)
    PROVE  LET e == AppendTo(d, a, text)
               end == EndOf(d, Heading(d, a))
           IN  end - 1 <= Len(e) /\ \A i \in 1..(end - 1) : e[i] = d[i]
<1> DEFINE h == Heading(d, a)
           end == EndOf(d, Heading(d, a))
           top == SubSeq(d, 1, h)
           body == Body(d, a) \o text
           rest == SubSeq(d, end, Len(d))
           e == top \o body \o rest
<1>1. AppendTo(d, a, text) = e
  BY DEF AppendTo, ReplaceSection
<1>2. Len(d) \in Nat /\ h \in 1..Len(d) /\ end \in (h + 1)..(Len(d) + 1) /\ Len(text) \in Nat
  BY PlacesAreLines DEF Has
<1>3. /\ Body(d, a) \in Seq(Line) /\ Len(Body(d, a)) = end - h - 1
      /\ \A j \in 1..Len(Body(d, a)) : Body(d, a)[j] = d[h + j]
  BY BodyIs
<1> HIDE DEF h, end
<1>4. top \in Seq(Line) /\ Len(top) = h /\ \A i \in 1..h : top[i] = d[i]
  <2>1. 1 \in Int /\ h \in Int /\ \A i \in 1..h : d[i] \in Line
    BY <1>2
  <2>2. /\ SubSeq(d, 1, h) \in Seq(Line)
        /\ Len(SubSeq(d, 1, h)) = IF 1 <= h THEN h - 1 + 1 ELSE 0
        /\ \A i \in 1..(h - 1 + 1) : SubSeq(d, 1, h)[i] = d[1 + i - 1]
    BY <2>1, SubSeqProperties
  <2>3. h - 1 + 1 = h /\ 1 <= h /\ \A i \in 1..h : 1 + i - 1 = i
    BY <1>2
  <2> QED
    BY <2>2, <2>3
<1>5. /\ body \in Seq(Line) /\ Len(body) \in Nat /\ Len(body) >= end - h - 1
      /\ \A j \in 1..(end - h - 1) : body[j] = d[h + j]
  <2>1. /\ body \in Seq(Line) /\ Len(body) = (end - h - 1) + Len(text)
        /\ \A j \in 1..((end - h - 1) + Len(text)) :
              body[j] = IF j <= end - h - 1 THEN Body(d, a)[j] ELSE text[j - (end - h - 1)]
    <3> DEFINE old == Body(d, a)
    <3>1. old \in Seq(Line) /\ Len(old) = end - h - 1
      BY <1>3
    <3> HIDE DEF old
    <3>2. /\ old \o text \in Seq(Line) /\ Len(old \o text) = Len(old) + Len(text)
          /\ \A j \in 1..(Len(old) + Len(text)) :
                (old \o text)[j] = IF j <= Len(old) THEN old[j] ELSE text[j - Len(old)]
      BY <3>1, ConcatProperties
    <3> QED
      BY <3>1, <3>2 DEF old
  <2> HIDE DEF body
  <2>2. Len(body) \in Nat /\ Len(body) >= end - h - 1
    BY <1>2, <2>1
  <2>3. ASSUME NEW j \in 1..(end - h - 1) PROVE body[j] = d[h + j]
    <3>1. j \in 1..((end - h - 1) + Len(text)) /\ j <= end - h - 1
      BY <1>2
    <3> QED
      BY <1>3, <2>1, <3>1
  <2> QED
    BY <2>1, <2>2, <2>3
<1>6. rest \in Seq(Line)
  <2>1. end \in Nat \ {0}
    BY <1>2
  <2> QED
    BY <1>2, <2>1, PartOf
<1> HIDE DEF top, body, rest
<1>7. /\ top \o body \in Seq(Line) /\ Len(top \o body) = h + Len(body)
      /\ \A i \in 1..(h + Len(body)) :
            (top \o body)[i] = IF i <= h THEN top[i] ELSE body[i - h]
  BY <1>4, <1>5, ConcatProperties
<1>8. /\ e \in Seq(Line) /\ Len(e) = h + Len(body) + Len(rest)
      /\ \A i \in 1..(h + Len(body) + Len(rest)) :
            e[i] = IF i <= h + Len(body) THEN (top \o body)[i] ELSE rest[i - (h + Len(body))]
  BY <1>6, <1>7, ConcatProperties
<1>9. Len(rest) \in Nat
  BY <1>6
<1> HIDE DEF e
<1>10. ASSUME NEW i \in 1..(end - 1) PROVE e[i] = d[i]
  <2>1. /\ i \in 1..(h + Len(body)) /\ i \in 1..(h + Len(body) + Len(rest))
        /\ i <= h + Len(body)
    BY <1>2, <1>5, <1>9
  <2>2. e[i] = IF i <= h THEN top[i] ELSE body[i - h]
    BY <1>7, <1>8, <2>1
  <2>3. CASE i <= h
    <3>1. i \in 1..h
      BY <2>3
    <3> QED
      BY <1>4, <2>2, <2>3, <3>1
  <2>4. CASE ~(i <= h)
    <3>1. i - h \in 1..(end - h - 1) /\ h + (i - h) = i
      BY <1>2, <2>4
    <3> QED
      BY <1>5, <2>2, <2>4, <3>1
  <2> QED
    BY <2>3, <2>4
<1>11. end - 1 <= Len(e)
  BY <1>2, <1>5, <1>8, <1>9
<1> QED
  BY <1>1, <1>10, <1>11 DEF end, h

LEMMA LogAppends ==
    ASSUME DocumentConstants, NEW d \in Seq(Line), NEW a \in Anchor, Has(d, a),
           NEW text \in Seq(Line)
    PROVE  IsPrefix(EntriesOf(d, a), EntriesOf(AppendTo(d, a, text), a))
<1> DEFINE e == AppendTo(d, a, text)
           h == Heading(d, a)
           end == EndOf(d, Heading(d, a))
           g == Heading(e, a)
           fin == EndOf(e, Heading(e, a))
           S == Real(d, {"entry"}) \cap Lines(d, a)
           T == Real(e, {"entry"}) \cap Lines(e, a)
<1>2. e \in Seq(Line)
  BY AppendType
<1>3. end - 1 <= Len(e) /\ \A i \in 1..(end - 1) : e[i] = d[i]
  BY AppendBelow
<1>4. /\ Len(d) \in Nat /\ h \in 1..Len(d) /\ end \in (h + 1)..(Len(d) + 1)
      /\ h \in Real(d, {"h2"}) /\ d[h].v = a
  BY PlacesAreLines DEF Has
<1> HIDE DEF e
<1>5. /\ Len(e) \in Nat /\ g \in 0..Len(e) /\ fin \in (g + 1)..(Len(e) + 1)
      /\ Has(e, a) => g \in Real(e, {"h2"}) /\ e[g].v = a
  BY <1>2, PlacesAreLines
<1>6. /\ \A i \in Real(d, {"h2"}) : d[i].v = a => h <= i
      /\ \A i \in Real(d, {"h2"}) : i > h => end <= i
  BY Sections
<1>7. /\ \A i \in Real(e, {"h2"}) :
            e[i].v = a => Has(e, a) /\ g <= i
      /\ fin = Len(e) + 1 \/ fin \in Real(e, {"h2"})
  BY <1>2, Sections
<1>8. ASSUME NEW kinds, NEW i \in 1..(end - 1)
      PROVE  i \in Real(d, kinds) <=> i \in Real(e, kinds)
  <2>1. end - 1 \in Nat /\ end - 1 <= Len(d)
    BY <1>4
  <2>2. \A j \in 1..(end - 1) : d[j].k = "fence" <=> e[j].k = "fence"
    BY <1>3
  <2>3. d[i].k \in kinds <=> e[i].k \in kinds
    BY <1>3
  <2> HIDE DEF end
  <2> QED
    BY <1>2, <1>3, <2>1, <2>2, <2>3, SameBeginning
<1>9. S = Real(d, {"entry"}) \cap ((h + 1)..(end - 1))
  BY DEF Lines
<1> HIDE DEF h, end, g, fin
<1>10. Has(e, a) /\ g = h
  <2>1. h \in 1..(end - 1)
    BY <1>4
  <2>2. h \in Real(e, {"h2"}) /\ e[h].v = a
    BY <1>3, <1>4, <1>8, <2>1
  <2>3. Has(e, a) /\ g <= h
    BY <1>7, <2>2
  <2>4. g \in Real(e, {"h2"}) /\ e[g].v = a /\ g \in 1..(end - 1)
    <3>1. g \in Real(e, {"h2"}) /\ e[g].v = a
      BY <1>5, <2>3
    <3>2. g # 0
      BY <2>3 DEF Has, g
    <3> QED
      BY <1>4, <1>5, <2>1, <2>3, <3>1, <3>2
  <2>5. g \in Real(d, {"h2"}) /\ d[g].v = a
    BY <1>3, <1>8, <2>4
  <2>6. h <= g
    BY <1>6, <2>5
  <2> QED
    BY <1>4, <1>5, <2>3, <2>6
<1>11. fin >= end
  <2> SUFFICES ASSUME fin < end PROVE FALSE
    BY <1>4, <1>5
  <2>1. fin \in 1..(end - 1) /\ fin > h /\ fin # Len(e) + 1
    BY <1>3, <1>4, <1>5, <1>10
  <2>2. fin \in Real(d, {"h2"})
    BY <1>7, <1>8, <2>1
  <2>3. end <= fin
    BY <1>6, <2>1, <2>2
  <2> QED
    BY <1>4, <1>5, <2>3
<1>12. T = Real(e, {"entry"}) \cap ((h + 1)..(fin - 1))
  BY <1>10 DEF Lines, g, fin
<1>13. S \in SUBSET (1..Len(d)) /\ T \in SUBSET (1..Len(e))
  <2>1. Real(d, {"entry"}) \subseteq 1..Len(d) /\ Real(e, {"entry"}) \subseteq 1..Len(e)
    BY <1>2, PlacesAreLines
  <2> QED
    BY <1>9, <1>12, <2>1
<1> HIDE DEF S, T
<1>14. ASSUME NEW i \in 1..(end - 1) PROVE i \in S <=> i \in T
  <2>1. i \in (h + 1)..(end - 1) <=> i \in (h + 1)..(fin - 1)
    BY <1>4, <1>5, <1>11
  <2> QED
    BY <1>8, <1>9, <1>12, <2>1
<1>15. \A x \in S : x \in 1..(end - 1) /\ 0 + (x - 0) = x
  BY <1>4, <1>9
<1>16. Follows(S, T, 0, 0)
  <2> SUFFICES ASSUME NEW x \in S
               PROVE  /\ 0 + (x - 0) \in T
                      /\ \A t \in T : t <= 0 + (x - 0) => \E y \in S : t = 0 + (y - 0)
    BY DEF Follows
  <2>1. x \in 1..(end - 1) /\ 0 + (x - 0) = x
    BY <1>15
  <2>2. ASSUME NEW t \in T, t <= x PROVE t \in S
    <3>1. t \in 1..(end - 1)
      BY <1>4, <1>13, <2>1, <2>2
    <3> QED
      BY <1>14, <3>1
  <2> QED
    BY <1>14, <1>15, <2>1, <2>2
<1>17. \A x \in S : e[0 + (x - 0)] = d[x]
  BY <1>3, <1>15
<1>18. IsPrefix(Listed(d, S), Listed(e, T))
  <2>1. 0 \in Nat
    OBVIOUS
  <2> QED
    BY <1>2, <1>13, <1>16, <1>17, <2>1, ListedGrows
<1> QED
  BY <1>18 DEF EntriesOf, S, T, e

\* Theorem: what was logged stays readable in its order, under every command that edits a part
\* of the description: an entry is never lost, moved into a code block or overtaken
\* (append_activity_log and the section tools beside it, descmd.rs).
THEOREM LogsStay == DescSpec => EntriesStay
<1> USE DocumentAssumption
<1>1. DescInv /\ [DescNext]_descVars => [IsPrefix(Entries(desc), Entries(desc'))]_descVars
  <2> SUFFICES ASSUME DescInv, DescNext PROVE IsPrefix(Entries(desc), Entries(desc'))
    OBVIOUS
  <2>1. desc \in Seq(Line) /\ desc' \in Seq(Line)
    BY DescInvNext DEF DescInv, DescTyped
  <2>2. CASE ~Has(desc, "Activity Log")
    BY <2>1, <2>2, NoEntries, EntriesAreListed
  <2>3. CASE Has(desc, "Activity Log")
    <3>1. "Activity Log" \in Anchor
      BY DEF DocumentConstants
    <3>2. ASSUME wrote' # "Activity Log",
                 \A b \in Anchor \ {wrote'} :
                     Has(desc, b) => Has(desc', b) /\ Body(desc', b) = Body(desc, b)
          PROVE  IsPrefix(Entries(desc), Entries(desc'))
      BY <2>1, <2>3, <3>1, <3>2, SameEntries, EntriesAreListed
    <3>3. ASSUME NEW a \in Anchor, NEW p \in Payload, NEW create \in BOOLEAN,
                 EditSection(a, p, create) \/ AppendSection(a, p, create)
          PROVE  IsPrefix(Entries(desc), Entries(desc'))
      BY <3>2, <3>3, EditStep
    <3>4. ASSUME NEW n, NEW m, Tick(n, m) \/ Promote(n, m)
          PROVE  IsPrefix(Entries(desc), Entries(desc'))
      BY <3>2, <3>4, StepStep
    <3>5. ASSUME NEW e \in Entry, Log(e)
          PROVE  IsPrefix(Entries(desc), Entries(desc'))
      <4>1. desc' = AppendTo(desc, "Activity Log", <<Logged(e)>>)
        BY <3>5, LogStep
      <4>2. <<Logged(e)>> \in Seq(Line)
        BY LinesAreMade
      <4> QED
        BY <2>1, <2>3, <3>1, <4>1, <4>2, LogAppends, EntriesAreListed
    <3> QED
      BY <3>3, <3>4, <3>5 DEF DescNext
  <2> QED
    BY <2>2, <2>3
<1> QED
  BY <1>1, DescInvariance, PTL DEF DescSpec, EntriesStay
=============================================================================

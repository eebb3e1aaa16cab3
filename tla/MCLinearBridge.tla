--------------------------- MODULE MCLinearBridge ---------------------------
(* A team without a Blocked column, and a canceled state that the board has not. *)
EXTENDS LinearBridge, TLC

CONSTANTS inProgress, blocked, done, started, completed, canceled

BoardStatus == {inProgress, blocked, done}
TeamState == {started, completed, canceled}
OpenState == {started}
FromLinear == (started :> inProgress) @@ (completed :> done) @@ (canceled :> done)
IntoLinear == (inProgress :> started) @@ (blocked :> started) @@ (done :> completed)

EveryOp == {"import", "mine", "sync", "push"}
Refreshes == {"import", "sync"}
Defaults == {{"state", "comment"}}
DefaultsAndMirror == {{"state", "comment"}, {"description"}}
Sessions == Permutations(Session)
=============================================================================

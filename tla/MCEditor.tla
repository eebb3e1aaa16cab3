------------------------------- MODULE MCEditor -------------------------------
(* Values for Editor.cfg and EditorAuto.cfg.                               *)
EXTENDS Editor

EveryOp == {"move", "create", "open", "tick", "edit", "doc", "type"}
=============================================================================

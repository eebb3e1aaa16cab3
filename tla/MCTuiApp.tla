------------------------------- MODULE MCTuiApp -------------------------------
(* Values for TuiApp.cfg.                                                  *)
EXTENDS TuiApp

MCColumns == <<"backlog", "done">>
MCNames == <<"v1", "v2">>
MCFirstCards ==
    [k \in Cards |->
        CASE k = 1 -> [Card("p", "backlog", "v1") EXCEPT !.pos = 1]
          [] k = 2 -> [Card("p", "backlog", None) EXCEPT !.pos = 2, !.blocker = 1]
          [] k = 3 -> [Card("q", "backlog", None) EXCEPT !.pos = 1]
          [] OTHER -> None]
MCFirstStones == [m \in Milestone |-> IF m = <<"p", "v1">> THEN [status |-> "open", at |-> 0] ELSE None]
=============================================================================

---------------------------- MODULE MCTurnLifecycle ----------------------------
(* Two turns of a chat, so that one's end can meet the other's start. *)
EXTENDS TurnLifecycle

CONSTANTS t1, t2
TwoTurns == {t1, t2}
===============================================================================

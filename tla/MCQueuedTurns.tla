--------------------------- MODULE MCQueuedTurns ---------------------------
(***************************************************************************)
(* A thread with a turn of the user and one of the pull request monitor.   *)
(***************************************************************************)
EXTENDS QueuedTurns, TLC

CONSTANTS thread, user, monitor

MCThreadOf == [q \in Turns |-> thread]
=============================================================================

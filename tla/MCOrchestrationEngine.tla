----------------------- MODULE MCOrchestrationEngine -----------------------
(***************************************************************************)
(* Two shards.  Threads t1 and t2 collide on shard s1; t3 is alone on s2.  *)
(* a1 and a2 append tool activity to t1, b to t2; w is any other command   *)
(* of t1; x writes t3 and, as thread.archive does for a subtree, also t1;  *)
(* noop is a no-op or an event of t3; d deletes t1.                        *)
(***************************************************************************)
EXTENDS OrchestrationEngine, TLC

CONSTANTS a1, a2, b, w, x, noop, d, t1, t2, t3, s1, s2

MCAggregateOf ==
  [c \in Commands |->
     IF c \in {a1, a2, w, d} THEN t1 ELSE IF c = b THEN t2 ELSE t3]
MCShardOf == t1 :> s1 @@ t2 :> s1 @@ t3 :> s2
MCBatchable == {a1, a2, b} \cap Commands
MCDeletions == {d} \cap Commands
MCNoOps == {noop} \cap Commands
MCOutcomes ==
  [c \in Commands |->
     CASE c = x -> {<<t3, t1>>, <<>>}
       [] c = noop -> {<<t3>>, <<>>}
       [] OTHER -> {<<MCAggregateOf[c]>>}]
=============================================================================

----------------------------- MODULE CommandLog -----------------------------
(***************************************************************************)
(* What the orchestration engine promises, whatever its shards, batches,   *)
(* retries and crashes do: an append-only history of events in which the   *)
(* events of a command appear at most once, contiguously, and together     *)
(* with the command's final verdict.  OrchestrationEngine refines it.      *)
(*                                                                         *)
(* verdict is the durable command receipt (orchestration_command_receipts) *)
(* and history tells, for every event of orchestration_events, its         *)
(* sequence and the command that caused it.                                *)
(***************************************************************************)
EXTENDS Integers

CONSTANT Commands

VARIABLES verdict, history

vars == <<verdict, history>>

Verdicts == {"none", "accepted", "rejected"}

Init ==
  /\ verdict = [c \in Commands |-> "none"]
  /\ history = {}

\* Several commands are decided together and their events are appended in one
\* transaction with their accepted receipts.  A set of one is the usual case.
Execute(cs) ==
  /\ cs # {}
  /\ \A c \in cs : verdict[c] = "none"
  /\ verdict' = [c \in Commands |-> IF c \in cs THEN "accepted" ELSE verdict[c]]
  /\ history \subseteq history'
  /\ LET new == history' \ history
     IN  /\ cs = {e.cmd : e \in new}
         /\ \A e \in new, f \in history : f.seq < e.seq
         /\ \A e, f, g \in new :
              e.seq <= f.seq /\ f.seq <= g.seq /\ e.cmd = g.cmd => f.cmd = e.cmd

\* A state-dependent no-op is accepted once, without events.
AcceptNoOp(c) ==
  /\ verdict[c] = "none"
  /\ verdict' = [verdict EXCEPT ![c] = "accepted"]
  /\ UNCHANGED history

\* A command that violates an invariant is refused for good.
Reject(c) ==
  /\ verdict[c] = "none"
  /\ verdict' = [verdict EXCEPT ![c] = "rejected"]
  /\ UNCHANGED history

Next ==
  \/ \E cs \in SUBSET Commands : Execute(cs)
  \/ \E c \in Commands : AcceptNoOp(c) \/ Reject(c)

Spec == Init /\ [][Next]_vars
=============================================================================

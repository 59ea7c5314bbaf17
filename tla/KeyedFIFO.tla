------------------------------- MODULE KeyedFIFO -------------------------------
(***************************************************************************)
(* What makeKeyedDrainableWorker promises                                  *)
(* (packages/shared/src/DrainableWorker.ts): items are processed in the    *)
(* order of their arrival on every key they name, items that share no key  *)
(* run side by side, and no item holds its keys for ever.                  *)
(***************************************************************************)
EXTENDS Integers

CONSTANTS Items, Keys

VARIABLES
  place,    \* 0 before the item arrives, then its place in the order of arrival
  keys,     \* the keys it names
  phase,    \* new, pending, busy or over
  arrivals  \* how many items have arrived

fifoVars == <<place, keys, phase, arrivals>>

Conflict(i, j) == keys[i] \cap keys[j] # {}
Unfinished(i) == phase[i] \in {"pending", "busy"}

Arrive(i, K) ==
  /\ phase[i] = "new"
  /\ phase' = [phase EXCEPT ![i] = "pending"]
  /\ keys' = [keys EXCEPT ![i] = K]
  /\ arrivals' = arrivals + 1
  /\ place' = [place EXCEPT ![i] = arrivals + 1]

\* Its turn has come on every key.
Begin(i) ==
  /\ phase[i] = "pending"
  /\ \A j \in Items : Unfinished(j) /\ place[j] < place[i] => ~Conflict(i, j)
  /\ phase' = [phase EXCEPT ![i] = "busy"]
  /\ UNCHANGED <<place, keys, arrivals>>

End(i) ==
  /\ phase[i] = "busy"
  /\ phase' = [phase EXCEPT ![i] = "over"]
  /\ UNCHANGED <<place, keys, arrivals>>

FifoInit ==
  /\ place = [i \in Items |-> 0] /\ keys = [i \in Items |-> {}]
  /\ phase = [i \in Items |-> "new"] /\ arrivals = 0

FifoNext == \E i \in Items : (\E K \in SUBSET Keys : Arrive(i, K)) \/ Begin(i) \/ End(i)

FifoSpec == FifoInit /\ [][FifoNext]_fifoVars
FairFifoSpec == FifoSpec /\ \A i \in Items : WF_fifoVars(Begin(i)) /\ WF_fifoVars(End(i))
===============================================================================

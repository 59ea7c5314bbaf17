------------------------------ MODULE KeyedWorker ------------------------------
(***************************************************************************)
(* makeKeyedDrainableWorker (packages/shared/src/DrainableWorker.ts), the  *)
(* worker on which ProviderCommandReactor runs the events of its threads;  *)
(* a fork's event names its source's key as well.                          *)
(*                                                                         *)
(* There is no queue.  Every key has a tail, the Deferred of the item that *)
(* named it last.  To enqueue is to replace the tails of all keys of the   *)
(* item at once, to count the item, and to fork a fiber that awaits the    *)
(* tails replaced, processes, and then removes the tails that are still    *)
(* its own, completes its Deferred and counts the item off, in three steps *)
(* between which others run.  A failure of the processing is an exit like  *)
(* any other.                                                              *)
(*                                                                         *)
(* Abstractions.  An item is enqueued once.  The Deferreds are awaited one *)
(* after the other; as they stay completed, that is to await them all.     *)
(* The close of the scope, which interrupts the fibers, is left out.       *)
(***************************************************************************)
EXTENDS Integers, FiniteSets

CONSTANTS Items, Keys, NoItem

ASSUME WorkerConstants == IsFiniteSet(Items) /\ NoItem \notin Items

VARIABLES
  phase,        \* of an item: new, swapped, waiting, running, cleared, released, done
  keys,         \* the keys the item names
  tails,        \* the item whose Deferred is the tail of a key
  previous,     \* the tails an item has replaced
  outstanding,  \* the number of items drain waits for
  drain,        \* a caller of drain: idle or waiting
  place,        \* the order of the enqueues
  arrivals

vars == <<phase, keys, tails, previous, outstanding, drain, place, arrivals>>

Completed(i) == phase[i] \in {"released", "done"}   \* its Deferred
Counted(i) == phase[i] \in {"waiting", "running", "cleared", "released"}

\* The item has become a tail before it looks for those it replaces.
FaultReplacedTails(i, K) == {i} \cup ({tails[k] : k \in K} \ {NoItem})
ReplacedTails(i, K) == {tails[k] : k \in K} \ {NoItem}

\* The synchronous part of enqueue.
Swap(i, K) ==
  /\ phase[i] = "new"
  /\ phase' = [phase EXCEPT ![i] = "swapped"]
  /\ keys' = [keys EXCEPT ![i] = K]
  /\ previous' = [previous EXCEPT ![i] = ReplacedTails(i, K)]
  /\ tails' = [k \in Keys |-> IF k \in K THEN i ELSE tails[k]]
  /\ arrivals' = arrivals + 1
  /\ place' = [place EXCEPT ![i] = arrivals + 1]
  /\ UNCHANGED <<outstanding, drain>>

\* The item is counted and its fiber forked; enqueue returns.
Fork(i) ==
  /\ phase[i] = "swapped"
  /\ phase' = [phase EXCEPT ![i] = "waiting"]
  /\ outstanding' = outstanding + 1
  /\ UNCHANGED <<keys, tails, previous, drain, place, arrivals>>

Start(i) ==
  /\ phase[i] = "waiting"
  /\ \A p \in previous[i] : Completed(p)
  /\ phase' = [phase EXCEPT ![i] = "running"]
  /\ UNCHANGED <<keys, tails, previous, outstanding, drain, place, arrivals>>

\* The tail of a later item goes as well.
FaultTailsRemoved(i) == [k \in Keys |-> IF k \in keys[i] THEN NoItem ELSE tails[k]]
TailsWithout(i) == [k \in Keys |-> IF tails[k] = i THEN NoItem ELSE tails[k]]

\* process has ended in one way or another: ensuring runs.
Clear(i) ==
  /\ phase[i] = "running"
  /\ phase' = [phase EXCEPT ![i] = "cleared"]
  /\ tails' = TailsWithout(i)
  /\ UNCHANGED <<keys, previous, outstanding, drain, place, arrivals>>

\* The item is counted off before its Deferred is completed, and once more after.
FaultReleaseCounts(i) ==
  /\ phase[i] = "cleared"
  /\ phase' = [phase EXCEPT ![i] = "released"]
  /\ outstanding' = outstanding - 1
  /\ UNCHANGED <<keys, tails, previous, drain, place, arrivals>>
Release(i) ==
  /\ phase[i] = "cleared"
  /\ phase' = [phase EXCEPT ![i] = "released"]
  /\ UNCHANGED <<keys, tails, previous, outstanding, drain, place, arrivals>>

CountOff(i) ==
  /\ phase[i] = "released"
  /\ phase' = [phase EXCEPT ![i] = "done"]
  /\ outstanding' = outstanding - 1
  /\ UNCHANGED <<keys, tails, previous, drain, place, arrivals>>

\* No processing goes on, though fibers wait for their turn.
FaultIdle == \A i \in Items : phase[i] # "running"
Idle == outstanding = 0
CallDrain ==
  /\ drain = "idle" /\ drain' = "waiting"
  /\ UNCHANGED <<phase, keys, tails, previous, outstanding, place, arrivals>>
ReturnDrain ==
  /\ drain = "waiting" /\ Idle /\ drain' = "idle"
  /\ UNCHANGED <<phase, keys, tails, previous, outstanding, place, arrivals>>

Init ==
  /\ phase = [i \in Items |-> "new"] /\ keys = [i \in Items |-> {}]
  /\ tails = [k \in Keys |-> NoItem] /\ previous = [i \in Items |-> {}]
  /\ outstanding = 0 /\ drain = "idle"
  /\ place = [i \in Items |-> 0] /\ arrivals = 0

Fiber(i) == Fork(i) \/ Start(i) \/ Clear(i) \/ Release(i) \/ CountOff(i)
Next ==
  \/ \E i \in Items : (\E K \in SUBSET Keys : Swap(i, K)) \/ Fiber(i)
  \/ CallDrain \/ ReturnDrain

Spec == Init /\ [][Next]_vars

\* Every fiber is scheduled, and what process does comes to an end.
FairSpec == Spec /\ WF_vars(ReturnDrain) /\ \A i \in Items : WF_vars(Fiber(i))

-----------------------------------------------------------------------------
\* The types of the maps and counters; none of the fibers counts an item off that
\* was not counted.
TypeOK ==
  /\ phase \in [Items -> {"new", "swapped", "waiting", "running", "cleared", "released", "done"}]
  /\ keys \in [Items -> SUBSET Keys] /\ tails \in [Keys -> Items \cup {NoItem}]
  /\ previous \in [Items -> SUBSET Items]
  /\ outstanding \in Nat /\ drain \in {"idle", "waiting"}
  /\ place \in [Items -> Nat] /\ arrivals \in Nat

FifoPhase == [i \in Items |->
  CASE phase[i] = "new"                            -> "new"
    [] phase[i] \in {"swapped", "waiting"}         -> "pending"
    [] phase[i] = "running"                        -> "busy"
    [] phase[i] \in {"cleared", "released", "done"} -> "over"]
Fifo == INSTANCE KeyedFIFO WITH phase <- FifoPhase

Unfinished(i) == phase[i] \in {"swapped", "waiting", "running"}

\* The fibers' counter is the number of items whose fiber has not ended: a drain
\* can neither return early nor wait for an item that is gone.
CountsFibers == outstanding = Cardinality({i \in Items : Counted(i)})

\* Of two unfinished items with a key in common the later one waits, through
\* whatever was enqueued between them: no item runs beside another of its key or
\* overtakes it.
LaterItemsWait ==
  \A i, j \in Items : \A k \in keys[i] \cap keys[j] :
    Unfinished(i) /\ Unfinished(j) /\ place[i] < place[j]
    => \E m \in previous[j] : Unfinished(m) /\ k \in keys[m] /\ place[i] <= place[m]

\* A tail is the last unfinished item that named its key.
TailsAreLast ==
  /\ \A k \in Keys : tails[k] # NoItem => Unfinished(tails[k]) /\ k \in keys[tails[k]]
  /\ \A i \in Items : \A k \in keys[i] :
       Unfinished(i) => tails[k] # NoItem /\ place[i] <= place[tails[k]]
\* Items are told apart by their places, and run when those they replaced are over.
PlacesDiffer ==
  /\ \A i \in Items : phase[i] # "new" => place[i] \in 1..arrivals
  /\ \A i, j \in Items : phase[i] # "new" /\ phase[j] # "new" /\ i # j => place[i] # place[j]
RunningIsDue == \A i \in Items : phase[i] = "running" => \A p \in previous[i] : Completed(p)

\* The inductive invariant of the proofs.
WorkerInv == TypeOK /\ CountsFibers /\ LaterItemsWait /\ TailsAreLast /\ PlacesDiffer /\ RunningIsDue

\* When drain returns, no item that was enqueued is waiting or being processed
\* ("Resolves when the queue is empty and the worker is idle").
DrainedIsIdle ==
  [][drain = "waiting" /\ drain' = "idle"
     => \A i \in Items : phase[i] \in {"new", "swapped", "done"}]_vars

\* The worker keeps its promise: order on every key, and every item's turn comes.
ImplementsKeyedFIFO == Fifo!FairFifoSpec

\* drain returns once nothing more is enqueued, whatever the keys and failures.
DrainReturns == drain = "waiting" ~> drain = "idle"
===============================================================================

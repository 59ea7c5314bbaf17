-------------------------- MODULE KeyedWorker_proofs --------------------------
(***************************************************************************)
(* Proofs about KeyedWorker, for any items and keys: its counter is exact, *)
(* so drain returns to an idle worker, and it implements KeyedFIFO as far  *)
(* as safety goes.  The invariant follows an item's place in the order of  *)
(* its keys through the tails: the tail of a key is the last unfinished    *)
(* item that named it, so whatever an item has replaced was the last of    *)
(* those before it, and that one waits for the rest.                       *)
(***************************************************************************)
EXTENDS KeyedWorker, FiniteSetTheorems, TLAPS

LEMMA InitHolds == Init => WorkerInv
<1> SUFFICES ASSUME Init PROVE WorkerInv
  OBVIOUS
<1>1. TypeOK
  BY DEF Init, TypeOK
<1>2. CountsFibers
  <2>1. {i \in Items : Counted(i)} = {}
    BY DEF Init, Counted
  <2> QED
    BY <2>1, FS_EmptySet DEF Init, CountsFibers
<1>3. LaterItemsWait /\ TailsAreLast /\ PlacesDiffer /\ RunningIsDue
  BY DEF Init, LaterItemsWait, TailsAreLast, PlacesDiffer, RunningIsDue, Unfinished
<1> QED
  BY <1>1, <1>2, <1>3 DEF WorkerInv

-----------------------------------------------------------------------------
(* The counter.                                                             *)

\* To count an item off there must be one.
LEMMA CountsStep ==
  ASSUME TypeOK, CountsFibers, [Next]_vars
  PROVE  CountsFibers' /\ outstanding' \in Nat
<1> DEFINE C == {i \in Items : Counted(i)}
<1>1. IsFiniteSet(C)
  BY WorkerConstants, FS_Subset
<1>2. outstanding = Cardinality(C) /\ Cardinality(C) \in Nat
  BY <1>1, FS_CardinalityType DEF CountsFibers
<1>3. CASE \E i \in Items : Fork(i)
  <2>1. PICK i \in Items : Fork(i)
    BY <1>3
  <2>2. i \notin C /\ C' = C \cup {i}
    BY <2>1 DEF Fork, Counted, TypeOK
  <2>3. Cardinality(C') = Cardinality(C) + 1
    BY <1>1, <2>2, FS_AddElement
  <2> QED
    BY <2>1, <2>3, <1>2 DEF Fork, CountsFibers
<1>4. CASE \E i \in Items : CountOff(i)
  <2>1. PICK i \in Items : CountOff(i)
    BY <1>4
  <2>2. i \in C /\ C' = C \ {i}
    BY <2>1 DEF CountOff, Counted, TypeOK
  <2>3. Cardinality(C') = Cardinality(C) - 1 /\ Cardinality(C') \in Nat
    BY <1>1, <2>2, FS_RemoveElement, FS_Subset, FS_CardinalityType
  <2> QED
    BY <2>1, <2>3, <1>2 DEF CountOff, CountsFibers
<1>5. ASSUME ~(\E i \in Items : Fork(i) \/ CountOff(i))
      PROVE  C' = C /\ outstanding' = outstanding
  <2>1. CASE \E i \in Items : \E K \in SUBSET Keys : Swap(i, K)
    BY <2>1 DEF Swap, Counted, TypeOK
  <2>2. CASE \E i \in Items : Start(i) \/ Clear(i) \/ Release(i)
    BY <2>2 DEF Start, Clear, Release, Counted, TypeOK
  <2>3. CASE CallDrain \/ ReturnDrain \/ UNCHANGED vars
    BY <2>3 DEF CallDrain, ReturnDrain, vars, Counted
  <2> QED
    BY <1>5, <2>1, <2>2, <2>3 DEF Next, Fiber
<1> QED
  BY <1>2, <1>3, <1>4, <1>5 DEF CountsFibers

LEMMA TypeStep ==
  ASSUME TypeOK, CountsFibers, [Next]_vars
  PROVE  TypeOK'
<1>1. outstanding' \in Nat
  BY CountsStep
<1>2. ASSUME NEW i \in Items, NEW K \in SUBSET Keys, Swap(i, K)
      PROVE  TypeOK'
  <2>1. ReplacedTails(i, K) \subseteq Items
    BY DEF TypeOK, ReplacedTails
  <2> QED
    BY <1>1, <1>2, <2>1 DEF Swap, TypeOK
<1>3. ASSUME NEW i \in Items, Fiber(i)
      PROVE  TypeOK'
  <2>1. TailsWithout(i) \in [Keys -> Items \cup {NoItem}]
    BY DEF TailsWithout, TypeOK
  <2> QED
    BY <1>1, <1>3, <2>1 DEF Fiber, Fork, Start, Clear, Release, CountOff, TypeOK
<1>4. CASE CallDrain \/ ReturnDrain \/ UNCHANGED vars
  BY <1>1, <1>4 DEF CallDrain, ReturnDrain, vars, TypeOK
<1> QED
  BY <1>2, <1>3, <1>4 DEF Next

-----------------------------------------------------------------------------
(* The order of the items.                                                  *)

\* A step that takes no tails and ends no processing disturbs no order.
LEMMA QuietStep ==
  ASSUME TypeOK, [Next]_vars,
         ~(\E i \in Items : Clear(i) \/ \E K \in SUBSET Keys : Swap(i, K))
  PROVE  /\ \A i \in Items : Unfinished(i)' = Unfinished(i)
         /\ \A i \in Items : (phase'[i] = "new") = (phase[i] = "new")
         /\ \A i \in Items : Completed(i) => Completed(i)'
         /\ UNCHANGED <<keys, tails, previous, place, arrivals>>
<1>1. CASE \E i \in Items : Fork(i) \/ Start(i) \/ Release(i) \/ CountOff(i)
  BY <1>1 DEF Fork, Start, Release, CountOff, TypeOK, Unfinished, Completed
<1>2. CASE CallDrain \/ ReturnDrain \/ UNCHANGED vars
  BY <1>2 DEF CallDrain, ReturnDrain, vars, Unfinished, Completed
<1> QED
  BY <1>1, <1>2 DEF Next, Fiber

LEMMA PlacesStep ==
  ASSUME TypeOK, PlacesDiffer, [Next]_vars
  PROVE  PlacesDiffer'
<1>1. ASSUME NEW i \in Items, NEW K \in SUBSET Keys, Swap(i, K)
      PROVE  PlacesDiffer'
  BY <1>1 DEF Swap, TypeOK, PlacesDiffer
<1>2. ASSUME NEW i \in Items, Clear(i)
      PROVE  PlacesDiffer'
  BY <1>2 DEF Clear, TypeOK, PlacesDiffer
<1> QED
  BY <1>1, <1>2, QuietStep DEF PlacesDiffer

LEMMA RunningStep ==
  ASSUME TypeOK, RunningIsDue, [Next]_vars
  PROVE  RunningIsDue'
<1>1. ASSUME NEW i \in Items, NEW K \in SUBSET Keys, Swap(i, K)
      PROVE  RunningIsDue'
  BY <1>1 DEF Swap, TypeOK, RunningIsDue, Completed
<1>2. ASSUME NEW i \in Items, Fiber(i)
      PROVE  RunningIsDue'
  BY <1>2 DEF Fiber, Fork, Start, Clear, Release, CountOff, TypeOK, RunningIsDue, Completed
<1>3. CASE CallDrain \/ ReturnDrain \/ UNCHANGED vars
  BY <1>3 DEF CallDrain, ReturnDrain, vars, RunningIsDue, Completed
<1> QED
  BY <1>1, <1>2, <1>3 DEF Next

\* An item that runs is the first of its keys.
LEMMA RunningIsFirst ==
  ASSUME TypeOK, LaterItemsWait, RunningIsDue,
         NEW j \in Items, \A p \in previous[j] : Completed(p), Unfinished(j),
         NEW i \in Items, Unfinished(i), place[i] < place[j]
  PROVE  keys[i] \cap keys[j] = {}
<1> SUFFICES ASSUME NEW k \in keys[i] \cap keys[j] PROVE FALSE
  OBVIOUS
<1>1. PICK m \in previous[j] : Unfinished(m)
  BY DEF LaterItemsWait
<1> QED
  BY <1>1 DEF Unfinished, Completed

LEMMA TailsStep ==
  ASSUME WorkerInv, [Next]_vars
  PROVE  TailsAreLast'
<1> USE DEF WorkerInv
<1>1. ASSUME NEW i \in Items, NEW K \in SUBSET Keys, Swap(i, K)
      PROVE  TailsAreLast'
  <2>2. \A k \in Keys : tails'[k] # NoItem => Unfinished(tails[k])' /\ k \in keys'[tails'[k]]
    BY <1>1, WorkerConstants DEF Swap, TypeOK, TailsAreLast, Unfinished
  <2>3. ASSUME NEW j \in Items, NEW k \in keys'[j], Unfinished(j)'
        PROVE  tails'[k] # NoItem /\ place'[j] <= place'[tails'[k]]
    <3>1. CASE k \in K
      <4>1. tails'[k] = i /\ place'[i] = arrivals + 1
        BY <1>1, <3>1 DEF Swap, TypeOK
      <4>2. j # i => place'[j] <= arrivals
        BY <1>1, <2>3 DEF Swap, TypeOK, PlacesDiffer, Unfinished
      <4> QED
        BY <4>1, <4>2, WorkerConstants, <1>1 DEF Swap, TypeOK
    <3>2. CASE k \notin K
      <4>1. j # i /\ k \in keys[j] /\ Unfinished(j) /\ tails'[k] = tails[k] /\ k \in Keys
        BY <1>1, <2>3, <3>2 DEF Swap, TypeOK, Unfinished
      <4>2. tails[k] # NoItem /\ place[j] <= place[tails[k]] /\ Unfinished(tails[k])
        BY <4>1 DEF TailsAreLast
      <4>3. tails[k] # i /\ tails[k] \in Items
        BY <4>2, <4>1, <1>1 DEF Swap, Unfinished, TypeOK
      <4> QED
        BY <4>1, <4>2, <4>3, <1>1 DEF Swap, TypeOK
    <3> QED
      BY <3>1, <3>2
  <2> QED
    BY <2>2, <2>3 DEF TailsAreLast
<1>2. ASSUME NEW i \in Items, Clear(i)
      PROVE  TailsAreLast'
  <2>1. /\ tails' = TailsWithout(i) /\ UNCHANGED <<keys, place>>
        /\ \A j \in Items : Unfinished(j)' <=> Unfinished(j) /\ j # i
        /\ Unfinished(i) /\ \A p \in previous[i] : Completed(p)
    BY <1>2 DEF Clear, TypeOK, Unfinished, RunningIsDue
  <2>2. \A k \in Keys : tails'[k] = IF tails[k] = i THEN NoItem ELSE tails[k]
    BY <2>1 DEF TailsWithout
  <2>3. \A k \in Keys : tails'[k] # NoItem => Unfinished(tails[k])' /\ k \in keys'[tails'[k]]
    BY <2>1, <2>2 DEF TailsAreLast, TypeOK
  <2>4. ASSUME NEW j \in Items, NEW k \in keys'[j], Unfinished(j)'
        PROVE  tails'[k] # NoItem /\ place'[j] <= place'[tails'[k]]
    <3>1. k \in keys[j] /\ Unfinished(j) /\ j # i /\ k \in Keys
      BY <2>1, <2>4 DEF TypeOK
    <3>2. tails[k] # NoItem /\ place[j] <= place[tails[k]] /\ k \in keys[tails[k]]
      BY <3>1 DEF TailsAreLast
    <3>3. tails[k] # i
      <4>1. SUFFICES ASSUME tails[k] = i PROVE FALSE
        OBVIOUS
      <4>2. place[j] < place[i]
        <5>1. place[j] # place[i]
          BY <2>1, <3>1 DEF PlacesDiffer, Unfinished
        <5> QED
          BY <5>1, <3>2, <4>1 DEF TypeOK
      <4>3. keys[j] \cap keys[i] = {}
        BY <2>1, <3>1, <4>2, RunningIsFirst
      <4> QED
        BY <3>1, <3>2, <4>1, <4>3
    <3> QED
      BY <2>1, <2>2, <3>1, <3>2, <3>3
  <2> QED
    BY <2>3, <2>4 DEF TailsAreLast
<1>3. CASE ~(\E i \in Items : Clear(i) \/ \E K \in SUBSET Keys : Swap(i, K))
  BY <1>3, QuietStep DEF TailsAreLast, TypeOK
<1> QED
  BY <1>1, <1>2, <1>3

LEMMA WaitStep ==
  ASSUME WorkerInv, [Next]_vars
  PROVE  LaterItemsWait'
<1> USE DEF WorkerInv
<1>1. ASSUME NEW x \in Items, NEW K \in SUBSET Keys, Swap(x, K)
      PROVE  LaterItemsWait'
  <2> SUFFICES ASSUME NEW i \in Items, NEW j \in Items, NEW k \in keys'[i] \cap keys'[j],
                      Unfinished(i)', Unfinished(j)', place'[i] < place'[j]
               PROVE  \E m \in previous'[j] :
                        Unfinished(m)' /\ k \in keys'[m] /\ place'[i] <= place'[m]
    BY DEF LaterItemsWait
  <2>1. /\ phase[x] = "new" /\ ~Unfinished(x) /\ Unfinished(x)'
        /\ \A y \in Items : y # x => /\ Unfinished(y)' = Unfinished(y)
                                     /\ keys'[y] = keys[y] /\ place'[y] = place[y]
                                     /\ previous'[y] = previous[y]
        /\ keys'[x] = K /\ place'[x] = arrivals + 1 /\ previous'[x] = ReplacedTails(x, K)
    BY <1>1 DEF Swap, TypeOK, Unfinished
  <2>2. i # x
    <3>1. Unfinished(j) /\ j # x => place[j] \in 1..arrivals
      BY DEF PlacesDiffer, Unfinished
    <3> QED
      BY <2>1, <3>1 DEF TypeOK
  <2>3. CASE j = x
    <3>1. k \in keys[i] /\ k \in K /\ Unfinished(i) /\ k \in Keys
      BY <2>1, <2>2, <2>3
    <3>2. tails[k] # NoItem /\ place[i] <= place[tails[k]] /\ Unfinished(tails[k]) /\ k \in keys[tails[k]]
      BY <3>1 DEF TailsAreLast
    <3>3. tails[k] \in previous'[j] /\ tails[k] \in Items /\ tails[k] # x
      BY <2>1, <2>3, <3>1, <3>2 DEF ReplacedTails, TypeOK
    <3> QED
      BY <2>1, <2>2, <3>2, <3>3
  <2>4. CASE j # x
    <3>1. Unfinished(i) /\ Unfinished(j) /\ k \in keys[i] \cap keys[j] /\ place[i] < place[j]
      BY <2>1, <2>2, <2>4
    <3>2. PICK m \in previous[j] : Unfinished(m) /\ k \in keys[m] /\ place[i] <= place[m]
      BY <3>1 DEF LaterItemsWait
    <3>3. m \in Items /\ m # x
      BY <2>1, <3>2 DEF TypeOK
    <3> QED
      BY <2>1, <2>2, <2>4, <3>2, <3>3
  <2> QED
    BY <2>3, <2>4
<1>2. ASSUME NEW x \in Items, Clear(x)
      PROVE  LaterItemsWait'
  <2> SUFFICES ASSUME NEW i \in Items, NEW j \in Items, NEW k \in keys'[i] \cap keys'[j],
                      Unfinished(i)', Unfinished(j)', place'[i] < place'[j]
               PROVE  \E m \in previous'[j] :
                        Unfinished(m)' /\ k \in keys'[m] /\ place'[i] <= place'[m]
    BY DEF LaterItemsWait
  <2>1. /\ UNCHANGED <<keys, place, previous>>
        /\ \A y \in Items : Unfinished(y)' <=> Unfinished(y) /\ y # x
        /\ Unfinished(x) /\ \A p \in previous[x] : Completed(p)
    BY <1>2 DEF Clear, TypeOK, Unfinished, RunningIsDue
  <2>2. Unfinished(i) /\ Unfinished(j) /\ k \in keys[i] \cap keys[j] /\ place[i] < place[j] /\ i # x
    BY <2>1
  <2>3. PICK m \in previous[j] : Unfinished(m) /\ k \in keys[m] /\ place[i] <= place[m]
    BY <2>2 DEF LaterItemsWait
  <2>4. m \in Items
    BY DEF TypeOK
  <2>5. m # x
    <3>1. SUFFICES ASSUME m = x PROVE FALSE
      OBVIOUS
    <3>2. place[i] # place[x]
      BY <2>1, <2>2 DEF PlacesDiffer, Unfinished
    <3>3. place[i] < place[x]
      BY <2>3, <3>1, <3>2 DEF TypeOK
    <3>4. keys[i] \cap keys[x] = {}
      BY <2>1, <2>2, <3>3, RunningIsFirst
    <3> QED
      BY <2>2, <2>3, <3>1, <3>4
  <2> QED
    BY <2>1, <2>3, <2>4, <2>5
<1>3. CASE ~(\E i \in Items : Clear(i) \/ \E K \in SUBSET Keys : Swap(i, K))
  BY <1>3, QuietStep DEF LaterItemsWait, TypeOK
<1> QED
  BY <1>1, <1>2, <1>3

-----------------------------------------------------------------------------
LEMMA InvariantStep == WorkerInv /\ [Next]_vars => WorkerInv'
<1> SUFFICES ASSUME WorkerInv, [Next]_vars PROVE WorkerInv'
  OBVIOUS
<1>1. TypeOK' /\ CountsFibers'
  BY TypeStep, CountsStep DEF WorkerInv
<1>2. PlacesDiffer' /\ RunningIsDue'
  BY PlacesStep, RunningStep DEF WorkerInv
<1>3. TailsAreLast' /\ LaterItemsWait'
  BY TailsStep, WaitStep
<1> QED
  BY <1>1, <1>2, <1>3 DEF WorkerInv

\* The invariant of the worker: types, counter, tails and order.
THEOREM WorkerInvariance == Spec => []WorkerInv
  BY InitHolds, InvariantStep, PTL DEF Spec

\* The variables are typed, and no fiber counts off what was not counted.
THEOREM TypeCorrect == Spec => []TypeOK
<1>1. WorkerInv => TypeOK
  BY DEF WorkerInv
<1> QED
  BY <1>1, WorkerInvariance, PTL

\* outstanding is the number of the items whose fiber has not ended
\* (DrainableWorker.ts, makeKeyedDrainableWorker).
THEOREM CounterIsExact == Spec => []CountsFibers
<1>1. WorkerInv => CountsFibers
  BY DEF WorkerInv
<1> QED
  BY <1>1, WorkerInvariance, PTL

\* A later item of a key waits for the earlier ones, whatever lies between.
THEOREM OrderIsKept == Spec => []LaterItemsWait
<1>1. WorkerInv => LaterItemsWait
  BY DEF WorkerInv
<1> QED
  BY <1>1, WorkerInvariance, PTL

\* drain returns to a worker that neither processes nor has anything to process.
THEOREM DrainIsHonest == Spec => DrainedIsIdle
<1> DEFINE returns == drain = "waiting" /\ drain' = "idle"
           idle == \A i \in Items : phase[i] \in {"new", "swapped", "done"}
<1>1. WorkerInv /\ [Next]_vars => (returns => idle)
  <2> SUFFICES ASSUME WorkerInv, [Next]_vars, returns PROVE idle
    OBVIOUS
  <2>1. outstanding = 0
    <3>1. ReturnDrain
      BY DEF Next, Fiber, Swap, Fork, Start, Clear, Release, CountOff, CallDrain, vars
    <3> QED
      BY <3>1 DEF ReturnDrain, Idle
  <2>2. {i \in Items : Counted(i)} = {}
    <3>1. IsFiniteSet({i \in Items : Counted(i)})
      BY WorkerConstants, FS_Subset
    <3> QED
      BY <2>1, <3>1, FS_EmptySet DEF WorkerInv, CountsFibers
  <2> QED
    BY <2>2 DEF WorkerInv, TypeOK, Counted
<1>2. WorkerInv /\ [Next]_vars => [returns => idle]_vars
  BY <1>1
<1> QED
  BY <1>2, WorkerInvariance, PTL DEF Spec, DrainedIsIdle

-----------------------------------------------------------------------------
(* The worker implements KeyedFIFO.                                         *)

LEMMA FifoStep == WorkerInv /\ [Next]_vars => [Fifo!FifoNext]_(Fifo!fifoVars)
<1> SUFFICES ASSUME WorkerInv, [Next]_vars PROVE [Fifo!FifoNext]_(Fifo!fifoVars)
  OBVIOUS
<1> USE DEF Fifo!fifoVars
<1>1. ASSUME NEW i \in Items, NEW K \in SUBSET Keys, Swap(i, K)
      PROVE  Fifo!Arrive(i, K)
  <2>1. FifoPhase[i] = "new"
    BY <1>1 DEF Swap, FifoPhase
  <2>2. FifoPhase' = [FifoPhase EXCEPT ![i] = "pending"]
    BY <1>1 DEF Swap, FifoPhase, WorkerInv, TypeOK
  <2> QED
    BY <1>1, <2>1, <2>2 DEF Swap, Fifo!Arrive
<1>2. ASSUME NEW i \in Items, Start(i)
      PROVE  Fifo!Begin(i)
  <2>1. FifoPhase[i] = "pending" /\ FifoPhase' = [FifoPhase EXCEPT ![i] = "busy"]
    BY <1>2 DEF Start, FifoPhase, WorkerInv, TypeOK
  <2>2. \A j \in Items : Fifo!Unfinished(j) => Unfinished(j)
    BY DEF Fifo!Unfinished, FifoPhase, Unfinished, WorkerInv, TypeOK
  <2>3. Unfinished(i) /\ \A p \in previous[i] : Completed(p)
    BY <1>2 DEF Start, Unfinished
  <2>4. \A j \in Items : Fifo!Unfinished(j) /\ place[j] < place[i] => ~Fifo!Conflict(i, j)
    BY <2>2, <2>3, RunningIsFirst DEF Fifo!Conflict, WorkerInv
  <2> QED
    BY <1>2, <2>1, <2>4 DEF Start, Fifo!Begin
<1>3. ASSUME NEW i \in Items, Clear(i)
      PROVE  Fifo!End(i)
  <2>1. FifoPhase[i] = "busy" /\ FifoPhase' = [FifoPhase EXCEPT ![i] = "over"]
    BY <1>3 DEF Clear, FifoPhase, WorkerInv, TypeOK
  <2> QED
    BY <1>3, <2>1 DEF Clear, Fifo!End
<1>4. ASSUME NEW i \in Items, Fork(i) \/ Release(i) \/ CountOff(i)
      PROVE  UNCHANGED Fifo!fifoVars
  <2>1. FifoPhase' = FifoPhase
    BY <1>4 DEF Fork, Release, CountOff, FifoPhase, WorkerInv, TypeOK
  <2> QED
    BY <1>4, <2>1 DEF Fork, Release, CountOff
<1>5. ASSUME CallDrain \/ ReturnDrain \/ UNCHANGED vars
      PROVE  UNCHANGED Fifo!fifoVars
  <2>1. UNCHANGED <<phase, keys, place, arrivals>>
    BY <1>5 DEF CallDrain, ReturnDrain, vars
  <2>2. FifoPhase' = FifoPhase
    BY <2>1 DEF FifoPhase
  <2> QED
    BY <2>1, <2>2
<1> QED
  BY <1>1, <1>2, <1>3, <1>4, <1>5 DEF Next, Fiber, Fifo!FifoNext

\* What makeKeyedDrainableWorker says of itself: per key, items run one at a
\* time and in the order they were enqueued.
THEOREM WorkerImplementsFIFO == Spec => Fifo!FifoSpec
<1>1. Init => Fifo!FifoInit
  BY DEF Init, Fifo!FifoInit, FifoPhase
<1> QED
  BY <1>1, FifoStep, WorkerInvariance, PTL DEF Spec, Fifo!FifoSpec
===============================================================================
